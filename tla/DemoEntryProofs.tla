-------------------------- MODULE DemoEntryProofs ---------------------------
(***************************************************************************)
(* What the Demo entry promises for every number of starts.                *)
(*                                                                         *)
(* The argument: only the start that took the lease last can write to the  *)
(* journal, so what it found when it was admitted stays as it was until    *)
(* somebody else takes the lease.  An intent that is not settled keeps     *)
(* HALT up from the next lease on, or keeps the lease from being free; so  *)
(* nobody is admitted beside it.  And a final result is the truth about    *)
(* the order, so a settled intent cannot come back to life.                *)
(*                                                                         *)
(* Every start has an input, and so a run id, of its own, and there is one *)
(* scope: starts that repeat one input are the run demo_entry_rerun.       *)
(***************************************************************************)
EXTENDS DemoEntry, ExecutionJournalProofs

\* Every start has a run id of its own.
OwnRuns == \A p, r \in Intents : RunOf[p] = RunOf[r] => p = r

-----------------------------------------------------------------------------
\* Where a start is

Recovering == {"list", "next", "bind", "prove", "record", "halted", "judge",
               "verdict"}

\* Before its intent.
Early(p) ==
    \/ start[p].pc \in {"idle", "plan", "yield", "reviewed", "check", "refuse",
                        "lineage", "leverage", "intend"}
    \/ start[p].pc \in Recovering /\ start[p].phase # "after"
    \/ start[p].pc \in {"fence", "renew"} /\ start[p].write = "leverage"

\* Between its intent and its order.
Ready(p) ==
    \/ start[p].pc = "order"
    \/ start[p].pc \in {"fence", "renew"} /\ start[p].write = "order"

\* Its order may add exposure now or later, and was not declared failed.
Open(p) == Ready(p) \/ (venue[p] \in Live /\ p \in Understood)

\* Nobody took the lease after it did.
Holds(p) == start[p].grant = Len(grants) /\ start[p].grant # 0

Settled(i) == owned[i] # None => latest[i].status \in Final

-----------------------------------------------------------------------------
\* The invariant

\* What a start has and has not done.
Progress(p) ==
    /\ Early(p) => owned[p] = None
    /\ Early(p) \/ Ready(p) => venue[p] = "absent"
    /\ Ready(p) \/ start[p].pc \in {"answer", "append", "rejected"}
          => owned[p] # None
    /\ start[p].pc \in {"answer", "append", "rejected"} => venue[p] # "absent"
    /\ At(p, "append") /\ start[p].seen = "rejected" => venue[p] = "refused"
    /\ At(p, "rejected") => /\ start[p].seen \in KnownRejected
                            /\ start[p].seen = "rejected" => venue[p] = "refused"

\* What a recovery saw of the order at hand is still true when it says so.
Observed(p) ==
    start[p].pc \in {"bind", "prove", "record"} =>
        /\ start[p].at \in Intents
        /\ Attempts(start[p].at) # {}
        /\ start[p].seen = "dead" => venue[start[p].at] = "dead"
        /\ start[p].seen = "proven" => venue[start[p].at] \in {"filled", "closed"}

\* Its grant is its own, and its last.
Granted(p) ==
    start[p].grant # 0 =>
        /\ start[p].grant \in 1 .. Len(grants)
        /\ grants[start[p].grant].owner = RunOf[p]
        /\ \A k \in 1 .. Len(grants) :
              k > start[p].grant => grants[k].owner # RunOf[p]

\* The recovery at hand has one attempt to go by, whose order is known before
\* anything is concluded from it.
OrderKnown(p) ==
    start[p].pc \in {"bind", "prove", "record"} =>
        \A a, b \in Attempts(start[p].at) :
            /\ a = b
            /\ start[p].pc = "prove" => EffectiveOrder(a) # None
            /\ start[p].pc = "record" /\ start[p].seen # "none"
                  => EffectiveOrder(a) # None

AllSettled(p) ==
    start[p].pc \in {"plan", "yield", "release"} => \A i \in Intents : Settled(i)

OthersSettled(p) ==
    Ready(p) \/ start[p].pc \in {"answer", "append", "rejected"}
        => \A i \in Intents \ {p} : Settled(i)

\* What the holder found stays so while it holds the lease.
Found(p) == Holds(p) => OrderKnown(p) /\ AllSettled(p) /\ OthersSettled(p)

StartInv == \A p \in Intents : Progress(p) /\ Observed(p) /\ Granted(p) /\ Found(p)

\* The lease is the last grant's.
LeaseIsLast ==
    lease # None => /\ Len(grants) # 0
                    /\ lease.owner = grants[Len(grants)].owner
                    /\ lease.epoch = grants[Len(grants)].epoch

\* Rows are kept under their own intent and grant.
RowsNamed ==
    /\ \A a \in AttemptIds : attempt[a] # None => attempt[a].intent = a[1]
    /\ \A i \in Intents : owned[i] # None =>
          /\ admitted[i] \in 1 .. Len(grants)
          /\ grants[admitted[i]].owner = RunOf[i]
    /\ \A i \in Intents : venue[i] # "absent" => owned[i] # None
    /\ \A i \in mistaken : venue[i] # "absent"

\* A final result is the truth about the order, or a mistake about it.
ResultsTrue ==
    \A i \in Intents :
        /\ latest[i].status = "FAILED" /\ i \in Understood
              => venue[i] \in {"refused", "dead"}
        /\ latest[i].status = "RECONCILED" => venue[i] \in {"filled", "closed"}

\* An intent that is not settled keeps the lease from being free, and HALT up
\* from the next lease on.
DoubtBlocks ==
    \A i \in Intents : ~Settled(i) =>
        /\ lease # None
        /\ admitted[i] # Len(grants) => halt.active

OneOpen == \A i, j \in Intents : Open(i) /\ Open(j) => i = j

EntryInv ==
    /\ EntryTypeOK
    /\ StartInv
    /\ LeaseIsLast
    /\ RowsNamed
    /\ ResultsTrue
    /\ DoubtBlocks
    /\ OneOpen

-----------------------------------------------------------------------------
\* Types

Steps == {"idle", "list", "next", "bind", "prove", "record", "halted",
          "judge", "verdict", "plan", "yield", "reviewed", "check",
          "refuse", "lineage", "fence", "renew", "leverage", "intend", "order",
          "answer", "append", "rejected", "release", "done"}

\* What a start remembers when it moves on.
LEMMA GoEffect ==
    ASSUME start \in [Intents -> Start], NEW p \in Intents, NEW memory \in Start,
           NEW step \in Steps, Go(p, memory, step)
    PROVE  /\ start' \in [Intents -> Start]
           /\ \A r \in Intents \ {p} : start'[r] = start[r]
           /\ start'[p].pc = step
           /\ step # "done" => /\ start'[p].phase = memory.phase
                               /\ start'[p].grant = memory.grant
                               /\ start'[p].at = memory.at
                               /\ start'[p].seen = memory.seen
                               /\ start'[p].write = memory.write
           /\ step = "done" => start'[p].grant = 0
<1>1. Fresh("done") \in Start /\ Fresh("done").grant = 0 /\ Fresh("done").pc = "done"
    BY DEF Fresh, Start, NothingNoted
<1>2. [memory EXCEPT !.pc = step] \in Start
    BY DEF Start, Steps
<1>3. /\ [memory EXCEPT !.pc = step].pc = step
      /\ [memory EXCEPT !.pc = step].phase = memory.phase
      /\ [memory EXCEPT !.pc = step].grant = memory.grant
      /\ [memory EXCEPT !.pc = step].at = memory.at
      /\ [memory EXCEPT !.pc = step].seen = memory.seen
      /\ [memory EXCEPT !.pc = step].write = memory.write
    BY DEF Start
<1>4. start' = [start EXCEPT ![p] = IF step = "done" THEN Fresh("done")
                                    ELSE [memory EXCEPT !.pc = step]]
    BY DEF Go
<1>5. CASE step = "done"
    BY <1>1, <1>4, <1>5
<1>6. CASE step # "done"
    BY <1>2, <1>3, <1>4, <1>6
<1> QED
    BY <1>5, <1>6

\* The same for a start whose memory stays as it is.
LEMMA GotoEffect ==
    ASSUME start \in [Intents -> Start], NEW p \in Intents, NEW step \in Steps,
           Goto(p, step)
    PROVE  /\ start' \in [Intents -> Start]
           /\ \A r \in Intents \ {p} : start'[r] = start[r]
           /\ start'[p].pc = step
           /\ step # "done" => /\ start'[p].phase = start[p].phase
                               /\ start'[p].grant = start[p].grant
                               /\ start'[p].at = start[p].at
                               /\ start'[p].seen = start[p].seen
                               /\ start'[p].write = start[p].write
           /\ step = "done" => start'[p].grant = 0
<1>1. start[p] \in Start
    OBVIOUS
<1> QED
    BY <1>1, GoEffect DEF Goto

\* Memories that the steps make of a start.
LEMMA MemoryTypes ==
    ASSUME NEW m \in Start
    PROVE  /\ \A g \in Nat, phase \in {"prepare", "before"} :
                 [m EXCEPT !.grant = g, !.phase = phase] \in Start
           /\ \A todo \in SUBSET Intents, b \in BOOLEAN :
                 [m EXCEPT !.todo = todo, !.blocked = b] \in Start
           /\ \A i \in Intents, seen \in {"none"} \cup Visible :
                 [m EXCEPT !.at = i, !.seen = seen] \in Start
           /\ \A seen \in {"proven", "unproven", "none", "accepted", "rejected", "misnamed"} :
                 [m EXCEPT !.seen = seen] \in Start
           /\ \A todo \in SUBSET Intents, b \in BOOLEAN :
                 [m EXCEPT !.todo = todo, !.at = None, !.seen = "none",
                           !.blocked = b] \in Start
           /\ \A write \in {"leverage", "order"} : [m EXCEPT !.write = write] \in Start
           /\ [m EXCEPT !.seen = "none", !.phase = "after"] \in Start
           /\ \A n \in [halt : Nat, lineages : SUBSET Plans, results : [Intents -> Nat]] :
                 [m EXCEPT !.noted = n] \in Start
<1>1. \A g \in Nat, phase \in {"prepare", "before"} :
         [m EXCEPT !.grant = g, !.phase = phase] \in Start
    BY DEF Start
<1>2. \A todo \in SUBSET Intents, b \in BOOLEAN :
         [m EXCEPT !.todo = todo, !.blocked = b] \in Start
    BY DEF Start
<1>3. \A i \in Intents, seen \in {"none"} \cup Visible :
         [m EXCEPT !.at = i, !.seen = seen] \in Start
    BY DEF Start, Visible
<1>4. \A seen \in {"proven", "unproven", "none", "accepted", "rejected", "misnamed"} :
         [m EXCEPT !.seen = seen] \in Start
    BY DEF Start
<1>5. \A todo \in SUBSET Intents, b \in BOOLEAN :
         [m EXCEPT !.todo = todo, !.at = None, !.seen = "none",
                   !.blocked = b] \in Start
    BY DEF Start
<1>6. \A write \in {"leverage", "order"} : [m EXCEPT !.write = write] \in Start
    BY DEF Start
<1>7. [m EXCEPT !.seen = "none", !.phase = "after"] \in Start
    BY DEF Start
<1>8. \A n \in [halt : Nat, lineages : SUBSET Plans, results : [Intents -> Nat]] :
         [m EXCEPT !.noted = n] \in Start
    BY DEF Start
<1> QED
    BY <1>1, <1>2, <1>3, <1>4, <1>5, <1>6, <1>7, <1>8

-----------------------------------------------------------------------------
\* The journal beneath the starts

\* An intent with attempts has the one that recovery goes by.
LEMMA TheAttemptIn ==
    ASSUME NEW i, Attempts(i) # {}
    PROVE  TheAttempt(i) \in Attempts(i)
BY DEF TheAttempt

\* A start that may write is the last one that took the lease.
LEMMA HolderIsLast ==
    ASSUME EntryTypeOK, LeaseIsLast, NEW p \in Intents, Granted(p),
           Authoritative(start[p].grant)
    PROVE  Holds(p) /\ lease # None /\ Len(grants) # 0
<1> DEFINE g == start[p].grant
<1>1. /\ g \in 1 .. Len(grants)
      /\ lease # None
      /\ lease.owner = grants[g].owner
    BY DEF Authoritative
<1>2. Len(grants) \in Nat /\ g # 0
    BY <1>1 DEF EntryTypeOK, TypeOK
<1>3. lease.owner = grants[Len(grants)].owner
    BY <1>1 DEF LeaseIsLast
<1>4. /\ grants[g].owner = RunOf[p]
      /\ \A k \in 1 .. Len(grants) : k > g => grants[k].owner # RunOf[p]
    BY <1>2 DEF Granted
<1>5. Len(grants) \in 1 .. Len(grants)
    BY <1>1, <1>2
<1>6. ~(Len(grants) > g)
    BY <1>1, <1>3, <1>4, <1>5
<1>7. g = Len(grants)
    BY <1>1, <1>2, <1>6
<1> QED
    BY <1>1, <1>2, <1>7 DEF Holds

\* There is one of them at most.
LEMMA OneHolder ==
    ASSUME OwnRuns, NEW p \in Intents, NEW r \in Intents, Granted(p), Granted(r),
           Holds(p), Holds(r)
    PROVE  p = r
BY DEF OwnRuns, Holds, Granted

\* What one start's step, or the exchange's, leaves of another start.
LEMMA OtherKeeps ==
    ASSUME EntryTypeOK, NEW r \in Intents, Progress(r), Observed(r),
           start'[r] = start[r], owned'[r] = owned[r],
           \/ venue'[r] = venue[r]
           \/ /\ venue[r] # "absent"
              /\ venue'[r] # "absent"
              /\ venue[r] # "refused",
           \A i \in Intents :
              /\ venue[i] = "dead" => venue'[i] = "dead"
              /\ venue[i] \in {"filled", "closed"}
                    => venue'[i] \in {"filled", "closed"},
           \A a \in AttemptIds : attempt[a] # None => attempt'[a] = attempt[a]
    PROVE  Progress(r)' /\ Observed(r)'
<1>1. Early(r)' = Early(r) /\ Ready(r)' = Ready(r)
    BY DEF Early, Ready
<1>2. Progress(r)'
    BY <1>1 DEF Progress, At
<1>3. \A i \in Intents : Attempts(i) # {} => Attempts(i)' # {}
    BY DEF Attempts
<1>4. Observed(r)'
    BY <1>3 DEF Observed
<1> QED
    BY <1>2, <1>4

\* Its grant is as it was unless it takes the lease again.
LEMMA GrantKeeps ==
    ASSUME EntryTypeOK, NEW r \in Intents, Granted(r), start'[r] = start[r],
           \/ grants' = grants
           \/ \E x \in Grant : x.owner # RunOf[r] /\ grants' = Append(grants, x)
    PROVE  Granted(r)' /\ (Holds(r)' => Holds(r) /\ grants' = grants)
<1>1. grants \in Seq(Grant) /\ Len(grants) \in Nat /\ start[r].grant \in Nat
    BY DEF EntryTypeOK, TypeOK, Start
<1>2. CASE grants' = grants
    BY <1>2 DEF Granted, Holds
<1>3. ASSUME NEW x \in Grant, x.owner # RunOf[r], grants' = Append(grants, x)
      PROVE  Granted(r)' /\ ~Holds(r)'
  <2>1. Len(grants') = Len(grants) + 1 /\ grants'[Len(grants) + 1] = x
    BY <1>1, <1>3
  <2>2. \A k \in 1 .. Len(grants) : grants'[k] = grants[k]
    BY <1>1, <1>3
  <2>3. \A k \in 1 .. Len(grants') : k \in 1 .. Len(grants) \/ k = Len(grants) + 1
    BY <1>1, <2>1
  <2>4. Granted(r)'
    BY <1>1, <1>3, <2>1, <2>2, <2>3 DEF Granted
  <2>5. ~Holds(r)'
    BY <1>1, <2>1 DEF Granted, Holds
  <2> QED
    BY <2>4, <2>5
<1> QED
    BY <1>2, <1>3

\* What it found is as it was when nobody wrote.
LEMMA FoundKeeps ==
    ASSUME NEW r \in Intents, Found(r), start'[r] = start[r],
           UNCHANGED <<attempt, binding, latest, owned, grants>>
    PROVE  Found(r)'
<1>1. Holds(r)' = Holds(r) /\ Ready(r)' = Ready(r)
    BY DEF Holds, Ready
<1>2. \A i \in Intents : Settled(i)' = Settled(i)
    BY DEF Settled
<1>3. \A i : Attempts(i)' = Attempts(i)
    BY DEF Attempts
<1>4. \A a : EffectiveOrder(a)' = EffectiveOrder(a)
    BY DEF EffectiveOrder
<1>5. OrderKnown(r) => OrderKnown(r)'
    BY <1>3, <1>4 DEF OrderKnown
<1>6. AllSettled(r) => AllSettled(r)'
    BY <1>2 DEF AllSettled
<1>7. OthersSettled(r) => OthersSettled(r)'
    BY <1>1, <1>2 DEF OthersSettled
<1> QED
    BY <1>1, <1>5, <1>6, <1>7 DEF Found

\* What is settled is over at the exchange.
LEMMA SettledIsShut ==
    ASSUME RowsNamed, ResultsTrue, NEW i \in Intents, Progress(i), Settled(i)
    PROVE  ~Open(i)
<1>1. ASSUME owned[i] # None, i \in Understood
      PROVE  venue[i] \in {"refused", "dead", "filled", "closed"}
    BY <1>1 DEF Settled, ResultsTrue, Understood, Final
<1>2. CASE owned[i] = None
    BY <1>2 DEF RowsNamed, Progress, Open, Understood, Live
<1>3. CASE owned[i] # None
  <2>1. CASE i \in Understood
    BY <1>1, <1>3, <2>1 DEF Progress, Open, Live
  <2>2. CASE i \notin Understood
    BY <2>2 DEF RowsNamed, Progress, Open, Understood
  <2> QED
    BY <2>1, <2>2
<1> QED
    BY <1>2, <1>3

\* While the holder sees HALT down, every intent but its own is settled.
LEMMA OpenGateLeavesOwn ==
    ASSUME OwnRuns, RowsNamed, DoubtBlocks, NEW p \in Intents, Granted(p), Holds(p),
           ~halt.active, NEW i \in Intents \ {p}
    PROVE  Settled(i)
<1> SUFFICES ASSUME ~Settled(i) PROVE FALSE
    OBVIOUS
<1>1. owned[i] # None /\ admitted[i] = Len(grants)
    BY DEF DoubtBlocks, Settled
<1>2. grants[Len(grants)].owner = RunOf[i]
    BY <1>1 DEF RowsNamed
<1>3. grants[Len(grants)].owner = RunOf[p]
    BY DEF Holds, Granted
<1> QED
    BY <1>2, <1>3 DEF OwnRuns

-----------------------------------------------------------------------------
\* Steps that write nothing another start has to know

\* What a step has to keep.
Kept ==
    /\ start' \in [Intents -> Start]
    /\ StartInv'
    /\ LeaseIsLast'
    /\ RowsNamed'
    /\ ResultsTrue'
    /\ DoubtBlocks'
    /\ OneOpen'

\* No intent, attempt, binding, result, grant or order changes; HALT may go up
\* and the lease may expire.
Calm ==
    /\ UNCHANGED <<owned, attempt, binding, latest, grants, admitted, venue, mistaken>>
    /\ halt.active => halt'.active
    /\ lease = None => lease' = None
    /\ lease # None => /\ lease' # None
                       /\ lease'.owner = lease.owner
                       /\ lease'.epoch = lease.epoch

\* A start moves on in such a step, and what its new place demands is true.
Silent(p) ==
    /\ Calm
    /\ start' \in [Intents -> Start]
    /\ \A r \in Intents \ {p} : start'[r] = start[r]
    /\ start'[p].grant \in {0, start[p].grant}
    /\ Early(p)' => Early(p)
    /\ Ready(p)' => Ready(p)
    /\ start'[p].pc \in {"answer", "append"} => start[p].pc = "answer"
    /\ start'[p].pc # "rejected"
    /\ start'[p].pc = "append" /\ start'[p].seen = "rejected"
          => venue[p] = "refused"
    /\ Observed(p)'
    /\ Holds(p)' => OrderKnown(p)' /\ AllSettled(p)'

\* The rows of the journal agree after a calm step.
LEMMA CalmKeeps ==
    ASSUME EntryInv, Calm
    PROVE  LeaseIsLast' /\ RowsNamed' /\ ResultsTrue' /\ DoubtBlocks'
<1>1. LeaseIsLast'
    BY DEF Calm, EntryInv, LeaseIsLast
<1>2. RowsNamed'
    BY DEF Calm, EntryInv, RowsNamed
<1>3. ResultsTrue'
    BY DEF Calm, EntryInv, ResultsTrue, Understood
<1>4. \A i \in Intents : Settled(i)' = Settled(i)
    BY DEF Calm, Settled
<1>5. DoubtBlocks'
    BY <1>4 DEF Calm, EntryInv, DoubtBlocks
<1> QED
    BY <1>1, <1>2, <1>3, <1>5

\* A start stays what it is when a calm step is not its own.
LEMMA CalmOther ==
    ASSUME EntryInv, Calm, NEW r \in Intents, start'[r] = start[r]
    PROVE  /\ Progress(r)' /\ Observed(r)' /\ Granted(r)' /\ Found(r)'
           /\ Open(r)' = Open(r)
<1>1. Progress(r) /\ Observed(r) /\ Granted(r) /\ Found(r) /\ EntryTypeOK
    BY DEF EntryInv, StartInv
<1>2. UNCHANGED <<owned, attempt, binding, latest, grants, venue, mistaken>>
    BY DEF Calm
<1>3. Progress(r)' /\ Observed(r)'
    BY <1>1, <1>2, OtherKeeps
<1>4. Granted(r)'
    BY <1>1, <1>2, GrantKeeps
<1>5. Found(r)'
    BY <1>1, <1>2, FoundKeeps
<1>6. Open(r)' = Open(r)
    BY <1>2 DEF Open, Understood, Ready
<1> QED
    BY <1>3, <1>4, <1>5, <1>6

\* A silent step keeps the invariant.
LEMMA SilentKeeps ==
    ASSUME EntryInv, NEW p \in Intents, Silent(p)
    PROVE  Kept
<1>1. Calm /\ start' \in [Intents -> Start]
    BY DEF Silent
<1>2. ASSUME NEW r \in Intents, r # p
      PROVE  /\ Progress(r)' /\ Observed(r)' /\ Granted(r)' /\ Found(r)'
             /\ Open(r)' = Open(r)
  <2>1. start'[r] = start[r]
    BY <1>2 DEF Silent
  <2> QED
    BY <1>1, <2>1, CalmOther
<1>3. Progress(p) /\ Granted(p) /\ Found(p)
    BY DEF EntryInv, StartInv
<1>4. Progress(p)'
    BY <1>1, <1>3 DEF Silent, Calm, Progress, At
<1>5. Granted(p)'
    BY <1>1, <1>3 DEF Silent, Calm, Granted
<1>6. ASSUME Holds(p)' PROVE Holds(p) /\ OthersSettled(p)'
  <2>1. Holds(p)
    BY <1>1, <1>6 DEF Silent, Calm, Holds
  <2>2. OthersSettled(p)
    BY <1>3, <2>1 DEF Found
  <2>3. \A i \in Intents : Settled(i)' = Settled(i)
    BY <1>1 DEF Calm, Settled
  <2>4. OthersSettled(p)'
    BY <2>2, <2>3 DEF Silent, OthersSettled
  <2> QED
    BY <2>1, <2>4
<1>7. Found(p)'
    BY <1>6 DEF Silent, Found
<1>8. StartInv'
    BY <1>2, <1>4, <1>5, <1>7 DEF Silent, StartInv
<1>9. Open(p)' => Open(p)
    BY <1>1 DEF Silent, Calm, Open, Understood
<1>10. OneOpen'
    BY <1>2, <1>9 DEF OneOpen, EntryInv
<1> QED
    BY <1>1, <1>8, <1>10, CalmKeeps DEF Kept

\* So does a calm step of nobody's.
LEMMA StillKeeps ==
    ASSUME EntryInv, Calm, UNCHANGED start
    PROVE  Kept
<1>1. \A r \in Intents :
         /\ Progress(r)' /\ Observed(r)' /\ Granted(r)' /\ Found(r)'
         /\ Open(r)' = Open(r)
    BY CalmOther
<1>2. start' \in [Intents -> Start]
    BY DEF EntryInv, EntryTypeOK
<1>3. StartInv' /\ OneOpen'
    BY <1>1 DEF StartInv, OneOpen, EntryInv
<1> QED
    BY <1>2, <1>3, CalmKeeps DEF Kept

\* A step that does not touch the journal or an order is calm.
LEMMA UnwrittenIsCalm ==
    ASSUME UNCHANGED journalVars, UNCHANGED <<venue, mistaken>>
    PROVE  Calm
BY DEF Calm, journalVars

\* A start may end at any time.
LEMMA StopIsSilent ==
    ASSUME EntryInv, NEW p \in Intents, Stop(p), UNCHANGED Exchange
    PROVE  Silent(p)
<1>1. Calm
    BY UnwrittenIsCalm DEF Stop, Exchange
<1>2. start \in [Intents -> Start] /\ "done" \in Steps
    BY DEF EntryInv, EntryTypeOK, Steps
<1>3. Goto(p, "done")
    BY DEF Stop
<1>4. /\ start' \in [Intents -> Start]
      /\ \A r \in Intents \ {p} : start'[r] = start[r]
      /\ start'[p].pc = "done" /\ start'[p].grant = 0
    BY <1>2, <1>3, GotoEffect
<1>5. ~Early(p)' /\ ~Ready(p)' /\ Observed(p)' /\ OrderKnown(p)' /\ AllSettled(p)'
    BY <1>4 DEF Early, Ready, Recovering, Observed, OrderKnown, AllSettled
<1> QED
    BY <1>1, <1>4, <1>5 DEF Silent

\* A start that moves between two steps that demand nothing of the journal.
LEMMA WalkIsSilent ==
    ASSUME EntryInv, NEW p \in Intents, Calm, NEW step \in Steps, Goto(p, step),
           step \notin {"bind", "prove", "record", "answer", "append", "rejected"},
           step \in {"plan", "yield", "release"} /\ Holds(p)
              => \A i \in Intents : Settled(i),
           step \in Recovering /\ start[p].phase # "after" => Early(p),
           step \in {"fence", "renew"} /\ start[p].write = "leverage" => Early(p),
           step \in {"fence", "renew"} /\ start[p].write = "order" => Ready(p),
           step = "order" => Ready(p),
           step \in {"idle", "plan", "yield", "reviewed", "check", "refuse",
                     "lineage", "leverage", "intend"} => Early(p)
    PROVE  Silent(p)
<1>1. start \in [Intents -> Start]
    BY DEF EntryInv, EntryTypeOK
<1>2. /\ start' \in [Intents -> Start]
      /\ \A r \in Intents \ {p} : start'[r] = start[r]
      /\ start'[p].pc = step
      /\ step # "done" => /\ start'[p].phase = start[p].phase
                          /\ start'[p].grant = start[p].grant
                          /\ start'[p].write = start[p].write
      /\ step = "done" => start'[p].grant = 0
    BY <1>1, GotoEffect
<1>3. (Early(p)' => Early(p)) /\ (Ready(p)' => Ready(p))
    BY <1>2 DEF Early, Ready, Recovering
<1>4. Observed(p)' /\ OrderKnown(p)'
    BY <1>2 DEF Observed, OrderKnown
<1>5. ASSUME Holds(p)' PROVE AllSettled(p)'
  <2>1. Holds(p) \/ step = "done"
    BY <1>2, <1>5 DEF Holds, Calm
  <2>2. \A i \in Intents : Settled(i)' = Settled(i)
    BY DEF Calm, Settled
  <2> QED
    BY <1>2, <2>1, <2>2 DEF AllSettled
<1> QED
    BY <1>2, <1>3, <1>4, <1>5 DEF Silent

\* A start that moves to such a step with a changed memory.
LEMMA ShiftIsSilent ==
    ASSUME EntryInv, NEW p \in Intents, Calm, NEW step \in Steps,
           NEW memory \in Start, Go(p, memory, step),
           memory.grant \in {0, start[p].grant},
           memory.phase = start[p].phase,
           start[p].phase # "after" => Early(p),
           step \in {"list", "next", "halted", "judge", "verdict", "done"}
    PROVE  Silent(p)
<1>1. start \in [Intents -> Start]
    BY DEF EntryInv, EntryTypeOK
<1>2. /\ start' \in [Intents -> Start]
      /\ \A r \in Intents \ {p} : start'[r] = start[r]
      /\ start'[p].pc = step
      /\ step # "done" => /\ start'[p].phase = memory.phase
                          /\ start'[p].grant = memory.grant
      /\ step = "done" => start'[p].grant = 0
    BY <1>1, GoEffect
<1>3. (Early(p)' => Early(p)) /\ ~Ready(p)'
    BY <1>2 DEF Early, Ready, Recovering
<1>4. Observed(p)' /\ OrderKnown(p)' /\ AllSettled(p)'
    BY <1>2 DEF Observed, OrderKnown, AllSettled
<1> QED
    BY <1>2, <1>3, <1>4 DEF Silent

-----------------------------------------------------------------------------
\* The silent actions

\* Recovery reads the lineages, and settles the ones without an intent by itself.
LEMMA ReadingIsSilent ==
    ASSUME EntryInv, NEW p \in Intents,
           \/ ListRuns(p)
           \/ \E i \in Intents : RecoverUnintended(p, i)
    PROVE  Silent(p)
<1>1. start[p] \in Start
    BY DEF EntryInv, EntryTypeOK
<1>2. ASSUME NEW m \in Start, m.grant = start[p].grant, m.phase = start[p].phase,
             start[p].pc \in {"list", "next"}, Go(p, m, "next"),
             UNCHANGED <<journalVars, Exchange>>
      PROVE  Silent(p)
  <2>1. Calm
    BY <1>2, UnwrittenIsCalm DEF Exchange
  <2>2. start[p].phase # "after" => Early(p)
    BY <1>2 DEF Early, Recovering
  <2> QED
    BY <1>2, <2>1, <2>2, ShiftIsSilent DEF Steps
<1>3. \A todo \in SUBSET Intents, b \in BOOLEAN :
         LET m == [start[p] EXCEPT !.todo = todo, !.blocked = b]
         IN  m \in Start /\ m.grant = start[p].grant /\ m.phase = start[p].phase
    BY <1>1 DEF Start
<1>4. CASE ListRuns(p)
  <2> DEFINE todo == {i \in Intents :
                        /\ lineage[PlanOf[i]] # None
                        /\ ~(owned[i] # None /\ latest[i].status = "FAILED")}
             m == [start[p] EXCEPT !.todo = todo, !.blocked = FALSE]
  <2>1. Go(p, m, "next") /\ start[p].pc = "list"
    BY <1>4 DEF ListRuns, At
  <2>2. m \in Start /\ m.grant = start[p].grant /\ m.phase = start[p].phase
    BY <1>3
  <2>3. UNCHANGED <<journalVars, Exchange>>
    BY <1>4 DEF ListRuns
  <2> HIDE DEF m
  <2> QED
    BY <1>2, <2>1, <2>2, <2>3
<1>5. ASSUME NEW i \in Intents, RecoverUnintended(p, i) PROVE Silent(p)
  <2>1. PICK readable \in BOOLEAN :
           Go(p, [start[p] EXCEPT !.todo = @ \ {i},
                                  !.blocked = @ \/ ~(readable /\ levered)], "next")
    BY <1>5 DEF RecoverUnintended
  <2> DEFINE todo == start[p].todo \ {i}
             b == start[p].blocked \/ ~(readable /\ levered)
             m == [start[p] EXCEPT !.todo = todo, !.blocked = b]
  <2>2. todo \in SUBSET Intents /\ b \in BOOLEAN
    BY <1>1 DEF Start
  <2>3. m \in Start /\ m.grant = start[p].grant /\ m.phase = start[p].phase
    BY <1>3, <2>2
  <2>4. Go(p, m, "next") /\ start[p].pc = "next"
    BY <1>5, <2>1 DEF RecoverUnintended, At
  <2>5. UNCHANGED <<journalVars, Exchange>>
    BY <1>5 DEF RecoverUnintended
  <2> HIDE DEF m
  <2> QED
    BY <1>2, <2>3, <2>4, <2>5
<1> QED
    BY <1>4, <1>5

\* What it saw of the order at hand was so.
LEMMA ObservingIsSilent ==
    ASSUME EntryInv, NEW p \in Intents, NEW i \in Intents, ObserveOrder(p, i)
    PROVE  Silent(p)
<1>1. start \in [Intents -> Start] /\ start[p] \in Start
    BY DEF EntryInv, EntryTypeOK
<1>2. Calm
    BY UnwrittenIsCalm DEF ObserveOrder, Exchange
<1>3. Attempts(i) # {} /\ start[p].pc = "next"
    BY DEF ObserveOrder, At
<1>4. ASSUME \E a, b \in Attempts(i) : a # b PROVE Silent(p)
  <2>1. Goto(p, "done")
    BY <1>4 DEF ObserveOrder
  <2> QED
    BY <1>2, <2>1, WalkIsSilent DEF Steps, Recovering
<1>5. ASSUME \A a, b \in Attempts(i) : a = b PROVE Silent(p)
  <2>1. PICK seen \in {"none"} \cup ({venue[i]} \cap Visible) :
           Go(p, [start[p] EXCEPT !.at = i, !.seen = seen], AfterObservation(i, seen))
    BY <1>5 DEF ObserveOrder
  <2> DEFINE m == [start[p] EXCEPT !.at = i, !.seen = seen]
             step == AfterObservation(i, seen)
  <2>2. /\ m \in Start /\ m.at = i /\ m.seen = seen
        /\ m.grant = start[p].grant /\ m.phase = start[p].phase
    <3>1. seen \in {"none"} \cup Visible
      OBVIOUS
    <3>2. m \in Start
      BY <1>1, <3>1, MemoryTypes
    <3>3. /\ m.at = i /\ m.seen = seen
          /\ m.grant = start[p].grant /\ m.phase = start[p].phase
      BY <1>1 DEF Start
    <3> QED
      BY <3>2, <3>3
  <2>3. /\ step \in {"bind", "prove", "record"}
        /\ step = "prove" => EffectiveOrder(TheAttempt(i)) # None
        /\ step = "record" /\ seen # "none" => EffectiveOrder(TheAttempt(i)) # None
    BY DEF AfterObservation, AfterBinding
  <2>4. /\ start' \in [Intents -> Start]
        /\ \A r \in Intents \ {p} : start'[r] = start[r]
        /\ start'[p].pc = step /\ start'[p].at = i /\ start'[p].seen = seen
        /\ start'[p].grant = start[p].grant /\ start'[p].phase = start[p].phase
    <3> HIDE DEF m, step
    <3>1. Go(p, m, step)
      BY <2>1 DEF m, step
    <3> QED
      BY <1>1, <2>2, <2>3, <3>1, GoEffect DEF Steps
  <2> HIDE DEF step
  <2>5. Early(p)' => Early(p)
    BY <1>3, <2>3, <2>4 DEF Early, Recovering
  <2>6. ~Ready(p)'
    BY <2>3, <2>4 DEF Ready
  <2>7. UNCHANGED <<attempt, binding, venue>>
    BY <1>2 DEF Calm
  <2>8. \A j : Attempts(j)' = Attempts(j)
    BY <2>7 DEF Attempts
  <2>9. \A a : EffectiveOrder(a)' = EffectiveOrder(a)
    BY <2>7 DEF EffectiveOrder
  <2>10. Observed(p)'
    BY <1>3, <2>4, <2>7, <2>8 DEF Observed, Visible
  <2>11. TheAttempt(i) \in Attempts(i)
    BY <1>3, TheAttemptIn
  <2>12. \A a \in Attempts(i) : a = TheAttempt(i)
    BY <1>5, <2>11
  <2>13. Attempts(start[p].at)' = Attempts(i)
    BY <2>4, <2>8
  <2>14. OrderKnown(p)'
    BY <2>3, <2>4, <2>9, <2>12, <2>13 DEF OrderKnown
  <2>15. AllSettled(p)'
    BY <2>3, <2>4 DEF AllSettled
  <2> QED
    BY <1>2, <2>3, <2>4, <2>5, <2>6, <2>10, <2>14, <2>15 DEF Silent
<1> QED
    BY <1>4, <1>5

\* A proof is recorded of an order that has filled.
LEMMA ProvingIsSilent ==
    ASSUME EntryInv, NEW p \in Intents, ProveFilled(p)
    PROVE  Silent(p)
<1>1. start \in [Intents -> Start] /\ start[p] \in Start
    BY DEF EntryInv, EntryTypeOK
<1>2. Calm
    BY DEF ProveFilled, IngestEvidence, Exchange, Calm, journalVars
<1>3. start[p].pc = "prove"
    BY DEF ProveFilled, At
<1>4. PICK seen \in {"proven", "unproven"} :
         /\ Go(p, [start[p] EXCEPT !.seen = seen], "record")
         /\ seen = "proven" => venue[start[p].at] = "filled"
    BY DEF ProveFilled
<1> DEFINE m == [start[p] EXCEPT !.seen = seen]
<1>5. /\ m \in Start /\ m.seen = seen /\ m.at = start[p].at
      /\ m.grant = start[p].grant /\ m.phase = start[p].phase
    BY <1>1 DEF Start
<1>6. Go(p, m, "record")
    BY <1>4
<1> HIDE DEF m
<1>7. /\ start' \in [Intents -> Start]
      /\ \A r \in Intents \ {p} : start'[r] = start[r]
      /\ start'[p].pc = "record"
      /\ start'[p].seen = seen /\ start'[p].at = start[p].at
      /\ start'[p].grant = start[p].grant /\ start'[p].phase = start[p].phase
    BY <1>1, <1>5, <1>6, GoEffect DEF Steps
<1>8. (Early(p)' => Early(p)) /\ ~Ready(p)'
    BY <1>3, <1>7 DEF Early, Ready, Recovering
<1>9. UNCHANGED <<attempt, binding, venue, grants>>
    BY <1>2 DEF Calm
<1>10. \A j : Attempts(j)' = Attempts(j)
    BY <1>9 DEF Attempts
<1>11. \A a : EffectiveOrder(a)' = EffectiveOrder(a)
    BY <1>9 DEF EffectiveOrder
<1>12. Observed(p) /\ Found(p)
    BY DEF EntryInv, StartInv
<1>13. Observed(p)'
    BY <1>3, <1>4, <1>7, <1>9, <1>10, <1>12 DEF Observed
<1>14. Attempts(start[p].at)' = Attempts(start[p].at)
    BY <1>7, <1>10
<1>15. Holds(p)' => OrderKnown(p)
    BY <1>7, <1>9, <1>12 DEF Holds, Found
<1>16. Holds(p)' => OrderKnown(p)'
    BY <1>3, <1>7, <1>10, <1>11, <1>14, <1>15 DEF OrderKnown
<1>17. AllSettled(p)'
    BY <1>7 DEF AllSettled
<1> QED
    BY <1>2, <1>3, <1>7, <1>8, <1>13, <1>16, <1>17 DEF Silent

\* The reads before a clearance, and what follows a recovery: a start goes on to
\* plan, to trade or to release its lease when nothing but itself can be open.
LEMMA JudgingIsSilent ==
    ASSUME OwnRuns, EntryInv, NEW p \in Intents,
           ReadHalt(p) \/ ReadRuns(p) \/ AfterRecovery(p)
    PROVE  Silent(p)
<1>1. start \in [Intents -> Start] /\ start[p] \in Start /\ TypeOK
    BY DEF EntryInv, EntryTypeOK
<1>2. Calm
    BY UnwrittenIsCalm DEF ReadHalt, ReadRuns, AfterRecovery, Exchange
<1>3. start[p].pc \in {"next", "halted", "verdict"}
    BY DEF ReadHalt, ReadRuns, AfterRecovery, At
<1>4. start[p].phase # "after" => Early(p)
    BY <1>3 DEF Early, Recovering
<1>5. \A n \in [halt : Nat, lineages : SUBSET Plans, results : [Intents -> Nat]] :
         LET m == [start[p] EXCEPT !.noted = n]
         IN  m \in Start /\ m.grant = start[p].grant /\ m.phase = start[p].phase
    BY <1>1 DEF Start
<1>6. start[p].noted \in [halt : Nat, lineages : SUBSET Plans, results : [Intents -> Nat]]
    BY <1>1 DEF Start
<1>7. ASSUME NEW n \in [halt : Nat, lineages : SUBSET Plans, results : [Intents -> Nat]],
             NEW step \in {"halted", "judge", "verdict"},
             Go(p, [start[p] EXCEPT !.noted = n], step)
      PROVE  Silent(p)
  <2> DEFINE m == [start[p] EXCEPT !.noted = n]
  <2>1. m \in Start /\ m.grant = start[p].grant /\ m.phase = start[p].phase
    BY <1>5
  <2>2. Go(p, m, step)
    BY <1>7
  <2> HIDE DEF m
  <2> QED
    BY <1>2, <1>4, <2>1, <2>2, ShiftIsSilent DEF Steps
<1>8. CASE ReadHalt(p)
  <2>1. CASE halt.active
    <3> DEFINE n == [start[p].noted EXCEPT !.halt = halt.revision]
    <3>1. n \in [halt : Nat, lineages : SUBSET Plans, results : [Intents -> Nat]]
      BY <1>1, <1>6 DEF TypeOK
    <3>2. [start[p] EXCEPT !.noted.halt = halt.revision]
             = [start[p] EXCEPT !.noted = n]
      BY <1>1 DEF Start
    <3>3. Go(p, [start[p] EXCEPT !.noted = n], "halted")
      BY <1>8, <2>1, <3>2 DEF ReadHalt
    <3> QED
      BY <1>7, <3>1, <3>3
  <2>2. CASE ~halt.active
    <3>1. Goto(p, "verdict")
      BY <1>8, <2>2 DEF ReadHalt
    <3> QED
      BY <1>2, <1>4, <3>1, WalkIsSilent DEF Steps
  <2> QED
    BY <2>1, <2>2
<1>9. CASE ReadRuns(p)
  <2>1. NothingNoted \in [halt : Nat, lineages : SUBSET Plans, results : [Intents -> Nat]]
    BY DEF NothingNoted
  <2>2. [ClearanceEvidence(Scope) EXCEPT !.halt = start[p].noted.halt]
           \in [halt : Nat, lineages : SUBSET Plans, results : [Intents -> Nat]]
    BY <1>1, <1>6 DEF ClearanceEvidence, TypeOK, Result
  <2> QED
    BY <1>7, <1>9, <2>1, <2>2 DEF ReadRuns
<1>10. CASE AfterRecovery(p)
  <2>1. PICK step \in {"plan", "check", "release", "done"} :
          /\ Goto(p, step)
          /\ step # "done" => SafeToProceed(p)
          /\ step = "plan" => start[p].phase = "prepare"
          /\ step = "check" => start[p].phase = "before"
          /\ step = "release" => latest[p].status = "RECONCILED"
    BY <1>10 DEF AfterRecovery
  <2>2. step \in {"plan", "check"} => Early(p)
    BY <1>4, <2>1
  <2>3. ASSUME step \in {"plan", "release"}, Holds(p), NEW i \in Intents
        PROVE  Settled(i)
    <3>1. ~halt.active
      BY <2>1, <2>3 DEF SafeToProceed
    <3>2. CASE i # p
      BY <2>3, <3>1, <3>2, OpenGateLeavesOwn DEF EntryInv, StartInv
    <3>3. CASE i = p /\ step = "plan"
      BY <2>2, <3>3 DEF EntryInv, StartInv, Progress, Settled
    <3>4. CASE i = p /\ step = "release"
      BY <2>1, <3>4 DEF Settled, Final
    <3> QED
      BY <2>3, <3>2, <3>3, <3>4
  <2> QED
    BY <1>2, <2>1, <2>2, <2>3, WalkIsSilent DEF Steps, Recovering
<1> QED
    BY <1>8, <1>9, <1>10

\* Planning, the checks and the fences before a write, and the leverage.
LEMMA CheckingIsSilent ==
    ASSUME EntryInv, NEW p \in Intents,
           \/ Plan(p) \/ CheckState(p) \/ RefuseState(p)
           \/ FenceHalt(p) \/ FenceLease(p) \/ SetLeverage(p)
    PROVE  Silent(p)
<1>1. start[p] \in Start /\ start[p].write \in {"leverage", "order"}
    BY DEF EntryInv, EntryTypeOK, Start
<1>2. UNCHANGED journalVars /\ UNCHANGED <<venue, mistaken>> => Calm
    BY UnwrittenIsCalm
<1>3. CASE Plan(p)
  <2>1. Calm
    BY <1>2, <1>3 DEF Plan, Exchange
  <2>2. PICK step \in {"done", "yield"} : Goto(p, step)
    BY <1>3 DEF Plan
  <2>3. start[p].pc = "plan" /\ Early(p)
    BY <1>3 DEF Plan, At, Early
  <2>4. Holds(p) => \A i \in Intents : Settled(i)
    BY <2>3 DEF EntryInv, StartInv, Found, AllSettled
  <2> QED
    BY <2>1, <2>2, <2>3, <2>4, WalkIsSilent DEF Steps, Recovering
<1>4. CASE CheckState(p)
  <2>1. Calm
    BY <1>2, <1>4 DEF CheckState, Exchange
  <2>2. PICK step \in {"refuse", "lineage", "done"} : Goto(p, step)
    BY <1>4 DEF CheckState
  <2>3. Early(p)
    BY <1>4 DEF CheckState, At, Early
  <2> QED
    BY <2>1, <2>2, <2>3, WalkIsSilent DEF Steps, Recovering
<1>5. CASE RefuseState(p)
  <2>1. CASE RaiseHalt(start[p].grant) /\ Goto(p, "done")
    <3>1. Calm
      BY <1>5, <2>1 DEF RefuseState, RaiseHalt, RaiseHaltRow, Exchange, Calm
    <3> QED
      BY <2>1, <3>1, WalkIsSilent DEF Steps, Recovering
  <2>2. CASE Stop(p)
    BY <1>5, <2>2, StopIsSilent DEF RefuseState
  <2> QED
    BY <1>5, <2>1, <2>2 DEF RefuseState
<1>6. CASE FenceHalt(p)
  <2>1. Calm
    BY <1>2, <1>6 DEF FenceHalt, Exchange
  <2>2. PICK step \in {"renew", "done"} : Goto(p, step)
    BY <1>6 DEF FenceHalt
  <2>3. start[p].pc = "fence"
    BY <1>6 DEF FenceHalt, At
  <2>4. /\ start[p].write = "leverage" => Early(p)
        /\ start[p].write = "order" => Ready(p)
    BY <2>3 DEF Early, Ready
  <2> QED
    BY <2>1, <2>2, <2>4, WalkIsSilent DEF Steps, Recovering
<1>7. CASE FenceLease(p)
  <2>1. Calm
    BY <1>2, <1>7 DEF FenceLease, Exchange
  <2>2. PICK step \in {start[p].write, "done"} : Goto(p, step)
    BY <1>7 DEF FenceLease
  <2>3. start[p].pc = "renew"
    BY <1>7 DEF FenceLease, At
  <2>4. /\ start[p].write = "leverage" => Early(p)
        /\ start[p].write = "order" => Ready(p)
    BY <2>3 DEF Early, Ready
  <2> QED
    BY <1>1, <2>1, <2>2, <2>4, WalkIsSilent DEF Steps, Recovering
<1>8. CASE SetLeverage(p)
  <2>1. Calm
    BY <1>2, <1>8 DEF SetLeverage
  <2>2. PICK step \in {"intend", "refuse", "done"} : Goto(p, step)
    BY <1>8 DEF SetLeverage
  <2>3. Early(p)
    BY <1>8 DEF SetLeverage, At, Early
  <2> QED
    BY <2>1, <2>2, <2>3, WalkIsSilent DEF Steps, Recovering
<1> QED
    BY <1>3, <1>4, <1>5, <1>6, <1>7, <1>8

\* Committing the lineage, which takes no lease and promises nothing yet.
LEMMA CommittingIsSilent ==
    ASSUME EntryInv, NEW p \in Intents, CommitLineage(p)
    PROVE  Silent(p)
<1>1. start \in [Intents -> Start] /\ start[p] \in Start
    BY DEF EntryInv, EntryTypeOK
<1>2. Early(p)
    BY DEF CommitLineage, At, Early
<1>3. CASE Stop(p)
    BY <1>3, StopIsSilent DEF CommitLineage
<1>4. ASSUME ~Stop(p) PROVE Silent(p)
  <2>1. Calm
    BY <1>4 DEF CommitLineage, PrepareLineage, Exchange, Calm
  <2>2. CASE Goto(p, "intend")
    BY <1>2, <2>1, <2>2, WalkIsSilent DEF Steps, Recovering
  <2>3. CASE Go(p, [start[p] EXCEPT !.write = "leverage"], "fence")
    <3> DEFINE m == [start[p] EXCEPT !.write = "leverage"]
    <3>1. m \in Start /\ m.write = "leverage" /\ m.grant = start[p].grant
      BY <1>1 DEF Start
    <3>2. Go(p, m, "fence")
      BY <2>3
    <3> HIDE DEF m
    <3>3. /\ start' \in [Intents -> Start]
          /\ \A r \in Intents \ {p} : start'[r] = start[r]
          /\ start'[p].pc = "fence" /\ start'[p].write = "leverage"
          /\ start'[p].grant = start[p].grant
      BY <1>1, <3>1, <3>2, GoEffect DEF Steps
    <3>4. ~Ready(p)' /\ Observed(p)' /\ OrderKnown(p)' /\ AllSettled(p)'
      BY <3>3 DEF Ready, Observed, OrderKnown, AllSettled
    <3> QED
      BY <1>2, <2>1, <3>3, <3>4 DEF Silent
  <2> QED
    BY <1>4, <2>2, <2>3 DEF CommitLineage
<1> QED
    BY <1>3, <1>4

\* An answer is a rejection when the exchange refused the order, and only then; one
\* that names another order is an answer of its own.
LEMMA AnsweringIsSilent ==
    ASSUME EntryInv, NEW p \in Intents, ReadAnswer(p)
    PROVE  Silent(p)
<1>1. start \in [Intents -> Start] /\ start[p] \in Start
    BY DEF EntryInv, EntryTypeOK
<1>2. Calm
    BY UnwrittenIsCalm DEF ReadAnswer, Exchange
<1>3. start[p].pc = "answer"
    BY DEF ReadAnswer, At
<1>4. PICK seen \in Answers(venue[p]) : Go(p, [start[p] EXCEPT !.seen = seen], "append")
    BY DEF ReadAnswer
<1>5. /\ seen \in {"none", "accepted", "rejected", "misnamed"}
      /\ seen = "rejected" => venue[p] = "refused"
    BY DEF Answers
<1> DEFINE m == [start[p] EXCEPT !.seen = seen]
<1>6. m \in Start /\ m.seen = seen /\ m.grant = start[p].grant
  <2>1. m \in Start
    BY <1>1, <1>5, MemoryTypes
  <2> QED
    BY <1>1, <2>1 DEF Start
<1>7. Go(p, m, "append")
    BY <1>4
<1> HIDE DEF m
<1>8. /\ start' \in [Intents -> Start]
      /\ \A r \in Intents \ {p} : start'[r] = start[r]
      /\ start'[p].pc = "append" /\ start'[p].seen = seen
      /\ start'[p].grant = start[p].grant
    BY <1>1, <1>6, <1>7, GoEffect DEF Steps
<1>9. /\ ~Early(p)' /\ ~Ready(p)'
      /\ Observed(p)' /\ OrderKnown(p)' /\ AllSettled(p)'
    BY <1>8 DEF Early, Ready, Recovering, Observed, OrderKnown, AllSettled
<1> QED
    BY <1>2, <1>3, <1>5, <1>8, <1>9 DEF Silent

-----------------------------------------------------------------------------
\* The actions that write

\* A write under the lease leaves the other starts what they are: none of them
\* holds the lease.
LEMMA WriterIsAlone ==
    ASSUME OwnRuns, EntryInv, NEW p \in Intents, Authoritative(start[p].grant),
           UNCHANGED <<grants, venue>>, mistaken' \in {mistaken, mistaken \cup {p}},
           \A r \in Intents \ {p} : start'[r] = start[r] /\ owned'[r] = owned[r],
           \A a \in AttemptIds : attempt[a] # None => attempt'[a] = attempt[a]
    PROVE  /\ Holds(p) /\ lease # None /\ Len(grants) # 0
           /\ \A r \in Intents \ {p} :
                 /\ Progress(r)' /\ Observed(r)' /\ Granted(r)' /\ Found(r)'
                 /\ Open(r)' = Open(r)
<1>1. Holds(p) /\ lease # None /\ Len(grants) # 0
    BY HolderIsLast DEF EntryInv, StartInv
<1>2. ASSUME NEW r \in Intents \ {p}
      PROVE  /\ Progress(r)' /\ Observed(r)' /\ Granted(r)' /\ Found(r)'
             /\ Open(r)' = Open(r)
  <2>1. Progress(r) /\ Observed(r) /\ Granted(r) /\ Granted(p) /\ EntryTypeOK
    BY DEF EntryInv, StartInv
  <2>2. ~Holds(r)
    BY <1>1, <2>1, OneHolder
  <2>3. Progress(r)' /\ Observed(r)'
    BY <2>1, OtherKeeps
  <2>4. Granted(r)' /\ (Holds(r)' => Holds(r))
    BY <2>1, GrantKeeps
  <2>5. Found(r)'
    BY <2>2, <2>4 DEF Found
  <2>6. Open(r)' = Open(r)
    BY DEF Open, Understood, Ready
  <2> QED
    BY <2>3, <2>4, <2>5, <2>6
<1> QED
    BY <1>1, <1>2

\* Taking the lease: an account that is not settled has HALT up afterwards.
LEMMA AcquireKeeps ==
    ASSUME OwnRuns, EntryInv, NEW p \in Intents, Acquire(p)
    PROVE  Kept
<1>1. start \in [Intents -> Start] /\ start[p] \in Start /\ TypeOK /\ EntryTypeOK
    BY DEF EntryInv, EntryTypeOK
<1>2. grants \in Seq(Grant) /\ Len(grants) \in Nat
    BY <1>1 DEF TypeOK
<1>3. Early(p) /\ start[p].pc \in {"idle", "reviewed"}
    BY DEF Acquire, At, Early
<1>4. /\ UNCHANGED <<owned, attempt, binding, latest, admitted, venue, mistaken>>
      /\ halt.active => halt'.active
    BY DEF Acquire, AcquireFreeLease, TakeOverLease, RaiseHaltRow, Exchange
<1>5. PICK e \in Epoch, b \in BOOLEAN :
         /\ lease' = [owner |-> RunOf[p], epoch |-> e, expired |-> FALSE, recon |-> b]
         /\ grants' = Append(grants, [owner |-> RunOf[p], epoch |-> e, takeover |-> b])
         /\ b => lease # None /\ halt'.active
         /\ ~b => lease = None
  <2>1. CASE AcquireFreeLease(RunOf[p])
    <3>1. lease = None /\ 1 \in Epoch
      BY <2>1 DEF AcquireFreeLease, Epoch
    <3>2. /\ lease' = [owner |-> RunOf[p], epoch |-> 1,
                       expired |-> FALSE, recon |-> FALSE]
          /\ grants' = Append(grants, [owner |-> RunOf[p], epoch |-> 1,
                                       takeover |-> FALSE])
      BY <2>1 DEF AcquireFreeLease, FirstEpoch
    <3> QED
      BY <3>1, <3>2, Zenon
  <2>2. CASE TakeOverLease(RunOf[p])
    <3>1. lease \in Lease /\ lease # None
      BY <1>1, <2>2 DEF TakeOverLease, TypeOK
    <3>2. lease.epoch + 1 \in Epoch
      BY <3>1 DEF Lease, Epoch
    <3>3. halt'.active
      BY <2>2 DEF TakeOverLease, RaiseHaltRow
    <3>4. /\ lease' = [owner |-> RunOf[p], epoch |-> lease.epoch + 1,
                       expired |-> FALSE, recon |-> TRUE]
          /\ grants' = Append(grants, [owner |-> RunOf[p], epoch |-> lease.epoch + 1,
                                       takeover |-> TRUE])
      BY <2>2 DEF TakeOverLease
    <3> QED
      BY <3>1, <3>2, <3>3, <3>4, Zenon
  <2> QED
    BY <2>1, <2>2 DEF Acquire
<1> DEFINE x == [owner |-> RunOf[p], epoch |-> e, takeover |-> b]
<1>6. RunOf[p] \in Runs
    BY StartAssumption
<1>7. x \in Grant /\ x.owner = RunOf[p] /\ x.epoch = e /\ lease' \in Lease /\ lease' # None
    BY <1>5, <1>6, NewLeaseType, LeaseAssumption DEF Grant
<1>8. grants' = Append(grants, x)
    BY <1>5
<1> HIDE DEF x
<1>9. /\ Len(grants') = Len(grants) + 1
      /\ grants'[Len(grants) + 1] = x
      /\ \A k \in 1 .. Len(grants) : grants'[k] = grants[k]
    BY <1>2, <1>7, <1>8
<1>10. PICK phase \in {"prepare", "before"} :
          Go(p, [start[p] EXCEPT !.grant = Len(grants) + 1, !.phase = phase], "list")
    BY <1>3 DEF Acquire, At
<1> DEFINE m == [start[p] EXCEPT !.grant = Len(grants) + 1, !.phase = phase]
<1>11. m \in Start /\ m.grant = Len(grants) + 1 /\ m.phase = phase
  <2>1. Len(grants) + 1 \in Nat
    BY <1>2
  <2>2. m \in Start
    BY <1>1, <2>1, MemoryTypes
  <2>3. m.grant = Len(grants) + 1 /\ m.phase = phase
    BY <1>1 DEF Start
  <2> QED
    BY <2>2, <2>3
<1>12. Go(p, m, "list")
    BY <1>10
<1> HIDE DEF m
<1>13. /\ start' \in [Intents -> Start]
       /\ \A r \in Intents \ {p} : start'[r] = start[r]
       /\ start'[p].pc = "list" /\ start'[p].grant = Len(grants) + 1
       /\ start'[p].phase = phase
    BY <1>1, <1>11, <1>12, GoEffect DEF Steps
<1>14. ASSUME NEW r \in Intents, r # p
       PROVE  /\ Progress(r)' /\ Observed(r)' /\ Granted(r)' /\ Found(r)'
              /\ Open(r)' = Open(r)
  <2>1. Progress(r) /\ Observed(r) /\ Granted(r) /\ start'[r] = start[r]
    BY <1>13, <1>14 DEF EntryInv, StartInv
  <2>2. RunOf[p] # RunOf[r]
    BY <1>14 DEF OwnRuns
  <2>3. Progress(r)' /\ Observed(r)'
    BY <1>1, <1>4, <2>1, OtherKeeps
  <2>4. Granted(r)' /\ (Holds(r)' => grants' = grants)
    BY <1>1, <1>7, <1>8, <2>1, <2>2, GrantKeeps
  <2>5. ~Holds(r)'
    BY <1>2, <1>9, <2>4
  <2> QED
    BY <1>4, <2>1, <2>3, <2>4, <2>5 DEF Found, Open, Understood, Ready
<1>15. Early(p)' /\ ~Ready(p)'
    BY <1>13 DEF Early, Ready, Recovering
<1>16. Progress(p)'
    BY <1>3, <1>4, <1>13, <1>15 DEF EntryInv, StartInv, Progress, At
<1>17. Observed(p)' /\ Found(p)'
    BY <1>13, <1>15 DEF Observed, Found, OrderKnown, AllSettled, OthersSettled
<1>18. Granted(p)'
    BY <1>2, <1>7, <1>9, <1>13 DEF Granted
<1>19. StartInv'
    BY <1>14, <1>16, <1>17, <1>18 DEF StartInv
<1>20. LeaseIsLast'
    BY <1>2, <1>5, <1>7, <1>9 DEF LeaseIsLast
<1>21. RowsNamed'
  <2>1. \A i \in Intents : owned'[i] # None =>
           /\ admitted'[i] \in 1 .. Len(grants')
           /\ grants'[admitted'[i]].owner = RunOf[i]
    BY <1>2, <1>4, <1>9 DEF EntryInv, RowsNamed
  <2> QED
    BY <1>4, <2>1 DEF EntryInv, RowsNamed
<1>22. ResultsTrue'
    BY <1>4 DEF EntryInv, ResultsTrue, Understood
<1>23. DoubtBlocks'
  <2>1. \A i \in Intents : Settled(i)' = Settled(i)
    BY <1>4 DEF Settled
  <2>2. ASSUME NEW i \in Intents, ~Settled(i) PROVE halt'.active
    BY <1>5, <2>2 DEF EntryInv, DoubtBlocks
  <2> QED
    BY <1>7, <2>1, <2>2 DEF DoubtBlocks
<1>24. OneOpen'
  <2>1. Open(p)' => Open(p)
    BY <1>4, <1>15 DEF Open, Understood
  <2> QED
    BY <1>14, <2>1 DEF EntryInv, OneOpen
<1> QED
    BY <1>13, <1>19, <1>20, <1>21, <1>22, <1>23, <1>24 DEF Kept

\* What stays when only attempts, bindings and HALT are written.
LEMMA WritingKeeps ==
    ASSUME EntryInv, UNCHANGED <<lease, owned, latest, grants, admitted, venue, mistaken>>,
           halt.active => halt'.active,
           \A a \in AttemptIds : attempt'[a] # None =>
              attempt'[a].intent = a[1] \/ attempt'[a] = attempt[a]
    PROVE  /\ LeaseIsLast' /\ RowsNamed' /\ ResultsTrue' /\ DoubtBlocks'
           /\ \A i \in Intents : Settled(i)' = Settled(i)
<1>1. LeaseIsLast'
    BY DEF EntryInv, LeaseIsLast
<1>2. RowsNamed'
    BY DEF EntryInv, RowsNamed
<1>3. ResultsTrue'
    BY DEF EntryInv, ResultsTrue, Understood
<1>4. \A i \in Intents : Settled(i)' = Settled(i)
    BY DEF Settled
<1>5. DoubtBlocks'
    BY <1>4 DEF EntryInv, DoubtBlocks
<1> QED
    BY <1>1, <1>2, <1>3, <1>4, <1>5

\* Recovery's own pending attempt.
LEMMA MissingAttemptKeeps ==
    ASSUME OwnRuns, EntryInv, NEW p \in Intents, NEW i \in Intents,
           RecoverMissingAttempt(p, i)
    PROVE  Kept
<1>1. TypeOK /\ start \in [Intents -> Start]
    BY DEF EntryInv, EntryTypeOK
<1>2. CASE Stop(p)
    BY <1>2, StopIsSilent, SilentKeeps DEF RecoverMissingAttempt
<1>3. ASSUME ~Stop(p) PROVE Kept
  <2> DEFINE row == [intent |-> i, client |-> owned[i], order |-> None]
             a == <<i, "recovery">>
  <2>1. /\ AppendAttempt(start[p].grant, a, row)
        /\ UNCHANGED start /\ UNCHANGED <<venue, mistaken>> /\ start[p].pc = "next"
    BY <1>3 DEF RecoverMissingAttempt, Exchange, At
  <2>2. /\ Authoritative(start[p].grant)
        /\ UNCHANGED <<lease, halt, owned, binding, latest, grants, admitted, venue, mistaken>>
        /\ attempt' = [attempt EXCEPT ![a] = row]
        /\ attempt[a] = None
    BY <2>1 DEF AppendAttempt
  <2>3. a \in AttemptIds /\ a[1] = i /\ row.intent = i
    BY StartAssumption
  <2> HIDE DEF a, row
  <2>4. \A b \in AttemptIds : attempt'[b] # None =>
           attempt'[b].intent = b[1] \/ attempt'[b] = attempt[b]
    BY <1>1, <2>2, <2>3 DEF TypeOK
  <2>5. \A b \in AttemptIds : attempt[b] # None => attempt'[b] = attempt[b]
    BY <1>1, <2>2, <2>3 DEF TypeOK
  <2>6. \A r \in Intents \ {p} :
           /\ Progress(r)' /\ Observed(r)' /\ Granted(r)' /\ Found(r)'
           /\ Open(r)' = Open(r)
    BY <2>1, <2>2, <2>5, WriterIsAlone
  <2>7. Progress(p)' /\ Observed(p)'
    BY <2>1, <2>2, <2>5, OtherKeeps DEF EntryInv, StartInv
  <2>8. Granted(p)'
    BY <2>1, <2>2, GrantKeeps DEF EntryInv, StartInv
  <2>9. Found(p)'
    BY <2>1 DEF Found, OrderKnown, AllSettled, OthersSettled, Ready
  <2>10. Open(p)' = Open(p)
    BY <2>1 DEF Open, Understood, Ready
  <2>11. StartInv' /\ OneOpen'
    BY <2>6, <2>7, <2>8, <2>9, <2>10 DEF StartInv, OneOpen, EntryInv
  <2> QED
    BY <1>1, <2>1, <2>2, <2>4, <2>11, WritingKeeps DEF Kept
<1> QED
    BY <1>2, <1>3

\* The observed order becomes the attempt's, which is the only one.
LEMMA BindingKeeps ==
    ASSUME OwnRuns, EntryInv, NEW p \in Intents, BindObserved(p)
    PROVE  Kept
<1>1. TypeOK /\ start \in [Intents -> Start] /\ start[p] \in Start
    BY DEF EntryInv, EntryTypeOK
<1>2. CASE Stop(p)
    BY <1>2, StopIsSilent, SilentKeeps DEF BindObserved
<1>3. ASSUME ~Stop(p) PROVE Kept
  <2>0. Observed(p) /\ start[p].pc = "bind"
    BY DEF BindObserved, At, EntryInv, StartInv
  <2>30. PICK i \in Intents : i = start[p].at /\ Attempts(i) # {}
    BY <2>0 DEF Observed
  <2>31. PICK a \in Attempts(i) : a = TheAttempt(i)
    BY <2>30, TheAttemptIn
  <2>32. PICK step \in {"prove", "record"} : step = AfterBinding(start[p].seen)
    BY DEF AfterBinding
  <2>1. /\ BindIdentity(start[p].grant, a, OrderOf[i])
        /\ Goto(p, step)
        /\ UNCHANGED <<venue, mistaken>> /\ start[p].pc = "bind"
    BY <1>3, <2>30, <2>31, <2>32 DEF BindObserved, Exchange, At
  <2>2. Observed(p) /\ Found(p) /\ Progress(p) /\ Granted(p)
    BY DEF EntryInv, StartInv
  <2>4. a \in AttemptIds
    BY DEF Attempts
  <2>5. OrderOf[i] \in Orders /\ OrderOf[i] # None
    BY StartAssumption, NoneAssumption
  <2>6. /\ Authoritative(start[p].grant)
        /\ UNCHANGED <<lease, halt, owned, attempt, latest, grants, admitted, venue, mistaken>>
        /\ binding' = [binding EXCEPT ![a] = OrderOf[i]]
        /\ attempt[a].order \in {None, OrderOf[i]}
    BY <2>1 DEF BindIdentity
  <2>7. binding'[a] = OrderOf[i]
    BY <1>1, <2>4, <2>6 DEF TypeOK
  <2>8. EffectiveOrder(a)' # None
    BY <2>5, <2>6, <2>7 DEF EffectiveOrder
  <2>10. /\ start' \in [Intents -> Start]
         /\ \A r \in Intents \ {p} : start'[r] = start[r]
         /\ start'[p].pc = step /\ start'[p].phase = start[p].phase
         /\ start'[p].grant = start[p].grant /\ start'[p].at = i
         /\ start'[p].seen = start[p].seen
    BY <1>1, <2>30, <2>1, GotoEffect DEF Steps
  <2>11. \A r \in Intents \ {p} :
            /\ Progress(r)' /\ Observed(r)' /\ Granted(r)' /\ Found(r)'
            /\ Open(r)' = Open(r)
    BY <2>6, <2>10, WriterIsAlone
  <2>12. Holds(p)
    BY <2>6, HolderIsLast DEF EntryInv, StartInv
  <2>13. \A b \in Attempts(i) : b = a
    BY <2>30, <2>1, <2>2, <2>12 DEF Found, OrderKnown
  <2>14. Attempts(start[p].at)' = Attempts(i)
    BY <2>6, <2>10 DEF Attempts
  <2>15. OrderKnown(p)'
    BY <2>8, <2>13, <2>14 DEF OrderKnown
  <2>16. (Early(p)' => Early(p)) /\ ~Ready(p)'
    BY <2>1, <2>10 DEF Early, Ready, Recovering
  <2>17. Progress(p)'
    BY <2>2, <2>6, <2>10, <2>16 DEF Progress, At
  <2>18. Observed(p)'
    BY <2>30, <2>1, <2>2, <2>6, <2>10, <2>14 DEF Observed
  <2>19. Granted(p)'
    BY <2>2, <2>6, <2>10 DEF Granted
  <2>20. Found(p)'
    BY <2>10, <2>15, <2>16 DEF Found, AllSettled, OthersSettled
  <2>21. Open(p)' => Open(p)
    BY <2>6, <2>16 DEF Open, Understood
  <2>22. StartInv' /\ OneOpen'
    BY <2>11, <2>17, <2>18, <2>19, <2>20, <2>21 DEF StartInv, OneOpen, EntryInv
  <2> QED
    BY <2>6, <2>10, <2>22, WritingKeeps DEF Kept
<1> QED
    BY <1>2, <1>3

\* A result says what recovery saw, and HALT goes up unless it is final.
LEMMA ResultKeeps ==
    ASSUME OwnRuns, EntryInv, NEW p \in Intents, RecordResult(p)
    PROVE  Kept
<1>1. TypeOK /\ start \in [Intents -> Start] /\ start[p] \in Start
    BY DEF EntryInv, EntryTypeOK
<1>2. CASE Stop(p)
    BY <1>2, StopIsSilent, SilentKeeps DEF RecordResult
<1>3. ASSUME ~Stop(p) PROVE Kept
  <2>1. Observed(p) /\ start[p].pc = "record"
    BY DEF RecordResult, At, EntryInv, StartInv
  <2>2. PICK i \in Intents : i = start[p].at /\ Attempts(i) # {}
    BY <2>1 DEF Observed
  <2>3. PICK a \in Attempts(i) : a = TheAttempt(i)
    BY <2>2, TheAttemptIn
  <2>4. PICK status : status = StatusOf(start[p].seen)
    OBVIOUS
  <2>5. /\ AppendReconciliation(start[p].grant, a,
               [status |-> status, order |-> EffectiveOrder(a)])
        /\ Go(p, [start[p] EXCEPT !.todo = @ \ {i}, !.at = None, !.seen = "none",
                                  !.blocked = @ \/ status \notin Final], "next")
        /\ UNCHANGED <<venue, mistaken>>
    BY <1>3, <2>2, <2>3, <2>4 DEF RecordResult, Exchange
  <2>6. attempt[a].intent = i /\ a \in AttemptIds
    BY DEF Attempts
  <2>7. /\ Authoritative(start[p].grant)
        /\ UNCHANGED <<lease, owned, attempt, binding, grants, admitted, venue, mistaken>>
        /\ \E order, n :
              latest' = [latest EXCEPT ![i] = [attempt |-> a, status |-> status,
                                               order |-> order, revision |-> n]]
        /\ IF RaisesHalt(status) THEN RaiseHaltRow ELSE UNCHANGED halt
    BY <2>5, <2>6 DEF AppendReconciliation
  <2>8. /\ halt.active => halt'.active
        /\ RaisesHalt(status) => halt'.active
    <3>1. RaiseHaltRow => halt'.active
      BY DEF RaiseHaltRow
    <3> QED
      BY <2>7, <3>1
  <2>9. /\ latest'[i].status = status
        /\ \A j \in Intents \ {i} : latest'[j] = latest[j]
    BY <1>1, <2>7 DEF TypeOK
  <2>10. PICK m \in Start :
            /\ m.grant = start[p].grant /\ m.phase = start[p].phase
            /\ Go(p, m, "next")
    <3> DEFINE todo == start[p].todo \ {i}
               b == start[p].blocked \/ status \notin Final
               k == [start[p] EXCEPT !.todo = todo, !.at = None, !.seen = "none",
                                     !.blocked = b]
    <3>1. todo \in SUBSET Intents /\ b \in BOOLEAN
      BY <1>1 DEF Start
    <3>2. k \in Start
      BY <1>1, <3>1, MemoryTypes
    <3>3. k.grant = start[p].grant /\ k.phase = start[p].phase
      BY <1>1 DEF Start
    <3>4. Go(p, k, "next")
      BY <2>5
    <3> HIDE DEF k
    <3> QED
      BY <3>2, <3>3, <3>4
  <2>11. /\ start' \in [Intents -> Start]
         /\ \A r \in Intents \ {p} : start'[r] = start[r]
         /\ start'[p].pc = "next" /\ start'[p].phase = start[p].phase
         /\ start'[p].grant = start[p].grant
    BY <1>1, <2>10, GoEffect DEF Steps
  <2>12. \A r \in Intents \ {p} :
            /\ Progress(r)' /\ Observed(r)' /\ Granted(r)' /\ Found(r)'
            /\ Open(r)' = Open(r)
    BY <2>7, <2>11, WriterIsAlone
  <2>13. (Early(p)' => Early(p)) /\ ~Ready(p)'
    BY <2>1, <2>11 DEF Early, Ready, Recovering
  <2>14. Progress(p)' /\ Granted(p)'
    BY <2>7, <2>11, <2>13 DEF EntryInv, StartInv, Progress, Granted, At
  <2>15. Observed(p)' /\ Found(p)'
    BY <2>11, <2>13 DEF Observed, Found, OrderKnown, AllSettled, OthersSettled
  <2>16. Open(p)' => Open(p)
    BY <2>7, <2>13 DEF Open, Understood
  <2>17. StartInv' /\ OneOpen'
    BY <2>12, <2>14, <2>15, <2>16 DEF StartInv, OneOpen, EntryInv
  <2>18. LeaseIsLast' /\ RowsNamed'
    BY <2>7 DEF EntryInv, LeaseIsLast, RowsNamed
  <2>19. /\ status = "FAILED" => venue[i] \in {"refused", "dead"}
         /\ status = "RECONCILED" => venue[i] \in {"filled", "closed"}
    BY <2>1, <2>2, <2>4 DEF Observed, StatusOf
  <2>20. ResultsTrue'
    BY <2>7, <2>9, <2>19 DEF EntryInv, ResultsTrue, Understood
  <2>21. status \in Final \/ RaisesHalt(status)
    BY <2>4 DEF StatusOf, RaisesHalt, Final
  <2>22. DoubtBlocks'
    <3>1. lease' # None
      BY <2>7 DEF Authoritative
    <3>2. ASSUME NEW j \in Intents, ~Settled(j)', admitted'[j] # Len(grants')
          PROVE  halt'.active
      <4>1. CASE j = i
        BY <2>8, <2>9, <2>21, <3>2, <4>1 DEF Settled
      <4>2. CASE j # i
        <5>1. ~Settled(j)
          BY <2>7, <2>9, <3>2, <4>2 DEF Settled
        <5> QED
          BY <2>7, <2>8, <3>2, <5>1 DEF EntryInv, DoubtBlocks
      <4> QED
        BY <4>1, <4>2
    <3> QED
      BY <3>1, <3>2 DEF DoubtBlocks
  <2> QED
    BY <2>11, <2>17, <2>18, <2>20, <2>22 DEF Kept
<1> QED
    BY <1>2, <1>3

\* A clearance takes HALT down over settled intents only.
LEMMA ClearKeeps ==
    ASSUME OwnRuns, OneScope, EntryInv, NEW p \in Intents, Clear(p)
    PROVE  Kept
<1>1. TypeOK /\ start \in [Intents -> Start] /\ start[p] \in Start
    BY DEF EntryInv, EntryTypeOK
<1>2. CASE Stop(p)
    BY <1>2, StopIsSilent, SilentKeeps DEF Clear
<1>3. ASSUME ~Stop(p) PROVE Kept
  <2>1. /\ ClearHalt(start[p].grant, Scope, start[p].noted)
        /\ Go(p, [start[p] EXCEPT !.noted = NothingNoted], "verdict")
        /\ UNCHANGED <<venue, mistaken>> /\ start[p].pc = "judge"
    BY <1>3 DEF Clear, Exchange, At
  <2>2. /\ Authoritative(start[p].grant)
        /\ UNCHANGED <<owned, attempt, binding, latest, grants, admitted, venue, mistaken>>
        /\ lease' = [lease EXCEPT !.recon = FALSE]
        /\ start[p].noted = ClearanceEvidence(Scope)
    BY <2>1 DEF ClearHalt, ClearanceAccepted, LeaseAfterClearance
  <2>3. lease \in Lease /\ start[p].grant \in 1 .. Len(grants)
    BY <1>1, <2>2 DEF Authoritative, TypeOK
  <2>4. lease' # None /\ lease'.owner = lease.owner /\ lease'.epoch = lease.epoch
    <3>1. lease' \in Lease
      BY <2>2, <2>3, LeaseUpdateType
    <3>2. lease' # None
      BY <3>1, LeaseAssumption
    <3>3. lease'.owner = lease.owner /\ lease'.epoch = lease.epoch
      BY <2>2, <2>3 DEF Lease
    <3> QED
      BY <3>2, <3>3
  <2>5. \A i \in Intents : Settled(i)
    BY <1>1, <2>1, <2>2, <2>3, ClearanceSettles, StartAssumption DEF Settled
  <2>6. \A i \in Intents : Settled(i)'
    BY <2>2, <2>5 DEF Settled
  <2>7. NothingNoted \in [halt : Nat, lineages : SUBSET Plans, results : [Intents -> Nat]]
    BY DEF NothingNoted
  <2> DEFINE m == [start[p] EXCEPT !.noted = NothingNoted]
  <2>8. m \in Start /\ m.grant = start[p].grant /\ m.phase = start[p].phase
    <3>1. m \in Start
      BY <1>1, <2>7, MemoryTypes
    <3>2. m.grant = start[p].grant /\ m.phase = start[p].phase
      BY <1>1 DEF Start
    <3> QED
      BY <3>1, <3>2
  <2>9. Go(p, m, "verdict")
    BY <2>1
  <2> HIDE DEF m
  <2>10. /\ start' \in [Intents -> Start]
         /\ \A r \in Intents \ {p} : start'[r] = start[r]
         /\ start'[p].pc = "verdict" /\ start'[p].phase = start[p].phase
         /\ start'[p].grant = start[p].grant
    BY <1>1, <2>8, <2>9, GoEffect DEF Steps
  <2>11. \A r \in Intents \ {p} :
            /\ Progress(r)' /\ Observed(r)' /\ Granted(r)' /\ Found(r)'
            /\ Open(r)' = Open(r)
    BY <2>2, <2>10, WriterIsAlone
  <2>12. (Early(p)' => Early(p)) /\ ~Ready(p)'
    BY <2>1, <2>10 DEF Early, Ready, Recovering
  <2>13. Progress(p)' /\ Granted(p)'
    BY <2>2, <2>10, <2>12 DEF EntryInv, StartInv, Progress, Granted, At
  <2>14. Observed(p)' /\ Found(p)'
    BY <2>10, <2>12 DEF Observed, Found, OrderKnown, AllSettled, OthersSettled
  <2>15. Open(p)' => Open(p)
    BY <2>2, <2>12 DEF Open, Understood
  <2>16. StartInv' /\ OneOpen'
    BY <2>11, <2>13, <2>14, <2>15 DEF StartInv, OneOpen, EntryInv
  <2>17. LeaseIsLast'
    BY <2>2, <2>4 DEF EntryInv, LeaseIsLast, Authoritative
  <2>18. RowsNamed' /\ ResultsTrue'
    BY <2>2 DEF EntryInv, RowsNamed, ResultsTrue, Understood
  <2>19. DoubtBlocks'
    BY <2>6 DEF DoubtBlocks
  <2> QED
    BY <2>10, <2>16, <2>17, <2>18, <2>19 DEF Kept
<1> QED
    BY <1>2, <1>3

\* The lease is given back over a settled account only.
LEMMA FreeingKeeps ==
    ASSUME OwnRuns, EntryInv, NEW p \in Intents, ReleaseLease(start[p].grant),
           UNCHANGED <<venue, mistaken>>, start[p].pc \in {"yield", "release"},
           start' \in [Intents -> Start],
           \A r \in Intents \ {p} : start'[r] = start[r],
           start'[p].grant = 0,
           \/ start'[p].pc = "done"
           \/ start[p].pc = "yield" /\ start'[p].pc = "reviewed"
    PROVE  Kept
<1>1. /\ Authoritative(start[p].grant)
      /\ UNCHANGED <<halt, owned, attempt, binding, latest, grants, admitted, venue, mistaken>>
      /\ lease' = None
    BY DEF ReleaseLease
<1>2. \A r \in Intents \ {p} :
         /\ Progress(r)' /\ Observed(r)' /\ Granted(r)' /\ Found(r)'
         /\ Open(r)' = Open(r)
    BY <1>1, WriterIsAlone
<1>3. Holds(p)
    BY <1>1, HolderIsLast DEF EntryInv, StartInv
<1>4. \A i \in Intents : Settled(i)
    BY <1>3 DEF EntryInv, StartInv, Found, AllSettled
<1>5. \A i \in Intents : Settled(i)'
    BY <1>1, <1>4 DEF Settled
<1>6. (Early(p)' => Early(p)) /\ ~Ready(p)'
    BY DEF Early, Ready, Recovering
<1>7. Progress(p)' /\ Granted(p)'
    BY <1>1, <1>6 DEF EntryInv, StartInv, Progress, Granted, At
<1>8. Observed(p)' /\ Found(p)'
    BY <1>6 DEF Observed, Found, OrderKnown, AllSettled, OthersSettled
<1>9. Open(p)' => Open(p)
    BY <1>6 DEF Open, Understood
<1>10. StartInv' /\ OneOpen'
    BY <1>2, <1>7, <1>8, <1>9 DEF StartInv, OneOpen, EntryInv
<1>11. LeaseIsLast'
    BY <1>1 DEF LeaseIsLast
<1>12. RowsNamed' /\ ResultsTrue'
    BY <1>1 DEF EntryInv, RowsNamed, ResultsTrue, Understood
<1>13. DoubtBlocks'
    BY <1>5 DEF DoubtBlocks
<1> QED
    BY <1>10, <1>11, <1>12, <1>13 DEF Kept

\* The end of a prepare and of an execution.
LEMMA ReleasingKeeps ==
    ASSUME OwnRuns, EntryInv, NEW p \in Intents, YieldLease(p) \/ Release(p)
    PROVE  Kept
<1>1. start \in [Intents -> Start]
    BY DEF EntryInv, EntryTypeOK
<1>2. \A step \in {"reviewed", "done"} :
         Fresh(step) \in Start /\ Fresh(step).grant = 0
    BY DEF Fresh, Start, NothingNoted
<1>3. CASE Stop(p)
    BY <1>3, StopIsSilent, SilentKeeps DEF YieldLease, Release
<1>4. ASSUME YieldLease(p), ~Stop(p) PROVE Kept
  <2>1. PICK step \in {"reviewed", "done"} :
           /\ Go(p, Fresh(step), step)
           /\ ReleaseLease(start[p].grant) \/ UNCHANGED journalVars
           /\ UNCHANGED <<venue, mistaken>> /\ start[p].pc = "yield"
    BY <1>4 DEF YieldLease, Exchange, At
  <2>2. /\ start' \in [Intents -> Start]
        /\ \A r \in Intents \ {p} : start'[r] = start[r]
        /\ start'[p].pc = step /\ start'[p].grant = 0
    BY <1>1, <1>2, <2>1, GoEffect DEF Steps
  <2>3. CASE ReleaseLease(start[p].grant)
    BY <2>1, <2>2, <2>3, FreeingKeeps
  <2>4. CASE UNCHANGED journalVars
    <3>1. Calm
      BY <2>1, <2>4, UnwrittenIsCalm
    <3>2. Early(p) /\ ~Ready(p)'
      BY <2>1, <2>2 DEF Early, Ready
    <3>3. Observed(p)' /\ OrderKnown(p)' /\ AllSettled(p)'
      BY <2>2 DEF Observed, OrderKnown, AllSettled
    <3>4. Silent(p)
      BY <2>2, <3>1, <3>2, <3>3 DEF Silent
    <3> QED
      BY <3>4, SilentKeeps
  <2> QED
    BY <2>1, <2>3, <2>4
<1>5. ASSUME Release(p), ~Stop(p) PROVE Kept
  <2>1. /\ ReleaseLease(start[p].grant) /\ Goto(p, "done")
        /\ UNCHANGED <<venue, mistaken>> /\ start[p].pc = "release"
    BY <1>5 DEF Release, Exchange, At
  <2>2. /\ start' \in [Intents -> Start]
        /\ \A r \in Intents \ {p} : start'[r] = start[r]
        /\ start'[p].pc = "done" /\ start'[p].grant = 0
    BY <1>1, <2>1, GotoEffect DEF Steps
  <2> QED
    BY <2>1, <2>2, FreeingKeeps
<1> QED
    BY <1>3, <1>4, <1>5

\* A new intent: HALT is down and the start holds the lease, so everything else
\* is settled, and nothing else can be open.
LEMMA IntentKeeps ==
    ASSUME OwnRuns, EntryInv, NEW p \in Intents, OwnIntent(p)
    PROVE  Kept
<1>1. TypeOK /\ start \in [Intents -> Start] /\ start[p] \in Start
    BY DEF EntryInv, EntryTypeOK
<1>2. CASE Stop(p)
    BY <1>2, StopIsSilent, SilentKeeps DEF OwnIntent
<1>3. ASSUME ~Stop(p) PROVE Kept
  <2>1. /\ PrepareOwnedIntent(start[p].grant, p, ClientOf[p])
        /\ Go(p, [start[p] EXCEPT !.write = "order"], "fence")
        /\ UNCHANGED <<venue, mistaken>> /\ start[p].pc = "intend"
    BY <1>3 DEF OwnIntent, Exchange, At
  <2>2. /\ Authoritative(start[p].grant) /\ ~halt.active
        /\ UNCHANGED <<lease, halt, attempt, binding, latest, grants, venue, mistaken>>
        /\ owned' = [owned EXCEPT ![p] = ClientOf[p]]
        /\ admitted' = [admitted EXCEPT ![p] = Len(grants)]
    BY <2>1 DEF PrepareOwnedIntent, OwnsLineage, GatesOpen
  <2>3. ClientOf[p] # None
    BY StartAssumption, NoneAssumption
  <2>4. /\ owned'[p] # None /\ admitted'[p] = Len(grants)
        /\ \A i \in Intents \ {p} : owned'[i] = owned[i] /\ admitted'[i] = admitted[i]
    BY <1>1, <2>2, <2>3 DEF TypeOK
  <2> DEFINE m == [start[p] EXCEPT !.write = "order"]
  <2>5. m \in Start /\ m.grant = start[p].grant /\ m.write = "order"
    BY <1>1 DEF Start
  <2>6. Go(p, m, "fence")
    BY <2>1
  <2> HIDE DEF m
  <2>7. /\ start' \in [Intents -> Start]
        /\ \A r \in Intents \ {p} : start'[r] = start[r]
        /\ start'[p].pc = "fence" /\ start'[p].write = "order"
        /\ start'[p].grant = start[p].grant
    BY <1>1, <2>5, <2>6, GoEffect DEF Steps
  <2>8. /\ Holds(p) /\ lease # None
        /\ \A r \in Intents \ {p} :
              /\ Progress(r)' /\ Observed(r)' /\ Granted(r)' /\ Found(r)'
              /\ Open(r)' = Open(r)
    BY <2>2, <2>4, <2>7, WriterIsAlone
  <2>9. \A i \in Intents \ {p} : Settled(i)
    BY <2>2, <2>8, OpenGateLeavesOwn DEF EntryInv, StartInv
  <2>10. \A i \in Intents \ {p} : ~Open(i)
    BY <2>9, SettledIsShut DEF EntryInv, StartInv
  <2>11. \A i \in Intents \ {p} : Settled(i)'
    BY <2>2, <2>4, <2>9 DEF Settled
  <2>12. ~Early(p)' /\ Early(p)
    BY <2>1, <2>7 DEF Early, Recovering
  <2>13. Progress(p)' /\ Granted(p)'
    BY <2>2, <2>4, <2>7, <2>12 DEF EntryInv, StartInv, Progress, Granted, At
  <2>14. Observed(p)'
    BY <2>7 DEF Observed
  <2>15. Found(p)'
    BY <2>7, <2>11 DEF Found, OrderKnown, AllSettled, OthersSettled
  <2>16. StartInv' /\ OneOpen'
    BY <2>8, <2>10, <2>13, <2>14, <2>15 DEF StartInv, OneOpen
  <2>17. LeaseIsLast' /\ ResultsTrue'
    BY <2>2 DEF EntryInv, LeaseIsLast, ResultsTrue, Understood
  <2>18. RowsNamed'
    <3>1. /\ start[p].grant \in 1 .. Len(grants)
          /\ start[p].grant = Len(grants)
          /\ grants[Len(grants)].owner = RunOf[p]
      BY <2>8 DEF EntryInv, StartInv, Granted, Holds
    <3>2. \A i \in Intents : owned'[i] # None =>
             /\ admitted'[i] \in 1 .. Len(grants')
             /\ grants'[admitted'[i]].owner = RunOf[i]
      BY <2>2, <2>4, <3>1 DEF EntryInv, RowsNamed
    <3> QED
      BY <2>2, <2>4, <3>2 DEF EntryInv, RowsNamed
  <2>19. DoubtBlocks'
    BY <2>2, <2>4, <2>8, <2>11 DEF DoubtBlocks
  <2> QED
    BY <2>7, <2>16, <2>17, <2>18, <2>19 DEF Kept
<1> QED
    BY <1>2, <1>3

\* The attempt of a start's own order.
LEMMA AttemptKeeps ==
    ASSUME OwnRuns, EntryInv, NEW p \in Intents, RecordAttempt(p)
    PROVE  Kept
<1>1. TypeOK /\ start \in [Intents -> Start] /\ start[p] \in Start
    BY DEF EntryInv, EntryTypeOK
<1>2. CASE Stop(p)
    BY <1>2, StopIsSilent, SilentKeeps DEF RecordAttempt
<1>3. ASSUME ~Stop(p) PROVE Kept
  <2>1. PICK order : AppendAttempt(start[p].grant, <<p, "entry">>,
                        [intent |-> p, client |-> ClientOf[p], order |-> order])
    BY <1>3 DEF RecordAttempt
  <2>2. /\ start[p].pc = "append" /\ UNCHANGED <<venue, mistaken>>
        /\ IF start[p].seen \in KnownRejected THEN Goto(p, "rejected")
           ELSE Go(p, [start[p] EXCEPT !.seen = "none", !.phase = "after"], "list")
    BY <1>3 DEF RecordAttempt, At, Exchange
  <2> DEFINE row == [intent |-> p, client |-> ClientOf[p], order |-> order]
             a == <<p, "entry">>
  <2>3. /\ Authoritative(start[p].grant)
        /\ UNCHANGED <<lease, halt, owned, binding, latest, grants, admitted, venue, mistaken>>
        /\ attempt' = [attempt EXCEPT ![a] = row]
        /\ attempt[a] = None
    BY <2>1, <2>2 DEF AppendAttempt
  <2>4. a \in AttemptIds /\ a[1] = p /\ row.intent = p
    BY StartAssumption
  <2> HIDE DEF a, row
  <2>5. \A b \in AttemptIds :
           /\ attempt'[b] # None =>
                 attempt'[b].intent = b[1] \/ attempt'[b] = attempt[b]
           /\ attempt[b] # None => attempt'[b] = attempt[b]
    BY <1>1, <2>3, <2>4 DEF TypeOK
  <2>6. PICK step \in {"rejected", "list"} :
           /\ step = "rejected" => /\ start[p].seen \in KnownRejected
                                   /\ start'[p].seen = start[p].seen
           /\ start' \in [Intents -> Start]
           /\ \A r \in Intents \ {p} : start'[r] = start[r]
           /\ start'[p].pc = step /\ start'[p].grant = start[p].grant
           /\ step = "list" => start'[p].phase = "after"
    <3>1. CASE start[p].seen \in KnownRejected
      <4>1. Goto(p, "rejected")
        BY <2>2, <3>1
      <4>2. /\ start' \in [Intents -> Start]
            /\ \A r \in Intents \ {p} : start'[r] = start[r]
            /\ start'[p].pc = "rejected" /\ start'[p].grant = start[p].grant
            /\ start'[p].seen = start[p].seen
        BY <1>1, <4>1, GotoEffect DEF Steps
      <4> QED
        BY <3>1, <4>2
    <3>2. CASE start[p].seen \notin KnownRejected
      <4> DEFINE m == [start[p] EXCEPT !.seen = "none", !.phase = "after"]
      <4>1. m \in Start /\ m.grant = start[p].grant /\ m.phase = "after"
        BY <1>1 DEF Start
      <4>2. Go(p, m, "list")
        BY <2>2, <3>2
      <4> HIDE DEF m
      <4>3. /\ start' \in [Intents -> Start]
            /\ \A r \in Intents \ {p} : start'[r] = start[r]
            /\ start'[p].pc = "list" /\ start'[p].grant = start[p].grant
            /\ start'[p].phase = "after"
        BY <1>1, <4>1, <4>2, GoEffect DEF Steps
      <4> QED
        BY <4>3
    <3> QED
      BY <3>1, <3>2
  <2>7. \A r \in Intents \ {p} :
           /\ Progress(r)' /\ Observed(r)' /\ Granted(r)' /\ Found(r)'
           /\ Open(r)' = Open(r)
    BY <2>3, <2>5, <2>6, WriterIsAlone
  <2>8. Progress(p) /\ Found(p) /\ Granted(p)
    BY DEF EntryInv, StartInv
  <2>9. ~Early(p)' /\ ~Ready(p)'
    BY <2>6 DEF Early, Ready, Recovering
  <2>10. Progress(p)' /\ Granted(p)'
    BY <2>2, <2>3, <2>6, <2>8, <2>9 DEF Progress, Granted, At
  <2>11. Observed(p)'
    BY <2>6 DEF Observed
  <2>12. \A i \in Intents : Settled(i)' = Settled(i)
    BY <2>3 DEF Settled
  <2>13. Holds(p)' => \A i \in Intents \ {p} : Settled(i)'
    BY <2>2, <2>3, <2>6, <2>8, <2>12 DEF Holds, Found, OthersSettled
  <2>14. Found(p)'
    BY <2>6, <2>13 DEF Found, OrderKnown, AllSettled, OthersSettled
  <2>15. Open(p)' => Open(p)
    BY <2>3, <2>9 DEF Open, Understood
  <2>16. StartInv' /\ OneOpen'
    BY <2>7, <2>10, <2>11, <2>14, <2>15 DEF StartInv, OneOpen, EntryInv
  <2> QED
    BY <2>3, <2>5, <2>6, <2>16, WritingKeeps DEF Kept
<1> QED
    BY <1>2, <1>3

\* A known rejection is final: the exchange refused the order, or the start is one that
\* mistakes its answer.
LEMMA RejectionKeeps ==
    ASSUME OwnRuns, EntryInv, NEW p \in Intents, RecordRejection(p)
    PROVE  Kept
<1>1. TypeOK /\ start \in [Intents -> Start] /\ start[p] \in Start
    BY DEF EntryInv, EntryTypeOK
<1>2. CASE Stop(p) /\ UNCHANGED Exchange
    BY <1>2, StopIsSilent, SilentKeeps
<1>3. ASSUME ~(Stop(p) /\ UNCHANGED Exchange) PROVE Kept
  <2> DEFINE a == <<p, "entry">>
  <2>1. /\ AppendReconciliation(start[p].grant, a, [status |-> "FAILED", order |-> None])
        /\ Goto(p, "release")
        /\ UNCHANGED venue /\ start[p].pc = "rejected"
        /\ mistaken' = IF start[p].seen = "misnamed" THEN mistaken \cup {p} ELSE mistaken
    BY <1>3 DEF RecordRejection, Exchange, At
  <2>2. a \in AttemptIds /\ a[1] = p
    BY StartAssumption
  <2> HIDE DEF a
  <2>3. attempt[a].intent = p
    BY <2>1, <2>2 DEF AppendReconciliation, EntryInv, RowsNamed
  <2>4. /\ Authoritative(start[p].grant)
        /\ UNCHANGED <<lease, halt, owned, attempt, binding, grants, admitted, venue>>
        /\ \E n : latest' = [latest EXCEPT ![p] =
                     [attempt |-> a, status |-> "FAILED", order |-> None, revision |-> n]]
    BY <2>1, <2>3 DEF AppendReconciliation, RaisesHalt
  <2>5. /\ latest'[p].status = "FAILED"
        /\ \A j \in Intents \ {p} : latest'[j] = latest[j]
    BY <1>1, <2>4 DEF TypeOK
  <2>6. /\ start' \in [Intents -> Start]
        /\ \A r \in Intents \ {p} : start'[r] = start[r]
        /\ start'[p].pc = "release" /\ start'[p].grant = start[p].grant
    BY <1>1, <2>1, GotoEffect DEF Steps
  <2>20. /\ mistaken' \in {mistaken, mistaken \cup {p}}
         /\ p \in mistaken => p \in mistaken'
         /\ \A i \in Intents \ {p} : i \in mistaken' <=> i \in mistaken
         /\ p \notin mistaken' => start[p].seen # "misnamed"
    BY <2>1
  <2>7. /\ Holds(p)
        /\ \A r \in Intents \ {p} :
              /\ Progress(r)' /\ Observed(r)' /\ Granted(r)' /\ Found(r)'
              /\ Open(r)' = Open(r)
    BY <2>4, <2>6, <2>20, WriterIsAlone
  <2>8. Progress(p) /\ Found(p) /\ Granted(p)
    BY DEF EntryInv, StartInv
  <2>9. \A i \in Intents \ {p} : Settled(i)
    BY <2>1, <2>7, <2>8 DEF Found, OthersSettled
  <2>10. \A i \in Intents : Settled(i)'
    BY <2>4, <2>5, <2>9 DEF Settled, Final
  <2>11. ~Early(p)' /\ ~Ready(p)'
    BY <2>6 DEF Early, Ready, Recovering
  <2>12. Progress(p)' /\ Granted(p)'
    BY <2>4, <2>6, <2>8, <2>11 DEF Progress, Granted, At
  <2>13. Observed(p)'
    BY <2>6 DEF Observed
  <2>14. Found(p)'
    BY <2>6, <2>10, <2>11 DEF Found, OrderKnown, AllSettled, OthersSettled
  <2>15. Open(p)' => Open(p)
    BY <2>4, <2>11, <2>20 DEF Open, Understood
  <2>16. StartInv' /\ OneOpen'
    BY <2>7, <2>12, <2>13, <2>14, <2>15 DEF StartInv, OneOpen, EntryInv
  <2>17. LeaseIsLast' /\ RowsNamed'
    <3>1. start[p].pc = "rejected" /\ venue[p] # "absent"
      BY <2>1, <2>8 DEF Progress
    <3> QED
      BY <2>4, <2>20, <3>1 DEF EntryInv, LeaseIsLast, RowsNamed
  <2>18. ResultsTrue'
    <3>1. p \in Understood' => venue'[p] = "refused"
      BY <2>1, <2>4, <2>8, <2>20 DEF Progress, At, Understood, KnownRejected
    <3>2. \A i \in Intents \ {p} : i \in Understood' => i \in Understood
      BY <2>20 DEF Understood
    <3> QED
      BY <2>4, <2>5, <3>1, <3>2 DEF EntryInv, ResultsTrue, Understood
  <2>19. DoubtBlocks'
    BY <2>10 DEF DoubtBlocks
  <2> QED
    BY <2>6, <2>16, <2>17, <2>18, <2>19 DEF Kept
<1> QED
    BY <1>2, <1>3

\* The order leaves the program.
LEMMA SendKeeps ==
    ASSUME EntryInv, NEW p \in Intents, SendOrder(p)
    PROVE  Kept
<1>1. /\ TypeOK /\ start \in [Intents -> Start] /\ start[p] \in Start
      /\ venue \in [Intents -> Venue] /\ EntryTypeOK
    BY DEF EntryInv, EntryTypeOK
<1>2. /\ UNCHANGED <<lease, halt, owned, attempt, binding, latest, grants, admitted>>
      /\ venue' = [venue EXCEPT ![p] = "inflight"]
      /\ Goto(p, "answer") /\ start[p].pc = "order" /\ UNCHANGED mistaken
    BY DEF SendOrder, journalVars, At
<1>3. /\ start' \in [Intents -> Start]
      /\ \A r \in Intents \ {p} : start'[r] = start[r]
      /\ start'[p].pc = "answer" /\ start'[p].grant = start[p].grant
    BY <1>1, <1>2, GotoEffect DEF Steps
<1>4. Progress(p) /\ Found(p) /\ Granted(p) /\ Ready(p)
    BY <1>2 DEF EntryInv, StartInv, Ready
<1>5. venue[p] = "absent" /\ owned[p] # None
    BY <1>4 DEF Progress
<1>6. venue'[p] = "inflight" /\ \A i \in Intents \ {p} : venue'[i] = venue[i]
    BY <1>1, <1>2
<1>7. ASSUME NEW r \in Intents, r # p
      PROVE  /\ Progress(r)' /\ Observed(r)' /\ Granted(r)' /\ Found(r)'
             /\ Open(r)' = Open(r)
  <2>1. Progress(r) /\ Observed(r) /\ Granted(r) /\ Found(r) /\ start'[r] = start[r]
    BY <1>3, <1>7 DEF EntryInv, StartInv
  <2>2. Progress(r)' /\ Observed(r)'
    BY <1>1, <1>2, <1>5, <1>6, <1>7, <2>1, OtherKeeps
  <2>3. Granted(r)'
    BY <1>1, <1>2, <2>1, GrantKeeps
  <2>4. Found(r)'
    BY <1>2, <2>1, FoundKeeps
  <2>5. Open(r)' = Open(r)
    BY <1>2, <1>6, <1>7, <2>1 DEF Open, Understood, Ready
  <2> QED
    BY <2>2, <2>3, <2>4, <2>5
<1>8. ~Early(p)' /\ ~Ready(p)'
    BY <1>3 DEF Early, Ready, Recovering
<1>9. Progress(p)' /\ Granted(p)'
    BY <1>2, <1>3, <1>4, <1>5, <1>6, <1>8 DEF Progress, Granted, At
<1>10. Observed(p)'
    BY <1>3 DEF Observed
<1>11. \A i \in Intents : Settled(i)' = Settled(i)
    BY <1>2 DEF Settled
<1>12. Holds(p)' => \A i \in Intents \ {p} : Settled(i)'
    BY <1>2, <1>3, <1>4, <1>11 DEF Holds, Found, OthersSettled
<1>13. Found(p)'
    BY <1>3, <1>8, <1>12 DEF Found, OrderKnown, AllSettled, OthersSettled
<1>14. StartInv'
    BY <1>7, <1>9, <1>10, <1>13 DEF StartInv
<1>15. Open(p)
    BY <1>4 DEF Open, Understood
<1>16. OneOpen'
    BY <1>7, <1>15 DEF OneOpen, EntryInv
<1>17. LeaseIsLast' /\ RowsNamed'
    BY <1>2, <1>5, <1>6 DEF EntryInv, LeaseIsLast, RowsNamed
<1>18. ResultsTrue'
    BY <1>2, <1>5, <1>6 DEF EntryInv, ResultsTrue, Understood
<1>19. DoubtBlocks'
    BY <1>2, <1>11 DEF EntryInv, DoubtBlocks
<1> QED
    BY <1>3, <1>14, <1>16, <1>17, <1>18, <1>19 DEF Kept

\* What the exchange does with an order it has.
LEMMA VenueKeeps ==
    ASSUME EntryInv, NEW i \in Intents, Arrive(i) \/ Trade(i)
    PROVE  Kept
<1>1. /\ TypeOK /\ start \in [Intents -> Start]
      /\ venue \in [Intents -> Venue] /\ EntryTypeOK
    BY DEF EntryInv, EntryTypeOK
<1>2. /\ UNCHANGED <<lease, halt, owned, attempt, binding, latest, grants, admitted>>
      /\ UNCHANGED <<start, mistaken>>
    BY DEF Arrive, Trade, journalVars
<1>3. PICK s \in Venue : /\ venue' = [venue EXCEPT ![i] = s]
                         /\ \/ venue[i] \in Live /\ s # "absent"
                            \/ venue[i] = "filled" /\ s = "closed"
    BY DEF Arrive, Trade, Venue, Live
<1>4. venue'[i] = s /\ \A j \in Intents \ {i} : venue'[j] = venue[j]
    BY <1>1, <1>3
<1>5. ASSUME NEW r \in Intents
      PROVE  /\ Progress(r)' /\ Observed(r)' /\ Granted(r)' /\ Found(r)'
             /\ Open(r)' => Open(r)
  <2>1. Progress(r) /\ Observed(r) /\ Granted(r) /\ Found(r)
    BY DEF EntryInv, StartInv
  <2>2. Progress(r)' /\ Observed(r)'
    BY <1>1, <1>2, <1>3, <1>4, <2>1, OtherKeeps DEF Live
  <2>3. Granted(r)'
    BY <1>1, <1>2, <2>1, GrantKeeps
  <2>4. Found(r)'
    BY <1>2, <2>1, FoundKeeps
  <2>5. Open(r)' => Open(r)
    BY <1>2, <1>3, <1>4 DEF Open, Understood, Ready, Live
  <2> QED
    BY <2>2, <2>3, <2>4, <2>5
<1>6. StartInv' /\ OneOpen'
    BY <1>5 DEF StartInv, OneOpen, EntryInv
<1>7. LeaseIsLast' /\ RowsNamed'
    BY <1>2, <1>3, <1>4 DEF EntryInv, LeaseIsLast, RowsNamed, Live
<1>8. ResultsTrue'
    BY <1>2, <1>3, <1>4 DEF EntryInv, ResultsTrue, Understood, Live
<1>9. DoubtBlocks'
    BY <1>2 DEF EntryInv, DoubtBlocks, Settled
<1> QED
    BY <1>1, <1>2, <1>6, <1>7, <1>8, <1>9 DEF Kept

-----------------------------------------------------------------------------
\* Every step

\* Time and other processes leave the starts alone.
LEMMA AroundKeeps ==
    ASSUME EntryInv, TimePasses \/ IngestElsewhere
    PROVE  Kept
<1>1. UNCHANGED start /\ UNCHANGED <<venue, mistaken>>
    BY DEF TimePasses, IngestElsewhere, Exchange
<1>2. lease \in Lease \/ lease = None
    BY DEF EntryInv, EntryTypeOK, TypeOK
<1>3. CASE ExpireLease
  <2>1. /\ lease # None /\ lease' = [lease EXCEPT !.expired = TRUE]
        /\ UNCHANGED <<halt, owned, attempt, binding, latest, grants, admitted>>
    BY <1>3 DEF ExpireLease
  <2>2. lease' # None /\ lease'.owner = lease.owner /\ lease'.epoch = lease.epoch
    <3>1. lease \in Lease
      BY <1>2, <2>1
    <3>2. lease' \in Lease
      BY <2>1, <3>1, LeaseUpdateType
    <3>3. lease' # None
      BY <3>2, LeaseAssumption
    <3>4. lease'.owner = lease.owner /\ lease'.epoch = lease.epoch
      BY <2>1, <3>1 DEF Lease
    <3> QED
      BY <3>3, <3>4
  <2>3. Calm
    BY <1>1, <2>1, <2>2 DEF Calm
  <2> QED
    BY <1>1, <2>3, StillKeeps
<1>4. CASE ~ExpireLease
  <2>1. Calm
    BY <1>1, <1>4 DEF TimePasses, IngestElsewhere, ExpireApproval, IngestConflictingFact,
                      IngestCorrection, RaiseHaltRow, Calm
  <2> QED
    BY <1>1, <2>1, StillKeeps
<1> QED
    BY <1>3, <1>4

\* The invariant is inductive.
LEMMA EntryStep ==
    ASSUME OwnRuns, OneScope, EntryInv, Next
    PROVE  Kept
<1>1. ASSUME NEW p \in Intents, Recover(p) PROVE Kept
  <2>1. ASSUME NEW i \in Intents, RecoverMissingAttempt(p, i) PROVE Kept
    BY <2>1, MissingAttemptKeeps
  <2>2. CASE BindObserved(p)
    BY <2>2, BindingKeeps
  <2>3. CASE RecordResult(p)
    BY <2>3, ResultKeeps
  <2>4. CASE Clear(p)
    BY <2>4, ClearKeeps
  <2>5. ASSUME \/ ListRuns(p) \/ ProveFilled(p)
               \/ \E i \in Intents : RecoverUnintended(p, i) \/ ObserveOrder(p, i)
               \/ ReadHalt(p) \/ ReadRuns(p) \/ AfterRecovery(p)
        PROVE  Silent(p)
    BY <2>5, ReadingIsSilent, ObservingIsSilent, ProvingIsSilent, JudgingIsSilent
  <2> QED
    BY <1>1, <2>1, <2>2, <2>3, <2>4, <2>5, SilentKeeps DEF Recover
<1>2. ASSUME NEW p \in Intents, Prepare(p) PROVE Kept
    BY <1>2, CheckingIsSilent, SilentKeeps, ReleasingKeeps DEF Prepare
<1>3. ASSUME NEW p \in Intents, Execute(p) PROVE Kept
  <2>1. CASE OwnIntent(p)
    BY <2>1, IntentKeeps
  <2>2. CASE SendOrder(p)
    BY <2>2, SendKeeps
  <2>3. CASE RecordAttempt(p)
    BY <2>3, AttemptKeeps
  <2>4. CASE RecordRejection(p)
    BY <2>4, RejectionKeeps
  <2>5. CASE Release(p)
    BY <2>5, ReleasingKeeps
  <2>6. ASSUME \/ CheckState(p) \/ RefuseState(p) \/ CommitLineage(p)
               \/ FenceHalt(p) \/ FenceLease(p) \/ SetLeverage(p) \/ ReadAnswer(p)
        PROVE  Silent(p)
    BY <2>6, CheckingIsSilent, CommittingIsSilent, AnsweringIsSilent
  <2> QED
    BY <1>3, <2>1, <2>2, <2>3, <2>4, <2>5, <2>6, SilentKeeps DEF Execute
<1>4. ASSUME NEW p \in Intents, Acquire(p) PROVE Kept
    BY <1>4, AcquireKeeps
<1>5. ASSUME NEW p \in Intents, Crash(p) PROVE Kept
    BY <1>5, StopIsSilent, SilentKeeps DEF Crash
<1>6. ASSUME NEW i \in Intents, Arrive(i) \/ Trade(i) PROVE Kept
    BY <1>6, VenueKeeps
<1>7. CASE TimePasses \/ IngestElsewhere
    BY <1>7, AroundKeeps
<1> QED
    BY <1>1, <1>2, <1>3, <1>4, <1>5, <1>6, <1>7 DEF Next

\* The grant of a write is in the history.
LEMMA GrantInHistory ==
    ASSUME NEW g, Authoritative(g)
    PROVE  g \in 1 .. Len(grants)
BY DEF Authoritative

\* What a start does to the journal is one of the journal's own operations.
LEMMA EntryIsJournalStep ==
    ASSUME OwnRuns, EntryInv, Next
    PROVE  [JournalNext]_journalVars
<1> DEFINE Goal == [JournalNext]_journalVars
<1>1. TypeOK /\ StartInv
    BY DEF EntryInv, EntryTypeOK
<1>2. ASSUME NEW p \in Intents, Acquire(p) PROVE Goal
    BY <1>2, StartAssumption DEF Acquire, LeaseStep, JournalNext
<1>3. UNCHANGED journalVars => Goal
    OBVIOUS
<1>4. ASSUME NEW p \in Intents, NEW i \in Intents, RecoverMissingAttempt(p, i) PROVE Goal
  <2>1. CASE Stop(p)
    BY <1>3, <2>1 DEF Stop
  <2>2. CASE ~Stop(p)
    <3> DEFINE row == [intent |-> i, client |-> owned[i], order |-> None]
    <3>1. AppendAttempt(start[p].grant, <<i, "recovery">>, row) /\ owned[i] # None
      BY <1>4, <2>2 DEF RecoverMissingAttempt
    <3>2. row \in Attempt /\ <<i, "recovery">> \in AttemptIds
      BY <1>1, <3>1, StartAssumption DEF TypeOK, Attempt
    <3>3. start[p].grant \in 1 .. Len(grants)
      BY <3>1, GrantInHistory DEF AppendAttempt
    <3> QED
      BY <3>1, <3>2, <3>3 DEF RecordStep, JournalNext
  <2> QED
    BY <2>1, <2>2
<1>5. ASSUME NEW p \in Intents, BindObserved(p) PROVE Goal
  <2>1. CASE Stop(p)
    BY <1>3, <2>1 DEF Stop
  <2>2. CASE ~Stop(p)
    <3>1. start[p].at \in Intents /\ Attempts(start[p].at) # {}
      BY <1>1, <1>5 DEF BindObserved, At, StartInv, Observed
    <3>2. TheAttempt(start[p].at) \in AttemptIds
      BY <3>1, TheAttemptIn DEF Attempts
    <3>3. BindIdentity(start[p].grant, TheAttempt(start[p].at), OrderOf[start[p].at])
      BY <1>5, <2>2 DEF BindObserved
    <3>4. start[p].grant \in 1 .. Len(grants) /\ OrderOf[start[p].at] \in Orders
      BY <3>1, <3>3, GrantInHistory, StartAssumption DEF BindIdentity
    <3> QED
      BY <3>2, <3>3, <3>4 DEF RecordStep, JournalNext
  <2> QED
    BY <2>1, <2>2
<1>6. ASSUME NEW p \in Intents, ProveFilled(p) PROVE Goal
  <2>1. start[p].at \in Intents
    BY <1>1, <1>6 DEF ProveFilled, At, StartInv, Observed
  <2>2. OrderOf[start[p].at] \in Orders
    BY <2>1, StartAssumption
  <2>3. IngestEvidence(start[p].at, OrderOf[start[p].at]) \/ UNCHANGED journalVars
    BY <1>6 DEF ProveFilled
  <2> QED
    BY <1>3, <2>1, <2>2, <2>3 DEF FactStep, JournalNext
<1>7. ASSUME NEW p \in Intents, RecordResult(p) PROVE Goal
  <2>1. CASE Stop(p)
    BY <1>3, <2>1 DEF Stop
  <2>2. CASE ~Stop(p)
    <3>1. start[p].at \in Intents /\ Attempts(start[p].at) # {} /\ start[p].pc = "record"
      BY <1>1, <1>7 DEF RecordResult, At, StartInv, Observed
    <3>2. PICK a \in Attempts(start[p].at) : a = TheAttempt(start[p].at)
      BY <3>1, TheAttemptIn
    <3> DEFINE verdict == [status |-> StatusOf(start[p].seen),
                           order |-> EffectiveOrder(a)]
    <3>3. AppendReconciliation(start[p].grant, a, verdict)
      BY <1>7, <2>2, <3>2 DEF RecordResult
    <3>4. Authoritative(start[p].grant) /\ a \in AttemptIds /\ attempt[a] # None
      BY <3>3 DEF AppendReconciliation, Attempts
    <3>5. start[p].grant \in 1 .. Len(grants)
      BY <3>4, GrantInHistory
    <3>6. Holds(p)
      BY <3>4, HolderIsLast DEF EntryInv, StartInv
    <3>7. start[p].seen # "none" => EffectiveOrder(a) # None
      BY <1>1, <3>1, <3>6 DEF StartInv, Found, OrderKnown
    <3>8. EffectiveOrder(a) \in Orders \cup {None}
      BY <1>1, <3>4 DEF EffectiveOrder, TypeOK, Attempt
    <3>9. verdict \in Verdict
      BY <3>7, <3>8 DEF StatusOf, Verdict
    <3> HIDE DEF verdict
    <3> QED
      BY <3>3, <3>4, <3>5, <3>9 DEF RecordStep, JournalNext
  <2> QED
    BY <2>1, <2>2
<1>8. ASSUME NEW p \in Intents, Clear(p) PROVE Goal
  <2>1. CASE Stop(p)
    BY <1>3, <2>1 DEF Stop
  <2>2. CASE ~Stop(p)
    <3>1. ClearHalt(start[p].grant, Scope, start[p].noted)
      BY <1>8, <2>2 DEF Clear
    <3>2. Authoritative(start[p].grant) /\ start[p].noted = ClearanceEvidence(Scope)
      BY <3>1 DEF ClearHalt, ClearanceAccepted
    <3> QED
      BY <3>1, <3>2, GrantInHistory, StartAssumption DEF HaltStep, JournalNext
  <2> QED
    BY <2>1, <2>2
<1>9. ASSUME NEW p \in Intents, RefuseState(p) \/ Release(p) \/ YieldLease(p) PROVE Goal
  <2>1. \/ UNCHANGED journalVars
        \/ RaiseHalt(start[p].grant) \/ ReleaseLease(start[p].grant)
    BY <1>9 DEF RefuseState, Release, YieldLease, Stop
  <2>2. CASE RaiseHalt(start[p].grant)
    BY <2>2, GrantInHistory DEF RaiseHalt, HaltStep, JournalNext
  <2>3. CASE ReleaseLease(start[p].grant)
    BY <2>3, GrantInHistory DEF ReleaseLease, LeaseStep, JournalNext
  <2> QED
    BY <1>3, <2>1, <2>2, <2>3
<1>10. ASSUME NEW p \in Intents, CommitLineage(p) PROVE Goal
  <2>1. PlanOf[p] \in Plans /\ RunOf[p] \in Runs
    BY StartAssumption, MappingAssumption
  <2>2. PrepareLineage(PlanOf[p], RunOf[p]) \/ UNCHANGED journalVars
    BY <1>10 DEF CommitLineage, Stop
  <2> QED
    BY <1>3, <2>1, <2>2 DEF IntentStep, JournalNext
<1>11. ASSUME NEW p \in Intents, OwnIntent(p) PROVE Goal
  <2>1. CASE Stop(p)
    BY <1>3, <2>1 DEF Stop
  <2>2. CASE ~Stop(p)
    <3>1. PrepareOwnedIntent(start[p].grant, p, ClientOf[p])
      BY <1>11, <2>2 DEF OwnIntent
    <3>2. ClientOf[p] \in ClientIds /\ start[p].grant \in 1 .. Len(grants)
      BY <3>1, StartAssumption, GrantInHistory DEF PrepareOwnedIntent, OwnsLineage
    <3> QED
      BY <3>1, <3>2 DEF IntentStep, JournalNext
  <2> QED
    BY <2>1, <2>2
<1>12. ASSUME NEW p \in Intents, RecordAttempt(p) PROVE Goal
  <2>1. CASE Stop(p)
    BY <1>3, <2>1 DEF Stop
  <2>2. CASE ~Stop(p)
    <3>1. PICK order \in Orders \cup {None} :
             AppendAttempt(start[p].grant, <<p, "entry">>,
                 [intent |-> p, client |-> ClientOf[p], order |-> order])
      BY <1>12, <2>2, StartAssumption DEF RecordAttempt
    <3> DEFINE row == [intent |-> p, client |-> ClientOf[p], order |-> order]
    <3>2. row \in Attempt /\ <<p, "entry">> \in AttemptIds
      BY StartAssumption DEF Attempt
    <3>3. start[p].grant \in 1 .. Len(grants)
      BY <3>1, GrantInHistory DEF AppendAttempt
    <3>4. AppendAttempt(start[p].grant, <<p, "entry">>, row)
      BY <3>1
    <3> HIDE DEF row
    <3> QED
      BY <3>2, <3>3, <3>4 DEF RecordStep, JournalNext
  <2> QED
    BY <2>1, <2>2
<1>13. ASSUME NEW p \in Intents, RecordRejection(p) PROVE Goal
  <2>1. CASE Stop(p)
    BY <1>3, <2>1 DEF Stop
  <2>2. CASE ~Stop(p)
    <3> DEFINE verdict == [status |-> "FAILED", order |-> None]
    <3>1. AppendReconciliation(start[p].grant, <<p, "entry">>, verdict)
      BY <1>13, <2>2 DEF RecordRejection
    <3>2. verdict \in Verdict /\ <<p, "entry">> \in AttemptIds
      BY StartAssumption DEF Verdict
    <3>3. start[p].grant \in 1 .. Len(grants)
      BY <3>1, GrantInHistory DEF AppendReconciliation
    <3> HIDE DEF verdict
    <3> QED
      BY <3>1, <3>2, <3>3 DEF RecordStep, JournalNext
  <2> QED
    BY <2>1, <2>2
<1>14. ASSUME TimePasses PROVE Goal
  <2>1. ExpireLease \/ \E p \in Intents : ExpireApproval(PlanOf[p])
    BY <1>14 DEF TimePasses
  <2> QED
    BY <2>1, MappingAssumption DEF LeaseStep, IntentStep, JournalNext
<1>15. ASSUME IngestElsewhere PROVE Goal
    BY <1>15, StartAssumption DEF IngestElsewhere, FactStep, JournalNext
<1>16. ASSUME NEW p \in Intents, Recover(p) PROVE Goal
  <2>1. ASSUME \/ ListRuns(p)
               \/ \E i \in Intents : RecoverUnintended(p, i) \/ ObserveOrder(p, i)
               \/ ReadHalt(p) \/ ReadRuns(p) \/ AfterRecovery(p)
        PROVE  UNCHANGED journalVars
    BY <2>1 DEF ListRuns, RecoverUnintended, ObserveOrder, ReadHalt, ReadRuns, AfterRecovery
  <2> HIDE DEF Goal
  <2> QED
    BY <1>3, <1>4, <1>5, <1>6, <1>7, <1>8, <1>16, <2>1 DEF Recover
<1>17. ASSUME NEW p \in Intents, Prepare(p) \/ Execute(p) PROVE Goal
  <2>1. ASSUME \/ Plan(p) \/ CheckState(p) \/ FenceHalt(p) \/ FenceLease(p)
               \/ SetLeverage(p) \/ SendOrder(p) \/ ReadAnswer(p)
        PROVE  UNCHANGED journalVars
    BY <2>1 DEF Plan, CheckState, FenceHalt, FenceLease, SetLeverage, SendOrder, ReadAnswer
  <2> HIDE DEF Goal
  <2> QED
    BY <1>3, <1>9, <1>10, <1>11, <1>12, <1>13, <1>17, <2>1 DEF Prepare, Execute
<1>18. ASSUME NEW p \in Intents, Crash(p) \/ Arrive(p) \/ Trade(p) PROVE Goal
  <2>1. UNCHANGED journalVars
    BY <1>18 DEF Crash, Stop, Arrive, Trade
  <2> HIDE DEF Goal
  <2> QED
    BY <1>3, <2>1
<1> HIDE DEF Goal
<1>19. Goal
    BY <1>2, <1>14, <1>15, <1>16, <1>17, <1>18 DEF Next
<1> QED
    BY <1>19 DEF Goal

\* Orders at the exchange stay what orders can be.
LEMMA VenueTypeStep ==
    ASSUME EntryInv, Next
    PROVE  /\ venue' \in [Intents -> Venue] /\ levered' \in BOOLEAN
           /\ mistaken' \subseteq Intents
<1>1. venue \in [Intents -> Venue] /\ levered \in BOOLEAN /\ mistaken \subseteq Intents
    BY DEF EntryInv, EntryTypeOK
<1>2. ASSUME NEW p \in Intents, SendOrder(p) \/ Arrive(p) \/ Trade(p)
      PROVE  /\ \E s \in Venue : venue' = [venue EXCEPT ![p] = s]
             /\ UNCHANGED <<levered, mistaken>>
    BY <1>2 DEF SendOrder, Arrive, Trade, Venue
<1>3. ASSUME NEW p \in Intents, SetLeverage(p)
      PROVE  UNCHANGED <<venue, mistaken>> /\ levered' \in BOOLEAN
    BY <1>1, <1>3 DEF SetLeverage
<1>4. ASSUME NEW p \in Intents, Acquire(p) \/ Recover(p) \/ Prepare(p) \/ Crash(p)
      PROVE  UNCHANGED Exchange
    BY <1>4 DEF Acquire, Recover, ListRuns, RecoverUnintended, RecoverMissingAttempt,
                ObserveOrder, BindObserved, ProveFilled, RecordResult, ReadHalt, ReadRuns,
                Clear, AfterRecovery, Prepare, Plan, YieldLease, Crash
<1>5. ASSUME NEW p \in Intents,
             \/ CheckState(p) \/ RefuseState(p) \/ CommitLineage(p)
             \/ FenceHalt(p) \/ FenceLease(p) \/ OwnIntent(p) \/ ReadAnswer(p)
             \/ RecordAttempt(p) \/ Release(p)
      PROVE  UNCHANGED Exchange
    BY <1>5 DEF CheckState, RefuseState, CommitLineage, FenceHalt, FenceLease, OwnIntent,
                ReadAnswer, RecordAttempt, Release
<1>6. TimePasses \/ IngestElsewhere => UNCHANGED Exchange
    BY DEF TimePasses, IngestElsewhere
<1>7. UNCHANGED Exchange => UNCHANGED <<venue, mistaken>> /\ UNCHANGED levered
    BY DEF Exchange
<1>8. ASSUME NEW p \in Intents, RecordRejection(p)
      PROVE  UNCHANGED <<venue, levered>> /\ mistaken' \subseteq Intents
    BY <1>1, <1>8 DEF RecordRejection
<1>9. \/ UNCHANGED Exchange
      \/ \E p \in Intents : \/ SetLeverage(p) \/ SendOrder(p) \/ RecordRejection(p)
                            \/ Arrive(p) \/ Trade(p)
    BY <1>4, <1>5, <1>6 DEF Next, Execute
<1> QED
    BY <1>1, <1>2, <1>3, <1>7, <1>8, <1>9

\* The invariant holds in every reachable state.
LEMMA EntryInvariant ==
    ASSUME OwnRuns, OneScope PROVE Spec => []EntryInv
<1>1. Init => EntryInv
  <2> SUFFICES ASSUME Init PROVE EntryInv
    OBVIOUS
  <2>1. JournalInit /\ TypeOK
    BY DEF Init, JournalInit, TypeOK, NoResult, Result, Status
  <2>2. /\ owned = [i \in Intents |-> None] /\ latest = [i \in Intents |-> NoResult]
        /\ attempt = [a \in AttemptIds |-> None] /\ lease = None
        /\ venue = [i \in Intents |-> "absent"] /\ mistaken = {}
    BY <2>1 DEF Init, JournalInit
  <2>3. PICK beginning \in Beginnings :
          /\ start = [p \in Intents |-> Fresh(IF p \in beginning.reviewed
                                              THEN "reviewed" ELSE "idle")]
          /\ levered = beginning.levered
    BY DEF Init
  <2>4. \A step \in {"idle", "reviewed"} :
           Fresh(step) \in Start /\ Fresh(step).grant = 0 /\ Fresh(step).pc = step
    BY DEF Fresh, Start, NothingNoted
  <2>5. start \in [Intents -> Start] /\ levered \in BOOLEAN
    BY <2>3, <2>4, StartAssumption
  <2>6. \A p \in Intents : start[p].pc \in {"idle", "reviewed"} /\ start[p].grant = 0
    BY <2>3, <2>4
  <2>7. EntryTypeOK
    BY <2>1, <2>2, <2>5 DEF EntryTypeOK, Venue
  <2>8. \A p \in Intents : ~Ready(p) /\ ~Open(p)
    BY <2>2, <2>6 DEF Ready, Open, Understood, Live
  <2>9. StartInv
    BY <2>2, <2>6, <2>8 DEF StartInv, Progress, Observed, Granted, Found, Holds, At
  <2>10. LeaseIsLast /\ RowsNamed /\ ResultsTrue /\ DoubtBlocks /\ OneOpen
    BY <2>2, <2>8 DEF LeaseIsLast, RowsNamed, ResultsTrue, Understood, DoubtBlocks, Settled,
                      OneOpen, NoResult
  <2> QED
    BY <2>7, <2>9, <2>10 DEF EntryInv
<1>2. ASSUME EntryInv, [Next]_vars PROVE EntryInv'
  <2>1. CASE Next
    <3>1. Kept
      BY <1>2, <2>1, EntryStep
    <3>2. TypeOK'
      BY <1>2, <2>1, EntryIsJournalStep, TypeStep DEF EntryInv, EntryTypeOK
    <3>3. /\ venue' \in [Intents -> Venue] /\ levered' \in BOOLEAN
          /\ mistaken' \subseteq Intents
      BY <1>2, <2>1, VenueTypeStep
    <3> QED
      BY <3>1, <3>2, <3>3 DEF Kept, EntryInv, EntryTypeOK
  <2>2. CASE UNCHANGED vars
    <3>1. Calm /\ UNCHANGED start /\ UNCHANGED levered /\ UNCHANGED journalVars
      BY <2>2, UnwrittenIsCalm DEF vars
    <3>2. Kept
      BY <1>2, <3>1, StillKeeps
    <3>3. TypeOK'
      BY <1>2, <3>1, TypeStep DEF EntryInv, EntryTypeOK
    <3> QED
      BY <1>2, <2>2, <3>2, <3>3 DEF Kept, EntryInv, EntryTypeOK, vars
  <2> QED
    BY <1>2, <2>1, <2>2
<1> QED
    BY <1>1, <1>2, PTL DEF Spec

-----------------------------------------------------------------------------
\* What the Demo entry promises

\* Whatever the starts do to the journal, the journal can do: so all it promises
\* to its callers, the exposure gate included, it keeps under them.
THEOREM StartsUseTheJournal ==
    ASSUME OwnRuns, OneScope PROVE Spec => JournalSpec
<1>1. Init => JournalInit
    BY DEF Init
<1>2. EntryInv /\ [Next]_vars => [JournalNext]_journalVars
    BY EntryIsJournalStep DEF vars
<1> QED
    BY <1>1, <1>2, EntryInvariant, PTL DEF Spec, JournalSpec

\* At most one order of the account may still add exposure, however many starts
\* there are, wherever they stall or crash, however late the exchange answers.
THEOREM ExposureIsSingle ==
    ASSUME OwnRuns, OneScope PROVE Spec => []SingleExposure
<1>1. EntryInv => SingleExposure
    BY DEF EntryInv, OneOpen, Open, Understood, SingleExposure
<1> QED
    BY <1>1, EntryInvariant, PTL

\* While HALT is down an order that may still add exposure belongs to the newest
\* lease grant.
THEOREM NoStrayOrder ==
    ASSUME OwnRuns, OneScope PROVE Spec => []OpenGateNoStrayOrder
<1>1. ASSUME EntryInv PROVE OpenGateNoStrayOrder
  <2> SUFFICES ASSUME NEW i \in Understood, ~halt.active, venue[i] \in Live
               PROVE  admitted[i] = Len(grants)
    BY DEF OpenGateNoStrayOrder
  <2>1. ~Settled(i)
    BY <1>1, SettledIsShut DEF EntryInv, StartInv, Open, Understood
  <2> QED
    BY <1>1, <2>1 DEF EntryInv, DoubtBlocks, Understood
<1> QED
    BY <1>1, EntryInvariant, PTL

\* An intent declared failed has an order that is refused or dead.
THEOREM FailureIsFinal ==
    ASSUME OwnRuns, OneScope PROVE Spec => []FailedIsFinal
<1>1. EntryInv => FailedIsFinal
    BY DEF EntryInv, ResultsTrue, Understood, FailedIsFinal
<1> QED
    BY <1>1, EntryInvariant, PTL

\* The lease is free over a settled account only.
THEOREM FreeLeaseIsSettled ==
    ASSUME OwnRuns, OneScope PROVE Spec => []FreeLeaseSettled
<1>1. ASSUME EntryInv PROVE FreeLeaseSettled
  <2> SUFFICES ASSUME lease = None, NEW i \in Intents
               PROVE  /\ owned[i] # None => latest[i].status \in Final
                      /\ i \in Understood => venue[i] \notin Live
    BY DEF FreeLeaseSettled
  <2>1. Settled(i)
    BY <1>1 DEF EntryInv, DoubtBlocks
  <2> QED
    BY <1>1, <2>1, SettledIsShut DEF EntryInv, StartInv, Open, Understood, Settled
<1> QED
    BY <1>1, EntryInvariant, PTL
=============================================================================
