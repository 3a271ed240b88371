--------------------------- MODULE EvidenceProofs ----------------------------
(***************************************************************************)
(* Proofs about what is read of the account and of the market, and about   *)
(* what is decided from it: a status observation (StatusRead), the evidence*)
(* of the account, the market and the liquidations (AccountEvidence,       *)
(* MarketEvidence, LiquidationEvidence), the evidence an operator's order  *)
(* leaves on (OperatorEvidence), the plan of the day against the account   *)
(* (PortfolioRisk) and the consent to it (PreparedReview).                 *)
(*                                                                         *)
(* In each the world goes on between two reads.  What a reader knows is    *)
(* therefore stated of the time it was told: what it saw was there then,   *)
(* what can no longer change since it was read, and what is read again     *)
(* because it may have changed.                                            *)
(***************************************************************************)
EXTENDS StatusRead, AccountEvidence, MarketEvidence, LiquidationEvidence,
        OperatorEvidence, PortfolioRisk, PreparedReview, Integers,
        FiniteSetTheorems, WellFoundedInduction, TLAPS

-----------------------------------------------------------------------------
(***************************************************************************)
(* The inductive invariant of a status run.                                 *)
(***************************************************************************)
World ==
    /\ ~entry.arrived => ~entry.live /\ entry.filled = 0
    /\ entry.live => entry.filled < Quantity
    /\ entry.arrived => sent.attempt \in {"accepted", "ambiguous"}
    /\ child.filled + sold <= entry.filled
    /\ declared => sold > 0

Concluded == look.verdict \notin {"none", "failed"}
Active == look.todo # {} \/ Concluded

\* The run knows that the order is out of the books.
Closed ==
    \/ \E o \in look.parents : ~o.live
    \/ look.parents = {} /\ look.declared /\ "realtime" \notin look.todo

\* It has only the acknowledgement.
Relied == look.parents = {} /\ ~look.declared /\ sent.attempt = "accepted"

Looked ==
    /\ \A o \in look.parents : o.arrived /\ entry.arrived /\ (~o.live => o = entry)
    /\ look.declared => sold > 0
    /\ Active /\ Closed => ~entry.live
    /\ Active /\ "position" \notin look.todo =>
          /\ look.todo \subseteq {"exits"}
          /\ Closed /\ look.position = 0 => Position = 0

Released ==
    /\ look.verdict = "known clean" =>
          look.position = 0 /\ (sent.attempt = "rejected" \/ Closed \/ Relied)
    /\ look.outcome = "TP_LIFECYCLE_PASS" =>
          Concluded /\ (Relied \/ (Closed /\ child.filled = entry.filled))
    /\ Concluded => look.todo = {}
    /\ Concluded /\ ParentSeen(look) => look.verdict = VerdictFor(look)

StatusInv == StatusTypeOK /\ World /\ Looked /\ Released

WorldStep ==
    \/ \E typed \in BOOLEAN, attempt \in {"accepted", "rejected", "ambiguous"} :
          Send(typed, attempt)
    \/ Arrives \/ EntryFills \/ EntryCancelled \/ Protect \/ ChildFills
    \/ CloseByHand \/ Declare

WorldTyped ==
    /\ sent \in Sent /\ entry \in EntryOrder /\ child \in Child
    /\ sold \in 0 .. Quantity /\ declared \in BOOLEAN

\* What the exchange may still do to what a run has seen.
Onwards ==
    /\ entry.arrived => entry'.arrived /\ sent' = sent
    /\ entry.arrived /\ ~entry.live => entry' = entry
    /\ entry.arrived /\ ~entry.live /\ Position = 0 => Position' = 0
    /\ entry.arrived /\ ~entry.live /\ child.filled = entry.filled =>
          child'.filled = entry'.filled
    /\ sent.attempt # "none" => sent' = sent
    /\ sold <= sold'
    /\ sold > 0 => entry.arrived

LEMMA StatusStarts == StatusInit => StatusInv
<1> SUFFICES ASSUME StatusInit PROVE StatusInv
  OBVIOUS
<1> USE DEF StatusInit
<1>0. Quantity \in Nat /\ 0 \in 0 .. Quantity
  BY QuantityAssumption
<1>1. sent \in Sent /\ entry \in EntryOrder /\ child \in Child
  BY <1>0 DEF Sent, EntryOrder, Child, Nowhere, NoChild
<1>2. Unread \in Observation
  BY <1>0 DEF Observation, Unread, Reads
<1>3. StatusTypeOK
  BY <1>0, <1>1, <1>2 DEF StatusTypeOK
<1>4. World
  BY QuantityAssumption DEF World, Nowhere, NoChild
<1>5. Looked
  BY DEF Looked, Active, Concluded, Unread
<1>6. Released
  BY DEF Released, Concluded, Unread
<1> QED
  BY <1>3, <1>4, <1>5, <1>6 DEF StatusInv

LEMMA WorldKept ==
    ASSUME WorldTyped, World, WorldStep
    PROVE  WorldTyped' /\ World' /\ Onwards
<1> USE DEF WorldTyped, World, Onwards, Position
<1>0. /\ Quantity \in Nat /\ 0 < Quantity
      /\ entry.arrived \in BOOLEAN /\ entry.live \in BOOLEAN
      /\ entry.filled \in 0 .. Quantity
      /\ child.live \in BOOLEAN
      /\ child.quantity \in 0 .. Quantity /\ child.filled \in 0 .. Quantity
  BY QuantityAssumption DEF EntryOrder, Child
<1>1. ASSUME NEW typed \in BOOLEAN, NEW attempt \in {"accepted", "rejected", "ambiguous"},
             Send(typed, attempt)
      PROVE  WorldTyped' /\ World' /\ Onwards
  <2>1. sent' \in Sent
    BY <1>1 DEF Send, Sent
  <2> QED
    BY <1>0, <1>1, <2>1 DEF Send
<1>2. CASE Arrives
  <2>1. entry' \in EntryOrder /\ entry'.arrived /\ entry'.filled = 0
    BY <1>0, <1>2 DEF Arrives, EntryOrder
  <2> QED
    BY <1>0, <1>2, <2>1 DEF Arrives
<1>3. CASE EntryFills
  <2>1. entry.filled + 1 \in 0 .. Quantity
    BY <1>0, <1>3 DEF EntryFills
  <2>2. /\ entry' \in EntryOrder /\ entry'.arrived = entry.arrived
        /\ entry'.filled = entry.filled + 1
    <3>1. (entry.filled + 1 < Quantity) \in BOOLEAN
      OBVIOUS
    <3> QED
      BY <1>3, <2>1, <3>1 DEF EntryFills, EntryOrder
  <2>3. entry'.live <=> entry.filled + 1 < Quantity
    BY <1>3 DEF EntryFills, EntryOrder
  <2> QED
    BY <1>0, <1>3, <2>2, <2>3 DEF EntryFills
<1>4. CASE EntryCancelled
  <2>1. /\ entry' \in EntryOrder /\ entry'.arrived = entry.arrived
        /\ entry'.filled = entry.filled /\ ~entry'.live
    BY <1>0, <1>4 DEF EntryCancelled, EntryOrder
  <2> QED
    BY <1>0, <1>4, <2>1 DEF EntryCancelled
<1>5. CASE Protect
  <2>1. child' \in Child /\ child'.filled = child.filled
    BY <1>0, <1>5 DEF Protect, Child
  <2> QED
    BY <1>0, <1>5, <2>1 DEF Protect
<1>6. CASE ChildFills
  <2>1. child.filled + 1 \in 0 .. Quantity
    BY <1>0, <1>6 DEF ChildFills
  <2>2. child' \in Child /\ child'.filled = child.filled + 1
    <3>1. (child.filled + 1 < child.quantity) \in BOOLEAN
      OBVIOUS
    <3> QED
      BY <1>6, <2>1, <3>1 DEF ChildFills, Child
  <2> QED
    BY <1>0, <1>6, <2>2 DEF ChildFills
<1>7. CASE CloseByHand
  <2>1. child' \in Child /\ child'.filled = child.filled
    BY <1>0, <1>7 DEF CloseByHand, Child
  <2> QED
    BY <1>0, <1>7, <2>1 DEF CloseByHand
<1>8. CASE Declare
  BY <1>0, <1>8 DEF Declare
<1> QED
  BY <1>1, <1>2, <1>3, <1>4, <1>5, <1>6, <1>7, <1>8 DEF WorldStep

LEMMA LookStays ==
    ASSUME WorldTyped, WorldTyped', Looked, Released, Onwards, look' = look
    PROVE  Looked' /\ Released'
<1>1. \A o \in look.parents : o.arrived /\ entry'.arrived /\ (~o.live => o = entry')
  BY DEF Looked, Onwards
<1>2. ASSUME Active, Closed
      PROVE  entry.arrived /\ ~entry.live
  BY <1>2 DEF Looked, Closed, Onwards
<1>3. look.declared => sold' > 0
  <2>1. sold \in 0 .. Quantity /\ sold' \in 0 .. Quantity /\ sold <= sold'
    BY DEF WorldTyped, Onwards
  <2> QED
    BY <2>1, QuantityAssumption DEF Looked
<1>4. /\ Active' <=> Active
      /\ Closed' <=> Closed
      /\ Concluded' <=> Concluded
  BY DEF Active, Closed, Concluded
<1>5. Active /\ Closed => ~entry'.live
  BY <1>2 DEF Onwards
<1>6. Active /\ "position" \notin look.todo /\ Closed /\ look.position = 0 => Position' = 0
  BY <1>2 DEF Onwards, Looked
<1>7. Looked'
  BY <1>1, <1>3, <1>4, <1>5, <1>6 DEF Looked
<1>8. sent.attempt = "rejected" \/ Relied => sent' = sent
  BY DEF Onwards, Relied
<1>9. Relied => Relied'
  BY <1>8 DEF Relied
<1>10. Concluded /\ Closed /\ child.filled = entry.filled => child'.filled = entry'.filled
  BY <1>2 DEF Onwards, Active
<1>11. ASSUME Concluded, ParentSeen(look)
       PROVE  look.verdict = VerdictFor(look)'
  <2>1. entry.arrived
    BY <1>11 DEF ParentSeen, Looked
  <2>2. sent' = sent
    BY <2>1 DEF Onwards
  <2> QED
    BY <1>11, <2>2 DEF Released, VerdictFor, NoReasons, FillsAttributed, ExitsAttributed,
       ParentMatches, PositionMatches, Cleanup, StillOpen, AcceptedNotVisible, OutcomeOf,
       ZeroFillsProven, ParentSeen, Parent, ChildSeen, ChildOf
<1>12. Released'
  BY <1>4, <1>8, <1>9, <1>10, <1>11 DEF Released, ParentSeen
<1> QED
  BY <1>7, <1>12

(***************************************************************************)
(* The reads.                                                               *)
(***************************************************************************)
LEMMA ShownListed ==
    ASSUME NEW orders, NEW where, NEW answered \in Shows(where, orders)
    PROVE  /\ answered \subseteq orders
           /\ where \in {"realtime", "symbol realtime"} =>
                 \A o \in orders : o.live => o \in answered
<1>1. CASE where \in {"realtime", "symbol realtime"}
  BY <1>1 DEF Shows
<1>2. CASE where \notin {"realtime", "symbol realtime"}
  BY <1>2 DEF Shows
<1> QED
  BY <1>1, <1>2

LEMMA FailedKept ==
    ASSUME look' = Failed, UNCHANGED <<sent, entry, child, sold, declared>>
    PROVE  look' \in Observation /\ Looked' /\ Released'
<1>1. /\ Failed \in Observation
      /\ Failed.todo = {} /\ Failed.parents = {} /\ ~Failed.declared
      /\ Failed.verdict = "failed" /\ Failed.outcome = "none"
  <2>1. 0 \in 0 .. Quantity
    BY QuantityAssumption
  <2> QED
    BY <2>1 DEF Failed, Unread, Observation, Reads
<1> QED
  BY <1>1 DEF Looked, Released, Active, Concluded, ParentSeen

LEMMA BeginsKept ==
    ASSUME StatusTypeOK, World, Begins
    PROVE  look' \in Observation /\ Looked' /\ Released'
<1>1. /\ look' \in Observation
      /\ look'.todo = Reads /\ look'.parents = {} /\ look'.declared = declared
      /\ look'.verdict = "none" /\ look'.outcome = "none"
  <2>1. 0 \in 0 .. Quantity
    BY QuantityAssumption
  <2>2. Unread \in Observation
    BY <2>1 DEF Unread, Observation, Reads
  <2> QED
    BY <2>1, <2>2 DEF Begins, Unread, Observation, StatusTypeOK
<1> QED
  BY <1>1 DEF Looked, Released, Active, Concluded, ParentSeen, Closed, World, Begins, Reads

LEMMA LookUpKept ==
    ASSUME StatusInv, NEW read, LookUp(read), UNCHANGED <<sent, entry, child, sold, declared>>
    PROVE  look' \in Observation /\ Looked' /\ Released'
<1> USE DEF StatusInv
<1>1. PICK answered \in Shows(read, EntryListed) :
          look' = Deduplicated([look EXCEPT !.todo = @ \ {read},
                                            !.parents = @ \cup answered])
  BY DEF LookUp
<1> DEFINE seen == [look EXCEPT !.todo = @ \ {read}, !.parents = @ \cup answered]
<1>2. read \in {"realtime", "history"} /\ read \in look.todo
  BY DEF LookUp, Ready
<1>3. /\ answered \subseteq EntryListed
      /\ read = "realtime" => \A o \in EntryListed : o.live => o \in answered
  BY ShownListed
<1>4. CASE look' = Failed
  BY <1>4, FailedKept
<1>5. CASE look' = seen
  <2>1. look \in Observation /\ entry \in EntryOrder
    BY DEF StatusTypeOK
  <2>2. answered \subseteq EntryOrder /\ look.todo \ {read} \subseteq Reads
    BY <1>3, <2>1 DEF EntryListed, Observation
  <2>3. /\ look' \in Observation
        /\ look'.todo = look.todo \ {read} /\ look'.parents = look.parents \cup answered
        /\ look'.declared = look.declared /\ look'.verdict = look.verdict
        /\ look'.outcome = look.outcome /\ look'.position = look.position
    <3>1. look.parents \cup answered \in SUBSET EntryOrder
      BY <2>1, <2>2 DEF Observation
    <3> QED
      BY <1>5, <2>1, <2>2, <3>1 DEF Observation
  <2>4. ~Concluded /\ look.todo # {}
    BY <1>2 DEF Released
  <2>5. Active /\ "position" \in look.todo
    BY <1>2, <2>4 DEF Active, Looked
  <2>6. \A o \in answered : entry.arrived /\ o = entry
    BY <1>3 DEF EntryListed
  <2>7. \A o \in look'.parents : o.arrived /\ entry.arrived /\ (~o.live => o = entry)
    BY <2>3, <2>6 DEF Looked
  <2>8. ASSUME Closed'
        PROVE  ~entry.live
    <3>1. CASE \E o \in look'.parents : ~o.live
      BY <2>7, <3>1
    <3>2. CASE look'.parents = {} /\ look'.declared /\ "realtime" \notin look'.todo
      <4>1. CASE "realtime" \notin look.todo
        BY <2>3, <2>5, <3>2, <4>1 DEF Closed, Looked
      <4>2. CASE "realtime" \in look.todo
        <5>1. read = "realtime"
          BY <2>3, <3>2, <4>2
        <5>2. entry.arrived
          <6>1. sold > 0
            BY <2>3, <3>2 DEF Looked
          <6> QED
            BY <6>1, <2>1, QuantityAssumption DEF World, StatusTypeOK, Child
        <5>3. entry \in EntryListed
          BY <5>2 DEF EntryListed
        <5> QED
          BY <1>3, <2>3, <3>2, <5>1, <5>3
      <4> QED
        BY <4>1, <4>2
    <3> QED
      BY <2>8, <3>1, <3>2 DEF Closed
  <2>9. Looked'
    BY <1>2, <2>3, <2>5, <2>7, <2>8 DEF Looked
  <2>10. look.verdict # "known clean" /\ look.outcome # "TP_LIFECYCLE_PASS"
    BY <2>4 DEF Released, Concluded
  <2> QED
    BY <2>3, <2>4, <2>9, <2>10 DEF Released, Concluded
<1> QED
  <2>1. Deduplicated(seen) \in {Failed, seen}
    BY DEF Deduplicated
  <2> QED
    BY <1>1, <1>4, <1>5, <2>1

\* A read that leaves the lookups alone and is not the position.
LEMMA FurtherRead ==
    ASSUME StatusInv, UNCHANGED <<sent, entry, child, sold, declared>>,
           NEW read \in Reads \ {"position", "realtime", "history"},
           look' \in Observation,
           read \in look.todo, look'.todo = look.todo \ {read},
           look'.parents = look.parents, look'.declared = look.declared,
           look'.position = look.position,
           look'.verdict = look.verdict, look'.outcome = look.outcome
    PROVE  Looked' /\ Released'
<1> USE DEF StatusInv
<1>1. ~Concluded /\ Active
  BY DEF Released, Active
<1>2. /\ look.verdict # "known clean" /\ look.outcome # "TP_LIFECYCLE_PASS"
  BY <1>1 DEF Released, Concluded
<1>3. Closed' <=> Closed
  BY DEF Closed
<1>4. ~Concluded'
  BY <1>1 DEF Concluded
<1>5. "position" \notin look'.todo => "position" \notin look.todo
  OBVIOUS
<1>6. Active' /\ "position" \notin look'.todo =>
          look'.todo \subseteq {"exits"} /\ (Closed' /\ look'.position = 0 => Position' = 0)
  BY <1>1, <1>3, <1>5 DEF Looked, Position
<1>7. Active' /\ Closed' => ~entry.live
  BY <1>1, <1>3 DEF Looked
<1>8. Looked'
  BY <1>6, <1>7 DEF Looked
<1> QED
  BY <1>2, <1>4, <1>8 DEF Released, Concluded

LEMMA ReadEntryFillsKept ==
    ASSUME StatusInv, ReadEntryFills, UNCHANGED <<sent, entry, child, sold, declared>>
    PROVE  look' \in Observation /\ Looked' /\ Released'
<1>1. "fills" \in look.todo
  BY DEF ReadEntryFills, Ready
<1>2. look \in Observation /\ entry.filled \in 0 .. Quantity
  BY DEF StatusInv, StatusTypeOK, EntryOrder
<1>3. look.todo \ {"fills"} \in SUBSET Reads
  BY <1>2 DEF Observation
<1>4. /\ look' \in Observation
      /\ look'.todo = look.todo \ {"fills"}
      /\ look'.parents = look.parents /\ look'.declared = look.declared
      /\ look'.position = look.position
      /\ look'.verdict = look.verdict /\ look'.outcome = look.outcome
  BY <1>2, <1>3 DEF ReadEntryFills, Observation
<1>5. "fills" \in Reads \ {"position", "realtime", "history"}
  BY DEF Reads
<1> QED
  BY <1>1, <1>4, <1>5, FurtherRead

LEMMA ReadSymbolKept ==
    ASSUME StatusInv, NEW read, ReadSymbol(read),
           UNCHANGED <<sent, entry, child, sold, declared>>
    PROVE  look' \in Observation /\ Looked' /\ Released'
<1>1. PICK entries \in Shows(read, EntryListed), children \in Shows(read, ChildListed) :
          look' = Deduplicated([look EXCEPT !.todo = @ \ {read},
                                            !.entries = @ \cup entries,
                                            !.children = @ \cup children])
  BY DEF ReadSymbol
<1> DEFINE seen == [look EXCEPT !.todo = @ \ {read}, !.entries = @ \cup entries,
                                !.children = @ \cup children]
<1>2. CASE look' = Failed
  BY <1>2, FailedKept
<1>3. CASE look' = seen
  <2>1. read \in {"symbol realtime", "symbol history"} /\ read \in look.todo
    BY DEF ReadSymbol, Ready
  <2>2. look \in Observation /\ entry \in EntryOrder /\ child \in Child
    BY DEF StatusInv, StatusTypeOK
  <2>3. entries \subseteq EntryOrder /\ children \subseteq Child
    <3>1. EntryListed \subseteq EntryOrder /\ ChildListed \subseteq Child
      BY <2>2 DEF EntryListed, ChildListed
    <3>2. entries \subseteq EntryListed /\ children \subseteq ChildListed
      BY ShownListed
    <3> QED
      BY <3>1, <3>2
  <2>4. /\ look.todo \ {read} \in SUBSET Reads
        /\ look.entries \cup entries \in SUBSET EntryOrder
        /\ look.children \cup children \in SUBSET Child
    BY <2>2, <2>3 DEF Observation
  <2>5. /\ look' \in Observation
        /\ look'.todo = look.todo \ {read}
        /\ look'.parents = look.parents /\ look'.declared = look.declared
        /\ look'.position = look.position
        /\ look'.verdict = look.verdict /\ look'.outcome = look.outcome
    BY <1>3, <2>2, <2>4 DEF Observation
  <2>6. read \in Reads \ {"position", "realtime", "history"}
    BY <2>1 DEF Reads
  <2> QED
    BY <2>1, <2>5, <2>6, FurtherRead
<1> QED
  <2>1. Deduplicated(seen) \in {Failed, seen}
    BY DEF Deduplicated
  <2> QED
    BY <1>1, <1>2, <1>3, <2>1

LEMMA ReadPositionKept ==
    ASSUME StatusInv, ReadPosition, UNCHANGED <<sent, entry, child, sold, declared>>
    PROVE  look' \in Observation /\ Looked' /\ Released'
<1> USE DEF StatusInv
<1>1. "position" \in look.todo /\ look.todo \subseteq {"position", "exits"}
  BY DEF ReadPosition, Ready
<1>2. look \in Observation /\ Position \in 0 .. Quantity
  BY QuantityAssumption DEF StatusTypeOK, EntryOrder, Child, World, Position
<1>3. look.todo \ {"position"} \in SUBSET Reads
  BY <1>2 DEF Observation
<1>4. /\ look' \in Observation
      /\ look'.todo = look.todo \ {"position"}
      /\ look'.parents = look.parents /\ look'.declared = look.declared
      /\ look'.position = Position
      /\ look'.verdict = look.verdict /\ look'.outcome = look.outcome
  BY <1>2, <1>3 DEF ReadPosition, Observation
<1>5. ~Concluded /\ Active
  BY <1>1 DEF Released, Active
<1>6. look.verdict # "known clean" /\ look.outcome # "TP_LIFECYCLE_PASS"
  BY <1>5 DEF Released, Concluded
<1>7. Closed' => Closed
  BY <1>1, <1>4 DEF Closed
<1>8. look'.todo \subseteq {"exits"} /\ Position' = Position
  BY <1>1, <1>4 DEF Position
<1>9. Looked'
  BY <1>4, <1>5, <1>7, <1>8 DEF Looked
<1> QED
  BY <1>4, <1>5, <1>6, <1>9 DEF Released, Concluded

(***************************************************************************)
(* The conclusion.                                                          *)
(***************************************************************************)
LEMMA ZeroOrMore == \A n \in Nat : n > 0 <=> n # 0
OBVIOUS

LEMMA KnownClean ==
    ASSUME NEW seen, seen.position \in Nat, seen.fills \in Nat,
           VerdictFor(seen) = "known clean"
    PROVE  /\ seen.position = 0
           /\ \/ sent.attempt = "rejected"
              \/ \E o \in seen.parents : ~o.live
              \/ seen.parents = {} /\ seen.declared
              \/ seen.parents = {} /\ ~seen.declared /\ sent.attempt = "accepted"
<1>1. /\ NoReasons(seen) /\ Cleanup(seen) # "pending" /\ ~AcceptedNotVisible(seen)
      /\ OutcomeOf(seen) # "UNKNOWN"
  BY DEF VerdictFor
<1>2. ~StillOpen(seen) /\ ~(seen.position > 0)
  BY <1>1 DEF Cleanup
<1>3. seen.position = 0
  BY <1>2, ZeroOrMore
<1>4. CASE seen.parents # {}
  <2>1. Parent(seen) \in seen.parents
    BY <1>4 DEF Parent
  <2>2. ~Parent(seen).live
    BY <1>2, <1>4 DEF StillOpen, ParentSeen
  <2> QED
    BY <1>3, <2>1, <2>2
<1>5. CASE seen.parents = {} /\ ~seen.declared
  <2>1. CASE ZeroFillsProven(seen)
    BY <1>3, <1>5, <2>1 DEF ZeroFillsProven, ParentSeen
  <2>2. CASE ~ZeroFillsProven(seen)
    <3>1. seen.fills > 0
      BY <1>1, <1>5, <2>2 DEF OutcomeOf
    <3>2. ~ParentSeen(seen) /\ seen.fills # 0
      BY <1>5, <3>1, ZeroOrMore DEF ParentSeen
    <3>3. sent.attempt = "accepted"
      BY <1>1, <3>2 DEF NoReasons, FillsAttributed
    <3> QED
      BY <1>3, <1>5, <3>3
  <2> QED
    BY <2>1, <2>2
<1> QED
  BY <1>3, <1>4, <1>5

LEMMA LifecyclePassed ==
    ASSUME NEW seen, seen.position \in Nat, seen.fills \in Nat,
           OutcomeOf(seen) = "TP_LIFECYCLE_PASS"
    PROVE  \/ seen.parents = {} /\ ~seen.declared /\ sent.attempt = "accepted"
           \/ /\ \E o \in seen.parents : ~o.live /\ o.filled = seen.fills
              /\ ChildSeen(seen) /\ seen.exits = seen.fills
<1>1. /\ NoReasons(seen) /\ ~seen.declared /\ seen.fills > 0 /\ ChildSeen(seen)
      /\ seen.exits = seen.fills /\ Cleanup(seen) = "clean"
  BY DEF OutcomeOf
<1>2. ~StillOpen(seen)
  BY <1>1 DEF Cleanup
<1>3. CASE seen.parents = {}
  BY <1>1, <1>3 DEF NoReasons, FillsAttributed, ParentSeen
<1>4. CASE seen.parents # {}
  <2>1. Parent(seen) \in seen.parents
    BY <1>4 DEF Parent
  <2>2. ~Parent(seen).live
    BY <1>2, <1>4 DEF StillOpen, ParentSeen
  <2>3. Parent(seen).filled = seen.fills
    BY <1>1, <1>4 DEF NoReasons, ParentMatches, ParentSeen
  <2> QED
    BY <1>1, <2>1, <2>2, <2>3
<1> QED
  BY <1>3, <1>4

\* A verdict depends on what was read, not on the verdict.
LEMMA SameReads ==
    ASSUME NEW seen, NEW told,
           seen.parents = told.parents, seen.fills = told.fills,
           seen.entries = told.entries, seen.children = told.children,
           seen.position = told.position, seen.exits = told.exits,
           seen.declared = told.declared
    PROVE  VerdictFor(seen) = VerdictFor(told)
<1>1. /\ ParentSeen(seen) = ParentSeen(told) /\ Parent(seen) = Parent(told)
      /\ ChildSeen(seen) = ChildSeen(told) /\ ChildOf(seen) = ChildOf(told)
  BY DEF ParentSeen, Parent, ChildSeen, ChildOf
<1>2. NoReasons(seen) <=> NoReasons(told)
  <2>1. FillsAttributed(seen) <=> FillsAttributed(told)
    BY <1>1 DEF FillsAttributed
  <2>2. ExitsAttributed(seen) <=> ExitsAttributed(told)
    BY <1>1 DEF ExitsAttributed
  <2>3. ParentMatches(seen) <=> ParentMatches(told)
    BY <1>1 DEF ParentMatches
  <2>4. PositionMatches(seen) <=> PositionMatches(told)
    BY DEF PositionMatches
  <2> QED
    BY <2>1, <2>2, <2>3, <2>4 DEF NoReasons
<1>3. Cleanup(seen) = Cleanup(told)
  <2>1. StillOpen(seen) <=> StillOpen(told)
    BY <1>1 DEF StillOpen
  <2> QED
    BY <2>1 DEF Cleanup
<1>4. ZeroFillsProven(seen) <=> ZeroFillsProven(told)
  BY <1>1 DEF ZeroFillsProven
<1>5. AcceptedNotVisible(seen) <=> AcceptedNotVisible(told)
  BY <1>1, <1>3 DEF AcceptedNotVisible
<1>6. OutcomeOf(seen) = OutcomeOf(told)
  BY <1>1, <1>2, <1>3, <1>4, <1>5 DEF OutcomeOf
<1> QED
  BY <1>2, <1>3, <1>5, <1>6 DEF VerdictFor

LEMMA ConcludeKept ==
    ASSUME StatusInv, Conclude, UNCHANGED <<sent, entry, child, sold, declared>>
    PROVE  look' \in Observation /\ Looked' /\ Released'
<1> DEFINE seen == [look EXCEPT !.todo = {},
                                !.exits = IF ChildSeen(look) THEN child.filled ELSE 0]
<1>1. look.todo = {"exits"}
  BY DEF Conclude, Ready
<1>2. /\ look \in Observation
      /\ Quantity \in Nat /\ 0 \in 0 .. Quantity /\ child.filled \in 0 .. Quantity
  BY QuantityAssumption DEF StatusInv, StatusTypeOK, Child
<1>3. /\ seen \in Observation /\ seen.todo = {}
      /\ seen.exits = IF ChildSeen(look) THEN child.filled ELSE 0
      /\ seen.parents = look.parents /\ seen.fills = look.fills
      /\ seen.entries = look.entries /\ seen.children = look.children
      /\ seen.position = look.position /\ seen.declared = look.declared
  BY <1>2 DEF Observation
<1>4. look' = [seen EXCEPT !.verdict = VerdictFor(seen), !.outcome = OutcomeOf(seen)]
  BY DEF Conclude
<1> HIDE DEF seen
<1>5. VerdictFor(seen) \in {"known clean", "unknown clean", "pending", "unknown"}
  BY DEF VerdictFor
<1>6. OutcomeOf(seen) \in {"NOT_EXERCISED", "PARTIAL_EVIDENCE", "MANUAL_CLEANUP",
                           "TP_LIFECYCLE_PASS", "UNKNOWN"}
  BY DEF OutcomeOf
<1>7. /\ look' \in Observation /\ look'.todo = {}
      /\ look'.verdict = VerdictFor(seen) /\ look'.outcome = OutcomeOf(seen)
      /\ look'.parents = look.parents /\ look'.fills = look.fills
      /\ look'.entries = look.entries /\ look'.children = look.children
      /\ look'.exits = seen.exits
      /\ look'.position = look.position /\ look'.declared = look.declared
  BY <1>3, <1>4, <1>5, <1>6 DEF Observation
<1>8. Concluded'
  BY <1>5, <1>7 DEF Concluded
<1>9. Active /\ "position" \notin look.todo
  BY <1>1 DEF Active
<1>10. Closed' <=> Closed
  BY <1>1, <1>7 DEF Closed
<1>11. Closed => ~entry.live /\ (look.position = 0 => Position = 0)
  BY <1>9 DEF StatusInv, Looked
<1>12. Looked'
  BY <1>7, <1>10, <1>11 DEF StatusInv, Looked, Position
<1>13. seen.position \in Nat /\ seen.fills \in Nat
  <2>1. look.position \in 0 .. Quantity /\ look.fills \in 0 .. Quantity
    BY <1>2 DEF Observation
  <2> QED
    BY <1>2, <1>3, <2>1
<1>14. ASSUME VerdictFor(seen) = "known clean"
       PROVE  look'.position = 0 /\ (sent.attempt = "rejected" \/ Closed' \/ Relied')
  BY <1>3, <1>7, <1>13, <1>14, KnownClean DEF Closed, Relied
<1>15. ASSUME OutcomeOf(seen) = "TP_LIFECYCLE_PASS"
       PROVE  Relied' \/ (Closed' /\ child.filled = entry.filled)
  <2>1. CASE seen.parents = {} /\ ~seen.declared /\ sent.attempt = "accepted"
    BY <1>3, <1>7, <2>1 DEF Relied
  <2>2. CASE /\ \E o \in seen.parents : ~o.live /\ o.filled = seen.fills
             /\ ChildSeen(seen) /\ seen.exits = seen.fills
    <3>1. PICK o \in look.parents : ~o.live /\ o.filled = look.fills
      BY <1>3, <2>2
    <3>2. entry.filled = look.fills
      BY <3>1 DEF StatusInv, Looked
    <3>3. child.filled = look.fills
      BY <1>3, <2>2 DEF ChildSeen
    <3>4. Closed'
      BY <1>7, <3>1 DEF Closed
    <3> QED
      BY <3>2, <3>3, <3>4
  <2> QED
    BY <1>13, <1>15, <2>1, <2>2, LifecyclePassed
<1>16. VerdictFor(look)' = VerdictFor(seen)
  <2>1. VerdictFor(look') = VerdictFor(seen)
    BY <1>3, <1>7, SameReads
  <2>2. VerdictFor(look)' = VerdictFor(look')
    BY DEF VerdictFor, NoReasons, FillsAttributed, ExitsAttributed,
       ParentMatches, PositionMatches, Cleanup, StillOpen, AcceptedNotVisible, OutcomeOf,
       ZeroFillsProven, ParentSeen, Parent, ChildSeen, ChildOf
  <2> QED
    BY <2>1, <2>2
<1>17. Released'
  BY <1>7, <1>8, <1>14, <1>15, <1>16 DEF Released
<1> QED
  BY <1>7, <1>12, <1>17

(***************************************************************************)
(* The theorems.                                                            *)
(***************************************************************************)
LEMMA StatusStep == StatusInv /\ [StatusNext]_statusVars => StatusInv'
<1> SUFFICES ASSUME StatusInv, [StatusNext]_statusVars PROVE StatusInv'
  OBVIOUS
<1>1. WorldTyped /\ World /\ Looked /\ Released /\ look \in Observation
  BY DEF StatusInv, StatusTypeOK, WorldTyped
<1>2. CASE WorldStep
  <2>1. WorldTyped' /\ World' /\ Onwards
    BY <1>1, <1>2, WorldKept
  <2>2. look' = look
    BY <1>2 DEF WorldStep, Send, Arrives, EntryFills, EntryCancelled, Protect, ChildFills,
       CloseByHand, Declare
  <2>3. Looked' /\ Released'
    BY <1>1, <2>1, <2>2, LookStays
  <2> QED
    BY <1>1, <2>1, <2>2, <2>3 DEF StatusInv, StatusTypeOK, WorldTyped
<1>3. ASSUME UNCHANGED <<sent, entry, child, sold, declared>>,
             look' \in Observation /\ Looked' /\ Released'
      PROVE  StatusInv'
  BY <1>1, <1>3 DEF StatusInv, StatusTypeOK, WorldTyped, World
<1>4. CASE Begins
  BY <1>3, <1>4, BeginsKept DEF StatusInv, Begins
<1>5. CASE Reading
  <2>1. UNCHANGED <<sent, entry, child, sold, declared>>
    BY <1>5 DEF Reading
  <2>2. ASSUME NEW read \in Reads, LookUp(read) \/ ReadSymbol(read)
        PROVE  look' \in Observation /\ Looked' /\ Released'
    BY <2>1, <2>2, LookUpKept, ReadSymbolKept
  <2>3. ReadFails => look' \in Observation /\ Looked' /\ Released'
    BY <2>1, FailedKept DEF ReadFails
  <2> QED
    BY <1>3, <1>5, <2>1, <2>2, <2>3, ReadEntryFillsKept, ReadPositionKept, ConcludeKept
    DEF Reading
<1>6. CASE UNCHANGED statusVars
  <2>1. look' = look /\ UNCHANGED <<sent, entry, child, sold, declared>>
    BY <1>6 DEF statusVars
  <2>2. WorldTyped' /\ Onwards
    <3>1. WorldTyped'
      BY <1>1, <2>1 DEF WorldTyped
    <3>2. sold > 0 => entry.arrived
      BY <1>1, QuantityAssumption DEF WorldTyped, World, Child
    <3>3. sold \in Nat
      BY <1>1, QuantityAssumption DEF WorldTyped
    <3> QED
      BY <2>1, <3>1, <3>2, <3>3 DEF Onwards, Position
  <2>3. Looked' /\ Released'
    BY <1>1, <2>1, <2>2, LookStays
  <2> QED
    BY <1>1, <1>3, <2>1, <2>3
<1> QED
  BY <1>2, <1>4, <1>5, <1>6 DEF StatusNext, WorldStep

\* A status run and the exchange it looks at keep their types, and what the run has
\* read fits together with what the exchange has become since (observe, classify).
THEOREM StatusIsTyped == StatusSpec => []StatusTypeOK
<1>1. StatusInv => StatusTypeOK
  BY DEF StatusInv
<1> QED
  BY <1>1, StatusStarts, StatusStep, PTL DEF StatusSpec

\* However the order is filled, cancelled, sold by its take-profit or by hand between
\* any two reads of a status run, a known and clean verdict is given only for an order
\* that exposes the account no more, TP_LIFECYCLE_PASS only when all of it was sold by
\* the take-profit, and true reads of an order nobody touched never end in doubt
\* (classify, hasLatestApiVerifiedCleanReconciliation).
THEOREM VerdictsHoldUp == StatusSpec => []VerdictsAreTrue
<1>1. StatusInv => VerdictsAreTrue
  <2> SUFFICES ASSUME StatusInv PROVE VerdictsAreTrue
    OBVIOUS
  <2> USE DEF StatusInv
  <2>0. /\ Quantity \in Nat /\ entry \in EntryOrder /\ child \in Child
        /\ entry.filled \in 0 .. Quantity /\ child.filled \in 0 .. Quantity
        /\ child.quantity \in 0 .. Quantity
        /\ sold \in 0 .. Quantity /\ child.filled + sold <= entry.filled
    BY QuantityAssumption DEF StatusTypeOK, EntryOrder, Child, World
  <2>1. Found => ~Relied
    BY DEF Found, Relied, ParentSeen
  <2>2. ASSUME Found, look.verdict = "known clean"
        PROVE  ~StillExposed
    <3>1. look.position = 0 /\ (sent.attempt = "rejected" \/ Closed)
      BY <2>1, <2>2 DEF Released
    <3>2. CASE sent.attempt = "rejected"
      <4>1. ~entry.live /\ entry.filled = 0
        BY <3>2 DEF World
      <4>2. ~(Position > 0)
        BY <2>0, <4>1 DEF Position
      <4> QED
        BY <4>1, <4>2 DEF StillExposed
    <3>3. CASE Closed
      <4>1. Active /\ "position" \notin look.todo
        BY <2>2 DEF Active, Concluded, Released
      <4>2. ~entry.live /\ Position = 0
        BY <3>1, <3>3, <4>1 DEF Looked
      <4> QED
        BY <4>2 DEF StillExposed
    <3> QED
      BY <3>1, <3>2, <3>3
  <2>3. ASSUME Found, look.outcome = "TP_LIFECYCLE_PASS"
        PROVE  child.filled = entry.filled /\ sold = 0
    <3>1. child.filled = entry.filled
      BY <2>1, <2>3 DEF Released
    <3> QED
      BY <2>0, <3>1
  <2>4. ASSUME Truthful, sold = 0, entry.arrived, child.quantity = entry.filled
        PROVE  look.verdict \in {"pending", "known clean"}
    <3>1. /\ look.parents = {entry}
          /\ look.children = (IF child.quantity > 0 THEN {child} ELSE {})
          /\ look.fills = entry.filled /\ look.exits = child.filled
          /\ look.position = look.fills - look.exits
      <4>1. Position = entry.filled - child.filled
        BY <2>0, <2>4 DEF Position
      <4> QED
        BY <2>4, <4>1 DEF Truthful, EntryListed, ChildListed
    <3>2. ParentSeen(look) /\ Parent(look) = entry
      BY <3>1 DEF ParentSeen, Parent
    <3>3. ChildSeen(look) => ChildOf(look) = child
      BY <3>1 DEF ChildSeen, ChildOf
    <3>4. look.fills > 0 => ChildSeen(look)
      BY <2>4, <3>1 DEF ChildSeen
    <3>5. NoReasons(look)
      <4>1. FillsAttributed(look)
        BY <3>2 DEF FillsAttributed
      <4>2. ExitsAttributed(look)
        BY <2>0, <3>1, <3>3 DEF ExitsAttributed
      <4>3. ParentMatches(look)
        BY <2>4, <3>1, <3>2, <3>3, <3>4 DEF ParentMatches
      <4>4. PositionMatches(look)
        BY <3>1 DEF PositionMatches
      <4> QED
        BY <4>1, <4>2, <4>3, <4>4 DEF NoReasons
    <3>6. OutcomeOf(look) # "UNKNOWN"
      <4>1. look.fills = 0 => ZeroFillsProven(look)
        BY <3>1, <3>2 DEF ZeroFillsProven
      <4>2. look.fills = 0 \/ look.fills > 0
        BY <2>0, <3>1
      <4> QED
        BY <3>4, <3>5, <4>1, <4>2 DEF OutcomeOf
    <3>7. look.verdict = VerdictFor(look)
      BY <2>4, <3>2 DEF Truthful, Released, Concluded
    <3> QED
      BY <3>5, <3>6, <3>7 DEF VerdictFor
  <2> QED
    BY <2>2, <2>3, <2>4 DEF VerdictsAreTrue
<1> QED
  BY <1>1, StatusStarts, StatusStep, PTL DEF StatusSpec

-----------------------------------------------------------------------------
(***************************************************************************)
(* The evidence of the account.                                            *)
(***************************************************************************)
\* An order and a position are of a coin that is listed; what a pass has read was there.
ReadWasThere ==
    /\ \A c \in Coins : (account.order[c] # "never" \/ account.position[c] # "never")
                            => c \in account.listed
    /\ \A pass \in {"A", "B"} :
          /\ \A c \in shown[pass].orders : account.order[c] # "never"
          /\ \A c \in shown[pass].positions : account.position[c] # "never"

\* There is no cutoff before its step, pass B comes behind it, and there is no partition
\* to read outside the passes.
PassesInOrder ==
    /\ (gather.step \in {"begin", "identity", "discover", "A", "cutoff", "history"})
          => (shown["B"].orders = {} /\ shown["B"].positions = {})
    /\ (gather.step \in {"begin", "identity", "discover", "A", "cutoff"}) => (gather.cutoff = {})
    /\ (gather.step \notin {"A", "B"}) => (gather.todo = {})

\* What pass A showed and was not there at the cutoff is gone, and pass B cannot show it.
PassesEnclose ==
    \A then \in gather.cutoff :
        /\ \A c \in shown["A"].orders : c \in then.orders \/ account.order[c] = "gone"
        /\ \A c \in shown["A"].positions : c \in then.positions \/ account.position[c] = "gone"
        /\ shown["A"].orders \cap shown["B"].orders \subseteq then.orders
        /\ shown["A"].positions \cap shown["B"].positions \subseteq then.positions

\* What was there at the cutoff had come by then, and so had its coin.
CutoffHadCome ==
    \A then \in gather.cutoff :
        /\ \A c \in then.orders : account.order[c] # "never"
        /\ \A c \in then.positions : account.position[c] # "never"

\* While no gap is open, pass B has what lasts of every coin it was to read, or is still
\* to read it.
PassBCovers ==
    (gather.gap # "open" /\ gather.step \in {"B", "rediscover", "close", "ended"}) =>
        \A then \in gather.cutoff, c \in gather.first :
            /\ (c \in then.orders /\ account.order[c] = "there") =>
                  (<<"open-orders", c>> \in gather.todo \/ c \in shown["B"].orders)
            /\ (c \in then.positions /\ account.position[c] = "there") =>
                  (<<"positions", c>> \in gather.todo \/ c \in shown["B"].positions)

\* The second discovery finds the coins of what was there at the cutoff.
SecondFindsAll ==
    (gather.gap # "open" /\ gather.step \in {"close", "ended"}) =>
        \A then \in gather.cutoff : (then.orders \cup then.positions) \subseteq gather.second

EvidenceInv ==
    /\ EvidenceTypeOK /\ ReadWasThere /\ PassesInOrder /\ PassesEnclose
    /\ CutoffHadCome /\ PassBCovers /\ SecondFindsAll

LEMMA EvidenceStarts == EvidenceInit => EvidenceInv
<1> SUFFICES ASSUME EvidenceInit PROVE EvidenceInv
  OBVIOUS
<1>1. EvidenceTypeOK
  BY ListedAssumption
  DEF EvidenceInit, EvidenceTypeOK, Account, Gathering, PassReading, Nothing, Existence, Steps
<1> QED
  BY <1>1 DEF EvidenceInit, EvidenceInv, ReadWasThere, PassesInOrder, PassesEnclose,
     CutoffHadCome, PassBCovers, SecondFindsAll, Nothing

\* What lives goes, and what has gone stays away; the catalogue only grows.
LEMMA AccountGoesOn ==
    ASSUME EvidenceTypeOK, ReadWasThere, AccountMoves
    PROVE  /\ account' \in Account
           /\ \A c \in Coins :
                 /\ (account.order[c] # "never") => (account'.order[c] # "never")
                 /\ (account.order[c] = "gone") => (account'.order[c] = "gone")
                 /\ (account.position[c] # "never") => (account'.position[c] # "never")
                 /\ (account.position[c] = "gone") => (account'.position[c] = "gone")
                 /\ (account'.order[c] # "never" \/ account'.position[c] # "never")
                       => c \in account'.listed
           /\ account.listed \subseteq account'.listed
<1>1. account \in Account
  BY DEF EvidenceTypeOK
<1>2. CASE Accrue
  BY <1>1, <1>2 DEF Accrue, Account, ReadWasThere
<1>3. ASSUME NEW c \in Coins, Place(c) \/ Cancel(c)
      PROVE  /\ account' \in Account /\ account.listed = account'.listed
             /\ account'.position = account.position
             /\ \A d \in Coins : \/ account'.order[d] = account.order[d]
                                 \/ /\ d = c /\ account.order[d] # "gone"
                                    /\ account'.order[d] # "never" /\ d \in account.listed
  BY <1>1, <1>3 DEF Place, Cancel, Account, Existence, ReadWasThere
<1>4. ASSUME NEW c \in Coins, FillAt(c)
      PROVE  /\ account' \in Account /\ account.listed = account'.listed
             /\ \A d \in Coins : \/ /\ account'.order[d] = account.order[d]
                                    /\ account'.position[d] = account.position[d]
                                 \/ /\ d = c /\ d \in account.listed
                                    /\ account'.order[d] = "gone"
                                    /\ account.position[d] = "never"
                                    /\ account'.position[d] = "there"
  <2>1. PICK amount \in account.amount .. 1 :
           account' = [account EXCEPT !.order[c] = "gone", !.position[c] = "there",
                                      !.amount = amount]
    BY <1>4 DEF FillAt
  <2>2. amount \in 0 .. 1
    BY <1>1, <2>1 DEF Account
  <2> QED
    BY <1>1, <1>4, <2>1, <2>2 DEF FillAt, Account, Existence, ReadWasThere
<1>5. ASSUME NEW c \in Coins, ClosePosition(c)
      PROVE  /\ account' \in Account /\ account.listed = account'.listed
             /\ account'.order = account.order
             /\ \A d \in Coins : \/ account'.position[d] = account.position[d]
                                 \/ /\ d = c /\ account.position[d] # "never"
                                    /\ account'.position[d] = "gone"
  BY <1>1, <1>5 DEF ClosePosition, Account, Existence
<1>6. ASSUME NEW c \in Coins, List(c)
      PROVE  /\ account' \in Account /\ account.listed \subseteq account'.listed
             /\ account'.order = account.order /\ account'.position = account.position
  BY <1>1, <1>6 DEF List, Account
<1>7. \A c \in Coins : (account.order[c] # "never" \/ account.position[c] # "never")
                          => c \in account.listed
  BY DEF ReadWasThere
<1>8. ASSUME NEW c \in Coins, Place(c) \/ Cancel(c) \/ FillAt(c) \/ ClosePosition(c) \/ List(c)
      PROVE  /\ account' \in Account
             /\ \A d \in Coins :
                   /\ (account.order[d] # "never") => (account'.order[d] # "never")
                   /\ (account.order[d] = "gone") => (account'.order[d] = "gone")
                   /\ (account.position[d] # "never") => (account'.position[d] # "never")
                   /\ (account.position[d] = "gone") => (account'.position[d] = "gone")
                   /\ (account'.order[d] # "never" \/ account'.position[d] # "never")
                         => d \in account'.listed
             /\ account.listed \subseteq account'.listed
  <2>1. CASE Place(c) \/ Cancel(c)
    BY <1>3, <1>7, <2>1
  <2>2. CASE FillAt(c)
    BY <1>4, <1>7, <2>2
  <2>3. CASE ClosePosition(c)
    BY <1>5, <1>7, <2>3
  <2>4. CASE List(c)
    BY <1>6, <1>7, <2>4
  <2> QED
    BY <1>8, <2>1, <2>2, <2>3, <2>4
<1> QED
  BY <1>2, <1>8 DEF AccountMoves

\* The account moves: what lasted may be gone, and nothing comes back.
LEMMA MovesKeep == ASSUME EvidenceInv, AccountMoves PROVE EvidenceInv'
<1>1. UNCHANGED <<gather, shown>>
  BY DEF AccountMoves, Moving
<1>2. EvidenceTypeOK' /\ ReadWasThere'
  BY <1>1, AccountGoesOn
  DEF EvidenceInv, EvidenceTypeOK, ReadWasThere, PassReading
<1>3. PassesEnclose'
  BY <1>1, AccountGoesOn DEF EvidenceInv, EvidenceTypeOK, PassesEnclose, PassReading
<1>4. CutoffHadCome'
  BY <1>1, AccountGoesOn DEF EvidenceInv, EvidenceTypeOK, Gathering, PassReading, CutoffHadCome
<1>5. PassBCovers'
  <2>1. ASSUME NEW then \in gather.cutoff, NEW c \in Coins
        PROVE  /\ (c \in then.orders /\ account'.order[c] = "there")
                     => (account.order[c] = "there")
               /\ (c \in then.positions /\ account'.position[c] = "there")
                     => (account.position[c] = "there")
    <3>1. account.order[c] \in Existence /\ account.position[c] \in Existence
      BY DEF EvidenceInv, EvidenceTypeOK, Account
    <3> QED
      BY <3>1, AccountGoesOn DEF EvidenceInv, CutoffHadCome, Existence
  <2>2. gather.first \subseteq Coins
    BY DEF EvidenceInv, EvidenceTypeOK, Gathering
  <2> QED
    BY <1>1, <2>1, <2>2 DEF EvidenceInv, PassBCovers
<1> QED
  BY <1>1, <1>2, <1>3, <1>4, <1>5 DEF EvidenceInv, PassesInOrder, SecondFindsAll

\* A step of the collection that reads no row.
LEMMA StepKeeps ==
    ASSUME EvidenceInv, UNCHANGED <<account, shown>>, gather' \in Gathering,
           gather'.cutoff = gather.cutoff,
           PassesInOrder', PassBCovers', SecondFindsAll'
    PROVE  EvidenceInv'
BY DEF EvidenceInv, EvidenceTypeOK, ReadWasThere, PassesEnclose, CutoffHadCome

\* The steps on the way to the passes, and a collection that is given up.
LEMMA OpeningKeeps ==
    ASSUME EvidenceInv, ReadIdentity \/ ReadOpeningTime \/ GiveUp
    PROVE  EvidenceInv'
<1>1. gather \in Gathering
  BY DEF EvidenceInv, EvidenceTypeOK
<1>2. UNCHANGED <<account, shown>> /\ gather' \in Gathering /\ gather'.cutoff = gather.cutoff
  BY <1>1 DEF ReadIdentity, ReadOpeningTime, GiveUp, Reach, Gathering, Steps
<1>3. \/ /\ gather'.step \in {"identity", "discover"}
         /\ gather.step \in {"begin", "identity"}
         /\ gather'.todo = gather.todo
      \/ /\ gather'.step = "ended" /\ gather'.gap = "open"
         /\ gather'.todo = {} \/ (gather'.todo = gather.todo /\ gather.step = "begin")
  BY <1>1 DEF ReadIdentity, ReadOpeningTime, GiveUp, Reach, Gathering
<1>4. PassesInOrder'
  BY <1>2, <1>3 DEF EvidenceInv, PassesInOrder
<1>5. PassBCovers' /\ SecondFindsAll'
  BY <1>3 DEF PassBCovers, SecondFindsAll
<1> QED
  BY <1>2, <1>4, <1>5, StepKeeps

\* A pass that ends has read every partition.
LEMMA PassEndKeeps ==
    ASSUME EvidenceInv, EndPass \/ ReadClosingTime PROVE EvidenceInv'
<1>1. gather \in Gathering
  BY DEF EvidenceInv, EvidenceTypeOK
<1>2. /\ UNCHANGED <<account, shown>> /\ gather' \in Gathering
      /\ gather'.cutoff = gather.cutoff /\ gather'.todo = gather.todo
      /\ gather'.first = gather.first /\ gather'.second = gather.second
      /\ gather'.gap = gather.gap
      /\ \/ gather.step = "A" /\ gather'.step = "cutoff" /\ gather.todo = {}
         \/ gather.step = "B" /\ gather'.step = "rediscover" /\ gather.todo = {}
         \/ gather.step = "close" /\ gather'.step = "ended"
  BY <1>1 DEF EndPass, ReadClosingTime, Reach, Gathering, Steps
<1>3. PassesInOrder' /\ PassBCovers' /\ SecondFindsAll'
  BY <1>2 DEF EvidenceInv, PassesInOrder, PassBCovers, SecondFindsAll
<1> QED
  BY <1>2, <1>3, StepKeeps

\* Pass B begins with every partition still to read.
LEMMA HistoryKeeps == ASSUME EvidenceInv, ReadHistory PROVE EvidenceInv'
<1>1. gather \in Gathering
  BY DEF EvidenceInv, EvidenceTypeOK
<1>2. PICK gap \in {"none", "aside", "open"} :
         gather' = [gather EXCEPT !.step = "B", !.gap = Worse(@, gap),
                                  !.todo = PassPartitions(gather.first)]
  BY DEF ReadHistory
<1>3. PassPartitions(gather.first) \subseteq Partition
  BY <1>1 DEF PassPartitions, Partition, Gathering
<1>4. Worse(gather.gap, gap) \in {"none", "aside", "open"}
  BY DEF Worse
<1>5. /\ UNCHANGED <<account, shown>> /\ gather' \in Gathering
      /\ gather'.cutoff = gather.cutoff /\ gather'.first = gather.first
      /\ gather'.step = "B" /\ gather'.todo = PassPartitions(gather.first)
  BY <1>1, <1>2, <1>3, <1>4 DEF ReadHistory, Gathering, Steps
<1>6. \A c \in gather.first : /\ <<"open-orders", c>> \in gather'.todo
                              /\ <<"positions", c>> \in gather'.todo
  BY <1>5 DEF PassPartitions
<1>7. PassesInOrder' /\ PassBCovers' /\ SecondFindsAll'
  BY <1>5, <1>6 DEF PassesInOrder, PassBCovers, SecondFindsAll
<1> QED
  BY <1>5, <1>7, StepKeeps

\* The second discovery that succeeds finds every coin that is listed.
LEMMA DiscoveryKeeps == ASSUME EvidenceInv, Discover PROVE EvidenceInv'
<1>1. gather \in Gathering /\ account.listed \in SUBSET Coins
  BY DEF EvidenceInv, EvidenceTypeOK, Account
<1>2. PICK gap \in {gather.gap, "open"} :
         LET coins == IF gap = gather.gap THEN account.listed ELSE Listed
         IN IF gather.step = "discover"
            THEN gather' = [gather EXCEPT !.step = "A", !.gap = gap, !.first = coins,
                                          !.todo = PassPartitions(coins)]
            ELSE gather' = [gather EXCEPT !.step = "close", !.gap = gap, !.second = coins]
  BY DEF Discover
<1> DEFINE coins == IF gap = gather.gap THEN account.listed ELSE Listed
<1>3. coins \in SUBSET Coins
  BY <1>1, ListedAssumption
<1>4. PassPartitions(coins) \subseteq Partition
  BY <1>3 DEF PassPartitions, Partition
<1>5. UNCHANGED <<account, shown>> /\ gap \in {"none", "aside", "open"}
  BY <1>1 DEF Discover, Gathering
<1>6. CASE gather.step = "discover"
  <2>1. /\ gather' \in Gathering /\ gather'.cutoff = gather.cutoff /\ gather'.step = "A"
    BY <1>1, <1>2, <1>3, <1>4, <1>5, <1>6 DEF Gathering, Steps
  <2>2. PassesInOrder' /\ PassBCovers' /\ SecondFindsAll'
    BY <1>5, <1>6, <2>1 DEF EvidenceInv, PassesInOrder, PassBCovers, SecondFindsAll
  <2> QED
    BY <1>5, <2>1, <2>2, StepKeeps
<1>7. CASE gather.step = "rediscover"
  <2>1. /\ gather' \in Gathering /\ gather'.cutoff = gather.cutoff /\ gather'.step = "close"
        /\ gather'.todo = gather.todo /\ gather'.first = gather.first
        /\ gather'.gap = gap /\ gather'.second = coins
    BY <1>1, <1>2, <1>3, <1>5, <1>7 DEF Gathering, Steps
  <2>2. (gather'.gap # "open") => /\ gather'.gap = gather.gap
                                  /\ gather'.second = account.listed
    BY <2>1
  <2>3. PassesInOrder' /\ PassBCovers'
    BY <1>5, <1>7, <2>1, <2>2 DEF EvidenceInv, PassesInOrder, PassBCovers
  <2>4. \A then \in gather.cutoff : (then.orders \cup then.positions) \subseteq account.listed
    BY <1>1 DEF EvidenceInv, EvidenceTypeOK, Gathering, PassReading, CutoffHadCome,
       ReadWasThere
  <2>5. SecondFindsAll'
    BY <2>1, <2>2, <2>4 DEF SecondFindsAll
  <2> QED
    BY <1>5, <2>1, <2>3, <2>5, StepKeeps
<1> QED
  BY <1>6, <1>7 DEF Discover

\* The cutoff shows what is there, after pass A and before pass B.
LEMMA CutoffKeeps == ASSUME EvidenceInv, ReadCutoff PROVE EvidenceInv'
<1>1. gather \in Gathering /\ account \in Account /\ shown \in [{"A", "B"} -> PassReading]
  BY DEF EvidenceInv, EvidenceTypeOK
<1> DEFINE then == [Nothing EXCEPT !.orders = OpenOrders, !.positions = HeldPositions]
<1>2. /\ gather' = [gather EXCEPT !.step = "history", !.cutoff = {then}]
      /\ UNCHANGED <<account, shown>> /\ gather.step = "cutoff"
  BY DEF ReadCutoff
<1>3. then \in PassReading /\ then.orders = OpenOrders /\ then.positions = HeldPositions
  <2>1. Nothing \in PassReading
    BY DEF Nothing, PassReading
  <2>2. OpenOrders \subseteq Coins /\ HeldPositions \subseteq Coins
    BY DEF OpenOrders, HeldPositions
  <2> QED
    BY <2>1, <2>2 DEF PassReading
<1> HIDE DEF then
<1>4. /\ gather' \in Gathering /\ gather'.cutoff = {then} /\ gather'.step = "history"
      /\ gather'.todo = gather.todo /\ gather.step = "cutoff"
  BY <1>1, <1>2, <1>3 DEF Gathering, Steps
<1>5. /\ \A c \in OpenOrders : account.order[c] # "never"
      /\ \A c \in HeldPositions : account.position[c] # "never"
  BY DEF OpenOrders, HeldPositions
<1>6. /\ \A c \in shown["A"].orders : c \in OpenOrders \/ account.order[c] = "gone"
      /\ \A c \in shown["A"].positions : c \in HeldPositions \/ account.position[c] = "gone"
  BY <1>1 DEF EvidenceInv, ReadWasThere, Account, Existence, PassReading, OpenOrders,
     HeldPositions
<1>7. shown["B"].orders = {} /\ shown["B"].positions = {}
  BY <1>4 DEF EvidenceInv, PassesInOrder
<1>8. PassesInOrder' /\ PassBCovers' /\ SecondFindsAll'
  BY <1>2, <1>4, <1>7 DEF EvidenceInv, PassesInOrder, PassBCovers, SecondFindsAll
<1>9. PassesEnclose' /\ CutoffHadCome'
  BY <1>2, <1>3, <1>4, <1>5, <1>6, <1>7 DEF PassesEnclose, CutoffHadCome
<1>10. EvidenceTypeOK' /\ ReadWasThere'
  BY <1>1, <1>2, <1>4 DEF EvidenceInv, EvidenceTypeOK, ReadWasThere
<1> QED
  BY <1>8, <1>9, <1>10 DEF EvidenceInv

\* A read of pass A comes before the cutoff; what a read of pass B shows is there after
\* it, and what it does not show although it was to leaves an open gap.
LEMMA PartitionKeeps == ASSUME EvidenceInv, ReadPartition PROVE EvidenceInv'
<1>1. /\ gather \in Gathering /\ account \in Account /\ UNCHANGED account
      /\ shown \in [{"A", "B"} -> PassReading] /\ gather.step \in {"A", "B"}
  BY DEF EvidenceInv, EvidenceTypeOK, ReadPartition
<1>2. PICK partition \in gather.todo :
         \/ /\ gather' = [gather EXCEPT !.todo = @ \ {partition}]
            /\ shown' = [shown EXCEPT ![gather.step] = Mapped(@, partition)]
         \/ /\ gather' = [gather EXCEPT !.todo = @ \ {partition},
                                        !.gap = Worse(@, GapOf(partition))]
            /\ UNCHANGED shown
  BY DEF ReadPartition, Earliest
<1>3. /\ gather' \in Gathering /\ gather'.cutoff = gather.cutoff /\ gather'.step = gather.step
      /\ gather'.todo = gather.todo \ {partition} /\ gather'.first = gather.first
      /\ (gather'.gap # "open") => (gather.gap # "open")
  <2>1. Worse(gather.gap, GapOf(partition)) \in {"none", "aside", "open"}
    BY DEF Worse
  <2>2. (Worse(gather.gap, GapOf(partition)) # "open") => (gather.gap # "open")
    BY DEF Worse
  <2> QED
    BY <1>1, <1>2, <2>1, <2>2 DEF Gathering
<1>4. partition \in Partition
  BY <1>1 DEF Gathering
<1> DEFINE before == shown[gather.step]
           after == Mapped(before, partition)
<1>5. before \in PassReading
  BY <1>1
<1>6. /\ after \in PassReading
      /\ before.orders \subseteq after.orders /\ after.orders \subseteq before.orders \cup OpenOrders
      /\ before.positions \subseteq after.positions
      /\ after.positions \subseteq before.positions \cup HeldPositions
      /\ \A c \in OpenOrders : (partition = <<"open-orders", c>>) => c \in after.orders
      /\ \A c \in HeldPositions : (partition = <<"positions", c>>) => c \in after.positions
  <2>1. ASSUME NEW c \in Coins, partition = <<"open-orders", c>>
        PROVE  after = [before EXCEPT !.orders = @ \cup ({c} \cap OpenOrders)]
    BY <2>1 DEF Mapped
  <2>2. ASSUME NEW c \in Coins, partition = <<"positions", c>>
        PROVE  after = [before EXCEPT !.positions = @ \cup ({c} \cap HeldPositions)]
    BY <2>2 DEF Mapped
  <2>3. CASE partition = <<"mode-probe">>
    BY <1>5, <2>3 DEF Mapped
  <2>4. CASE partition = <<"wallet">>
    <3>1. after = [before EXCEPT !.amount = account.amount]
      BY <2>4 DEF Mapped
    <3> QED
      BY <1>1, <1>5, <2>4, <3>1 DEF PassReading, Account
  <2>5. CASE \E c \in Coins : partition = <<"open-orders", c>>
    <3>1. PICK c \in Coins : partition = <<"open-orders", c>>
      BY <2>5
    <3>2. after = [before EXCEPT !.orders = @ \cup ({c} \cap OpenOrders)]
      BY <2>1, <3>1
    <3>3. OpenOrders \subseteq Coins
      BY DEF OpenOrders
    <3> HIDE DEF after, before
    <3>4. /\ after \in PassReading /\ after.positions = before.positions
          /\ after.orders = before.orders \cup ({c} \cap OpenOrders)
      BY <1>5, <3>2, <3>3 DEF PassReading
    <3> QED
      BY <3>1, <3>4
  <2>6. CASE \E c \in Coins : partition = <<"positions", c>>
    <3>1. PICK c \in Coins : partition = <<"positions", c>>
      BY <2>6
    <3>2. after = [before EXCEPT !.positions = @ \cup ({c} \cap HeldPositions)]
      BY <2>2, <3>1
    <3>3. HeldPositions \subseteq Coins
      BY DEF HeldPositions
    <3> HIDE DEF after, before
    <3>4. /\ after \in PassReading /\ after.orders = before.orders
          /\ after.positions = before.positions \cup ({c} \cap HeldPositions)
      BY <1>5, <3>2, <3>3 DEF PassReading
    <3> QED
      BY <3>1, <3>4
  <2> QED
    BY <1>4, <2>3, <2>4, <2>5, <2>6 DEF Partition
<1> HIDE DEF after
<1>7. CASE /\ gather' = [gather EXCEPT !.todo = @ \ {partition}]
           /\ shown' = [shown EXCEPT ![gather.step] = after]
  <2>1. /\ shown' \in [{"A", "B"} -> PassReading] /\ shown'[gather.step] = after
        /\ \A pass \in {"A", "B"} \ {gather.step} : shown'[pass] = shown[pass]
        /\ gather'.gap = gather.gap
    BY <1>1, <1>6, <1>7 DEF Gathering
  <2>2. EvidenceTypeOK'
    BY <1>1, <1>3, <2>1 DEF EvidenceTypeOK
  <2>3. ReadWasThere'
    BY <1>1, <1>6, <2>1 DEF EvidenceInv, ReadWasThere, OpenOrders, HeldPositions
  <2>4. PassesInOrder'
    BY <1>1, <1>3, <2>1 DEF EvidenceInv, PassesInOrder
  <2>5. CutoffHadCome' /\ SecondFindsAll'
    BY <1>1, <1>3 DEF EvidenceInv, CutoffHadCome, SecondFindsAll
  <2>6. CASE gather.step = "A"
    <3>1. gather.cutoff = {}
      BY <2>6 DEF EvidenceInv, PassesInOrder
    <3> QED
      BY <1>3, <2>2, <2>3, <2>4, <2>5, <2>6, <3>1 DEF EvidenceInv, PassesEnclose, PassBCovers
  <2>7. CASE gather.step = "B"
    <3>1. shown'["A"] = shown["A"] /\ shown'["B"] = after /\ before = shown["B"]
      BY <2>1, <2>7
    <3> HIDE DEF before
    <3>2. PassesEnclose'
      <4> SUFFICES ASSUME NEW then \in gather.cutoff
                   PROVE  /\ \A c \in shown["A"].orders :
                                c \in then.orders \/ account.order[c] = "gone"
                          /\ \A c \in shown["A"].positions :
                                c \in then.positions \/ account.position[c] = "gone"
                          /\ shown["A"].orders \cap after.orders \subseteq then.orders
                          /\ shown["A"].positions \cap after.positions \subseteq then.positions
        BY <1>1, <1>3, <3>1 DEF PassesEnclose
      <4>1. /\ \A c \in shown["A"].orders : c \in then.orders \/ account.order[c] = "gone"
            /\ \A c \in shown["A"].positions :
                  c \in then.positions \/ account.position[c] = "gone"
            /\ shown["A"].orders \cap before.orders \subseteq then.orders
            /\ shown["A"].positions \cap before.positions \subseteq then.positions
        BY <3>1 DEF EvidenceInv, PassesEnclose
      <4> QED
        BY <1>6, <4>1 DEF OpenOrders, HeldPositions
    <3>3. PassBCovers'
      <4> SUFFICES ASSUME gather.gap # "open", NEW then \in gather.cutoff,
                          NEW c \in gather.first
                   PROVE  /\ (c \in then.orders /\ account.order[c] = "there") =>
                                (<<"open-orders", c>> \in gather'.todo \/ c \in after.orders)
                          /\ (c \in then.positions /\ account.position[c] = "there") =>
                                (<<"positions", c>> \in gather'.todo \/ c \in after.positions)
        BY <1>1, <1>3, <3>1 DEF PassBCovers
      <4>1. /\ (c \in then.orders /\ account.order[c] = "there") =>
                  (<<"open-orders", c>> \in gather.todo \/ c \in before.orders)
            /\ (c \in then.positions /\ account.position[c] = "there") =>
                  (<<"positions", c>> \in gather.todo \/ c \in before.positions)
        BY <2>7, <3>1 DEF EvidenceInv, PassBCovers
      <4>2. c \in Coins
        BY <1>1 DEF Gathering
      <4> QED
        BY <1>3, <1>6, <4>1, <4>2 DEF OpenOrders, HeldPositions
    <3> QED
      BY <2>2, <2>3, <2>4, <2>5, <3>2, <3>3 DEF EvidenceInv
  <2> QED
    BY <1>1, <2>6, <2>7
<1>8. CASE /\ gather' = [gather EXCEPT !.todo = @ \ {partition},
                                       !.gap = Worse(@, GapOf(partition))]
           /\ UNCHANGED shown
  <2>1. PassesInOrder' /\ SecondFindsAll'
    BY <1>1, <1>3, <1>8 DEF EvidenceInv, PassesInOrder, SecondFindsAll
  <2>2. (gather'.gap # "open") => (GapOf(partition) # "open")
    BY <1>1, <1>8 DEF Worse, Gathering
  <2>3. \A c \in Coins : GapOf(<<"open-orders", c>>) = "open"
                        /\ GapOf(<<"positions", c>>) = "open"
    BY DEF GapOf
  <2>4. gather.first \subseteq Coins
    BY <1>1 DEF Gathering
  <2>5. PassBCovers'
    BY <1>1, <1>3, <1>8, <2>2, <2>3, <2>4 DEF EvidenceInv, PassBCovers
  <2> QED
    BY <1>1, <1>3, <1>8, <2>1, <2>5, StepKeeps
<1> QED
  BY <1>2, <1>7, <1>8 DEF after

LEMMA EvidenceSteps == EvidenceInv /\ [EvidenceNext]_evidenceVars => EvidenceInv'
<1> SUFFICES ASSUME EvidenceInv, [EvidenceNext]_evidenceVars PROVE EvidenceInv'
  OBVIOUS
<1>1. CASE UNCHANGED evidenceVars
  <2>1. UNCHANGED <<account, shown>> /\ gather' = gather
    BY <1>1 DEF evidenceVars
  <2>2. PassesInOrder' /\ PassBCovers' /\ SecondFindsAll'
    BY <2>1 DEF EvidenceInv, PassesInOrder, PassBCovers, SecondFindsAll
  <2> QED
    BY <2>1, <2>2, StepKeeps DEF EvidenceInv, EvidenceTypeOK
<1> QED
  BY <1>1, MovesKeep, OpeningKeeps, PassEndKeeps, HistoryKeeps, DiscoveryKeeps, CutoffKeeps,
     PartitionKeeps
  DEF EvidenceNext

LEMMA EvidenceHolds == EvidenceSpec => []EvidenceInv
BY EvidenceStarts, EvidenceSteps, PTL DEF EvidenceSpec

\* The types of the account, of the collection and of what it shows
\* (collectAccountEvidence).
THEOREM EvidenceIsTyped == EvidenceSpec => []EvidenceTypeOK
BY EvidenceHolds, PTL DEF EvidenceInv

\* Evidence that is admitted is true of its cutoff, however the account moves while it is
\* read and of however many coins it is (evaluateAccountEvidenceConsistency).
THEOREM EvidenceIsTrue == EvidenceSpec => []TrueAtTheCutoff
<1>1. ASSUME EvidenceInv, EvidenceAdmitted PROVE TrueAtTheCutoff
  <2>1. /\ gather.step = "ended" /\ gather.gap # "open"
        /\ gather.second \subseteq gather.first
        /\ shown["A"].orders = shown["B"].orders /\ shown["A"].positions = shown["B"].positions
    BY <1>1 DEF EvidenceAdmitted, CollectionComplete, ReadyFor, TimesBracketed, CoverageWhole,
       PassesDiffer, DiscoveryExpanded, GapSetAside, OnlyAmountsDiffer
  <2>2. gather.todo = {}
    BY <1>1, <2>1 DEF EvidenceInv, PassesInOrder
  <2> QED
    BY <1>1, <2>1, <2>2
    DEF TrueAtTheCutoff, EvidenceInv, PassesEnclose, PassBCovers, SecondFindsAll, OpenOrders,
        HeldPositions
<1>2. EvidenceInv => TrueAtTheCutoff
  BY <1>1 DEF TrueAtTheCutoff
<1> QED
  BY <1>2, EvidenceHolds, PTL

-----------------------------------------------------------------------------
(***************************************************************************)
(* Moments that are multiples of a length.                                  *)
(***************************************************************************)
LEMMA DivisionOf ==
    ASSUME NEW length \in Nat \ {0}, NEW a \in Nat
    PROVE  /\ a \div length \in Nat /\ a % length \in Nat /\ a % length < length
           /\ a = length * (a \div length) + (a % length)
<1>1. a \div length \in Nat
  BY Z3
<1>2. a % length \in Nat /\ a % length < length
  BY Z3
<1>3. a = length * (a \div length) + (a % length)
  BY Z3
<1> QED
  BY <1>1, <1>2, <1>3

LEMMA ProductsGrow ==
    ASSUME NEW a \in Nat, NEW b \in Nat, NEW c \in Nat, b <= c
    PROVE  a * b <= a * c
BY Z3

LEMMA OneMore ==
    ASSUME NEW a \in Nat, NEW b \in Nat
    PROVE  a * (b + 1) = a * b + a
BY Z3

LEMMA ProductIsNat == ASSUME NEW a \in Nat, NEW b \in Nat PROVE a * b \in Nat
BY Z3

\* While no interval ends, no moment begins one.
LEMMA NoneBetween ==
    ASSUME NEW length \in Nat \ {0}, NEW a \in Nat, NEW b \in Nat, NEW m \in Nat,
           a \div length = b \div length, m % length = 0, m <= b
    PROVE  m <= a
<1>1. PICK q \in Nat, k \in Nat : q = m \div length /\ k = a \div length
  BY DivisionOf
<1>2. m = length * q
  BY <1>1, DivisionOf
<1>3. b < length * k + length
  <2>1. PICK r \in Nat : r = b % length /\ r < length
    BY DivisionOf
  <2>2. b = length * k + r
    BY <1>1, <2>1, DivisionOf
  <2>3. PICK p \in Nat : p = length * k
    BY <1>1, ProductIsNat
  <2> QED
    BY <2>1, <2>2, <2>3
<1>4. length * k <= a
  <2>1. a = length * k + (a % length) /\ a % length \in Nat
    BY <1>1, DivisionOf
  <2>2. length * k \in Nat
    BY <1>1, ProductIsNat
  <2> QED
    BY <2>1, <2>2
<1>5. q <= k
  <2> SUFFICES ASSUME k + 1 <= q PROVE FALSE
    BY <1>1
  <2>1. length * (k + 1) <= length * q
    BY <1>1, ProductsGrow
  <2>2. length * (k + 1) = length * k + length
    BY OneMore
  <2>3. length * k \in Nat /\ length * q \in Nat
    BY <1>1, ProductIsNat
  <2> QED
    BY <1>2, <1>3, <2>1, <2>2, <2>3
<1>6. length * q <= length * k
  BY <1>5, ProductsGrow
<1>7. length * k \in Nat /\ length * q \in Nat
  BY <1>1, ProductIsNat
<1> QED
  BY <1>2, <1>4, <1>6, <1>7

LEMMA NextBegins ==
    ASSUME NEW length \in Nat \ {0}, NEW m \in Nat, m % length = 0
    PROVE  (m + length) % length = 0
<1>1. PICK q \in Nat : q = m \div length
  BY DivisionOf
<1>2. m = length * q
  BY <1>1, DivisionOf
<1>3. PICK n \in Nat : n = m + length
  OBVIOUS
<1>4. PICK k \in Nat, r \in Nat : k = n \div length /\ r = n % length
  BY DivisionOf
<1>5. n = length * k + r /\ r < length
  BY <1>3, <1>4, DivisionOf
<1>6. n = length * (q + 1)
  BY <1>1, <1>2, <1>3, OneMore
<1>7. /\ length * k \in Nat /\ length * q \in Nat /\ length * (q + 1) = length * q + length
      /\ length * (q + 2) = length * q + length + length
  <2>1. length * ((q + 1) + 1) = length * (q + 1) + length
    BY OneMore
  <2>2. q + 2 = (q + 1) + 1
    BY <1>1
  <2> QED
    BY <1>1, <1>4, <2>1, <2>2, OneMore, ProductIsNat
<1>8. k = q + 1
  <2>1. ASSUME k <= q PROVE FALSE
    <3>1. length * k <= length * q
      BY <2>1, ProductsGrow
    <3> QED
      BY <1>5, <1>6, <1>7, <3>1
  <2>2. ASSUME q + 2 <= k PROVE FALSE
    <3>1. length * (q + 2) <= length * k
      BY <2>2, ProductsGrow
    <3> QED
      BY <1>5, <1>6, <1>7, <3>1
  <2> QED
    BY <1>1, <1>4, <2>1, <2>2
<1>9. r = 0
  BY <1>4, <1>5, <1>6, <1>7, <1>8
<1> QED
  BY <1>3, <1>4, <1>9

(***************************************************************************)
(* The last of a set of moments.                                            *)
(***************************************************************************)
LEMMA CountsOfMoments ==
    ASSUME NEW B \in SUBSET Ticks, NEW A \in SUBSET B
    PROVE  /\ IsFiniteSet(A) /\ Cardinality(A) \in Nat /\ Cardinality(B) \in Nat
           /\ Cardinality(A) <= Cardinality(B)
<1>1. IsFiniteSet(Ticks)
  BY LengthAssumption, FS_Interval DEF Ticks
<1>2. IsFiniteSet(B)
  BY <1>1, FS_Subset
<1>3. IsFiniteSet(A) /\ Cardinality(A) <= Cardinality(B)
  BY <1>2, FS_Subset
<1> QED
  BY <1>2, <1>3, FS_CardinalityType

LEMMA TicksAreNat == Ticks \subseteq Nat
BY LengthAssumption DEF Ticks

\* What is later than one of the last is one of the last.
LEMMA NewestIsUpward ==
    ASSUME NEW M \in SUBSET Ticks, NEW count \in Nat, NEW x \in Newest(M, count), NEW y \in M,
           x <= y
    PROVE  y \in Newest(M, count)
<1>1. x \in M /\ Cardinality({other \in M : other > x}) < count
  BY DEF Newest
<1>2. {other \in M : other > y} \subseteq {other \in M : other > x}
  <2> SUFFICES ASSUME NEW other \in M, other > y PROVE other > x
    OBVIOUS
  <2>1. other \in Nat /\ x \in Nat /\ y \in Nat
    BY <1>1, TicksAreNat
  <2> QED
    BY <2>1
<1>3. {other \in M : other > x} \in SUBSET Ticks
  OBVIOUS
<1>4. /\ Cardinality({other \in M : other > y}) <= Cardinality({other \in M : other > x})
      /\ Cardinality({other \in M : other > y}) \in Nat
      /\ Cardinality({other \in M : other > x}) \in Nat
  BY <1>2, <1>3, CountsOfMoments
<1>5. Cardinality({other \in M : other > y}) < count
  BY <1>1, <1>4
<1> QED
  BY <1>5 DEF Newest

\* As many as were asked for, among the last but one more than those, are the last.
LEMMA EnoughAreTheNewest ==
    ASSUME NEW M \in SUBSET Ticks, NEW T \in SUBSET M, NEW count \in Nat,
           Cardinality(Newest(Newest(M, count + 1) \cap T, count)) = count
    PROVE  Newest(Newest(M, count + 1) \cap T, count) = Newest(T, count)
<1> DEFINE N == Newest(M, count + 1)
           S == Newest(N \cap T, count)
           After(A, x) == {other \in A : other > x}
<1>1. N \subseteq M /\ S \subseteq N \cap T
  BY DEF Newest
<1>2. ASSUME NEW x \in N \cap T PROVE After(N \cap T, x) = After(T, x)
  <2>1. ASSUME NEW y \in T, y > x PROVE y \in N
    <3>1. x \in Nat /\ y \in Nat /\ y \in M /\ x \in N
      BY <1>1, TicksAreNat
    <3>2. x <= y
      BY <2>1, <3>1
    <3> QED
      BY <3>1, <3>2, NewestIsUpward
  <2> QED
    BY <2>1
<1>3. ASSUME NEW x \in S PROVE x \in Newest(T, count)
  <2>1. x \in N \cap T /\ Cardinality(After(N \cap T, x)) < count
    BY DEF Newest
  <2> QED
    BY <1>2, <2>1 DEF Newest
<1>4. ASSUME NEW x \in Newest(T, count) PROVE x \in S
  <2>1. x \in T /\ Cardinality(After(T, x)) < count
    BY DEF Newest
  <2>2. x \in N
    <3> SUFFICES ASSUME x \notin N PROVE FALSE
      OBVIOUS
    <3>1. ASSUME NEW y \in S PROVE y > x
      <4>1. y \in N /\ x \in M /\ y \in Nat /\ x \in Nat
        BY <1>1, <2>1, TicksAreNat
      <4>2. ~(y <= x)
        BY <4>1, NewestIsUpward
      <4> QED
        BY <4>1, <4>2
    <3>2. S \subseteq After(T, x) /\ After(T, x) \in SUBSET Ticks
      BY <1>1, <3>1
    <3>3. Cardinality(S) <= Cardinality(After(T, x)) /\ Cardinality(After(T, x)) \in Nat
      BY <3>2, CountsOfMoments
    <3> QED
      BY <2>1, <3>3
  <2>3. Cardinality(After(N \cap T, x)) < count
    BY <1>2, <2>1, <2>2
  <2> QED
    BY <2>1, <2>2, <2>3 DEF Newest
<1> QED
  BY <1>3, <1>4

(***************************************************************************)
(* What a read of a series leaves.                                          *)
(***************************************************************************)
\* The series as it was read at a tick, by a reader who had been told a time.
ReadOf(series, told, at) ==
    IF series[1] = 1
    THEN survey.bars[series[2]] =
            {[start |-> start, closed |-> start + series[2] <= told,
              final |-> start + series[2] <= at] :
                start \in Newest(Starts(series[2], at), Depth + 1)}
    ELSE survey.points[<<series[2], series[1]>>] =
            Newest(Starts(series[2], at), Depth + 1)

ReadAfter(series, told) == \E at \in Ticks : told <= at /\ ReadOf(series, told, at)

LEMMA StartsAreTicks == \A length, upTo : Starts(length, upTo) \in SUBSET Ticks
BY DEF Starts

LEMMA SeriesAre ==
    ASSUME NEW series \in Series
    PROVE  /\ series[2] \in Nat \ {0} /\ series[1] \in {1, 2, 3}
           /\ series[1] = 1 => series[2] \in BarLengths /\ series = <<1, series[2]>>
           /\ series[1] # 1 => <<series[2], series[1]>>
                                 \in {FundingLength, InterestLength} \X {2, 3}
<1>1. CASE series \in {1} \X BarLengths
  <2>1. PICK length \in BarLengths : series = <<1, length>>
    BY <1>1
  <2> QED
    BY <2>1, LengthAssumption
<1>2. CASE series = <<2, FundingLength>>
  BY <1>2, LengthAssumption
<1>3. CASE series = <<3, InterestLength>>
  BY <1>3, LengthAssumption
<1> QED
  BY <1>1, <1>2, <1>3 DEF Series

\* Bars that are complete at a cutoff before which none ended since the reader was told a
\* time are the last that closed, with their final values.
LEMMA BarsAreWhole ==
    ASSUME NEW length \in BarLengths, NEW told \in Ticks, NEW cutoff \in Ticks, told <= cutoff,
           ReadAfter(<<1, length>>, told), ~Crossed(<<1, length>>, told, cutoff),
           BarsComplete(length, cutoff)
    PROVE  /\ {bar.start : bar \in ClosedBars(length, cutoff)} =
                  Newest({start \in Starts(length, cutoff) : start + length <= cutoff}, Depth)
           /\ \A bar \in ClosedBars(length, cutoff) : bar.final
<1>1. length \in Nat \ {0} /\ Depth \in Nat /\ told \in Nat /\ cutoff \in Nat
      /\ told \div length = cutoff \div length
  BY LengthAssumption, TicksAreNat DEF Crossed
<1>2. PICK at \in Ticks : /\ told <= at
                          /\ survey.bars[length] =
                                {[start |-> start, closed |-> start + length <= told,
                                  final |-> start + length <= at] :
                                    start \in Newest(Starts(length, at), Depth + 1)}
  BY DEF ReadAfter, ReadOf
<1> DEFINE M == Starts(length, at)
           N == Newest(M, Depth + 1)
           T == {start \in Starts(length, cutoff) : start + length <= cutoff}
           closed == {bar \in survey.bars[length] :
                         bar.closed /\ bar.start + length <= cutoff}
           S == Newest({bar.start : bar \in closed}, Depth)
<1>3. at \in Nat /\ M \in SUBSET Ticks /\ N \subseteq M
  BY TicksAreNat, StartsAreTicks DEF Newest
<1>4. ASSUME NEW start \in T PROVE start \in M /\ start + length <= told
  <2>1. start \in Ticks /\ start \in Nat /\ start % length = 0 /\ start + length <= cutoff
    BY TicksAreNat DEF Starts
  <2>2. (start + length) % length = 0 /\ start + length \in Nat
    BY <1>1, <2>1, NextBegins
  <2>3. start + length <= told
    BY <1>1, <2>1, <2>2, NoneBetween
  <2>4. start <= at
    BY <1>1, <1>2, <1>3, <2>1, <2>3
  <2> QED
    BY <2>1, <2>3, <2>4 DEF Starts
<1>5. ASSUME NEW start \in M, start + length <= told PROVE start \in T
  <2>1. start \in Ticks /\ start \in Nat /\ start % length = 0
    BY TicksAreNat DEF Starts
  <2>2. start + length <= cutoff /\ start <= cutoff
    BY <1>1, <1>5, <2>1
  <2> QED
    BY <2>1, <2>2 DEF Starts
<1>6. \A bar \in survey.bars[length] :
         /\ bar.start \in N
         /\ bar.closed <=> bar.start + length <= told
         /\ bar.final <=> bar.start + length <= at
  <2> SUFFICES ASSUME NEW bar \in survey.bars[length]
               PROVE  /\ bar.start \in N
                      /\ bar.closed <=> bar.start + length <= told
                      /\ bar.final <=> bar.start + length <= at
    OBVIOUS
  <2>1. PICK start \in N :
           bar = [start |-> start, closed |-> start + length <= told,
                  final |-> start + length <= at]
    BY <1>2
  <2>2. /\ bar.start = start /\ (bar.closed <=> start + length <= told)
        /\ (bar.final <=> start + length <= at)
    BY <2>1
  <2> QED
    BY <2>2
<1>7. \A start \in N : \E bar \in survey.bars[length] :
         bar.start = start /\ (bar.closed <=> start + length <= told)
  <2> SUFFICES ASSUME NEW start \in N
               PROVE  \E bar \in survey.bars[length] :
                         bar.start = start /\ (bar.closed <=> start + length <= told)
    OBVIOUS
  <2>1. PICK bar : bar = [start |-> start, closed |-> start + length <= told,
                          final |-> start + length <= at]
    OBVIOUS
  <2>2. bar \in survey.bars[length]
    BY <1>2, <2>1
  <2> QED
    BY <2>1, <2>2
<1> HIDE DEF M, N, T
<1>8. {bar.start : bar \in closed} = N \cap T
  <2>1. ASSUME NEW bar \in closed PROVE bar.start \in N \cap T
    <3>1. bar.start \in N /\ bar.start + length <= told
      BY <1>6
    <3> QED
      BY <1>3, <1>5, <3>1
  <2>2. ASSUME NEW start \in N \cap T PROVE start \in {bar.start : bar \in closed}
    <3>1. start + length <= told
      BY <1>4
    <3>2. PICK bar \in survey.bars[length] :
             bar.start = start /\ (bar.closed <=> start + length <= told)
      BY <1>7
    <3>3. start + length <= cutoff
      BY DEF T
    <3> QED
      BY <3>1, <3>2, <3>3
  <2> QED
    BY <2>1, <2>2
<1>9. {bar.start : bar \in ClosedBars(length, cutoff)} = S
  <2>1. ClosedBars(length, cutoff) = {bar \in closed : bar.start \in S}
    BY DEF ClosedBars
  <2>2. S \subseteq {bar.start : bar \in closed}
    BY DEF Newest
  <2> HIDE DEF S, closed
  <2> QED
    BY <2>1, <2>2
<1>10. Cardinality(S) = Depth
  BY <1>9 DEF BarsComplete
<1>11. S = Newest(T, Depth)
  <2>1. T \in SUBSET M
    BY <1>4
  <2>2. S = Newest(Newest(M, Depth + 1) \cap T, Depth)
    BY <1>8 DEF N
  <2> HIDE DEF S, closed
  <2> QED
    BY <1>1, <1>3, <1>10, <2>1, <2>2, EnoughAreTheNewest
<1>12. ASSUME NEW bar \in ClosedBars(length, cutoff) PROVE bar.final
  <2>1. bar \in survey.bars[length] /\ bar.closed
    BY DEF ClosedBars
  <2>2. bar.start \in N /\ bar.start + length <= told
    BY <1>6, <2>1
  <2>3. bar.start \in Nat
    BY <1>3, <2>2, TicksAreNat
  <2>4. bar.start + length <= at
    BY <1>1, <1>2, <1>3, <2>2, <2>3
  <2> QED
    BY <1>6, <2>1, <2>4
<1> QED
  BY <1>9, <1>11, <1>12 DEF T

\* The points that are shown, when they are enough, are the last there were.
LEMMA PointsAreWhole ==
    ASSUME NEW series \in Series, series[1] # 1, NEW at \in Ticks, NEW cutoff \in Ticks,
           ReadOf(series, cutoff, at), PointsComplete(series, cutoff)
    PROVE  PointsShown(series, cutoff)
              = Newest({point \in Starts(series[2], at) : point <= cutoff}, Depth)
<1> DEFINE M == Starts(series[2], at)
           T == {point \in M : point <= cutoff}
<1>1. survey.points[<<series[2], series[1]>>] = Newest(M, Depth + 1)
  BY DEF ReadOf
<1>2. M \in SUBSET Ticks /\ T \in SUBSET M /\ Depth \in Nat
  BY StartsAreTicks, LengthAssumption
<1>3. {point \in Newest(M, Depth + 1) : point <= cutoff} = Newest(M, Depth + 1) \cap T
  BY DEF Newest
<1>4. PointsShown(series, cutoff) = Newest(Newest(M, Depth + 1) \cap T, Depth)
  BY <1>1, <1>3 DEF PointsShown
<1>5. Cardinality(PointsShown(series, cutoff)) = Depth
  BY DEF PointsComplete
<1> HIDE DEF M, T
<1>6. PointsShown(series, cutoff) = Newest(T, Depth)
  BY <1>2, <1>4, <1>5, EnoughAreTheNewest
<1> QED
  BY <1>6 DEF M, T

\* Funding points that are enough at a cutoff before which none came due are the last.
LEMMA FundingIsWhole ==
    ASSUME NEW told \in Ticks, NEW cutoff \in Ticks, told <= cutoff,
           ReadAfter(<<2, FundingLength>>, told), ~Crossed(<<2, FundingLength>>, told, cutoff),
           PointsComplete(<<2, FundingLength>>, cutoff)
    PROVE  PointsShown(<<2, FundingLength>>, cutoff)
              = Newest(Starts(FundingLength, cutoff), Depth)
<1>1. PICK series \in Series : series = <<2, FundingLength>>
  BY DEF Series
<1>2. PICK at \in Ticks : told <= at /\ ReadOf(series, told, at)
  BY <1>1 DEF ReadAfter
<1>3. ReadOf(series, cutoff, at) /\ series[1] = 2 /\ series[2] = FundingLength
  BY <1>1, <1>2 DEF ReadOf
<1>4. PointsShown(series, cutoff)
         = Newest({point \in Starts(FundingLength, at) : point <= cutoff}, Depth)
  BY <1>1, <1>3, PointsAreWhole
<1>5. {point \in Starts(FundingLength, at) : point <= cutoff} = Starts(FundingLength, cutoff)
  <2>1. ASSUME NEW point \in Starts(FundingLength, cutoff) PROVE point <= at
    <3>1. /\ point \in Nat /\ told \in Nat /\ cutoff \in Nat /\ at \in Nat
          /\ point % FundingLength = 0 /\ point <= cutoff
          /\ told \div FundingLength = cutoff \div FundingLength
          /\ FundingLength \in Nat \ {0}
      BY TicksAreNat, LengthAssumption DEF Starts, Crossed
    <3>2. point <= told
      BY <3>1, NoneBetween
    <3> QED
      BY <1>2, <3>1, <3>2
  <2> QED
    BY <2>1 DEF Starts
<1> QED
  BY <1>1, <1>4, <1>5

\* Open interest that is enough at a cutoff misses no point from before it was asked for.
LEMMA InterestIsWhole ==
    ASSUME NEW told \in Ticks, NEW cutoff \in Ticks, told <= cutoff,
           ReadAfter(<<3, InterestLength>>, told),
           PointsComplete(<<3, InterestLength>>, cutoff),
           NEW moment \in Starts(InterestLength, told)
    PROVE  \E point \in PointsShown(<<3, InterestLength>>, cutoff) :
              moment <= point /\ point <= cutoff
<1>1. PICK series \in Series : series = <<3, InterestLength>>
  BY DEF Series
<1>2. PICK at \in Ticks : told <= at /\ ReadOf(series, told, at)
  BY <1>1 DEF ReadAfter
<1>3. ReadOf(series, cutoff, at) /\ series[1] = 3 /\ series[2] = InterestLength
  BY <1>1, <1>2 DEF ReadOf
<1> DEFINE T == {point \in Starts(InterestLength, at) : point <= cutoff}
<1>4. PointsShown(series, cutoff) = Newest(T, Depth)
  BY <1>1, <1>3, PointsAreWhole
<1>5. /\ T \in SUBSET Ticks /\ moment \in T
  BY <1>2, StartsAreTicks, TicksAreNat DEF Starts
<1>6. Cardinality(Newest(T, Depth)) = Depth /\ Depth \in Nat /\ Depth # 0
  BY <1>1, <1>4, LengthAssumption DEF PointsComplete
<1>7. PICK point : point \in Newest(T, Depth)
  BY <1>6, FS_EmptySet
<1>8. point \in T /\ point \in Nat /\ moment \in Nat
  BY <1>5, <1>7, TicksAreNat DEF Newest
<1>9. CASE moment <= point
  BY <1>1, <1>4, <1>7, <1>8, <1>9
<1>10. CASE point <= moment
  <2>1. moment \in Newest(T, Depth)
    BY <1>5, <1>6, <1>7, <1>10, NewestIsUpward
  <2> QED
    BY <1>1, <1>4, <1>5, <1>8, <2>1
<1> QED
  BY <1>8, <1>9, <1>10

(***************************************************************************)
(* The inductive invariant.                                                 *)
(***************************************************************************)
Settled(series, told) == series \in survey.faulty \/ ReadAfter(series, told)

\* No interval of the series ended between the initial and the candidate cutoff, or none
\* is asked about.
NoneEnded(series) ==
    \/ series[1] = 3
    \/ series[1] = 2 /\ ~Known
    \/ ~Crossed(series, survey.initial, survey.candidate)

\* What was read holds up to the cutoff.
HoldsUp(series) ==
    IF series[1] = 3 THEN ReadAfter(series, survey.initial)
    ELSE \E told \in Ticks : /\ told <= survey.cutoff
                             /\ ReadAfter(series, told)
                             /\ ~Crossed(series, told, survey.cutoff)

TimesGoOn ==
    /\ FirstTick <= clock
    /\ survey.initial <= clock
    /\ survey.step \in {"again", "final"} =>
          survey.initial <= survey.candidate /\ survey.candidate <= clock

TickerIsTold ==
    survey.step \in {"series", "candidate", "again", "final", "ended"} =>
        survey.fault \/ survey.ticker # {}

FirstReads ==
    survey.step \in {"series", "candidate"} =>
        \A series \in Series \ survey.left : Settled(series, survey.initial)

SecondReads ==
    survey.step \in {"again", "final"} =>
        \A series \in Series :
            /\ series[1] = 3 => Settled(series, survey.initial)
            /\ \/ series \in survey.left
               \/ Settled(series, survey.candidate)
               \/ ReadAfter(series, survey.initial) /\ NoneEnded(series)

NoneIsLeft == survey.step \in {"candidate", "final"} => survey.left = {}

Unfaulted == survey.step = "ended" /\ survey.faulty = {} /\ ~survey.fault /\ Known

EndHoldsUp ==
    Unfaulted => survey.initial <= survey.cutoff /\ \A series \in Series : HoldsUp(series)

MarketInv ==
    /\ MarketTypeOK
    /\ TimesGoOn /\ TickerIsTold
    /\ FirstReads /\ SecondReads /\ NoneIsLeft
    /\ EndHoldsUp

LEMMA ClockIsNat ==
    ASSUME MarketInv
    PROVE  /\ clock \in Nat /\ clock \in Ticks /\ LastTick \in Nat
           /\ ToldTimes \subseteq Ticks
           /\ \A told \in ToldTimes : told \in Nat /\ told <= clock
<1>1. clock \in Ticks /\ FirstTick <= clock
  BY DEF MarketInv, MarketTypeOK, TimesGoOn
<1>2. clock \in Nat /\ clock <= LastTick /\ clock >= 1 /\ LastTick \in Nat
  BY <1>1, LengthAssumption DEF Ticks
<1>3. clock - 1 \in Nat /\ clock - 1 <= LastTick /\ clock - 1 <= clock
  BY <1>2
<1> QED
  BY <1>1, <1>2, <1>3 DEF ToldTimes, Ticks

LEMMA SurveyFields ==
    ASSUME survey \in Survey
    PROVE  /\ survey.initial \in Ticks /\ survey.candidate \in Ticks /\ survey.cutoff \in Ticks
           /\ survey.initial \in Nat /\ survey.candidate \in Nat /\ survey.cutoff \in Nat
           /\ survey.left \in SUBSET Series /\ survey.faulty \in SUBSET Series
           /\ survey.fault \in BOOLEAN
BY TicksAreNat DEF Survey

\* What a step of the collection reads is of the evidence's form.
LEMMA ReadsAreTyped ==
    ASSUME NEW length \in BarLengths, NEW told \in Ticks
    PROVE  BarsAt(length, told) \in SUBSET Bar
<1>1. Newest(Starts(length, clock), Depth + 1) \subseteq Ticks
  BY DEF Newest, Starts
<1> SUFFICES ASSUME NEW start \in Newest(Starts(length, clock), Depth + 1)
             PROVE  [start |-> start, closed |-> start + length <= told,
                     final |-> start + length <= clock] \in Bar
  BY DEF BarsAt
<1>2. (start + length <= told) \in BOOLEAN /\ (start + length <= clock) \in BOOLEAN
  OBVIOUS
<1> QED
  BY <1>1, <1>2 DEF Bar

LEMMA PointsAreTyped == \A length : PointsAt(length) \in SUBSET Ticks
BY DEF PointsAt, Newest, Starts

-----------------------------------------------------------------------------
\* What an ended collection's invariant says is what the property does.
LEMMA EndIsWhole == MarketInv => MarketIsWhole
<1> SUFFICES ASSUME MarketInv, MarketComplete
             PROVE  /\ \A length \in BarLengths :
                          /\ {bar.start : bar \in ClosedBars(length, survey.cutoff)} =
                                 Newest({start \in Starts(length, survey.cutoff) :
                                             start + length <= survey.cutoff}, Depth)
                          /\ \A bar \in ClosedBars(length, survey.cutoff) : bar.final
                    /\ PointsShown(<<2, FundingLength>>, survey.cutoff) =
                           Newest(Starts(FundingLength, survey.cutoff), Depth)
                    /\ \E moment \in survey.ticker : moment <= survey.cutoff
                    /\ \A moment \in Newest(Starts(InterestLength, survey.initial), 1) :
                          \E point \in PointsShown(<<3, InterestLength>>, survey.cutoff) :
                              moment <= point /\ point <= survey.cutoff
  BY DEF MarketIsWhole
<1>1. /\ survey.cutoff \in Ticks /\ survey.initial \in Ticks
      /\ survey.cutoff \in Nat /\ survey.initial \in Nat
  BY SurveyFields DEF MarketInv, MarketTypeOK
<1>2. Unfaulted /\ \A series \in Series : SeriesComplete(series, survey.cutoff)
  BY DEF MarketComplete, Unfaulted
<1>3. survey.initial <= survey.cutoff /\ \A series \in Series : HoldsUp(series)
  BY <1>2 DEF MarketInv, EndHoldsUp
<1>4. ASSUME NEW length \in BarLengths
      PROVE  /\ {bar.start : bar \in ClosedBars(length, survey.cutoff)} =
                    Newest({start \in Starts(length, survey.cutoff) :
                                start + length <= survey.cutoff}, Depth)
             /\ \A bar \in ClosedBars(length, survey.cutoff) : bar.final
  <2>1. PICK series \in Series : series = <<1, length>>
    BY DEF Series
  <2>2. series[1] = 1 /\ series[2] = length
    BY <2>1
  <2>3. PICK told \in Ticks : /\ told <= survey.cutoff
                              /\ ReadAfter(series, told)
                              /\ ~Crossed(series, told, survey.cutoff)
    BY <1>3, <2>2 DEF HoldsUp
  <2>4. BarsComplete(length, survey.cutoff)
    BY <1>2, <2>2 DEF SeriesComplete
  <2> QED
    BY <1>1, <2>1, <2>3, <2>4, BarsAreWhole
<1>5. PointsShown(<<2, FundingLength>>, survey.cutoff) =
         Newest(Starts(FundingLength, survey.cutoff), Depth)
  <2>1. PICK series \in Series : series = <<2, FundingLength>>
    BY DEF Series
  <2>2. series[1] = 2
    BY <2>1
  <2>3. PICK told \in Ticks : /\ told <= survey.cutoff
                              /\ ReadAfter(series, told)
                              /\ ~Crossed(series, told, survey.cutoff)
    BY <1>3, <2>2 DEF HoldsUp
  <2>4. PointsComplete(series, survey.cutoff)
    BY <1>2, <2>2 DEF SeriesComplete
  <2> QED
    BY <1>1, <2>1, <2>3, <2>4, FundingIsWhole
<1>6. ASSUME NEW moment \in Newest(Starts(InterestLength, survey.initial), 1)
      PROVE  \E point \in PointsShown(<<3, InterestLength>>, survey.cutoff) :
                moment <= point /\ point <= survey.cutoff
  <2>1. PICK series \in Series : series = <<3, InterestLength>>
    BY DEF Series
  <2>2. series[1] = 3
    BY <2>1
  <2>3. ReadAfter(series, survey.initial)
    BY <1>3, <2>2 DEF HoldsUp
  <2>4. PointsComplete(series, survey.cutoff)
    BY <1>2, <2>2 DEF SeriesComplete
  <2>5. moment \in Starts(InterestLength, survey.initial)
    BY DEF Newest
  <2> QED
    BY <1>1, <1>3, <2>1, <2>3, <2>4, <2>5, InterestIsWhole
<1>7. \E moment \in survey.ticker : moment <= survey.cutoff
  <2>1. survey.ticker # {}
    BY <1>2 DEF MarketInv, TickerIsTold, Unfaulted
  <2> QED
    BY <2>1 DEF MarketComplete
<1> QED
  BY <1>4, <1>5, <1>6, <1>7

-----------------------------------------------------------------------------
(* The steps.                                                               *)

\* What is kept of what was read still holds.
LEMMA ReadIsKept ==
    ASSUME UNCHANGED <<survey.bars, survey.points>>
    PROVE  \A series, told : ReadAfter(series, told) => ReadAfter(series, told)'
BY DEF ReadAfter, ReadOf

LEMMA InitIsSound == MarketInit => MarketInv
<1> SUFFICES ASSUME MarketInit PROVE MarketInv
  OBVIOUS
<1>1. clock = FirstTick /\ clock \in Ticks /\ 0 \in Ticks
  BY LengthAssumption DEF MarketInit, Ticks
<1>2. survey \in Survey
  BY <1>1 DEF MarketInit, Survey, Bar
<1>3. survey.step = "begin"
  BY DEF MarketInit
<1>4. FirstTick <= clock /\ survey.initial <= clock
  BY <1>1, LengthAssumption DEF MarketInit
<1> QED
  BY <1>1, <1>2, <1>3, <1>4
  DEF MarketInv, MarketTypeOK, TimesGoOn, TickerIsTold, FirstReads, SecondReads, NoneIsLeft,
      EndHoldsUp, Unfaulted

LEMMA SurveyUntouched ==
    ASSUME MarketInv, UNCHANGED survey
    PROVE  (TickerIsTold /\ FirstReads /\ SecondReads /\ NoneIsLeft /\ EndHoldsUp)'
BY DEF MarketInv, TickerIsTold, FirstReads, SecondReads, NoneIsLeft, EndHoldsUp, Settled,
       NoneEnded, HoldsUp, Unfaulted, Known, ReadAfter, ReadOf

LEMMA TickKeepsMarket == MarketInv /\ TickPasses => MarketInv'
<1> SUFFICES ASSUME MarketInv, TickPasses PROVE MarketInv'
  OBVIOUS
<1>1. UNCHANGED survey /\ clock' = clock + 1 /\ clock < LastTick
  BY DEF TickPasses
<1>2. clock \in Nat /\ LastTick \in Nat /\ clock' \in Ticks /\ clock <= clock'
  BY <1>1, ClockIsNat DEF Ticks
<1>3. MarketTypeOK'
  BY <1>1, <1>2 DEF MarketInv, MarketTypeOK
<1>4. TimesGoOn'
  <2>1. clock' \in Nat /\ survey.initial \in Nat /\ survey.candidate \in Nat
        /\ FirstTick \in Nat
    BY <1>1, <1>2, SurveyFields, LengthAssumption DEF MarketInv, MarketTypeOK
  <2> QED
    BY <1>1, <1>2, <2>1 DEF MarketInv, TimesGoOn
<1> QED
  BY <1>1, <1>3, <1>4, SurveyUntouched DEF MarketInv

LEMMA InitialTimeKeepsMarket == MarketInv /\ ReadInitialTime => MarketInv'
<1> SUFFICES ASSUME MarketInv, ReadInitialTime PROVE MarketInv'
  OBVIOUS
<1>1. survey \in Survey /\ clock \in Ticks /\ UNCHANGED clock
  BY DEF MarketInv, MarketTypeOK, ReadInitialTime
<1>2. /\ survey' \in Survey
      /\ \/ survey'.step = "instrument" /\ survey'.initial <= clock
         \/ survey'.step = "failed" /\ survey'.initial <= clock
  <2>1. CASE \E told \in ToldTimes :
                survey' = [survey EXCEPT !.step = "instrument", !.initial = told]
    <3>1. PICK told \in ToldTimes :
             survey' = [survey EXCEPT !.step = "instrument", !.initial = told]
      BY <2>1
    <3>2. told \in Ticks /\ told <= clock
      BY ClockIsNat
    <3> QED
      BY <1>1, <3>1, <3>2 DEF Survey
  <2> QED
    BY <1>1, <2>1 DEF ReadInitialTime, Survey, MarketInv, TimesGoOn
<1> QED
  BY <1>1, <1>2
  DEF MarketInv, MarketTypeOK, TimesGoOn, TickerIsTold, FirstReads, SecondReads, NoneIsLeft,
      EndHoldsUp, Unfaulted

LEMMA InstrumentKeepsMarket == MarketInv /\ ReadInstrument => MarketInv'
<1> SUFFICES ASSUME MarketInv, ReadInstrument PROVE MarketInv'
  OBVIOUS
<1>1. survey \in Survey /\ clock \in Ticks /\ UNCHANGED clock
  BY DEF MarketInv, MarketTypeOK, ReadInstrument
<1>2. survey' \in Survey /\ survey'.step = "ticker" /\ survey'.initial = survey.initial
  <2>1. CASE survey' = [survey EXCEPT !.step = "ticker", !.instrument = {clock}]
    BY <1>1, <2>1 DEF Survey
  <2>2. CASE survey' = [survey EXCEPT !.step = "ticker", !.fault = TRUE]
    BY <1>1, <2>2 DEF Survey
  <2> QED
    BY <2>1, <2>2 DEF ReadInstrument
<1> QED
  BY <1>1, <1>2
  DEF MarketInv, MarketTypeOK, TimesGoOn, TickerIsTold, FirstReads, SecondReads, NoneIsLeft,
      EndHoldsUp, Unfaulted

LEMMA TickerKeepsMarket == MarketInv /\ ReadTicker => MarketInv'
<1> SUFFICES ASSUME MarketInv, ReadTicker PROVE MarketInv'
  OBVIOUS
<1>1. survey \in Survey /\ clock \in Ticks /\ UNCHANGED clock
  BY DEF MarketInv, MarketTypeOK, ReadTicker
<1>2. /\ survey' \in Survey /\ survey'.step = "series" /\ survey'.initial = survey.initial
      /\ survey'.left = Series /\ (survey'.fault \/ survey'.ticker # {})
  <2>1. CASE survey' = [survey EXCEPT !.step = "series", !.left = Series, !.ticker = {clock}]
    BY <1>1, <2>1 DEF Survey
  <2>2. CASE survey' = [survey EXCEPT !.step = "series", !.left = Series, !.fault = TRUE]
    BY <1>1, <2>2 DEF Survey
  <2> QED
    BY <2>1, <2>2 DEF ReadTicker
<1> QED
  BY <1>1, <1>2
  DEF MarketInv, MarketTypeOK, TimesGoOn, TickerIsTold, FirstReads, SecondReads, NoneIsLeft,
      EndHoldsUp, Unfaulted

\* A read settles its series and leaves the others as they were.
LEMMA ReadSettles ==
    ASSUME MarketInv, NEW told \in Ticks, told <= clock,
           NEW next \in {"candidate", "final"}, ReadNext(told, next)
    PROVE  \E series \in survey.left :
              /\ survey' \in Survey
              /\ survey'.left = survey.left \ {series}
              /\ survey'.step = IF survey.left \ {series} = {} THEN next ELSE survey.step
              /\ survey'.initial = survey.initial /\ survey'.candidate = survey.candidate
              /\ survey'.ticker = survey.ticker /\ survey'.fault = survey.fault
              /\ survey'.instrument = survey.instrument
              /\ survey.faulty \subseteq survey'.faulty
              /\ Settled(series, told)'
              /\ \A other \in Series \ {series}, at \in Ticks :
                    ReadAfter(other, at) => ReadAfter(other, at)'
<1>1. PICK series \in survey.left :
         LET left == survey.left \ {series}
             read == [survey EXCEPT !.left = left,
                                    !.step = IF left = {} THEN next ELSE @]
         IN  \/ /\ series[1] = 1
                /\ survey' = [read EXCEPT !.bars[series[2]] = BarsAt(series[2], told)]
             \/ /\ series[1] # 1
                /\ survey' = [read EXCEPT !.points[<<series[2], series[1]>>] =
                                              PointsAt(series[2])]
             \/ survey' = [read EXCEPT !.faulty = @ \cup {series}]
  BY DEF ReadNext
<1> DEFINE left == survey.left \ {series}
           step == IF left = {} THEN next ELSE survey.step
           read == [survey EXCEPT !.left = left, !.step = step]
<1>2. survey \in Survey /\ series \in Series /\ clock \in Ticks
  BY SurveyFields DEF MarketInv, MarketTypeOK
<1>3. /\ read \in Survey /\ read.left = left /\ read.step = step
      /\ read.initial = survey.initial /\ read.candidate = survey.candidate
      /\ read.ticker = survey.ticker /\ read.fault = survey.fault
      /\ read.instrument = survey.instrument /\ read.faulty = survey.faulty
      /\ read.bars = survey.bars /\ read.points = survey.points
  BY <1>2 DEF Survey
<1>4. \/ /\ series[1] = 1
         /\ survey' = [read EXCEPT !.bars[series[2]] = BarsAt(series[2], told)]
      \/ /\ series[1] # 1
         /\ survey' = [read EXCEPT !.points[<<series[2], series[1]>>] = PointsAt(series[2])]
      \/ survey' = [read EXCEPT !.faulty = @ \cup {series}]
  <2>1. read = [survey EXCEPT !.left = left, !.step = IF left = {} THEN next ELSE @]
    OBVIOUS
  <2> QED
    BY <1>1, <2>1
<1>5. PICK copy \in Survey : copy = read
  BY <1>3
<1> HIDE DEF left, step, read
<1>6. CASE /\ series[1] = 1
           /\ survey' = [read EXCEPT !.bars[series[2]] = BarsAt(series[2], told)]
  <2>1. series[2] \in BarLengths /\ series = <<1, series[2]>>
    BY <1>2, <1>6, SeriesAre
  <2>2. BarsAt(series[2], told) \in SUBSET Bar
    BY <2>1, ReadsAreTyped
  <2>3. survey' = [copy EXCEPT !.bars[series[2]] = BarsAt(series[2], told)]
    BY <1>5, <1>6
  <2>4. /\ survey' \in Survey
        /\ survey'.bars = [survey.bars EXCEPT ![series[2]] = BarsAt(series[2], told)]
        /\ survey'.points = survey.points
        /\ survey'.left = left /\ survey'.step = step
        /\ survey'.initial = survey.initial /\ survey'.candidate = survey.candidate
        /\ survey'.ticker = survey.ticker /\ survey'.fault = survey.fault
        /\ survey'.instrument = survey.instrument /\ survey'.faulty = survey.faulty
    BY <1>3, <1>5, <2>1, <2>2, <2>3 DEF Survey
  <2>5. survey.bars \in [BarLengths -> SUBSET Bar]
    BY <1>2 DEF Survey
  <2>6. ReadOf(series, told, clock)'
    BY <1>6, <2>1, <2>4, <2>5 DEF ReadOf, BarsAt, ReadNext
  <2>7. Settled(series, told)'
    BY <1>2, <2>6 DEF Settled, ReadAfter, ReadNext
  <2>8. ASSUME NEW other \in Series \ {series}, NEW at \in Ticks, ReadAfter(other, at)
        PROVE  ReadAfter(other, at)'
    <3>1. CASE other[1] = 1
      <4>1. other[2] \in BarLengths /\ other = <<1, other[2]>>
        BY <3>1, SeriesAre
      <4>2. other[2] # series[2]
        BY <2>1, <4>1
      <4>3. survey'.bars[other[2]] = survey.bars[other[2]]
        BY <2>4, <2>5, <4>1, <4>2
      <4> QED
        BY <2>8, <3>1, <4>3 DEF ReadAfter, ReadOf
    <3>2. CASE other[1] # 1
      BY <2>4, <2>8, <3>2 DEF ReadAfter, ReadOf
    <3> QED
      BY <3>1, <3>2
  <2> QED
    BY <2>4, <2>7, <2>8 DEF left, step
<1>7. CASE /\ series[1] # 1
           /\ survey' = [read EXCEPT !.points[<<series[2], series[1]>>] = PointsAt(series[2])]
  <2> DEFINE key == <<series[2], series[1]>>
  <2>1. key \in {FundingLength, InterestLength} \X {2, 3}
    BY <1>2, <1>7, SeriesAre
  <2>2. PointsAt(series[2]) \in SUBSET Ticks
    BY PointsAreTyped
  <2>3. survey' = [copy EXCEPT !.points[key] = PointsAt(series[2])]
    BY <1>5, <1>7
  <2> HIDE DEF key
  <2>4. /\ survey' \in Survey
        /\ survey'.points = [survey.points EXCEPT ![key] = PointsAt(series[2])]
        /\ survey'.bars = survey.bars
        /\ survey'.left = left /\ survey'.step = step
        /\ survey'.initial = survey.initial /\ survey'.candidate = survey.candidate
        /\ survey'.ticker = survey.ticker /\ survey'.fault = survey.fault
        /\ survey'.instrument = survey.instrument /\ survey'.faulty = survey.faulty
    BY <1>3, <1>5, <2>1, <2>2, <2>3 DEF Survey
  <2>5. survey.points \in [{FundingLength, InterestLength} \X {2, 3} -> SUBSET Ticks]
    BY <1>2 DEF Survey
  <2>6. survey'.points[key] = PointsAt(series[2])
    BY <2>1, <2>4, <2>5
  <2>7. ReadOf(series, told, clock)'
    BY <1>7, <2>6 DEF ReadOf, PointsAt, ReadNext, key
  <2>8. Settled(series, told)'
    BY <1>2, <2>7 DEF Settled, ReadAfter, ReadNext
  <2>9. ASSUME NEW other \in Series \ {series}, NEW at \in Ticks, ReadAfter(other, at)
        PROVE  ReadAfter(other, at)'
    <3>1. CASE other[1] # 1
      <4>1. <<other[2], other[1]>> \in {FundingLength, InterestLength} \X {2, 3}
        BY <3>1, SeriesAre
      <4>2. <<other[2], other[1]>> # key
        <5>1. other[1] # series[1] \/ other[2] # series[2]
          BY <1>2 DEF Series
        <5> QED
          BY <5>1 DEF key
      <4>3. survey'.points[<<other[2], other[1]>>] = survey.points[<<other[2], other[1]>>]
        BY <2>4, <2>5, <4>1, <4>2
      <4> QED
        BY <2>9, <3>1, <4>3 DEF ReadAfter, ReadOf
    <3>2. CASE other[1] = 1
      BY <2>4, <2>9, <3>2 DEF ReadAfter, ReadOf
    <3> QED
      BY <3>1, <3>2
  <2> QED
    BY <2>4, <2>8, <2>9 DEF left, step
<1>8. CASE survey' = [read EXCEPT !.faulty = @ \cup {series}]
  <2>1. survey' = [copy EXCEPT !.faulty = @ \cup {series}]
    BY <1>5, <1>8
  <2>2. /\ survey' \in Survey
        /\ survey'.points = survey.points /\ survey'.bars = survey.bars
        /\ survey'.left = left /\ survey'.step = step
        /\ survey'.initial = survey.initial /\ survey'.candidate = survey.candidate
        /\ survey'.ticker = survey.ticker /\ survey'.fault = survey.fault
        /\ survey'.instrument = survey.instrument
        /\ survey'.faulty = survey.faulty \cup {series}
    BY <1>2, <1>3, <1>5, <2>1 DEF Survey
  <2>3. Settled(series, told)'
    BY <2>2 DEF Settled
  <2> QED
    BY <2>2, <2>3, ReadIsKept DEF left, step
<1> QED
  BY <1>4, <1>6, <1>7, <1>8

LEMMA SeriesKeepsMarket == MarketInv /\ ReadSeries => MarketInv'
<1> SUFFICES ASSUME MarketInv, ReadSeries PROVE MarketInv'
  OBVIOUS
<1>1. /\ survey \in Survey /\ clock \in Ticks /\ UNCHANGED clock /\ survey.step = "series"
      /\ ReadNext(survey.initial, "candidate")
  BY DEF MarketInv, MarketTypeOK, ReadSeries, ReadNext
<1>2. PICK told \in Ticks : told = survey.initial /\ told <= clock
  BY <1>1, SurveyFields DEF MarketInv, TimesGoOn
<1>3. PICK series \in survey.left :
         /\ survey' \in Survey
         /\ survey'.left = survey.left \ {series}
         /\ survey'.step = IF survey.left \ {series} = {} THEN "candidate" ELSE survey.step
         /\ survey'.initial = survey.initial /\ survey'.candidate = survey.candidate
         /\ survey'.ticker = survey.ticker /\ survey'.fault = survey.fault
         /\ survey'.instrument = survey.instrument
         /\ survey.faulty \subseteq survey'.faulty
         /\ Settled(series, told)'
         /\ \A other \in Series \ {series}, at \in Ticks :
               ReadAfter(other, at) => ReadAfter(other, at)'
  BY <1>1, <1>2, ReadSettles
<1>4. ASSUME NEW other \in Series, other \notin survey'.left PROVE Settled(other, told)'
  <2>1. CASE other = series
    BY <1>3, <2>1
  <2>2. CASE other # series
    <3>1. Settled(other, told)
      BY <1>1, <1>2, <1>3, <1>4, <2>2 DEF MarketInv, FirstReads
    <3> QED
      BY <1>3, <2>2, <3>1 DEF Settled
  <2> QED
    BY <2>1, <2>2
<1>5. FirstReads'
  <2>1. told = survey'.initial
    BY <1>2, <1>3
  <2> QED
    BY <1>4, <2>1 DEF FirstReads
<1>6. TimesGoOn' /\ TickerIsTold' /\ SecondReads' /\ NoneIsLeft' /\ EndHoldsUp'
  BY <1>1, <1>3
  DEF MarketInv, TimesGoOn, TickerIsTold, SecondReads, NoneIsLeft, EndHoldsUp, Unfaulted
<1> QED
  BY <1>1, <1>3, <1>5, <1>6 DEF MarketInv, MarketTypeOK

LEMMA AgainKeepsMarket == MarketInv /\ ReadAgain => MarketInv'
<1> SUFFICES ASSUME MarketInv, ReadAgain PROVE MarketInv'
  OBVIOUS
<1>1. /\ survey \in Survey /\ clock \in Ticks /\ UNCHANGED clock /\ survey.step = "again"
      /\ ReadNext(survey.candidate, "final")
  BY DEF MarketInv, MarketTypeOK, ReadAgain, ReadNext
<1>2. PICK told \in Ticks : told = survey.candidate /\ told <= clock
  BY <1>1, SurveyFields DEF MarketInv, TimesGoOn
<1>3. PICK series \in survey.left :
         /\ survey' \in Survey
         /\ survey'.left = survey.left \ {series}
         /\ survey'.step = IF survey.left \ {series} = {} THEN "final" ELSE survey.step
         /\ survey'.initial = survey.initial /\ survey'.candidate = survey.candidate
         /\ survey'.ticker = survey.ticker /\ survey'.fault = survey.fault
         /\ survey'.instrument = survey.instrument
         /\ survey.faulty \subseteq survey'.faulty
         /\ Settled(series, told)'
         /\ \A other \in Series \ {series}, at \in Ticks :
               ReadAfter(other, at) => ReadAfter(other, at)'
  BY <1>1, <1>2, ReadSettles
<1>4. series \in Series
  BY <1>1, SurveyFields
<1>5. PICK initial \in Ticks : initial = survey.initial
  BY <1>1, SurveyFields
<1>6. ASSUME NEW other \in Series, other[1] = 3 PROVE Settled(other, initial)'
  <2>1. Settled(other, initial)
    BY <1>1, <1>5, <1>6 DEF MarketInv, SecondReads
  <2>2. CASE other = series
    <3>1. other \in survey'.faulty \/ ReadAfter(other, told)'
      BY <1>3, <2>2 DEF Settled
    <3>2. initial <= told /\ initial \in Nat /\ told \in Nat
      BY <1>1, <1>2, <1>5, SurveyFields DEF MarketInv, TimesGoOn
    <3>3. ReadAfter(other, told)' => ReadAfter(other, initial)'
      <4> SUFFICES ASSUME ReadAfter(other, told)' PROVE ReadAfter(other, initial)'
        OBVIOUS
      <4>1. PICK at \in Ticks : told <= at /\ ReadOf(other, told, at)'
        BY DEF ReadAfter
      <4>2. at \in Nat
        BY TicksAreNat
      <4>3. initial <= at /\ ReadOf(other, initial, at)'
        BY <1>6, <3>2, <4>1, <4>2 DEF ReadOf
      <4> QED
        BY <4>3 DEF ReadAfter
    <3> QED
      BY <3>1, <3>3 DEF Settled
  <2>3. CASE other # series
    BY <1>3, <2>1, <2>3 DEF Settled
  <2> QED
    BY <2>2, <2>3
<1>7. ASSUME NEW other \in Series, other \notin survey'.left
      PROVE  Settled(other, told)' \/ (ReadAfter(other, initial)' /\ NoneEnded(other)')
  <2>1. CASE other = series
    BY <1>3, <2>1
  <2>2. CASE other # series
    <3>1. Settled(other, told) \/ (ReadAfter(other, initial) /\ NoneEnded(other))
      BY <1>1, <1>2, <1>3, <1>5, <1>7, <2>2 DEF MarketInv, SecondReads
    <3>2. NoneEnded(other) => NoneEnded(other)'
      BY <1>3 DEF NoneEnded, Crossed, Known
    <3> QED
      BY <1>3, <2>2, <3>1, <3>2 DEF Settled
  <2> QED
    BY <2>1, <2>2
<1>8. SecondReads'
  <2>1. told = survey'.candidate /\ initial = survey'.initial
    BY <1>2, <1>3, <1>5
  <2> QED
    BY <1>6, <1>7, <2>1 DEF SecondReads
<1>9. TimesGoOn' /\ TickerIsTold' /\ FirstReads' /\ NoneIsLeft' /\ EndHoldsUp'
  BY <1>1, <1>3
  DEF MarketInv, TimesGoOn, TickerIsTold, FirstReads, NoneIsLeft, EndHoldsUp, Unfaulted
<1> QED
  BY <1>1, <1>3, <1>8, <1>9 DEF MarketInv, MarketTypeOK

-----------------------------------------------------------------------------
\* The times that end a collection.
LEMMA EndedIs ==
    ASSUME MarketInv, NEW cutoff \in Ticks, NEW fault \in BOOLEAN,
           NEW faulty \in SUBSET Series, Ended(cutoff, fault, faulty)
    PROVE  /\ survey' \in Survey
           /\ survey'.step \in {"ended", "failed"} /\ survey'.cutoff = cutoff
           /\ survey'.fault = (survey.fault \/ fault)
           /\ survey'.faulty = survey.faulty \cup faulty
           /\ survey'.initial = survey.initial /\ survey'.ticker = survey.ticker
           /\ survey'.instrument = survey.instrument
           /\ UNCHANGED <<survey.bars, survey.points>>
<1>1. survey \in Survey
  BY DEF MarketInv, MarketTypeOK
<1>2. PICK last \in {"ended", "failed"} :
         survey' = [survey EXCEPT !.step = last, !.cutoff = cutoff,
                                  !.fault = @ \/ fault, !.faulty = @ \cup faulty]
  BY DEF Ended
<1>3. (survey.fault \/ fault) \in BOOLEAN /\ survey.faulty \cup faulty \in SUBSET Series
  BY <1>1, SurveyFields
<1> QED
  BY <1>1, <1>2, <1>3 DEF Survey

\* A collection that ends keeps the invariant when what it read holds up.
LEMMA EndKeepsMarket ==
    ASSUME MarketInv, UNCHANGED clock, NEW cutoff \in Ticks, NEW fault \in BOOLEAN,
           NEW faulty \in SUBSET Series, Ended(cutoff, fault, faulty),
           survey.step \in {"candidate", "final"},
           (~fault /\ faulty = {} /\ survey.faulty = {} /\ Known) =>
               /\ survey.initial <= cutoff
               /\ \A series \in Series :
                     IF series[1] = 3 THEN ReadAfter(series, survey.initial)
                     ELSE \E told \in Ticks : /\ told <= cutoff
                                              /\ ReadAfter(series, told)
                                              /\ ~Crossed(series, told, cutoff)
    PROVE  MarketInv'
<1>1. /\ survey' \in Survey
      /\ survey'.step \in {"ended", "failed"} /\ survey'.cutoff = cutoff
      /\ survey'.fault = (survey.fault \/ fault)
      /\ survey'.faulty = survey.faulty \cup faulty
      /\ survey'.initial = survey.initial /\ survey'.ticker = survey.ticker
      /\ survey'.instrument = survey.instrument
      /\ UNCHANGED <<survey.bars, survey.points>>
  BY EndedIs
<1>2. PICK initial \in Ticks : initial = survey.initial
  BY SurveyFields DEF MarketInv, MarketTypeOK
<1>3. EndHoldsUp'
  <2> SUFFICES ASSUME Unfaulted'
               PROVE  (survey.initial <= survey.cutoff /\ \A series \in Series : HoldsUp(series))'
    BY DEF EndHoldsUp
  <2>1. ~fault /\ faulty = {} /\ survey.faulty = {} /\ Known
    BY <1>1 DEF Unfaulted, Known
  <2>2. survey'.initial <= survey'.cutoff
    BY <1>1, <2>1
  <2>3. ASSUME NEW series \in Series PROVE HoldsUp(series)'
    <3>1. IF series[1] = 3 THEN ReadAfter(series, initial)
          ELSE \E told \in Ticks : /\ told <= cutoff
                                   /\ ReadAfter(series, told)
                                   /\ ~Crossed(series, told, cutoff)
      BY <1>2, <2>1
    <3>2. IF series[1] = 3 THEN ReadAfter(series, initial)'
          ELSE \E told \in Ticks : /\ told <= cutoff
                                   /\ ReadAfter(series, told)'
                                   /\ ~Crossed(series, told, cutoff)
      BY <1>1, <3>1, ReadIsKept
    <3>3. initial = survey'.initial /\ cutoff = survey'.cutoff
      BY <1>1, <1>2
    <3> QED
      BY <3>2, <3>3 DEF HoldsUp, Crossed
  <2> QED
    BY <2>2, <2>3
<1>4. TickerIsTold'
  BY <1>1 DEF MarketInv, TickerIsTold
<1>5. TimesGoOn' /\ FirstReads' /\ SecondReads' /\ NoneIsLeft'
  BY <1>1 DEF MarketInv, TimesGoOn, FirstReads, SecondReads, NoneIsLeft
<1> QED
  BY <1>1, <1>3, <1>4, <1>5 DEF MarketInv, MarketTypeOK

LEMMA CandidateKeepsMarket == MarketInv /\ ReadCandidateTime => MarketInv'
<1> SUFFICES ASSUME MarketInv, ReadCandidateTime PROVE MarketInv'
  OBVIOUS
<1>1. /\ survey \in Survey /\ UNCHANGED clock /\ survey.step = "candidate"
      /\ survey.left = {} /\ clock \in Ticks
  BY DEF MarketInv, MarketTypeOK, NoneIsLeft, ReadCandidateTime
<1>2. PICK initial \in Ticks : initial = survey.initial /\ initial \in Nat
  BY <1>1, SurveyFields
<1>3. \A series \in Series : Settled(series, initial)
  BY <1>1, <1>2 DEF MarketInv, FirstReads
<1>4. CASE Ended(survey.initial, TRUE, {})
  BY <1>1, <1>2, <1>4, EndKeepsMarket
<1>5. CASE \E told \in ToldTimes : /\ told >= survey.initial /\ ToReadAgain(told) = {}
                                   /\ Ended(told, FALSE, {})
  <2>1. PICK told \in ToldTimes : /\ told >= survey.initial /\ ToReadAgain(told) = {}
                                  /\ Ended(told, FALSE, {})
    BY <1>5
  <2>2. told \in Ticks /\ told \in Nat /\ initial <= told
    BY <1>2, <2>1, ClockIsNat
  <2>3. ASSUME survey.faulty = {}, Known, NEW series \in Series
        PROVE  IF series[1] = 3 THEN ReadAfter(series, survey.initial)
               ELSE \E moment \in Ticks : /\ moment <= told
                                          /\ ReadAfter(series, moment)
                                          /\ ~Crossed(series, moment, told)
    <3>1. ReadAfter(series, initial)
      BY <1>3, <2>3 DEF Settled
    <3>2. series[1] # 3 => ~Crossed(series, initial, told)
      BY <1>2, <2>1, <2>3 DEF ToReadAgain
    <3> QED
      BY <1>2, <2>2, <3>1, <3>2
  <2> QED
    BY <1>1, <1>2, <2>1, <2>2, <2>3, EndKeepsMarket
<1>6. CASE \E told \in ToldTimes :
              /\ told >= survey.initial /\ ToReadAgain(told) # {}
              /\ survey' = [survey EXCEPT !.step = "again", !.candidate = told,
                                          !.left = ToReadAgain(told)]
  <2>1. PICK told \in ToldTimes :
           /\ told >= survey.initial /\ ToReadAgain(told) # {}
           /\ survey' = [survey EXCEPT !.step = "again", !.candidate = told,
                                       !.left = ToReadAgain(told)]
    BY <1>6
  <2>2. told \in Ticks /\ told \in Nat /\ told <= clock /\ initial <= told
    BY <1>2, <2>1, ClockIsNat
  <2>3. ToReadAgain(told) \in SUBSET Series
    BY DEF ToReadAgain
  <2>4. /\ survey' \in Survey /\ survey'.step = "again" /\ survey'.candidate = told
        /\ survey'.left = ToReadAgain(told)
        /\ survey'.initial = survey.initial /\ survey'.ticker = survey.ticker
        /\ survey'.instrument = survey.instrument /\ survey'.fault = survey.fault
        /\ survey'.faulty = survey.faulty
        /\ UNCHANGED <<survey.bars, survey.points>>
    <3> HIDE DEF ToReadAgain
    <3> QED
      BY <1>1, <2>1, <2>2, <2>3 DEF Survey
  <2>5. ASSUME NEW series \in Series
        PROVE  /\ Settled(series, initial)'
               /\ series \notin survey'.left =>
                     Settled(series, initial)' /\ (series \in survey'.faulty \/ NoneEnded(series)')
    <3>1. Settled(series, initial)'
      BY <1>3, <2>4, ReadIsKept DEF Settled
    <3>2. ASSUME series \notin survey'.left, series \notin survey'.faulty
          PROVE  NoneEnded(series)'
      <4>1. \/ series[1] = 2 /\ ~Known
            \/ series[1] = 3
            \/ ~Crossed(series, survey.initial, told)
        BY <2>4, <3>2 DEF ToReadAgain
      <4> QED
        BY <2>4, <4>1 DEF NoneEnded, Crossed, Known
    <3> QED
      BY <3>1, <3>2
  <2>6. SecondReads'
    <3>1. initial = survey'.initial
      BY <1>2, <2>4
    <3> QED
      BY <2>5, <3>1 DEF SecondReads, Settled
  <2>7. TimesGoOn' /\ TickerIsTold' /\ FirstReads' /\ NoneIsLeft' /\ EndHoldsUp'
    BY <1>1, <1>2, <2>2, <2>4
    DEF MarketInv, TimesGoOn, TickerIsTold, FirstReads, NoneIsLeft, EndHoldsUp, Unfaulted
  <2> QED
    BY <1>1, <2>4, <2>6, <2>7 DEF MarketInv, MarketTypeOK
<1> QED
  BY <1>4, <1>5, <1>6 DEF ReadCandidateTime

LEMMA FinalKeepsMarket == MarketInv /\ ReadFinalTime => MarketInv'
<1> SUFFICES ASSUME MarketInv, ReadFinalTime PROVE MarketInv'
  OBVIOUS
<1>1. /\ survey \in Survey /\ UNCHANGED clock /\ survey.step = "final"
      /\ survey.left = {} /\ clock \in Ticks
  BY DEF MarketInv, MarketTypeOK, NoneIsLeft, ReadFinalTime
<1>2. PICK initial \in Ticks : initial = survey.initial /\ initial \in Nat
  BY <1>1, SurveyFields
<1>3. PICK candidate \in Ticks :
         /\ candidate = survey.candidate /\ candidate \in Nat /\ initial <= candidate
  BY <1>1, <1>2, SurveyFields DEF MarketInv, TimesGoOn
<1>4. \A series \in Series :
         /\ series[1] = 3 => Settled(series, initial)
         /\ Settled(series, candidate) \/ (ReadAfter(series, initial) /\ NoneEnded(series))
  BY <1>1, <1>2, <1>3 DEF MarketInv, SecondReads
<1>5. CASE Ended(survey.candidate, TRUE, {})
  BY <1>1, <1>3, <1>5, EndKeepsMarket
<1>6. CASE \E told \in ToldTimes : /\ told >= survey.candidate
                                   /\ Ended(told, FALSE, CrossedSince(told))
  <2>1. PICK told \in ToldTimes : /\ told >= survey.candidate
                                  /\ Ended(told, FALSE, CrossedSince(told))
    BY <1>6
  <2>2. told \in Ticks /\ told \in Nat /\ candidate <= told /\ initial <= told
    BY <1>2, <1>3, <2>1, ClockIsNat
  <2>3. ASSUME CrossedSince(told) = {}, survey.faulty = {}, Known, NEW series \in Series
        PROVE  IF series[1] = 3 THEN ReadAfter(series, survey.initial)
               ELSE \E moment \in Ticks : /\ moment <= told
                                          /\ ReadAfter(series, moment)
                                          /\ ~Crossed(series, moment, told)
    <3>1. CASE series[1] = 3
      BY <1>2, <1>4, <2>3, <3>1 DEF Settled
    <3>2. CASE series[1] # 3
      <4>1. ~Crossed(series, candidate, told)
        BY <1>3, <2>3, <3>2 DEF CrossedSince
      <4>2. CASE ReadAfter(series, candidate)
        BY <2>2, <3>2, <4>1, <4>2
      <4>3. CASE ReadAfter(series, initial) /\ NoneEnded(series)
        <5>1. ~Crossed(series, initial, told)
          BY <1>2, <1>3, <2>3, <3>2, <4>1, <4>3 DEF NoneEnded, Crossed
        <5> QED
          BY <2>2, <3>2, <4>3, <5>1
      <4> QED
        BY <1>4, <2>3, <4>2, <4>3 DEF Settled
    <3> QED
      BY <3>1, <3>2
  <2>4. CrossedSince(told) \in SUBSET Series
    BY DEF CrossedSince
  <2> QED
    BY <1>1, <1>2, <2>1, <2>2, <2>3, <2>4, EndKeepsMarket
<1> QED
  BY <1>5, <1>6 DEF ReadFinalTime

LEMMA MarketInvIsKept == MarketInv /\ [MarketNext]_marketVars => MarketInv'
<1> SUFFICES ASSUME MarketInv, [MarketNext]_marketVars PROVE MarketInv'
  OBVIOUS
<1>1. CASE UNCHANGED marketVars
  BY <1>1, SurveyUntouched DEF marketVars, MarketInv, MarketTypeOK, TimesGoOn
<1> QED
  BY <1>1, TickKeepsMarket, InitialTimeKeepsMarket, InstrumentKeepsMarket, TickerKeepsMarket,
     SeriesKeepsMarket, CandidateKeepsMarket, AgainKeepsMarket, FinalKeepsMarket
  DEF MarketNext

\* A bundle of market evidence that is complete is what the market was at its cutoff: a
\* series of which an interval ended while it was read is read again or diagnosed, a time
\* that went back is a diagnostic, and bars that were closed when the reader was told the
\* time had closed when they were read (collectMarketEvidence, its second reads and the
\* normalization of its series). It is so for every depth, and for all lengths of the
\* bars and of the intervals of funding and open interest.
THEOREM CompleteMarketsAreWhole == MarketSpec => []MarketIsWhole
<1>1. MarketSpec => []MarketInv
  BY InitIsSound, MarketInvIsKept, PTL DEF MarketSpec
<1> QED
  BY <1>1, EndIsWhole, PTL

-----------------------------------------------------------------------------
(***************************************************************************)
(* The collection of liquidations.                                          *)
(***************************************************************************)
\* What has been asked for and came back whole shows every liquidation.
SweepInv ==
    /\ happened \subseteq Cell /\ sweep \in Sweep
    /\ sweep.step \in {"begin", "catalogue"} =>
          sweep.rows = {} /\ sweep.listed = {} /\ sweep.left = {} /\ ~sweep.whole
    /\ sweep.rows \subseteq happened
    /\ sweep.whole => sweep.listed = Eligible
    /\ sweep.step = "ended" => sweep.left = {}
    /\ sweep.valid =>
          \A cell \in happened : cell[1] \in sweep.listed \ sweep.left => cell \in sweep.rows

LEMMA SweepStarts == LiquidationInit => SweepInv
<1> SUFFICES ASSUME LiquidationInit PROVE SweepInv
  OBVIOUS
<1>1. 0 \in 0 .. Waits
  BY BatchAssumption
<1>2. sweep \in Sweep
  BY <1>1 DEF LiquidationInit, Sweep
<1> QED
  BY <1>2 DEF LiquidationInit, SweepInv

LEMMA BeginSweepKept == SweepInv /\ BeginSweep => SweepInv'
<1> SUFFICES ASSUME SweepInv, BeginSweep PROVE SweepInv'
  OBVIOUS
<1>1. /\ sweep' \in Sweep
      /\ sweep'.step \in {"catalogue", "ended"}
      /\ sweep'.rows = {} /\ sweep'.listed = {} /\ sweep'.left = {} /\ ~sweep'.whole
  BY DEF SweepInv, BeginSweep, Sweep
<1>2. happened' \subseteq Cell
  BY DEF BeginSweep
<1> QED
  BY <1>1, <1>2 DEF SweepInv

LEMMA ReadCatalogueKept == SweepInv /\ ReadCatalogue => SweepInv'
<1> SUFFICES ASSUME SweepInv, ReadCatalogue PROVE SweepInv'
  OBVIOUS
<1>1. PICK answer \in CatalogueAnswers : AskFor(answer[1], answer[2])
  BY DEF ReadCatalogue
<1>2. /\ answer[1] \in SUBSET Eligible /\ answer[2] \in BOOLEAN
      /\ answer[2] => answer[1] = Eligible
  <2>1. CASE answer = <<Eligible, TRUE>>
    BY <2>1
  <2>2. CASE answer \in (SUBSET Eligible) \X {FALSE}
    BY <2>2
  <2> QED
    BY <2>1, <2>2 DEF CatalogueAnswers
<1>3. /\ sweep' \in Sweep
      /\ sweep'.step = IF answer[1] = {} THEN "ended" ELSE "quota"
      /\ sweep'.listed = answer[1] /\ sweep'.left = answer[1] /\ sweep'.whole = answer[2]
      /\ sweep'.rows = sweep.rows /\ sweep'.valid = sweep.valid
  BY <1>1, <1>2 DEF SweepInv, AskFor, Sweep
<1>4. happened' = happened /\ sweep.rows = {}
  BY DEF ReadCatalogue, SweepInv
<1>5. sweep'.step \in {"ended", "quota"}
  BY <1>3
<1> QED
  BY <1>2, <1>3, <1>4, <1>5 DEF SweepInv

LEMMA NextBatchKept ==
    ASSUME SweepInv, sweep.step \in {"sent", "quota"}, happened' = happened,
           NEW left \in SUBSET sweep.left, NEW rows \in SUBSET happened, NEW valid \in BOOLEAN,
           NextBatch(left, rows, valid),
           valid => \A cell \in happened :
                       cell[1] \in sweep.left /\ cell[1] \notin left => cell \in rows
    PROVE  SweepInv'
<1>1. /\ sweep.rows \cup rows \in SUBSET Cell /\ left \in SUBSET Eligible
      /\ (sweep.valid /\ valid) \in BOOLEAN
  BY DEF SweepInv, Sweep
<1>2. /\ sweep' \in Sweep
      /\ sweep'.step = IF left = {} THEN "ended" ELSE "quota"
      /\ sweep'.left = left /\ sweep'.listed = sweep.listed /\ sweep'.whole = sweep.whole
      /\ sweep'.rows = sweep.rows \cup rows
      /\ sweep'.valid = (sweep.valid /\ valid)
  BY <1>1 DEF SweepInv, NextBatch, Sweep
<1>3. sweep'.step \in {"ended", "quota"}
  BY <1>2
<1>4. ASSUME sweep'.valid, NEW cell \in happened, cell[1] \in sweep.listed \ left
      PROVE  cell \in sweep'.rows
  <2>1. sweep.valid /\ valid
    BY <1>2, <1>4
  <2> QED
    BY <1>2, <1>4, <2>1 DEF SweepInv
<1> QED
  BY <1>2, <1>3, <1>4 DEF SweepInv

LEMMA BatchAnsweredKept == SweepInv /\ BatchAnswered => SweepInv'
<1> SUFFICES ASSUME SweepInv, BatchAnswered PROVE SweepInv'
  OBVIOUS
<1>1. PICK intact \in SUBSET Batch :
          NextBatch(sweep.left \ Batch, happened \cap (intact \X Hours), intact = Batch)
  BY DEF BatchAnswered
<1>2. ASSUME intact = Batch, NEW cell \in happened,
             cell[1] \in sweep.left /\ cell[1] \notin sweep.left \ Batch
      PROVE  cell \in happened \cap (intact \X Hours)
  <2>1. cell \in Eligible \X Hours
    BY DEF SweepInv, Cell
  <2>2. cell[1] \in intact
    BY <1>2
  <2> QED
    BY <2>1, <2>2
<1>3. sweep.step = "sent" /\ happened' = happened
  BY DEF BatchAnswered
<1>4. (intact = Batch) \in BOOLEAN
  OBVIOUS
<1> QED
  BY <1>1, <1>2, <1>3, <1>4, NextBatchKept

LEMMA SweepStep == SweepInv /\ [LiquidationNext]_liquidationVars => SweepInv'
<1> SUFFICES ASSUME SweepInv, [LiquidationNext]_liquidationVars PROVE SweepInv'
  OBVIOUS
<1>1. CASE UNCHANGED liquidationVars
  BY <1>1 DEF liquidationVars, SweepInv
<1>2. CASE ChargeExpires
  BY <1>2 DEF ChargeExpires, SweepInv
<1>3. ASSUME happened' = happened, sweep' \in Sweep,
             sweep.step \in {"quota", "sent"}, sweep'.step \in {"quota", "sent"},
             sweep'.listed = sweep.listed, sweep'.left = sweep.left,
             sweep'.whole = sweep.whole, sweep'.rows = sweep.rows,
             sweep'.valid = sweep.valid
      PROVE  SweepInv'
  BY <1>3 DEF SweepInv
<1>4. CASE AcquireQuota
  <2>1. /\ sweep' \in Sweep /\ sweep'.step = "sent" /\ sweep.step = "quota"
        /\ sweep'.listed = sweep.listed /\ sweep'.left = sweep.left
        /\ sweep'.whole = sweep.whole /\ sweep'.rows = sweep.rows
        /\ sweep'.valid = sweep.valid /\ happened' = happened
    BY <1>4 DEF AcquireQuota, SweepInv, Sweep
  <2> QED
    BY <1>3, <2>1
<1>5. sweep.waited < Waits => sweep.waited + 1 \in 0 .. Waits
  <2>1. sweep.waited \in 0 .. Waits
    BY DEF SweepInv, Sweep
  <2> QED
    BY <2>1, BatchAssumption
<1>6. CASE WaitForQuota
  <2>1. /\ sweep' \in Sweep /\ sweep'.step = "quota" /\ sweep.step = "quota"
        /\ sweep'.listed = sweep.listed /\ sweep'.left = sweep.left
        /\ sweep'.whole = sweep.whole /\ sweep'.rows = sweep.rows
        /\ sweep'.valid = sweep.valid /\ happened' = happened
    BY <1>5, <1>6 DEF WaitForQuota, SweepInv, Sweep
  <2> QED
    BY <1>3, <2>1
<1>7. CASE RetryAfter
  <2>1. /\ sweep' \in Sweep /\ sweep'.step = "quota" /\ sweep.step = "sent"
        /\ sweep'.listed = sweep.listed /\ sweep'.left = sweep.left
        /\ sweep'.whole = sweep.whole /\ sweep'.rows = sweep.rows
        /\ sweep'.valid = sweep.valid /\ happened' = happened
    BY <1>5, <1>7 DEF RetryAfter, SweepInv, Sweep
  <2> QED
    BY <1>3, <2>1
<1>8. CASE BatchFailed
  <2>1. /\ sweep.step = "sent" /\ happened' = happened
        /\ NextBatch(sweep.left \ Batch, {}, FALSE)
    BY <1>8 DEF BatchFailed
  <2> QED
    BY <2>1, NextBatchKept
<1>9. CASE SweepHalted
  <2>1. /\ sweep.step \in {"sent", "quota"} /\ happened' = happened
        /\ NextBatch({}, {}, FALSE)
    BY <1>9 DEF SweepHalted
  <2> QED
    BY <2>1, NextBatchKept
<1> QED
  BY <1>1, <1>2, <1>4, <1>6, <1>7, <1>8, <1>9, BeginSweepKept, ReadCatalogueKept,
     BatchAnsweredKept DEF LiquidationNext

\* An hour without a row is called a zero only where none was lost, and a complete bundle
\* shows every liquidation: whatever of the catalogue could not be read, whichever batch
\* failed, lost a contract or was cut short by the quota (fillProvenSparseHistory,
\* collectLiquidationEvidence).
THEOREM ZerosAreProven == LiquidationSpec => []ZerosAreTrue
<1>1. SweepInv => ZerosAreTrue
  <2> SUFFICES ASSUME SweepInv, sweep.step = "ended"
               PROVE  /\ ImpliedZeros \cap happened = {}
                      /\ SweepStatus = "complete" => happened = sweep.rows
    BY DEF ZerosAreTrue
  <2>1. sweep.left = {}
    BY DEF SweepInv
  <2>2. ASSUME NEW cell \in ImpliedZeros, cell \in happened
        PROVE  FALSE
    <3>1. ZerosProven /\ cell \in (sweep.listed \X Hours) \ sweep.rows
      BY <2>2 DEF ImpliedZeros
    <3>2. sweep.valid /\ cell[1] \in sweep.listed
      BY <3>1 DEF ZerosProven
    <3> QED
      BY <2>1, <2>2, <3>1, <3>2 DEF SweepInv
  <2>3. ASSUME SweepStatus = "complete"
        PROVE  happened = sweep.rows
    <3>1. sweep.whole /\ sweep.valid
      BY <2>3 DEF SweepStatus, HistoryProven
    <3>2. sweep.listed = Eligible
      BY <3>1 DEF SweepInv
    <3>3. ASSUME NEW cell \in happened PROVE cell \in sweep.rows
      <4>1. cell \in Eligible \X Hours
        BY <3>3 DEF SweepInv, Cell
      <4> QED
        BY <2>1, <3>1, <3>2, <4>1 DEF SweepInv
    <3> QED
      BY <3>3 DEF SweepInv
  <2> QED
    BY <2>2, <2>3
<1> QED
  BY <1>1, SweepStarts, SweepStep, PTL DEF LiquidationSpec

-----------------------------------------------------------------------------
(***************************************************************************)
(* The evidence an operator's order leaves on.                              *)
(***************************************************************************)
OrderSteps == {"new", "reading", "sound", "handed", "collected", "intended", "armed", "sent",
          "stored", "withheld", "stale", "refused"}

\* What is left to read has no part in it.
OrderRecord ==
    [purpose : {"none", "command", "prepare", "execute"}, manual : BOOLEAN,
     route : {"compact", "full"}, at : OrderSteps, todo : {order.todo},
     stamp : [Timed -> 0 .. present], read : [Facts -> 0 .. present], admitted : BOOLEAN,
     captured : 0 .. present, began : 0 .. present]

\* A command has no other route than its own.
OwnRoute(o) == (o.at = "new" \/ o.purpose = "command") => o.route = "compact"

\* A time of its own is never later than the answer it came with; evidence that has been
\* judged sound has a quote hardly younger than the state of the symbol; and the evidence a
\* preparation stores is within its limits as it is judged.
OrderInv ==
    /\ present \in 0 .. LastMoment
    /\ order \in OrderRecord
    /\ OwnRoute(order)
    /\ \A fact \in Aged \ {"identity"} : order.stamp[fact] <= order.read[fact]
    /\ order.at \in {"sound", "handed", "collected", "intended", "armed"} =>
          order.stamp["quote"] <= order.stamp["clock"] + EvidenceAge
    /\ order.at = "sound" /\ order.purpose = "prepare" =>
          /\ Stale(order, Aged, Reference(order)) = {}
          /\ InspectionHolds(order, 0)
    /\ LeavesFresh

LEMMA TimesOfTheOrder ==
    ASSUME OrderInv
    PROVE  /\ present \in Nat /\ order.captured \in Nat /\ order.captured <= present
           /\ \A read \in Timed : order.stamp[read] \in Nat /\ order.stamp[read] <= present
           /\ \A fact \in Facts : order.read[fact] \in Nat /\ order.read[fact] <= present
           /\ order.at \in OrderSteps
BY EvidenceAges DEF OrderInv, OrderRecord

LEMMA NamesOfReads ==
    /\ {"identity", "mode", "balance", "fee", "quote"} = Aged
    /\ Aged \subseteq Timed /\ Aged \subseteq Facts /\ Dated \subseteq Timed
    /\ "clock" \in Timed /\ "ended" \in Timed /\ "before" \in Timed /\ "state" \in Facts
    /\ "completed" \in Timed /\ "started" \in Timed
BY DEF Aged, AccountFacts, Timed, Facts, Dated

LEMMA GreaterOf ==
    ASSUME NEW a \in Nat, NEW b \in Nat
    PROVE  \E m \in {a, b} : a <= m /\ b <= m
OBVIOUS

LEMMA ReferenceIsATime ==
    ASSUME OrderInv
    PROVE  Reference(order) \in Nat
<1>1. \A read \in Timed : order.stamp[read] \in Nat
  BY TimesOfTheOrder
<1> DEFINE t(read) == order.stamp[read]
<1>2. \A read \in Dated : t(read) \in Nat
  BY <1>1, NamesOfReads
<1>3. /\ t("identity") \in Nat /\ t("mode") \in Nat /\ t("balance") \in Nat /\ t("fee") \in Nat
      /\ t("completed") \in Nat /\ t("clock") \in Nat
  BY <1>2 DEF Dated
<1>4. \E time \in {t(read) : read \in Dated} : \A read \in Dated : t(read) <= time
  <2> HIDE DEF t
  <2>1. PICK a \in {t("identity"), t("mode")} : t("identity") <= a /\ t("mode") <= a
    BY <1>3, GreaterOf
  <2>2. a \in Nat
    BY <1>3, <2>1
  <2>3. PICK b \in {a, t("balance")} : a <= b /\ t("balance") <= b
    BY <1>3, <2>2, GreaterOf
  <2>4. b \in Nat
    BY <1>3, <2>2, <2>3
  <2>5. PICK c \in {b, t("fee")} : b <= c /\ t("fee") <= c
    BY <1>3, <2>4, GreaterOf
  <2>6. c \in Nat
    BY <1>3, <2>4, <2>5
  <2>7. PICK d \in {c, t("completed")} : c <= d /\ t("completed") <= d
    BY <1>3, <2>6, GreaterOf
  <2>8. d \in Nat
    BY <1>3, <2>6, <2>7
  <2>9. PICK e \in {d, t("clock")} : d <= e /\ t("clock") <= e
    BY <1>3, <2>8, GreaterOf
  <2>10. e \in Nat
    BY <1>3, <2>8, <2>9
  <2>11. e \in {t(read) : read \in Dated}
    BY <2>1, <2>3, <2>5, <2>7, <2>9 DEF Dated
  <2>12. \A read \in Dated : t(read) <= e
    <3> SUFFICES ASSUME NEW read \in Dated PROVE t(read) <= e
      OBVIOUS
    <3>1. /\ t("identity") <= e /\ t("mode") <= e /\ t("balance") <= e /\ t("fee") <= e
          /\ t("completed") <= e /\ t("clock") <= e
      BY <1>3, <2>1, <2>2, <2>3, <2>4, <2>5, <2>6, <2>7, <2>8, <2>9, <2>10
    <3> QED
      BY <3>1 DEF Dated
  <2> QED
    BY <2>11, <2>12
<1>5. order.stamp["clock"] \in Nat
  BY <1>3
<1>6. CASE order.purpose = "command"
  <2>1. Reference(order) \in {t(read) : read \in Dated}
    BY <1>4, <1>6 DEF Reference
  <2> QED
    BY <2>1, <1>2
<1>7. CASE order.purpose # "command"
  BY <1>5, <1>7 DEF Reference
<1> QED
  BY <1>6, <1>7

\* A fact within its limit has been read within it, but for what does not count.
LEMMA ReadWithin ==
    ASSUME OrderInv, NEW fact \in Aged, NEW now \in Nat,
           ~(fact \in Stale(order, Aged, now))
    PROVE  now - order.read[fact] <= MaxAge(fact) + Uncounted(fact)
<1>1. /\ order.stamp[fact] \in Nat /\ order.stamp["ended"] \in Nat /\ order.read[fact] \in Nat
  BY TimesOfTheOrder, NamesOfReads
<1>2. ObservedAt(order, fact) \in Nat
  BY <1>1 DEF ObservedAt
<1>3. MaxAge(fact) \in Nat
  BY EvidenceAges DEF MaxAge
<1>4. now - ObservedAt(order, fact) <= MaxAge(fact)
  BY DEF Stale, InWindow
<1>5. CASE fact = "identity" \/ (order.route = "full" /\ fact \in AccountFacts)
  <2>1. Uncounted(fact) = IF ObservedAt(order, fact) > order.read[fact]
                          THEN ObservedAt(order, fact) - order.read[fact] ELSE 0
    BY <1>5 DEF Uncounted
  <2> QED
    BY <1>1, <1>2, <1>3, <1>4, <2>1
<1>6. CASE ~(fact = "identity" \/ (order.route = "full" /\ fact \in AccountFacts))
  <2>1. Uncounted(fact) = 0 /\ ObservedAt(order, fact) = order.stamp[fact]
    BY <1>6 DEF Uncounted, ObservedAt
  <2>2. order.stamp[fact] <= order.read[fact]
    BY <1>6 DEF OrderInv
  <2> QED
    BY <1>1, <1>2, <1>3, <1>4, <2>1, <2>2
<1> QED
  BY <1>5, <1>6

\* What is fresh at a time the ages are counted on to is fresh as the order leaves.
LEMMA FreshAsItLeaves ==
    ASSUME OrderInv, NEW now \in Nat,
           now = Reference(order) + (present - order.captured),
           Stale(order, Aged, now) = {},
           order.manual => now <= InspectionAge,
           order.stamp["quote"] <= order.stamp["clock"] + EvidenceAge
    PROVE  /\ \A fact \in Aged :
                 present - order.read[fact] <= MaxAge(fact) + OnTheWay + Uncounted(fact)
           /\ present - order.read["state"]
                 <= EvidenceAge + QuoteAge + OnTheWay + order.stamp["clock"] - order.read["state"]
           /\ order.manual => present <= InspectionAge + OnTheWay
<1>1. /\ present \in Nat /\ order.captured \in Nat /\ Reference(order) \in Nat
      /\ order.read["state"] \in Nat /\ order.stamp["clock"] \in Nat
      /\ order.stamp["quote"] \in Nat
  BY TimesOfTheOrder, ReferenceIsATime, NamesOfReads
<1>2. PICK waited \in Int : waited = OnTheWay /\ present = now + waited
  <2>1. OnTheWay \in Int
    BY <1>1 DEF OnTheWay
  <2>2. present = now + OnTheWay
    BY <1>1 DEF OnTheWay
  <2> QED
    BY <2>1, <2>2
<1>3. ASSUME NEW fact \in Aged
      PROVE  present - order.read[fact] <= MaxAge(fact) + OnTheWay + Uncounted(fact)
  <2>1. now - order.read[fact] <= MaxAge(fact) + Uncounted(fact)
    BY ReadWithin
  <2>2. order.read[fact] \in Nat /\ order.stamp[fact] \in Nat /\ order.stamp["ended"] \in Nat
    BY TimesOfTheOrder, NamesOfReads
  <2>3. MaxAge(fact) \in Nat
    BY EvidenceAges DEF MaxAge
  <2>4. Uncounted(fact) \in Nat
    BY <2>2 DEF Uncounted, ObservedAt
  <2> QED
    BY <1>2, <2>1, <2>2, <2>3, <2>4
<1>4. now - order.stamp["quote"] <= QuoteAge
  <2>1. "quote" \in Aged /\ "quote" \notin AccountFacts
    BY DEF Aged, AccountFacts
  <2>2. InWindow(now, ObservedAt(order, "quote"), MaxAge("quote"))
    BY <2>1 DEF Stale
  <2>3. ObservedAt(order, "quote") = order.stamp["quote"] /\ MaxAge("quote") = QuoteAge
    BY <2>1 DEF ObservedAt, MaxAge
  <2> QED
    BY <2>2, <2>3 DEF InWindow
<1>5. EvidenceAge \in Nat /\ QuoteAge \in Nat /\ InspectionAge \in Nat
  BY EvidenceAges
<1> QED
  BY <1>1, <1>2, <1>3, <1>4, <1>5

LEMMA OrderStarts == OrderInit => OrderInv
<1> SUFFICES ASSUME OrderInit PROVE OrderInv
  OBVIOUS
<1>1. present = 0 /\ LastMoment \in Nat
  BY EvidenceAges DEF OrderInit
<1>2. order \in OrderRecord
  BY <1>1 DEF OrderInit, OrderRecord, OrderSteps
<1>3. \A fact \in Aged \ {"identity"} : order.stamp[fact] <= order.read[fact]
  BY NamesOfReads DEF OrderInit
<1>4. order.at = "new"
  BY DEF OrderInit
<1>5. OwnRoute(order)
  BY DEF OrderInit, OwnRoute
<1> QED
  BY <1>1, <1>2, <1>3, <1>4, <1>5 DEF OrderInv, LeavesFresh

\* An order that has not been judged sound has nothing more to show than its times.
LEMMA Unjudged ==
    ASSUME present' \in 0 .. LastMoment, order' \in OrderRecord', OwnRoute(order'),
           \A fact \in Aged \ {"identity"} : order'.stamp[fact] <= order'.read[fact],
           order'.at \in {"new", "reading", "refused", "stale", "withheld"}
    PROVE  OrderInv'
BY DEF OrderInv, LeavesFresh

\* The order's own step leaves the reads as they are.
LEMMA ReadsKept ==
    ASSUME OrderInv, order'.stamp = order.stamp, order'.read = order.read
    PROVE  \A fact \in Aged \ {"identity"} : order'.stamp[fact] <= order'.read[fact]
BY DEF OrderInv

LEMMA NowIsATime == ASSUME OrderInv PROVE 0 \in 0 .. present /\ present \in 0 .. present
BY TimesOfTheOrder

\* A step that leaves the times as they are and refuses or reads on.
LEMMA ReadsOn ==
    ASSUME OrderInv, present' = present, order' \in OrderRecord', OwnRoute(order'),
           order'.stamp = order.stamp, order'.read = order.read,
           order'.at \in {"new", "reading", "refused", "stale", "withheld"}
    PROVE  OrderInv'
<1>1. present' \in 0 .. LastMoment
  BY DEF OrderInv
<1>2. \A fact \in Aged \ {"identity"} : order'.stamp[fact] <= order'.read[fact]
  BY ReadsKept
<1> QED
  BY <1>1, <1>2, Unjudged

LEMMA BeginOrderKept ==
    ASSUME OrderInv, NEW purpose \in {"command", "prepare", "execute"}, NEW manual \in BOOLEAN,
           BeginOrder(purpose, manual)
    PROVE  OrderInv'
<1>1. order \in OrderRecord /\ present' = present
  BY DEF OrderInv, BeginOrder
<1>2. PICK todo : order' = [order EXCEPT !.purpose = purpose, !.manual = manual,
                                         !.at = "reading", !.todo = todo]
  BY DEF BeginOrder
<1>3. /\ order'.todo = todo /\ order'.stamp = order.stamp /\ order'.read = order.read
      /\ order'.at = "reading"
  BY <1>1, <1>2 DEF OrderRecord
<1>4. order' \in OrderRecord'
  BY <1>1, <1>2, <1>3 DEF OrderRecord, OrderSteps
<1>5. order'.route = order.route /\ order.at = "new"
  BY <1>1, <1>2 DEF OrderRecord, BeginOrder
<1>6. OwnRoute(order')
  BY <1>5 DEF OrderInv, OwnRoute
<1> QED
  BY <1>1, <1>3, <1>4, <1>6, ReadsOn

\* A step that only says how far the order has come and what is left to read.
LEMMA ReadsOnSame ==
    ASSUME OrderInv, present' = present, NEW at \in {"reading", "refused", "stale", "withheld"},
           NEW todo, order' = [order EXCEPT !.at = at, !.todo = todo]
    PROVE  OrderInv'
<1>1. order \in OrderRecord
  BY DEF OrderInv
<1>2. /\ order'.todo = todo /\ order'.stamp = order.stamp /\ order'.read = order.read
      /\ order'.at = at
  BY <1>1 DEF OrderRecord
<1>3. order' \in OrderRecord'
  BY <1>1, <1>2 DEF OrderRecord, OrderSteps
<1>4. order'.route = order.route /\ order'.purpose = order.purpose
  BY <1>1 DEF OrderRecord
<1>5. OwnRoute(order')
  BY <1>2, <1>4 DEF OrderInv, OwnRoute
<1> QED
  BY <1>2, <1>3, <1>5, ReadsOn

\* A read that goes on another route, or ends the order.
LEMMA GivesUp ==
    ASSUME OrderInv, present' = present, order.at = "reading", order' = GivenUp
    PROVE  OrderInv'
<1>1. order \in OrderRecord
  BY DEF OrderInv
<1>2. CASE /\ order.purpose # "command"
           /\ \E todo : order' = [order EXCEPT !.route = "full", !.todo = todo]
  <2>1. PICK todo : order' = [order EXCEPT !.route = "full", !.todo = todo]
    BY <1>2
  <2>2. /\ order'.todo = todo /\ order'.stamp = order.stamp /\ order'.read = order.read
        /\ order'.at = "reading"
    BY <1>1, <2>1 DEF OrderRecord
  <2>3. order' \in OrderRecord'
    BY <1>1, <2>1, <2>2 DEF OrderRecord
  <2>4. order'.purpose = order.purpose
    BY <1>1, <2>1 DEF OrderRecord
  <2>5. OwnRoute(order')
    BY <1>2, <2>2, <2>4 DEF OwnRoute
  <2> QED
    BY <2>2, <2>3, <2>5, ReadsOn
<1>3. CASE order' = [order EXCEPT !.at = "refused", !.todo = <<>>]
  BY <1>3, ReadsOnSame
<1> QED
  BY <1>2, <1>3 DEF GivenUp

LEMMA RefusedOrder ==
    ASSUME OrderInv, present' = present, NEW why \in {"refused", "stale"}, order' = Refused(why)
    PROVE  OrderInv'
<1>1. PICK todo : order' = [order EXCEPT !.at = why, !.todo = todo]
  BY DEF Refused
<1> QED
  BY <1>1, ReadsOnSame

\* A read that leaves the group done with behind and nothing else.
LEMMA OnlyTodo ==
    ASSUME OrderInv, present' = present, order.at = "reading", NEW todo,
           order' = [order EXCEPT !.todo = todo]
    PROVE  OrderInv'
<1>1. order \in OrderRecord
  BY DEF OrderInv
<1>2. order' = [order EXCEPT !.at = "reading", !.todo = todo]
  BY <1>1 DEF OrderRecord
<1> QED
  BY <1>2, ReadsOnSame

LEMMA FailReadKept == ASSUME OrderInv, FailRead PROVE OrderInv'
<1>1. present' = present /\ order.at = "reading"
  BY DEF FailRead
<1>2. CASE order' = GivenUp
  BY <1>1, <1>2, GivesUp
<1>3. CASE order' = Refused("refused")
  BY <1>1, <1>3, RefusedOrder
<1>4. CASE \E todo : order' = [order EXCEPT !.todo = todo]
  BY <1>1, <1>4, OnlyTodo
<1> QED
  BY <1>2, <1>3, <1>4 DEF FailRead

LEMMA CheckAccountKept == ASSUME OrderInv, CheckAccount PROVE OrderInv'
<1>1. present' = present /\ order.at = "reading"
  BY DEF CheckAccount
<1>2. CASE order' = GivenUp
  BY <1>1, <1>2, GivesUp
<1>3. CASE \E todo : order' = [order EXCEPT !.todo = todo]
  BY <1>1, <1>3, OnlyTodo
<1> QED
  BY <1>2, <1>3 DEF CheckAccount

LEMMA MakeCandidateKept == ASSUME OrderInv, MakeCandidate PROVE OrderInv'
<1>1. present' = present /\ order.at = "reading"
  BY DEF MakeCandidate
<1>2. CASE \E why \in {"refused", "stale"} : order' = Refused(why)
  BY <1>1, <1>2, RefusedOrder
<1>3. CASE \E todo : order' = [order EXCEPT !.todo = todo]
  BY <1>1, <1>3, OnlyTodo
<1> QED
  BY <1>2, <1>3 DEF MakeCandidate

LEMMA ReadAnswerKept ==
    ASSUME OrderInv, NEW read \in Requests \ {"identityTime"}, ReadAnswer(read)
    PROVE  OrderInv'
<1>1. order \in OrderRecord /\ present \in 0 .. LastMoment /\ UNCHANGED present
  BY DEF OrderInv, ReadAnswer
<1>2. order.at = "reading"
  BY DEF ReadAnswer
<1>3. PICK at \in Stamps(read) :
         order' = [order EXCEPT
                      !.todo = WithoutRead(@, read),
                      !.stamp = [answer \in Timed |->
                                    IF answer = read THEN at
                                    ELSE IF answer \in DoneWith(read) THEN 0
                                    ELSE order.stamp[answer]],
                      !.read = [fact \in Facts |->
                                   IF fact = read THEN present ELSE order.read[fact]]]
  BY <1>1 DEF ReadAnswer, OrderRecord
<1>4. order.stamp["before"] \in 0 .. present /\ present \in Nat
  BY TimesOfTheOrder, NamesOfReads
<1>5. at \in 0 .. present
  BY <1>3, <1>4 DEF Stamps
<1> DEFINE stamp == [answer \in Timed |->
                        IF answer = read THEN at
                        ELSE IF answer \in DoneWith(read) THEN 0
                        ELSE order.stamp[answer]]
           facts == [fact \in Facts |-> IF fact = read THEN present ELSE order.read[fact]]
<1>6. stamp \in [Timed -> 0 .. present] /\ facts \in [Facts -> 0 .. present]
  <2>1. order.stamp \in [Timed -> 0 .. present] /\ order.read \in [Facts -> 0 .. present]
    BY <1>1 DEF OrderRecord
  <2>2. 0 \in 0 .. present /\ present \in 0 .. present
    BY <1>4
  <2> QED
    BY <2>1, <2>2, <1>5
<1>7. PICK todo : order' = [order EXCEPT !.todo = todo, !.stamp = stamp, !.read = facts]
  BY <1>3
<1>8. \A fact \in Aged \ {"identity"} : stamp[fact] <= facts[fact]
  <2> SUFFICES ASSUME NEW fact \in Aged \ {"identity"} PROVE stamp[fact] <= facts[fact]
    OBVIOUS
  <2>1. fact \in Timed /\ fact \in Facts
    BY NamesOfReads
  <2>2. order.stamp[fact] <= order.read[fact] /\ order.read[fact] \in Nat
    BY <2>1, TimesOfTheOrder DEF OrderInv
  <2>3. CASE fact = read
    BY <2>1, <2>3, <1>4, <1>5
  <2>4. CASE fact # read
    BY <2>1, <2>2, <2>4
  <2> QED
    BY <2>3, <2>4
<1> HIDE DEF stamp, facts
<1>9. order'.todo = todo /\ order'.stamp = stamp /\ order'.read = facts /\ order'.at = "reading"
  BY <1>1, <1>2, <1>7 DEF OrderRecord
<1>10. order' \in OrderRecord'
  BY <1>1, <1>6, <1>7, <1>9 DEF OrderRecord
<1>11. order'.route = order.route /\ order'.purpose = order.purpose
  BY <1>1, <1>7 DEF OrderRecord
<1>12. OwnRoute(order')
  BY <1>9, <1>11 DEF OrderInv, OwnRoute
<1> QED
  BY <1>1, <1>8, <1>9, <1>10, <1>12, Unjudged

LEMMA AnswerUntimedKept == ASSUME OrderInv, AnswerUntimed PROVE OrderInv'
<1>1. order \in OrderRecord /\ present \in 0 .. LastMoment /\ UNCHANGED present
  BY DEF OrderInv, AnswerUntimed
<1>2. order.at = "reading" /\ present \in 0 .. present
  BY NowIsATime DEF AnswerUntimed
<1> DEFINE facts == [order.read EXCEPT !["identity"] = present]
<1>3. facts \in [Facts -> 0 .. present]
  BY <1>1, <1>2 DEF OrderRecord
<1>4. PICK todo : order' = [order EXCEPT !.todo = todo, !.read = facts]
  BY <1>1 DEF AnswerUntimed, OrderRecord
<1>5. \A fact \in Aged \ {"identity"} : order.stamp[fact] <= facts[fact]
  <2>1. order.read \in [Facts -> 0 .. present]
    BY <1>1 DEF OrderRecord
  <2> QED
    BY <2>1, NamesOfReads DEF OrderInv
<1> HIDE DEF facts
<1>6. order'.todo = todo /\ order'.stamp = order.stamp /\ order'.read = facts
      /\ order'.at = "reading"
  BY <1>1, <1>2, <1>4 DEF OrderRecord
<1>7. order' \in OrderRecord'
  BY <1>1, <1>3, <1>4, <1>6 DEF OrderRecord
<1>8. order'.route = order.route /\ order'.purpose = order.purpose
  BY <1>1, <1>4 DEF OrderRecord
<1>9. OwnRoute(order')
  BY <1>6, <1>8 DEF OrderInv, OwnRoute
<1> QED
  BY <1>1, <1>5, <1>6, <1>7, <1>9, Unjudged

LEMMA AnswerIdentityTimeKept == ASSUME OrderInv, AnswerIdentityTime PROVE OrderInv'
<1>1. order \in OrderRecord /\ present \in 0 .. LastMoment /\ UNCHANGED present
  BY DEF OrderInv, AnswerIdentityTime
<1>2. order.at = "reading" /\ present \in 0 .. present
  BY NowIsATime DEF AnswerIdentityTime
<1> DEFINE stamp == [order.stamp EXCEPT !["identity"] = present]
<1>3. stamp \in [Timed -> 0 .. present]
  BY <1>1, <1>2 DEF OrderRecord
<1>4. PICK todo : order' = [order EXCEPT !.todo = todo, !.stamp = stamp]
  BY <1>1 DEF AnswerIdentityTime, OrderRecord
<1>5. \A fact \in Aged \ {"identity"} : stamp[fact] <= order.read[fact]
  <2>1. order.stamp \in [Timed -> 0 .. present]
    BY <1>1 DEF OrderRecord
  <2> QED
    BY <2>1, NamesOfReads DEF OrderInv
<1> HIDE DEF stamp
<1>6. order'.todo = todo /\ order'.stamp = stamp /\ order'.read = order.read
      /\ order'.at = "reading"
  BY <1>1, <1>2, <1>4 DEF OrderRecord
<1>7. order' \in OrderRecord'
  BY <1>1, <1>3, <1>4, <1>6 DEF OrderRecord
<1>8. order'.route = order.route /\ order'.purpose = order.purpose
  BY <1>1, <1>4 DEF OrderRecord
<1>9. OwnRoute(order')
  BY <1>6, <1>8 DEF OrderInv, OwnRoute
<1> QED
  BY <1>1, <1>5, <1>6, <1>7, <1>9, Unjudged

\* What an order's own sets and times say stays when these do.
LEMMA SameJudgement ==
    ASSUME OrderInv, order'.stamp = order.stamp, order'.purpose = order.purpose,
           order'.route = order.route, order'.manual = order.manual
    PROVE  /\ Reference(order') = Reference(order)
           /\ \A now : Stale(order', Aged, now) = Stale(order, Aged, now)
           /\ \A elapsed : InspectionHolds(order', elapsed) <=> InspectionHolds(order, elapsed)
<1>1. Reference(order') = Reference(order)
  BY DEF Reference
<1>2. \A fact : ObservedAt(order', fact) = ObservedAt(order, fact)
  BY DEF ObservedAt
<1>3. \A now : Stale(order', Aged, now) = Stale(order, Aged, now)
  BY <1>2 DEF Stale
<1>4. \A elapsed : InspectionHolds(order', elapsed) <=> InspectionHolds(order, elapsed)
  BY <1>1 DEF InspectionHolds
<1> QED
  BY <1>1, <1>3, <1>4

\* The quote of fresh evidence is no later than the time its ages are counted to.
LEMMA QuoteBefore ==
    ASSUME OrderInv, Stale(order, Aged, Reference(order)) = {}
    PROVE  order.stamp["quote"] <= Reference(order)
<1>1. "quote" \in Aged /\ "quote" \notin AccountFacts
  BY DEF Aged, AccountFacts
<1>2. InWindow(Reference(order), ObservedAt(order, "quote"), MaxAge("quote"))
  BY <1>1 DEF Stale
<1>3. ObservedAt(order, "quote") = order.stamp["quote"]
  BY <1>1 DEF ObservedAt
<1> QED
  BY <1>2, <1>3 DEF InWindow

\* The evidence is judged sound.
LEMMA BecomesSound ==
    ASSUME OrderInv, present' = present, NEW todo,
           order' = [order EXCEPT !.at = "sound", !.todo = todo],
           Stale(order, Aged, Reference(order)) = {},
           Reference(order) <= order.stamp["clock"] + EvidenceAge,
           order.purpose = "prepare" => InspectionHolds(order, 0)
    PROVE  OrderInv'
<1>1. order \in OrderRecord /\ present' \in 0 .. LastMoment
  BY DEF OrderInv
<1>2. /\ order'.todo = todo /\ order'.stamp = order.stamp /\ order'.read = order.read
      /\ order'.at = "sound" /\ order'.purpose = order.purpose
      /\ order'.route = order.route /\ order'.manual = order.manual
  BY <1>1 DEF OrderRecord
<1>3. order' \in OrderRecord'
  BY <1>1, <1>2 DEF OrderRecord, OrderSteps
<1>4. \A fact \in Aged \ {"identity"} : order'.stamp[fact] <= order'.read[fact]
  BY <1>2, ReadsKept
<1>5. order.stamp["quote"] <= order.stamp["clock"] + EvidenceAge
  <2>1. /\ order.stamp["quote"] \in Nat /\ order.stamp["clock"] \in Nat
        /\ Reference(order) \in Nat /\ EvidenceAge \in Nat
    BY TimesOfTheOrder, NamesOfReads, ReferenceIsATime, EvidenceAges
  <2> QED
    BY <2>1, QuoteBefore
<1>6. order.purpose = "prepare" =>
         /\ Stale(order', Aged, Reference(order')) = {}
         /\ InspectionHolds(order', 0)
  BY <1>2, SameJudgement
<1>7. LeavesFresh'
  BY <1>2 DEF LeavesFresh
<1>8. OwnRoute(order')
  BY <1>2 DEF OrderInv, OwnRoute
<1> QED
  BY <1>1, <1>2, <1>3, <1>4, <1>5, <1>6, <1>7, <1>8 DEF OrderInv

LEMMA JudgeKept == ASSUME OrderInv, Judge PROVE OrderInv'
<1>1. present' = present /\ order.at = "reading" /\ order.purpose # "prepare"
  BY DEF Judge
<1>2. CASE order' = GivenUp
  BY <1>1, <1>2, GivesUp
<1>3. CASE ~(order' = GivenUp)
  <2>1. /\ order' = [order EXCEPT !.at = "sound", !.todo = <<>>]
        /\ IF order.route = "full" THEN FullSound(order) ELSE CompactSound(order)
    BY <1>3 DEF Judge
  <2>2. Stale(order, Aged, Reference(order)) = {}
    BY <2>1 DEF FullSound, CompactSound
  <2>3. Reference(order) <= order.stamp["clock"] + EvidenceAge
    <3>1. /\ order.stamp["clock"] \in Nat /\ Reference(order) \in Nat /\ EvidenceAge \in Nat
      BY TimesOfTheOrder, NamesOfReads, ReferenceIsATime, EvidenceAges
    <3>2. CASE order.purpose = "command" /\ order.route # "full"
      <4>1. InWindow(Reference(order), order.stamp["clock"], EvidenceAge)
        BY <2>1, <3>2 DEF CompactSound
      <4> QED
        BY <3>1, <4>1 DEF InWindow
    <3>3. CASE order.purpose # "command"
      BY <3>1, <3>3 DEF Reference
    <3>4. CASE order.purpose = "command" /\ order.route = "full"
      BY <3>4 DEF OrderInv, OwnRoute
    <3> QED
      BY <3>2, <3>3, <3>4
  <2> QED
    BY <1>1, <2>1, <2>2, <2>3, BecomesSound
<1> QED
  BY <1>2, <1>3

LEMMA AgedAre == Aged = (AccountFacts \cup {"fee"}) \cup {"quote"}
BY DEF Aged

LEMMA JudgePreparationKept == ASSUME OrderInv, JudgePreparation PROVE OrderInv'
<1>1. present' = present /\ order.at = "reading" /\ order.purpose = "prepare"
  BY DEF JudgePreparation
<1>2. CASE order' = GivenUp
  BY <1>1, <1>2, GivesUp
<1>3. CASE \E why \in {"refused", "stale"} : order' = Refused(why)
  BY <1>1, <1>3, RefusedOrder
<1>4. CASE /\ order' = [order EXCEPT !.at = "sound", !.todo = <<>>]
           /\ InspectionHolds(order, 0)
           /\ QuoteFits(order, Reference(order))
           /\ Stale(order, AccountFacts \cup {"fee"}, Reference(order)) = {}
  <2>1. InWindow(Reference(order), ObservedAt(order, "quote"), MaxAge("quote"))
    <3>1. ObservedAt(order, "quote") = order.stamp["quote"] /\ MaxAge("quote") = QuoteAge
      BY DEF ObservedAt, MaxAge, AccountFacts
    <3> QED
      BY <1>4, <3>1 DEF QuoteFits
  <2>2. Stale(order, Aged, Reference(order)) = {}
    BY <1>4, <2>1, AgedAre DEF Stale
  <2>3. Reference(order) <= order.stamp["clock"] + EvidenceAge
    <3>1. order.stamp["clock"] \in Nat /\ EvidenceAge \in Nat
      BY TimesOfTheOrder, NamesOfReads, EvidenceAges
    <3> QED
      BY <1>1, <3>1 DEF Reference
  <2> QED
    BY <1>1, <1>4, <2>2, <2>3, BecomesSound
<1> QED
  BY <1>2, <1>3, <1>4 DEF JudgePreparation

\* The steps an order that is judged sound goes through, up to the one that sends it.
LEMMA GoesOn ==
    ASSUME OrderInv, present' = present,
           order.at \in {"sound", "handed", "collected", "intended", "armed"},
           NEW at \in {"handed", "collected", "intended", "armed"},
           NEW admitted \in BOOLEAN, NEW captured \in 0 .. present, NEW began \in 0 .. present,
           order' = [order EXCEPT !.at = at, !.admitted = admitted, !.captured = captured,
                                  !.began = began]
    PROVE  OrderInv'
<1>1. order \in OrderRecord /\ present' \in 0 .. LastMoment
  BY DEF OrderInv
<1>2. /\ order'.todo = order.todo /\ order'.stamp = order.stamp /\ order'.read = order.read
      /\ order'.at = at /\ order'.purpose = order.purpose /\ order'.route = order.route
  BY <1>1 DEF OrderRecord
<1>3. order' \in OrderRecord'
  BY <1>1, <1>2 DEF OrderRecord, OrderSteps
<1>4. \A fact \in Aged \ {"identity"} : order'.stamp[fact] <= order'.read[fact]
  BY <1>2, ReadsKept
<1>5. order'.stamp["quote"] <= order'.stamp["clock"] + EvidenceAge
  BY <1>2 DEF OrderInv
<1>6. LeavesFresh' /\ OwnRoute(order')
  BY <1>2 DEF LeavesFresh, OrderInv, OwnRoute
<1> QED
  BY <1>1, <1>2, <1>3, <1>4, <1>5, <1>6 DEF OrderInv

\* A preparation is stored at the moment its evidence is captured.
LEMMA StoresFresh ==
    ASSUME OrderInv, present' = present, order.at = "sound", order.purpose = "prepare",
           order' = [order EXCEPT !.captured = present, !.at = "stored"]
    PROVE  OrderInv'
<1>1. order \in OrderRecord /\ present' \in 0 .. LastMoment /\ present \in 0 .. present
  BY NowIsATime DEF OrderInv
<1>2. /\ order'.todo = order.todo /\ order'.stamp = order.stamp /\ order'.read = order.read
      /\ order'.at = "stored" /\ order'.purpose = order.purpose /\ order'.route = order.route
      /\ order'.manual = order.manual /\ order'.captured = present
  BY <1>1 DEF OrderRecord
<1>3. order' \in OrderRecord'
  BY <1>1, <1>2 DEF OrderRecord, OrderSteps
<1>4. \A fact \in Aged \ {"identity"} : order'.stamp[fact] <= order'.read[fact]
  BY <1>2, ReadsKept
<1>5. Stale(order, Aged, Reference(order)) = {} /\ InspectionHolds(order, 0)
  BY DEF OrderInv
<1>6. /\ present \in Nat /\ Reference(order) \in Nat /\ order.read["state"] \in Nat
      /\ order.stamp["clock"] \in Nat /\ EvidenceAge \in Nat /\ QuoteAge \in Nat
      /\ InspectionAge \in Nat
  BY TimesOfTheOrder, ReferenceIsATime, NamesOfReads, EvidenceAges
<1>7. PICK waited \in Int : waited = OnTheWay' /\ present = Reference(order) + waited
  <2>1. OnTheWay' = present - Reference(order)
    <3>1. Reference(order') = Reference(order)
      BY <1>2 DEF Reference
    <3> QED
      BY <1>2, <3>1 DEF OnTheWay
  <2> QED
    BY <1>6, <2>1
<1>8. \A fact \in Aged :
         present' - order'.read[fact] <= MaxAge(fact) + OnTheWay' + Uncounted(fact)'
  <2> SUFFICES ASSUME NEW fact \in Aged
               PROVE  present - order.read[fact] <= MaxAge(fact) + waited + Uncounted(fact)'
    BY <1>2, <1>7
  <2>1. Reference(order) - order.read[fact] <= MaxAge(fact) + Uncounted(fact)
    BY <1>5, <1>6, ReadWithin
  <2>2. order.read[fact] \in Nat /\ order.stamp[fact] \in Nat /\ order.stamp["ended"] \in Nat
    BY TimesOfTheOrder, NamesOfReads
  <2>3. MaxAge(fact) \in Nat
    BY EvidenceAges DEF MaxAge
  <2>4. Uncounted(fact) \in Nat
    BY <2>2 DEF Uncounted, ObservedAt
  <2>5. Uncounted(fact)' = Uncounted(fact)
    BY <1>2 DEF Uncounted, ObservedAt
  <2> QED
    BY <1>6, <1>7, <2>1, <2>2, <2>3, <2>4, <2>5
<1>9. present' - order'.read["state"]
         <= EvidenceAge + QuoteAge + OnTheWay' + order'.stamp["clock"] - order'.read["state"]
  <2>1. Reference(order) = order.stamp["clock"]
    BY DEF Reference
  <2>2. present - order.read["state"]
           <= EvidenceAge + QuoteAge + waited + order.stamp["clock"] - order.read["state"]
    BY <1>6, <1>7, <2>1
  <2> QED
    BY <1>2, <1>7, <2>2
<1>10. order'.manual => present' <= InspectionAge + OnTheWay'
  <2>1. order.manual => Reference(order) <= InspectionAge
    BY <1>5, <1>6 DEF InspectionHolds
  <2>2. order.manual => present <= InspectionAge + waited
    BY <1>6, <1>7, <2>1
  <2> QED
    BY <1>2, <1>7, <2>2
<1>11. LeavesFresh'
  BY <1>8, <1>9, <1>10 DEF LeavesFresh
<1>12. OwnRoute(order')
  BY <1>2 DEF OwnRoute, OrderInv
<1> QED
  BY <1>1, <1>2, <1>3, <1>4, <1>11, <1>12 DEF OrderInv

LEMMA CaptureKept == ASSUME OrderInv, Capture PROVE OrderInv'
<1>1. present' = present /\ order.at = "sound" /\ present \in 0 .. present /\ order \in OrderRecord
  BY NowIsATime DEF Capture, OrderInv
<1>2. CASE order.purpose = "prepare"
  <2>1. order' = [order EXCEPT !.captured = present, !.at = "stored"]
    BY <1>2 DEF Capture
  <2> QED
    BY <1>1, <1>2, <2>1, StoresFresh
<1>3. CASE order.purpose # "prepare"
  <2>1. PICK at \in {"handed", "collected"} :
           order' = [order EXCEPT !.captured = present, !.at = at]
    BY <1>3 DEF Capture
  <2>2. order.admitted \in BOOLEAN /\ order.began \in 0 .. present
    BY <1>1 DEF OrderRecord
  <2>3. order' = [order EXCEPT !.at = at, !.admitted = order.admitted, !.captured = present,
                               !.began = order.began]
    BY <1>1, <2>1 DEF OrderRecord
  <2> QED
    BY <1>1, <2>2, <2>3, GoesOn
<1> QED
  BY <1>2, <1>3

LEMMA AdmitOrderKept == ASSUME OrderInv, AdmitOrder PROVE OrderInv'
<1>1. present' = present /\ order.at = "handed" /\ order \in OrderRecord
  BY DEF AdmitOrder, OrderInv
<1>2. CASE \E todo : order' = [order EXCEPT !.at = "reading", !.admitted = TRUE, !.todo = todo]
  <2>1. PICK todo : order' = [order EXCEPT !.at = "reading", !.admitted = TRUE, !.todo = todo]
    BY <1>2
  <2>2. /\ order'.todo = todo /\ order'.stamp = order.stamp /\ order'.read = order.read
        /\ order'.at = "reading" /\ order'.route = order.route
        /\ order'.purpose = order.purpose
    BY <1>1, <2>1 DEF OrderRecord
  <2>3. order' \in OrderRecord'
    BY <1>1, <2>1, <2>2 DEF OrderRecord, OrderSteps
  <2>4. OwnRoute(order')
    BY <2>2 DEF OrderInv, OwnRoute
  <2> QED
    BY <1>1, <2>2, <2>3, <2>4, ReadsOn
<1>3. CASE order' = [order EXCEPT !.at = "collected", !.admitted = TRUE]
  <2>1. order.captured \in 0 .. present /\ order.began \in 0 .. present
    BY <1>1 DEF OrderRecord
  <2>2. order' = [order EXCEPT !.at = "collected", !.admitted = TRUE,
                               !.captured = order.captured, !.began = order.began]
    BY <1>1, <1>3 DEF OrderRecord
  <2> QED
    BY <1>1, <2>1, <2>2, GoesOn
<1> QED
  BY <1>2, <1>3 DEF AdmitOrder

LEMMA PrepareIntentKept == ASSUME OrderInv, PrepareIntent PROVE OrderInv'
<1>1. /\ present' = present /\ order.at = "collected" /\ order \in OrderRecord
      /\ present \in 0 .. present
  BY NowIsATime DEF PrepareIntent, OrderInv
<1>2. order.captured \in 0 .. present /\ order.admitted \in BOOLEAN
  BY <1>1 DEF OrderRecord
<1>3. order' = [order EXCEPT !.at = "intended", !.admitted = order.admitted,
                             !.captured = order.captured, !.began = present]
  BY <1>1 DEF PrepareIntent, OrderRecord
<1> QED
  BY <1>1, <1>2, <1>3, GoesOn

\* An order is withheld where it stands.
LEMMA Withholds ==
    ASSUME OrderInv, present' = present, order' = [order EXCEPT !.at = "withheld"]
    PROVE  OrderInv'
<1>1. order \in OrderRecord
  BY DEF OrderInv
<1>2. order' = [order EXCEPT !.at = "withheld", !.todo = order.todo]
  BY <1>1 DEF OrderRecord
<1> QED
  BY <1>2, ReadsOnSame

LEMMA RecheckKept == ASSUME OrderInv, Recheck PROVE OrderInv'
<1>1. present' = present /\ order.at = "intended" /\ order \in OrderRecord
  BY DEF Recheck, OrderInv
<1>2. CASE order' = [order EXCEPT !.at = "withheld"]
  BY <1>1, <1>2, Withholds
<1>3. CASE order' = [order EXCEPT !.at = "armed"]
  <2>1. order.captured \in 0 .. present /\ order.admitted \in BOOLEAN
        /\ order.began \in 0 .. present
    BY <1>1 DEF OrderRecord
  <2>2. order' = [order EXCEPT !.at = "armed", !.admitted = order.admitted,
                               !.captured = order.captured, !.began = order.began]
    BY <1>1, <1>3 DEF OrderRecord
  <2> QED
    BY <1>1, <2>1, <2>2, GoesOn
<1> QED
  BY <1>2, <1>3 DEF Recheck

LEMMA SendOrderKept == ASSUME OrderInv, SendOrder PROVE OrderInv'
<1>1. present' = present /\ order.at = "armed" /\ order \in OrderRecord
      /\ present' \in 0 .. LastMoment
  BY DEF SendOrder, OrderInv
<1>2. CASE order' = [order EXCEPT !.at = "withheld"]
  BY <1>1, <1>2, Withholds
<1>3. CASE order' = [order EXCEPT !.at = "sent"] /\ AgesHold(order, FinalElapsed(order))
  <2>1. /\ order'.todo = order.todo /\ order'.stamp = order.stamp /\ order'.read = order.read
        /\ order'.at = "sent" /\ order'.purpose = order.purpose /\ order'.route = order.route
        /\ order'.manual = order.manual /\ order'.captured = order.captured
    BY <1>1, <1>3 DEF OrderRecord
  <2>2. order' \in OrderRecord'
    BY <1>1, <1>3, <2>1 DEF OrderRecord, OrderSteps
  <2>3. \A fact \in Aged \ {"identity"} : order'.stamp[fact] <= order'.read[fact]
    BY <2>1, ReadsKept
  <2>4. Reference(order) + (present - order.captured) \in Nat
    BY TimesOfTheOrder, ReferenceIsATime
  <2>5. PICK now \in Nat : now = Reference(order) + (present - order.captured)
    BY <2>4
  <2>6. Stale(order, Aged, now) = {} /\ (order.manual => now <= InspectionAge)
    BY <1>3, <2>5 DEF AgesHold, FinalElapsed, InspectionHolds
  <2>7. order.stamp["quote"] <= order.stamp["clock"] + EvidenceAge
    BY <1>1 DEF OrderInv
  <2>8. /\ \A fact \in Aged :
              present - order.read[fact] <= MaxAge(fact) + OnTheWay + Uncounted(fact)
        /\ present - order.read["state"]
              <= EvidenceAge + QuoteAge + OnTheWay + order.stamp["clock"] - order.read["state"]
        /\ order.manual => present <= InspectionAge + OnTheWay
    BY <2>5, <2>6, <2>7, FreshAsItLeaves
  <2>9. OnTheWay' = OnTheWay
    BY <2>1 DEF OnTheWay, Reference
  <2>10. \A fact \in Aged : Uncounted(fact)' = Uncounted(fact)
    BY <2>1 DEF Uncounted, ObservedAt
  <2>11. LeavesFresh'
    BY <1>1, <2>1, <2>8, <2>9, <2>10 DEF LeavesFresh
  <2>12. OwnRoute(order')
    BY <2>1 DEF OrderInv, OwnRoute
  <2> QED
    BY <1>1, <2>1, <2>2, <2>3, <2>11, <2>12 DEF OrderInv
<1> QED
  BY <1>2, <1>3 DEF SendOrder

LEMMA PassTimeKept == ASSUME OrderInv, PassTime PROVE OrderInv'
<1>1. /\ order' = order /\ present' = present + 1 /\ present < LastMoment
      /\ order.at \notin {"stored", "sent"}
  BY DEF PassTime
<1>2. present \in Nat /\ LastMoment \in Nat
  BY TimesOfTheOrder, EvidenceAges
<1>3. present' \in 0 .. LastMoment /\ 0 .. present \subseteq 0 .. present'
  BY <1>1, <1>2
<1>4. order \in OrderRecord
  BY DEF OrderInv
<1>5. order' \in OrderRecord'
  <2>1. order.stamp \in [Timed -> 0 .. present'] /\ order.read \in [Facts -> 0 .. present']
    BY <1>3, <1>4 DEF OrderRecord
  <2>2. order.captured \in 0 .. present' /\ order.began \in 0 .. present'
    BY <1>3, <1>4 DEF OrderRecord
  <2> QED
    BY <1>1, <1>4, <2>1, <2>2 DEF OrderRecord
<1>6. LeavesFresh'
  BY <1>1 DEF LeavesFresh
<1> QED
  BY <1>1, <1>3, <1>5, <1>6 DEF OrderInv, Stale, Reference, InspectionHolds, OwnRoute, ObservedAt

LEMMA OrderStep == OrderInv /\ [OrderNext]_orderVars => OrderInv'
<1> SUFFICES ASSUME OrderInv, [OrderNext]_orderVars PROVE OrderInv'
  OBVIOUS
<1>1. CASE UNCHANGED orderVars
  <2>1. present' = present /\ order' = order
    BY <1>1 DEF orderVars
  <2>2. LeavesFresh'
    <3>1. LeavesFresh
      BY DEF OrderInv
    <3>2. OnTheWay' = OnTheWay /\ \A fact : Uncounted(fact)' = Uncounted(fact)
      BY <2>1 DEF OnTheWay, Uncounted
    <3> QED
      BY <2>1, <3>1, <3>2 DEF LeavesFresh
  <2>3. order' \in OrderRecord'
    BY <2>1 DEF OrderInv, OrderRecord
  <2> QED
    BY <2>1, <2>2, <2>3 DEF OrderInv
<1>2. CASE \E purpose \in {"command", "prepare", "execute"}, manual \in BOOLEAN :
              BeginOrder(purpose, manual)
  BY <1>2, BeginOrderKept
<1>3. CASE \E read \in Requests \ {"identityTime"} : ReadAnswer(read)
  BY <1>3, ReadAnswerKept
<1>4. CASE AnswerUntimed
  BY <1>4, AnswerUntimedKept
<1>5. CASE AnswerIdentityTime
  BY <1>5, AnswerIdentityTimeKept
<1>6. CASE FailRead
  BY <1>6, FailReadKept
<1>7. CASE CheckAccount
  BY <1>7, CheckAccountKept
<1>8. CASE MakeCandidate
  BY <1>8, MakeCandidateKept
<1>9. CASE Judge
  BY <1>9, JudgeKept
<1>10. CASE JudgePreparation
  BY <1>10, JudgePreparationKept
<1>11. CASE Capture
  BY <1>11, CaptureKept
<1>12. CASE AdmitOrder
  BY <1>12, AdmitOrderKept
<1>13. CASE PrepareIntent
  BY <1>13, PrepareIntentKept
<1>14. CASE Recheck
  BY <1>14, RecheckKept
<1>15. CASE SendOrder
  BY <1>15, SendOrderKept
<1>16. CASE PassTime
  BY <1>16, PassTimeKept
<1> QED
  BY <1>1, <1>2, <1>3, <1>4, <1>5, <1>6, <1>7, <1>8, <1>9, <1>10, <1>11, <1>12, <1>13, <1>14,
     <1>15, <1>16 DEF OrderNext

\* The times an order and its evidence hold are of the past (OrderTypeOK).
THEOREM OrdersAreTyped == OrderSpec => []OrderTypeOK
<1>1. OrderInv => OrderTypeOK
  BY DEF OrderInv, OrderRecord, OrderTypeOK, OrderSteps
<1> QED
  BY <1>1, OrderStarts, OrderStep, PTL DEF OrderSpec

\* An order leaves, and a plan is stored, on facts no older than their limits but for what
\* the code cannot count, whatever the limits and the bound on time, on the route of the
\* command, the compact and the full one (the final check of the transport,
\* mainnet-operator-test-composition.ts).
THEOREM OrdersLeaveFresh == OrderSpec => []LeavesFresh
<1>1. OrderInv => LeavesFresh
  BY DEF OrderInv
<1> QED
  BY <1>1, OrderStarts, OrderStep, PTL DEF OrderSpec

-----------------------------------------------------------------------------
(***************************************************************************)
(* The plan of the day against the account.                                *)
(***************************************************************************)
LEMMA LeastNatural ==
    ASSUME NEW T \in SUBSET Nat, T # {}
    PROVE  \E x \in T : \A y \in T : x <= y
<1>1. \A x \in Nat, y \in Nat : <<y, x>> \in OpToRel(<, Nat) <=> y < x
  BY DEF OpToRel
<1>2. \E R : IsWellFoundedOn(R, Nat) /\ \A x \in Nat, y \in Nat : <<y, x>> \in R <=> y < x
  BY <1>1, NatLessThanWellFounded, Zenon
<1>3. PICK R : IsWellFoundedOn(R, Nat) /\ \A x \in Nat, y \in Nat : <<y, x>> \in R <=> y < x
  BY <1>2
<1>4. PICK x \in T : \A y \in T : ~(<<y, x>> \in R)
  BY <1>3, WFMin
<1>5. ASSUME NEW y \in T PROVE x <= y
  <2>1. x \in Nat /\ y \in Nat
    OBVIOUS
  <2>2. ~(y < x)
    BY <1>3, <1>4, <2>1
  <2> QED
    BY <2>1, <2>2
<1> QED
  BY <1>5

-----------------------------------------------------------------------------
(* Totals.                                                                  *)

Some(s) == CHOOSE x \in s : TRUE

\* The totals over the parts of a function's domain.
IsTotal(g, f) ==
    g = [s \in SUBSET DOMAIN f |-> IF s = {} THEN 0 ELSE f[Some(s)] + g[s \ {Some(s)}]]

\* The parts of a set that have no more elements than a number says.
UpTo(S, n) == {s \in SUBSET S : Cardinality(s) <= n}

IsTotalUpTo(g, f, n) ==
    g = [s \in UpTo(DOMAIN f, n) |-> IF s = {} THEN 0 ELSE f[Some(s)] + g[s \ {Some(s)}]]

LEMMA SomeIs == ASSUME NEW s, s # {} PROVE Some(s) \in s
BY DEF Some

\* A finite set with an element taken out.
LEMMA OneOut ==
    ASSUME NEW s, IsFiniteSet(s), NEW x \in s
    PROVE  /\ IsFiniteSet(s \ {x}) /\ Cardinality(s \ {x}) \in Nat /\ Cardinality(s) \in Nat
           /\ Cardinality(s) = Cardinality(s \ {x}) + 1
<1>1. IsFiniteSet(s \ {x}) /\ Cardinality(s \ {x}) = Cardinality(s) - 1
  BY FS_RemoveElement
<1>2. Cardinality(s) \in Nat /\ Cardinality(s \ {x}) \in Nat
  BY <1>1, FS_CardinalityType
<1> QED
  BY <1>1, <1>2

\* Totals there are, of parts of any number of elements.
LEMMA TotalUpToExists ==
    ASSUME NEW f, IsFiniteSet(DOMAIN f), NEW n \in Nat
    PROVE  \E g : IsTotalUpTo(g, f, n)
<1> DEFINE T == {m \in Nat : ~ \E g : IsTotalUpTo(g, f, m)}
<1> SUFFICES ASSUME T # {} PROVE FALSE
  OBVIOUS
<1>1. PICK m \in T : \A k \in T : m <= k
  BY LeastNatural
<1>2. ASSUME NEW s \in SUBSET DOMAIN f
      PROVE  IsFiniteSet(s) /\ Cardinality(s) \in Nat
  BY FS_Subset, FS_CardinalityType
<1>3. CASE m = 0
  <2> DEFINE g == [s \in UpTo(DOMAIN f, 0) |-> 0]
  <2>1. ASSUME NEW s \in UpTo(DOMAIN f, 0) PROVE s = {}
    <3>1. Cardinality(s) = 0 /\ IsFiniteSet(s)
      BY <1>2 DEF UpTo
    <3> QED
      BY <3>1, FS_EmptySet
  <2>2. g = [s \in UpTo(DOMAIN f, 0) |-> IF s = {} THEN 0
                                         ELSE f[Some(s)] + g[s \ {Some(s)}]]
    BY <2>1
  <2> QED
    BY <1>3, <2>2 DEF IsTotalUpTo
<1>4. CASE m # 0
  <2>1. PICK k \in Nat : m = k + 1
    BY <1>4
  <2>2. k \notin T
    BY <1>1, <2>1
  <2>3. PICK g : IsTotalUpTo(g, f, k)
    BY <2>2
  <2> DEFINE h == [s \in UpTo(DOMAIN f, m) |-> IF s = {} THEN 0
                                               ELSE f[Some(s)] + g[s \ {Some(s)}]]
  <2>4. ASSUME NEW s \in UpTo(DOMAIN f, m), s # {}
        PROVE  s \ {Some(s)} \in UpTo(DOMAIN f, k) /\ s \ {Some(s)} \in UpTo(DOMAIN f, m)
    <3>1. Some(s) \in s /\ IsFiniteSet(s) /\ s \in SUBSET DOMAIN f /\ Cardinality(s) <= k + 1
      BY <1>2, <2>1, <2>4, SomeIs DEF UpTo
    <3>2. /\ Cardinality(s \ {Some(s)}) \in Nat
          /\ Cardinality(s) = Cardinality(s \ {Some(s)}) + 1
      BY <3>1, OneOut
    <3>3. Cardinality(s \ {Some(s)}) <= k /\ Cardinality(s \ {Some(s)}) <= m
      BY <2>1, <3>1, <3>2
    <3> QED
      BY <3>1, <3>3 DEF UpTo
  <2>5. ASSUME NEW s \in UpTo(DOMAIN f, k) PROVE h[s] = g[s]
    <3>1. s \in UpTo(DOMAIN f, m)
      BY <1>2, <2>1 DEF UpTo
    <3> QED
      BY <2>3, <3>1 DEF IsTotalUpTo
  <2>6. ASSUME NEW s \in UpTo(DOMAIN f, m)
        PROVE  h[s] = IF s = {} THEN 0 ELSE f[Some(s)] + h[s \ {Some(s)}]
    BY <2>4, <2>5
  <2>7. h = [s \in UpTo(DOMAIN f, m) |-> IF s = {} THEN 0
                                         ELSE f[Some(s)] + h[s \ {Some(s)}]]
    BY <2>6
  <2> HIDE DEF h
  <2>8. IsTotalUpTo(h, f, m)
    BY <2>7 DEF IsTotalUpTo
  <2> QED
    BY <2>8
<1> QED
  BY <1>3, <1>4

LEMMA TotalExists ==
    ASSUME NEW f, IsFiniteSet(DOMAIN f)
    PROVE  \E g : IsTotal(g, f)
<1>1. Cardinality(DOMAIN f) \in Nat
  BY FS_CardinalityType
<1>2. PICK g : IsTotalUpTo(g, f, Cardinality(DOMAIN f))
  BY <1>1, TotalUpToExists
<1>3. ASSUME NEW s \in SUBSET DOMAIN f PROVE Cardinality(s) <= Cardinality(DOMAIN f)
  BY FS_Subset
<1>4. UpTo(DOMAIN f, Cardinality(DOMAIN f)) = SUBSET DOMAIN f
  BY <1>3 DEF UpTo
<1>5. IsTotal(g, f)
  BY <1>2, <1>4 DEF IsTotal, IsTotalUpTo
<1> QED
  BY <1>5

LEMMA TotalOfIs ==
    ASSUME NEW f, IsFiniteSet(DOMAIN f)
    PROVE  \E g : IsTotal(g, f) /\ TotalOf(f) = g[DOMAIN f]
<1> DEFINE h == CHOOSE g : IsTotal(g, f)
<1>1. IsTotal(h, f)
  BY TotalExists
<1>2. TotalOf(f) = h[DOMAIN f]
  BY DEF TotalOf, MapThenFoldSet, IsTotal, Some
<1> QED
  BY <1>1, <1>2

\* The totals of a function and of a part of it agree.
LEMMA TotalsAgree ==
    ASSUME NEW f, IsFiniteSet(DOMAIN f), NEW S \in SUBSET DOMAIN f, NEW g, IsTotal(g, f),
           NEW h, IsTotal(h, [x \in S |-> f[x]])
    PROVE  \A s \in SUBSET S : h[s] = g[s]
<1> DEFINE T == {n \in Nat : \E s \in SUBSET S : n = Cardinality(s) /\ h[s] # g[s]}
<1>1. ASSUME NEW s \in SUBSET S
      PROVE  IsFiniteSet(s) /\ Cardinality(s) \in Nat /\ s \in SUBSET DOMAIN f
  BY FS_Subset, FS_CardinalityType
<1>2. SUFFICES ASSUME T # {} PROVE FALSE
  BY <1>1
<1>3. PICK n \in T : \A k \in T : n <= k
  BY <1>2, LeastNatural
<1>4. PICK s \in SUBSET S : n = Cardinality(s) /\ h[s] # g[s]
  BY <1>3
<1>5. /\ h[s] = IF s = {} THEN 0 ELSE [x \in S |-> f[x]][Some(s)] + h[s \ {Some(s)}]
      /\ g[s] = IF s = {} THEN 0 ELSE f[Some(s)] + g[s \ {Some(s)}]
  <2>1. DOMAIN [x \in S |-> f[x]] = S
    OBVIOUS
  <2>2. h[s] = IF s = {} THEN 0 ELSE [x \in S |-> f[x]][Some(s)] + h[s \ {Some(s)}]
    BY <2>1 DEF IsTotal
  <2>3. g[s] = IF s = {} THEN 0 ELSE f[Some(s)] + g[s \ {Some(s)}]
    BY <1>1 DEF IsTotal
  <2> QED
    BY <2>2, <2>3
<1>6. s # {}
  BY <1>4, <1>5
<1>7. Some(s) \in s /\ Some(s) \in S /\ s \ {Some(s)} \in SUBSET S
  BY <1>6, SomeIs
<1>8. h[s \ {Some(s)}] # g[s \ {Some(s)}]
  BY <1>4, <1>5, <1>6, <1>7
<1>9. Cardinality(s \ {Some(s)}) \in T
  BY <1>1, <1>7, <1>8
<1>10. PICK c : c = Cardinality(s \ {Some(s)})
  OBVIOUS
<1>11. n = c + 1 /\ c \in Nat
  BY <1>1, <1>4, <1>7, <1>10, OneOut
<1>12. n <= c
  BY <1>3, <1>9, <1>10
<1> QED
  BY <1>11, <1>12

\* Any element may be the first that is added; all totals are natural numbers.
LEMMA TotalsSplit ==
    ASSUME NEW D, IsFiniteSet(D), NEW f \in [D -> Nat], NEW g, IsTotal(g, f)
    PROVE  /\ \A s \in SUBSET D : g[s] \in Nat
           /\ \A s \in SUBSET D : \A x \in s : g[s] = f[x] + g[s \ {x}]
<1> DEFINE Bad(s) == g[s] \notin Nat \/ \E x \in s : g[s] # f[x] + g[s \ {x}]
           T == {n \in Nat : \E s \in SUBSET D : n = Cardinality(s) /\ Bad(s)}
<1>1. ASSUME NEW s \in SUBSET D PROVE IsFiniteSet(s) /\ Cardinality(s) \in Nat
  BY FS_Subset, FS_CardinalityType
<1>2. ASSUME NEW s \in SUBSET D
      PROVE  g[s] = IF s = {} THEN 0 ELSE f[Some(s)] + g[s \ {Some(s)}]
  BY DEF IsTotal
<1>3. SUFFICES ASSUME T # {} PROVE FALSE
  BY <1>1
<1>4. PICK n \in T : \A k \in T : n <= k
  BY <1>3, LeastNatural
<1>5. PICK s \in SUBSET D : n = Cardinality(s) /\ Bad(s)
  BY <1>4
<1>6. s # {}
  BY <1>2, <1>5
<1>7. ASSUME NEW t \in SUBSET D, Cardinality(t) < Cardinality(s) PROVE ~Bad(t)
  <2>1. Cardinality(t) \in Nat /\ Cardinality(s) \in Nat
    BY <1>1
  <2> QED
    BY <1>4, <1>5, <1>7, <2>1
<1>8. PICK y \in s : y = Some(s)
  BY <1>6, SomeIs
<1>9. ASSUME NEW t \in SUBSET D, NEW x \in t PROVE Cardinality(t \ {x}) < Cardinality(t)
  <2>1. /\ Cardinality(t) = Cardinality(t \ {x}) + 1 /\ Cardinality(t \ {x}) \in Nat
        /\ Cardinality(t) \in Nat
    BY <1>1, OneOut
  <2> QED
    BY <2>1
<1>10. s \ {y} \in SUBSET D /\ ~Bad(s \ {y})
  BY <1>7, <1>9
<1>11. g[s] = f[y] + g[s \ {y}] /\ g[s \ {y}] \in Nat /\ f[y] \in Nat /\ g[s] \in Nat
  <2>1. g[s] = f[y] + g[s \ {y}]
    BY <1>2, <1>6, <1>8
  <2>2. g[s \ {y}] \in Nat /\ f[y] \in Nat
    BY <1>10
  <2> QED
    BY <2>1, <2>2
<1>12. PICK x \in s : g[s] # f[x] + g[s \ {x}]
  BY <1>5, <1>11
<1>13. x # y
  BY <1>11, <1>12
<1>14. PICK a, b, c : a = s \ {y} /\ b = s \ {x} /\ c = (s \ {y}) \ {x}
  OBVIOUS
<1>15. /\ a \in SUBSET D /\ b \in SUBSET D /\ c \in SUBSET D /\ x \in a /\ y \in b
       /\ c = a \ {x} /\ c = b \ {y}
  BY <1>13, <1>14
<1>16. ~Bad(a) /\ ~Bad(b) /\ ~Bad(c)
  <2>1. Cardinality(a) < Cardinality(s) /\ Cardinality(b) < Cardinality(s)
    BY <1>9, <1>14
  <2>2. Cardinality(c) < Cardinality(a)
    BY <1>9, <1>15
  <2>3. /\ Cardinality(a) \in Nat /\ Cardinality(c) \in Nat /\ Cardinality(s) \in Nat
    BY <1>1, <1>15
  <2>4. Cardinality(b) \in Nat
    BY <1>1, <1>15
  <2>5. PICK na : na = Cardinality(a)
    OBVIOUS
  <2>6. PICK nb : nb = Cardinality(b)
    OBVIOUS
  <2>7. PICK nc : nc = Cardinality(c)
    OBVIOUS
  <2>8. nc < n
    BY <1>5, <2>1, <2>2, <2>3, <2>5, <2>7
  <2>9. Cardinality(c) < Cardinality(s)
    BY <1>5, <2>7, <2>8
  <2> HIDE DEF Bad, T
  <2>10. ~Bad(a)
    BY <1>7, <1>15, <2>1
  <2>11. ~Bad(b)
    BY <1>7, <1>15, <2>1
  <2>12. ~Bad(c)
    BY <1>7, <1>15, <2>9
  <2> QED
    BY <2>10, <2>11, <2>12
<1>17. g[a] = f[x] + g[c] /\ g[b] = f[y] + g[c] /\ g[c] \in Nat /\ f[x] \in Nat
  BY <1>15, <1>16
<1> QED
  BY <1>11, <1>12, <1>14, <1>17

\* A total is what one value adds to the total of the rest.
LEMMA TotalSplit ==
    ASSUME NEW D, IsFiniteSet(D), NEW f \in [D -> Nat], NEW x \in D
    PROVE  /\ TotalOf(f) \in Nat /\ TotalOf([y \in D \ {x} |-> f[y]]) \in Nat
           /\ TotalOf(f) = f[x] + TotalOf([y \in D \ {x} |-> f[y]])
<1>1. DOMAIN f = D
  OBVIOUS
<1>2. PICK g : IsTotal(g, f) /\ TotalOf(f) = g[D]
  BY <1>1, TotalOfIs
<1>3. PICK rest : rest = [y \in D \ {x} |-> f[y]]
  OBVIOUS
<1>4. DOMAIN rest = D \ {x} /\ IsFiniteSet(D \ {x})
  BY <1>3, FS_RemoveElement
<1>5. PICK h : IsTotal(h, rest) /\ TotalOf(rest) = h[D \ {x}]
  BY <1>4, TotalOfIs
<1>6. h[D \ {x}] = g[D \ {x}]
  <2>1. D \ {x} \in SUBSET DOMAIN f
    BY <1>1
  <2>2. \A s \in SUBSET (D \ {x}) : h[s] = g[s]
    BY <1>1, <1>2, <1>3, <1>5, <2>1, TotalsAgree
  <2> QED
    BY <2>2
<1>7. g[D] = f[x] + g[D \ {x}] /\ g[D] \in Nat /\ g[D \ {x}] \in Nat
  <2>1. /\ \A s \in SUBSET D : g[s] \in Nat
        /\ \A s \in SUBSET D : \A z \in s : g[s] = f[z] + g[s \ {z}]
    <3>1. IsTotal(g, f)
      BY <1>2
    <3> QED
      BY <3>1, TotalsSplit
  <2>2. D \in SUBSET D /\ D \ {x} \in SUBSET D
    OBVIOUS
  <2> QED
    BY <2>1, <2>2
<1> QED
  BY <1>2, <1>3, <1>5, <1>6, <1>7

LEMMA TotalOfNothing ==
    ASSUME NEW f, DOMAIN f = {}
    PROVE  TotalOf(f) = 0
<1>1. PICK g : IsTotal(g, f) /\ TotalOf(f) = g[DOMAIN f]
  BY FS_EmptySet, TotalOfIs
<1> QED
  BY <1>1 DEF IsTotal

LEMMA TotalIsNat ==
    ASSUME NEW D, IsFiniteSet(D), NEW f \in [D -> Nat]
    PROVE  TotalOf(f) \in Nat
<1>1. CASE D = {}
  BY <1>1, TotalOfNothing
<1>2. CASE D # {}
  <2>1. PICK x \in D : TRUE
    BY <1>2
  <2> QED
    BY <2>1, TotalSplit
<1> QED
  BY <1>1, <1>2

\* What a total changes by when one value does.
LEMMA TotalChanges ==
    ASSUME NEW D, IsFiniteSet(D), NEW f \in [D -> Nat], NEW g \in [D -> Nat], NEW x \in D,
           \A y \in D \ {x} : g[y] = f[y]
    PROVE  TotalOf(g) + f[x] = TotalOf(f) + g[x]
<1>1. PICK rest : rest = [y \in D \ {x} |-> f[y]]
  OBVIOUS
<1>2. rest = [y \in D \ {x} |-> g[y]]
  BY <1>1
<1>3. TotalOf(f) = f[x] + TotalOf(rest) /\ TotalOf(rest) \in Nat /\ TotalOf(f) \in Nat
  BY <1>1, TotalSplit
<1>4. TotalOf(g) = g[x] + TotalOf(rest) /\ TotalOf(g) \in Nat
  BY <1>2, TotalSplit
<1>5. f[x] \in Nat /\ g[x] \in Nat
  OBVIOUS
<1> QED
  BY <1>3, <1>4, <1>5

-----------------------------------------------------------------------------
(* What the orders have left, what is held, what the legs before one ask for. *)

LEMMA LeavesIsNat ==
    ASSUME NEW S \in SUBSET Order, IsFiniteSet(S)
    PROVE  Leaves(S) \in Nat
<1>1. [o \in S |-> o.leaves] \in [S -> Nat]
  BY DEF Order
<1> QED
  BY <1>1, TotalIsNat DEF Leaves

LEMMA LeavesWithout ==
    ASSUME NEW S \in SUBSET Order, IsFiniteSet(S), NEW o \in S
    PROVE  Leaves(S) = o.leaves + Leaves(S \ {o})
<1> DEFINE f == [p \in S |-> p.leaves]
<1>1. f \in [S -> Nat]
  BY DEF Order
<1>2. [p \in S \ {o} |-> f[p]] = [p \in S \ {o} |-> p.leaves]
  OBVIOUS
<1>3. f[o] = o.leaves
  OBVIOUS
<1>4. Leaves(S) = TotalOf(f) /\ Leaves(S \ {o}) = TotalOf([p \in S \ {o} |-> f[p]])
  BY <1>2 DEF Leaves
<1> HIDE DEF f
<1>5. TotalOf(f) = f[o] + TotalOf([p \in S \ {o} |-> f[p]])
  BY <1>1, TotalSplit
<1> QED
  BY <1>3, <1>4, <1>5

LEMMA LeavesWith ==
    ASSUME NEW S \in SUBSET Order, IsFiniteSet(S), NEW o \in Order
    PROVE  /\ IsFiniteSet(S \cup {o})
           /\ Leaves(S \cup {o}) <= Leaves(S) + o.leaves
<1>1. IsFiniteSet(S \cup {o})
  BY FS_AddElement
<1>2. Leaves(S) \in Nat /\ o.leaves \in Nat
  BY LeavesIsNat DEF Order
<1>3. CASE o \in S
  <2>1. Leaves(S \cup {o}) = Leaves(S)
    <3>1. S \cup {o} = S
      BY <1>3
    <3> QED
      BY <3>1
  <2>2. Leaves(S) <= Leaves(S) + o.leaves
    BY <1>2
  <2> QED
    BY <1>1, <2>1, <2>2
<1>4. CASE o \notin S
  <2>1. (S \cup {o}) \ {o} = S
    BY <1>4
  <2>2. Leaves(S \cup {o}) = o.leaves + Leaves(S)
    BY <1>1, <2>1, LeavesWithout
  <2> QED
    BY <1>1, <1>2, <2>2
<1> QED
  BY <1>3, <1>4

LEMMA SizeIsNat == ASSUME NEW n \in Int PROVE Size(n) \in Nat
BY DEF Size

LEMMA SizesAreTyped ==
    ASSUME NEW held \in [Markets -> Int]
    PROVE  [m \in Markets |-> Size(held[m])] \in [Markets -> Nat]
BY SizeIsNat

\* What is held, when one position changes.
LEMMA HeldChanges ==
    ASSUME NEW state, NEW new, state.held \in [Markets -> Int], NEW m \in Markets,
           NEW amount \in Int, new.held = [state.held EXCEPT ![m] = amount]
    PROVE  /\ Held(state) \in Nat /\ Held(new) \in Nat
           /\ Held(new) + Size(state.held[m]) = Held(state) + Size(amount)
<1>1. IsFiniteSet(Markets)
  BY RiskAssumption
<1>2. new.held \in [Markets -> Int] /\ new.held[m] = amount
      /\ \A n \in Markets \ {m} : new.held[n] = state.held[n]
  OBVIOUS
<1>3. PICK f : f = [n \in Markets |-> Size(state.held[n])]
  OBVIOUS
<1>4. PICK g : g = [n \in Markets |-> Size(new.held[n])]
  OBVIOUS
<1>5. f \in [Markets -> Nat] /\ g \in [Markets -> Nat]
  BY <1>2, <1>3, <1>4, SizesAreTyped
<1>6. \A n \in Markets \ {m} : g[n] = f[n]
  BY <1>2, <1>3, <1>4
<1>7. TotalOf(g) + f[m] = TotalOf(f) + g[m]
  BY <1>1, <1>5, <1>6, TotalChanges
<1>8. f[m] = Size(state.held[m]) /\ g[m] = Size(amount)
  BY <1>2, <1>3, <1>4
<1>9. Held(state) = TotalOf(f) /\ Held(new) = TotalOf(g)
  BY <1>3, <1>4 DEF Held
<1>10. TotalOf(f) \in Nat /\ TotalOf(g) \in Nat
  BY <1>1, <1>5, TotalIsNat
<1> QED
  BY <1>7, <1>8, <1>9, <1>10

LEMMA HeldIsNat ==
    ASSUME NEW state, state.held \in [Markets -> Int]
    PROVE  Held(state) \in Nat
BY RiskAssumption, SizesAreTyped, TotalIsNat DEF Held

\* What the legs before one ask for.
Before(k) == TotalOf([j \in 1..(k - 1) |-> LegSizes[j]])

LEMMA LegsAreTyped ==
    /\ Len(LegSizes) \in Nat \ {0} /\ Legs = 1..Len(LegSizes) /\ 1 \in Legs
    /\ \A k \in Legs : LegSizes[k] \in Nat \ {0}
<1>1. LegSizes \in Seq(Nat \ {0}) /\ LegSizes # <<>>
  BY RiskAssumption
<1>2. Len(LegSizes) \in Nat /\ Len(LegSizes) # 0
  BY <1>1
<1>3. Legs = 1..Len(LegSizes)
  BY DEF Legs
<1>4. \A k \in 1..Len(LegSizes) : LegSizes[k] \in Nat \ {0}
  BY <1>1
<1> QED
  BY <1>2, <1>3, <1>4

LEMMA BeforeIsNat ==
    ASSUME NEW k \in 1..(Len(LegSizes) + 1)
    PROVE  Before(k) \in Nat
<1>1. Len(LegSizes) \in Nat /\ \A j \in 1..(k - 1) : LegSizes[j] \in Nat
  BY LegsAreTyped
<1>2. [j \in 1..(k - 1) |-> LegSizes[j]] \in [1..(k - 1) -> Nat]
  BY <1>1
<1>3. IsFiniteSet(1..(k - 1))
  BY <1>1, FS_Interval
<1> QED
  BY <1>2, <1>3, TotalIsNat DEF Before

LEMMA BeforeNext ==
    ASSUME NEW k \in Legs
    PROVE  /\ Before(k) \in Nat /\ Before(k + 1) \in Nat
           /\ Before(k + 1) = Before(k) + LegSizes[k]
<1>1. Len(LegSizes) \in Nat /\ \A j \in 1..k : LegSizes[j] \in Nat
  BY LegsAreTyped
<1>2. k \in Nat \ {0} /\ k <= Len(LegSizes)
  BY LegsAreTyped
<1>3. PICK D : D = 1..k
  OBVIOUS
<1>4. PICK f : f = [j \in D |-> LegSizes[j]]
  OBVIOUS
<1>5. f \in [D -> Nat] /\ IsFiniteSet(D) /\ k \in D
  BY <1>1, <1>2, <1>3, <1>4, FS_Interval
<1>6. D \ {k} = 1..(k - 1)
  BY <1>2, <1>3
<1>7. [j \in D \ {k} |-> f[j]] = [j \in 1..(k - 1) |-> LegSizes[j]]
  BY <1>4, <1>6
<1>8. TotalOf(f) = f[k] + TotalOf([j \in D \ {k} |-> f[j]])
  BY <1>5, TotalSplit
<1>9. Before(k) = TotalOf([j \in D \ {k} |-> f[j]])
  BY <1>7 DEF Before
<1>10. Before(k + 1) = TotalOf(f)
  <2>1. (k + 1) - 1 = k
    BY <1>2
  <2> QED
    BY <1>3, <1>4, <2>1 DEF Before
<1>11. f[k] = LegSizes[k] /\ LegSizes[k] \in Nat
  BY <1>1, <1>2, <1>4, <1>5
<1>12. Before(k) \in Nat /\ Before(k + 1) \in Nat
  BY <1>1, <1>2, BeforeIsNat
<1> QED
  BY <1>8, <1>9, <1>10, <1>11, <1>12

LEMMA BeforeTheLast ==
    /\ RequestedNotional = Before(Len(LegSizes) + 1) /\ RequestedNotional \in Nat
    /\ Before(1) = 0
<1>1. Len(LegSizes) \in Nat \ {0}
  BY LegsAreTyped
<1>2. (Len(LegSizes) + 1) - 1 = Len(LegSizes)
  BY <1>1
<1>3. RequestedNotional = Before(Len(LegSizes) + 1)
  BY <1>2 DEF RequestedNotional, Before, Legs
<1>4. RequestedNotional \in Nat
  BY <1>1, <1>3, BeforeIsNat
<1>5. Before(1) = 0
  <2>1. DOMAIN [j \in 1..(1 - 1) |-> LegSizes[j]] = {}
    OBVIOUS
  <2> QED
    BY <2>1, TotalOfNothing DEF Before
<1> QED
  BY <1>3, <1>4, <1>5

\* The legs before one, and that one, ask for no more than the plan.
LEMMA LegIsRequested ==
    ASSUME NEW k \in Legs
    PROVE  Before(k) + LegSizes[k] <= RequestedNotional
<1> DEFINE L == Len(LegSizes)
           T == {n \in Nat : \E j \in 1..(L + 1) : n = (L + 1) - j
                                                   /\ ~(Before(j) <= RequestedNotional)}
<1>1. L \in Nat \ {0} /\ Legs = 1..L
  BY LegsAreTyped
<1>2. k + 1 \in 1..(L + 1) /\ Before(k + 1) = Before(k) + LegSizes[k]
  BY <1>1, BeforeNext
<1>3. SUFFICES ASSUME T # {} PROVE FALSE
  <2>1. (L + 1) - (k + 1) \in Nat
    BY <1>1
  <2> QED
    BY <1>2, <2>1
<1>4. PICK n \in T : \A m \in T : n <= m
  BY <1>3, LeastNatural
<1>5. PICK j \in 1..(L + 1) : n = (L + 1) - j /\ ~(Before(j) <= RequestedNotional)
  BY <1>4
<1>6. j # L + 1
  BY <1>5, BeforeTheLast
<1>7. j \in Legs /\ j + 1 \in 1..(L + 1)
  BY <1>1, <1>5, <1>6
<1>8. Before(j) \in Nat /\ Before(j + 1) = Before(j) + LegSizes[j] /\ LegSizes[j] \in Nat
  BY <1>7, BeforeNext, LegsAreTyped
<1>9. ~(Before(j + 1) <= RequestedNotional)
  BY <1>5, <1>8, BeforeTheLast
<1>10. (L + 1) - (j + 1) \in T
  BY <1>1, <1>7, <1>9
<1>11. n <= (L + 1) - (j + 1)
  BY <1>4, <1>10
<1> QED
  BY <1>1, <1>5, <1>7, <1>11

-----------------------------------------------------------------------------
(* Exposure: what is held and what may still be traded into.                *)

IsAccount(state) == state \in AccountState /\ IsFiniteSet(state.orders)

Exposure(state) == Held(state) + Leaves(Increasing(state))

LEMMA IncreasingIsTyped ==
    ASSUME NEW state, IsAccount(state)
    PROVE  Increasing(state) \in SUBSET Order /\ IsFiniteSet(Increasing(state))
<1>1. state.orders \in SUBSET Order /\ Increasing(state) \in SUBSET state.orders
  BY DEF IsAccount, AccountState, Increasing
<1>2. IsFiniteSet(Increasing(state))
  BY <1>1, FS_Subset DEF IsAccount
<1> QED
  BY <1>1, <1>2

LEMMA ExposureIsNat ==
    ASSUME NEW state, IsAccount(state)
    PROVE  /\ Exposure(state) \in Nat
           /\ Available(state) \in Int /\ Available(state) = Funds - Exposure(state)
<1>1. Held(state) \in Nat
  BY HeldIsNat DEF IsAccount, AccountState
<1>2. Leaves(Increasing(state)) \in Nat
  BY IncreasingIsTyped, LeavesIsNat
<1>3. Funds \in Nat
  BY RiskAssumption
<1> QED
  BY <1>1, <1>2, <1>3 DEF Exposure, Available

LEMMA SpotIsNat == ASSUME NEW state PROVE Spot(state) \in Nat
BY DEF Spot

\* The arithmetic of a fill.
LEMMA FillGrows ==
    ASSUME NEW before \in Int, NEW q \in Nat, NEW side \in {1, -1}
    PROVE  /\ before + side * q \in Int
           /\ Size(before + side * q) <= Size(before) + q
BY DEF Size

LEMMA ClosingShrinks ==
    ASSUME NEW before \in Int, NEW q \in Nat, NEW side \in {1, -1}, side * before < 0,
           q <= Size(before)
    PROVE  Size(before + side * q) <= Size(before)
BY DEF Size

\* A fill never raises the exposure: what is held grows by no more than the order has less
\* left, and an order that closes only lowers what is held.
LEMMA FillsDoNotExpose ==
    ASSUME IsAccount(holding), NEW o \in holding.orders, NEW quantity \in 1..o.leaves,
           Executes(o, quantity)
    PROVE  /\ IsAccount(holding') /\ holding'.asset = holding.asset
           /\ Exposure(holding') <= Exposure(holding)
<1> DEFINE m == o.symbol
           before == holding.held[m]
           less == [o EXCEPT !.leaves = @ - quantity]
           left == IF quantity = o.leaves THEN {} ELSE {less}
<1>1. o \in Order /\ holding \in AccountState /\ IsFiniteSet(holding.orders)
  BY DEF IsAccount, AccountState
<1>2. /\ m \in Markets /\ o.leaves \in Nat \ {0} /\ o.side \in {1, -1}
      /\ quantity \in Nat \ {0} /\ quantity <= o.leaves /\ before \in Int
  BY <1>1 DEF Order, AccountState
<1>3. (quantity # o.leaves) =>
          /\ less \in Order /\ less.leaves = o.leaves - quantity /\ less.closing = o.closing
  BY <1>1, <1>2 DEF Order
<1>4. PICK new : new = holding'
  OBVIOUS
<1>5. /\ new.held = [holding.held EXCEPT ![m] = before + o.side * quantity]
      /\ new.orders = (holding.orders \ {o}) \cup left
      /\ new.lever = holding.lever /\ new.rows = holding.rows /\ new.asset = holding.asset
      /\ new \in [held : [Markets -> Int], lever : [Markets -> Nat], rows : SUBSET Linear,
                  orders : {(holding.orders \ {o}) \cup left}, asset : Assets]
  <2>1. before + o.side * quantity \in Int
    BY <1>2, FillGrows
  <2> QED
    BY <1>1, <1>2, <1>4, <2>1 DEF Executes, AccountState
<1>6. new.orders \in SUBSET Order /\ IsFiniteSet(new.orders)
  <2>1. IsFiniteSet(holding.orders \ {o})
    BY <1>1, FS_RemoveElement
  <2>2. IsFiniteSet((holding.orders \ {o}) \cup {less})
    BY <2>1, FS_AddElement
  <2>3. CASE quantity = o.leaves
    <3>1. new.orders = holding.orders \ {o}
      BY <1>5, <2>3
    <3> QED
      BY <1>1, <2>1, <3>1 DEF AccountState
  <2>4. CASE quantity # o.leaves
    <3>1. new.orders = (holding.orders \ {o}) \cup {less}
      BY <1>5, <2>4
    <3> QED
      BY <1>1, <1>3, <2>2, <2>4, <3>1 DEF AccountState
  <2> QED
    BY <2>3, <2>4
<1>7. IsAccount(new)
  BY <1>5, <1>6 DEF IsAccount, AccountState
<1>8. /\ Held(holding) \in Nat /\ Held(new) \in Nat
      /\ Held(new) + Size(before) = Held(holding) + Size(before + o.side * quantity)
  <2>1. before + o.side * quantity \in Int /\ holding.held \in [Markets -> Int]
    BY <1>1, <1>2, FillGrows DEF AccountState
  <2> QED
    BY <1>2, <1>5, <2>1, HeldChanges
<1>9. Size(before) \in Nat /\ Size(before + o.side * quantity) \in Nat
  BY <1>2, FillGrows, SizeIsNat
<1>10. PICK S : S = Increasing(holding)
  OBVIOUS
<1>11. PICK R : R = Increasing(new)
  OBVIOUS
<1>12. /\ S \in SUBSET Order /\ IsFiniteSet(S) /\ R \in SUBSET Order /\ IsFiniteSet(R)
       /\ Leaves(S) \in Nat /\ Leaves(R) \in Nat
  BY <1>7, <1>10, <1>11, IncreasingIsTyped, LeavesIsNat
<1>13. CASE o.closing
  <2>1. R = S
    BY <1>3, <1>5, <1>10, <1>11, <1>13 DEF Increasing
  <2>2. Size(before + o.side * quantity) <= Size(before)
    <3>1. o.side * before < 0 /\ quantity <= Size(before)
      BY <1>13 DEF Executes
    <3> QED
      BY <1>2, <3>1, ClosingShrinks
  <2>3. Held(new) <= Held(holding)
    BY <1>8, <1>9, <2>2
  <2> QED
    BY <1>4, <1>5, <1>7, <1>8, <1>10, <1>11, <1>12, <2>1, <2>3 DEF Exposure
<1>14. CASE ~o.closing
  <2>1. o \in S
    BY <1>10, <1>14 DEF Increasing
  <2>2. Leaves(S) = o.leaves + Leaves(S \ {o})
    BY <1>12, <2>1, LeavesWithout
  <2>3. S \ {o} \in SUBSET Order /\ IsFiniteSet(S \ {o}) /\ Leaves(S \ {o}) \in Nat
    BY <1>12, FS_RemoveElement, LeavesIsNat
  <2>4. Leaves(R) <= Leaves(S \ {o}) + (o.leaves - quantity)
    <3>1. CASE quantity = o.leaves
      <4>1. R = S \ {o}
        BY <1>5, <1>10, <1>11, <3>1 DEF Increasing
      <4>2. Leaves(R) = Leaves(S \ {o})
        BY <4>1
      <4> QED
        BY <1>2, <2>3, <3>1, <4>2
    <3>2. CASE quantity # o.leaves
      <4>1. R = (S \ {o}) \cup {less}
        BY <1>3, <1>5, <1>10, <1>11, <1>14, <3>2 DEF Increasing
      <4>2. Leaves((S \ {o}) \cup {less}) <= Leaves(S \ {o}) + less.leaves
        BY <1>3, <2>3, <3>2, LeavesWith
      <4>3. Leaves(R) = Leaves((S \ {o}) \cup {less}) /\ less.leaves = o.leaves - quantity
        BY <1>3, <3>2, <4>1
      <4> QED
        BY <4>2, <4>3
    <3> QED
      BY <3>1, <3>2
  <2>5. Size(before + o.side * quantity) <= Size(before) + quantity
    BY <1>2, FillGrows
  <2>6. Held(new) <= Held(holding) + quantity
    BY <1>2, <1>8, <1>9, <2>5
  <2>7. Leaves(R) + quantity <= Leaves(S)
    BY <1>2, <1>12, <2>2, <2>3, <2>4
  <2>8. Held(new) + Leaves(R) <= Held(holding) + Leaves(S)
    BY <1>2, <1>8, <1>12, <2>6, <2>7
  <2> QED
    BY <1>4, <1>5, <1>7, <1>10, <1>11, <2>8 DEF Exposure
<1> QED
  BY <1>13, <1>14

LEMMA WithdrawalsDoNotExpose ==
    ASSUME IsAccount(holding), NEW o \in holding.orders, OwnerWithdraws(o)
    PROVE  /\ IsAccount(holding') /\ holding'.asset = holding.asset
           /\ Exposure(holding') <= Exposure(holding)
<1>1. o \in Order /\ holding \in AccountState /\ IsFiniteSet(holding.orders)
  BY DEF IsAccount, AccountState
<1>2. PICK new : new = holding'
  OBVIOUS
<1>3. /\ new.held = holding.held /\ new.orders = holding.orders \ {o}
      /\ new.asset = holding.asset /\ new \in AccountState
  BY <1>1, <1>2 DEF OwnerWithdraws, AccountState
<1>4. IsAccount(new)
  BY <1>1, <1>3, FS_RemoveElement DEF IsAccount
<1>5. Held(new) = Held(holding) /\ Held(holding) \in Nat
  BY <1>1, <1>3, HeldIsNat DEF Held, AccountState
<1>6. PICK S : S = Increasing(holding)
  OBVIOUS
<1>7. S \in SUBSET Order /\ IsFiniteSet(S)
  BY <1>6, IncreasingIsTyped
<1>8. Increasing(new) = S \ {o}
  BY <1>3, <1>6 DEF Increasing
<1>9. Leaves(S \ {o}) <= Leaves(S) /\ Leaves(S \ {o}) \in Nat /\ Leaves(S) \in Nat
  <2>1. Leaves(S) \in Nat
    BY <1>7, LeavesIsNat
  <2>2. CASE o \in S
    <3>1. Leaves(S) = o.leaves + Leaves(S \ {o}) /\ o.leaves \in Nat
      BY <1>7, <2>2, LeavesWithout DEF Order
    <3>2. IsFiniteSet(S \ {o}) /\ S \ {o} \in SUBSET Order
      BY <1>7, FS_RemoveElement
    <3>3. Leaves(S \ {o}) \in Nat
      BY <3>2, LeavesIsNat
    <3> QED
      BY <2>1, <3>1, <3>3
  <2>3. CASE o \notin S
    <3>1. S \ {o} = S
      BY <2>3
    <3>2. Leaves(S \ {o}) = Leaves(S)
      BY <3>1
    <3> QED
      BY <2>1, <3>2
  <2> QED
    BY <2>2, <2>3
<1> QED
  BY <1>2, <1>3, <1>4, <1>5, <1>6, <1>8, <1>9 DEF Exposure

LEMMA LegOrderIsTyped ==
    ASSUME NEW k \in Legs
    PROVE  LegOrder(k) \in Order /\ LegOrder(k).leaves = LegSizes[k]
BY RiskAssumption, LegsAreTyped DEF LegOrder, Order

\* An order more raises the exposure by no more than it has left.
LEMMA OrdersExpose ==
    ASSUME NEW state, IsAccount(state), NEW o \in Order, NEW new,
           new = [state EXCEPT !.orders = @ \cup {o}]
    PROVE  /\ IsAccount(new) /\ new.asset = state.asset
           /\ Exposure(new) <= Exposure(state) + o.leaves
<1>1. state \in AccountState /\ IsFiniteSet(state.orders)
  BY DEF IsAccount
<1>2. /\ new.held = state.held /\ new.orders = state.orders \cup {o}
      /\ new.asset = state.asset /\ new \in AccountState
  BY <1>1 DEF AccountState
<1>3. IsAccount(new)
  BY <1>1, <1>2, FS_AddElement DEF IsAccount
<1>4. Held(new) = Held(state) /\ Held(state) \in Nat
  BY <1>1, <1>2, HeldIsNat DEF Held, AccountState
<1>5. PICK S : S = Increasing(state)
  OBVIOUS
<1>6. S \in SUBSET Order /\ IsFiniteSet(S)
  BY <1>5, IncreasingIsTyped
<1>7. Leaves(S) \in Nat /\ o.leaves \in Nat
  BY <1>6, LeavesIsNat DEF Order
<1>8. Leaves(Increasing(new)) <= Leaves(S) + o.leaves /\ Leaves(Increasing(new)) \in Nat
  <2>1. Leaves(Increasing(new)) \in Nat
    BY <1>3, IncreasingIsTyped, LeavesIsNat
  <2>2. CASE o.closing
    <3>1. Increasing(new) = S
      BY <1>2, <1>5, <2>2 DEF Increasing
    <3>2. Leaves(Increasing(new)) = Leaves(S)
      BY <3>1
    <3> QED
      BY <1>7, <3>2
  <2>3. CASE ~o.closing
    <3>1. Increasing(new) = S \cup {o}
      BY <1>2, <1>5, <2>3 DEF Increasing
    <3>2. Leaves(S \cup {o}) <= Leaves(S) + o.leaves
      BY <1>6, LeavesWith
    <3>3. Leaves(Increasing(new)) = Leaves(S \cup {o})
      BY <3>1
    <3> QED
      BY <2>1, <3>2, <3>3
  <2> QED
    BY <2>2, <2>3
<1> QED
  BY <1>2, <1>3, <1>4, <1>5, <1>7, <1>8 DEF Exposure

-----------------------------------------------------------------------------
(* What still fits.                                                         *)

LEMMA TimesMore ==
    ASSUME NEW a \in Nat, NEW x \in Int, NEW y \in Int, x <= y
    PROVE  a * x <= a * y
<1>1. PICK d \in Nat : y = x + d
  <2>1. y - x \in Nat /\ y = x + (y - x)
    OBVIOUS
  <2> QED
    BY <2>1
<1>2. a * (x + d) = a * x + a * d /\ a * d \in Nat /\ a * x \in Int
  BY Z3
<1> QED
  BY <1>1, <1>2

\* One leg of a plan that fits, alone: the reserve is kept of what the rest leaves.
LEMMA LegOfWhole ==
    ASSUME NEW o \in Nat, NEW a \in Nat \ {0}, a <= o, NEW r \in Nat, NEW b \in Nat,
           NEW l \in Nat \ {0}, b + l <= r, NEW v \in Int, o * r <= a * (v + b)
    PROVE  v > 0 /\ o * l <= a * v /\ l <= v
<1>1. a * (v + b) = a * v + a * b /\ a * v \in Int /\ a * b \in Int
  BY Z3
<1>2. o * (b + l) = o * b + o * l /\ o * b \in Int /\ o * l \in Int
  BY Z3
<1>3. o * (b + l) <= o * r /\ o * r \in Int
  BY TimesMore
<1>4. a * b <= o * b
  <2>1. b * a <= b * o
    BY TimesMore
  <2>2. b * a = a * b /\ b * o = o * b
    BY Z3
  <2> QED
    BY <2>1, <2>2
<1>5. o * l <= a * v
  BY <1>1, <1>2, <1>3, <1>4
<1>6. o * l > 0
  <2>1. l * 1 <= l * o /\ l * o = o * l
    <3>1. l * o = o * l
      BY Z3
    <3> QED
      BY <3>1, TimesMore
  <2> QED
    BY <1>2, <2>1
<1>7. v > 0
  <2>1. SUFFICES ASSUME v <= 0 PROVE FALSE
    OBVIOUS
  <2>2. a * v <= a * 0 /\ a * 0 = 0
    BY <2>1, TimesMore
  <2> QED
    BY <1>1, <1>2, <1>5, <1>6, <2>2
<1>8. l <= v
  <2>1. SUFFICES ASSUME v + 1 <= l PROVE FALSE
    OBVIOUS
  <2>2. o * (v + 1) <= o * l
    BY <2>1, TimesMore
  <2>3. o * (v + 1) = o * v + o /\ o * v \in Int
    BY Z3
  <2>4. a * v <= o * v
    <3>1. v \in Nat
      BY <1>7
    <3>2. v * a <= v * o
      BY <3>1, TimesMore
    <3>3. v * a = a * v /\ v * o = o * v
      BY Z3
    <3> QED
      BY <3>2, <3>3
  <2> QED
    BY <1>1, <1>2, <1>5, <2>2, <2>3, <2>4
<1> QED
  BY <1>5, <1>7, <1>8

\* The plan fits, counting the legs before one as still to be placed.
Fits(state, k) ==
    OutOf * RequestedNotional
        <= (OutOf - ReserveParts) * ((Funds - Exposure(state)) + Before(k))

LEMMA FitsStill ==
    ASSUME NEW state, IsAccount(state), NEW new, IsAccount(new),
           NEW k \in 1..(Len(LegSizes) + 1), NEW j \in 1..(Len(LegSizes) + 1),
           Exposure(new) + Before(k) <= Exposure(state) + Before(j), Fits(state, k)
    PROVE  Fits(new, j)
<1>1. /\ OutOf \in Nat /\ OutOf - ReserveParts \in Nat \ {0} /\ Funds \in Nat
      /\ RequestedNotional \in Nat
  BY RiskAssumption, BeforeTheLast
<1>2. /\ Exposure(new) \in Nat /\ Exposure(state) \in Nat
      /\ Before(k) \in Nat /\ Before(j) \in Nat
  BY ExposureIsNat, BeforeIsNat
<1>3. PICK x : x = (Funds - Exposure(state)) + Before(k)
  OBVIOUS
<1>4. PICK y : y = (Funds - Exposure(new)) + Before(j)
  OBVIOUS
<1>5. x \in Int /\ y \in Int /\ x <= y
  BY <1>1, <1>2, <1>3, <1>4
<1>6. (OutOf - ReserveParts) * x <= (OutOf - ReserveParts) * y
  BY <1>1, <1>5, TimesMore
<1>7. OutOf * RequestedNotional <= (OutOf - ReserveParts) * x
  BY <1>3 DEF Fits
<1>8. /\ OutOf * RequestedNotional \in Int /\ (OutOf - ReserveParts) * x \in Int
      /\ (OutOf - ReserveParts) * y \in Int
  BY <1>1, <1>5, Z3
<1>9. OutOf * RequestedNotional <= (OutOf - ReserveParts) * y
  BY <1>6, <1>7, <1>8
<1> QED
  BY <1>4, <1>9 DEF Fits

LEMMA LegsFit ==
    ASSUME NEW state, IsAccount(state), NEW k \in Legs, Fits(state, k)
    PROVE  /\ WithinCapacity(state, LegSizes[k])
           /\ LegSizes[k] <= Available(state)
<1>1. /\ OutOf \in Nat /\ OutOf - ReserveParts \in Nat \ {0} /\ OutOf - ReserveParts <= OutOf
      /\ Funds \in Nat
  BY RiskAssumption
<1>2. /\ RequestedNotional \in Nat /\ Before(k) \in Nat /\ LegSizes[k] \in Nat \ {0}
      /\ Before(k) + LegSizes[k] <= RequestedNotional
  BY BeforeTheLast, BeforeNext, LegsAreTyped, LegIsRequested
<1>3. PICK v : v = Available(state)
  OBVIOUS
<1>4. v \in Int /\ v = Funds - Exposure(state)
  BY <1>3, ExposureIsNat
<1>5. OutOf * RequestedNotional <= (OutOf - ReserveParts) * (v + Before(k))
  BY <1>4 DEF Fits
<1>6. /\ v > 0 /\ OutOf * LegSizes[k] <= (OutOf - ReserveParts) * v
      /\ LegSizes[k] <= v
  BY <1>1, <1>2, <1>4, <1>5, LegOfWhole
<1> QED
  BY <1>3, <1>6 DEF WithinCapacity

\* What the preflight compares is that the plan fits.
LEMMA CapacityFits ==
    ASSUME NEW state, IsAccount(state), WithinCapacity(state, RequestedNotional)
    PROVE  Fits(state, 1)
<1>1. /\ OutOf \in Nat \ {0} /\ OutOf - ReserveParts \in Nat /\ Funds \in Nat
  BY RiskAssumption
<1>2. RequestedNotional \in Nat \ {0} /\ Before(1) = 0
  <2>1. 1 \in Legs /\ LegSizes[1] \in Nat \ {0} /\ Before(1) = 0 /\ RequestedNotional \in Nat
    BY LegsAreTyped, BeforeTheLast
  <2>2. Before(1) + LegSizes[1] <= RequestedNotional
    BY <2>1, LegIsRequested
  <2> QED
    BY <2>1, <2>2
<1>3. PICK v : v = Available(state)
  OBVIOUS
<1>4. v \in Int /\ v = Funds - Exposure(state) /\ Exposure(state) \in Nat
  BY <1>3, ExposureIsNat
<1>5. OutOf * RequestedNotional > 0
  <2>1. OutOf * 1 <= OutOf * RequestedNotional
    BY <1>1, <1>2, TimesMore
  <2>2. OutOf * RequestedNotional \in Int
    BY <1>1, <1>2, Z3
  <2> QED
    BY <1>1, <2>1, <2>2
<1>6. v > 0
  <2>1. SUFFICES ASSUME ~(v > 0) PROVE FALSE
    OBVIOUS
  <2>2. OutOf * RequestedNotional <= (OutOf - ReserveParts) * 0
    BY <1>3, <2>1 DEF WithinCapacity
  <2>3. (OutOf - ReserveParts) * 0 = 0
    BY <1>1
  <2>4. OutOf * RequestedNotional \in Int
    BY <1>1, <1>2, Z3
  <2> QED
    BY <1>5, <2>2, <2>3, <2>4
<1>7. OutOf * RequestedNotional <= (OutOf - ReserveParts) * v
  BY <1>3, <1>6 DEF WithinCapacity
<1>8. (Funds - Exposure(state)) + Before(1) = v
  BY <1>1, <1>2, <1>4
<1> QED
  BY <1>7, <1>8 DEF Fits

-----------------------------------------------------------------------------
(* The inductive invariant.                                                 *)

RiskStages == {"new", "idle", "gathered", "supplied", "approved", "regathered",
               "admitted", "placed", "refused", "ended"}

Codes == {"UNSUPPORTED_EXPOSURE", "CURRENT_STATE_UNVALUABLE", "ACCOUNT_LIABILITY_UNMODELED",
          "ACCOUNT_RESTRICTION_ACTIVE", "CAPACITY_EXCEEDED", "SUPPLEMENTAL_EVIDENCE_CONFLICT",
          "LEVERAGE_UNKNOWN", "LEVERAGE_EXCEEDS_POLICY", "ECONOMICS_INPUT_UNKNOWN",
          "ECONOMICS_INSUFFICIENT", "REDUCTION_STATE_INVALID", "ACCOUNT_EVIDENCE_STALE",
          "REQUIRED_EVIDENCE_STALE", "TARGET_POSITION_NOT_FLAT", "LEVERAGE_NOT_ONE_X",
          "PREFIX_RECONCILIATION_MISMATCH", "ACCOUNT_ORDER_PREFIX_MISMATCH",
          "APPROVED_ALLOCATION_EXCEEDED"}

Kinds == {"none", "add-long", "reduction-no-op", "close-long-quantity", "hold-no-action"}

Review == [at : RiskStages, evidence : AccountState,
           supplement : [read : BOOLEAN, held : Int, lever : Nat],
           reasons : SUBSET Codes, proposal : [kind : Kinds, quantity : Int],
           gross : Nat, leg : Legs, blocked : SUBSET Codes, others : BOOLEAN,
           used : SUBSET Nat]

RiskTyped ==
    /\ IsAccount(holding)
    /\ review \in Review
    /\ IsAccount(review.evidence)

\* Until the preflight is evaluated nothing is decided, and only an end has reasons.
NothingDecided ==
    /\ (review.at \in {"new", "idle", "gathered", "supplied"}) =>
           (review.proposal.kind = "none" /\ review.leg = 1)
    /\ (review.blocked # {}) => (review.at = "ended")

\* The evidence still shows the worst that can come of the orders.
EvidenceShows ==
    (review.at \in {"gathered", "supplied"} /\ ~review.others) =>
        /\ Exposure(holding) <= Exposure(review.evidence)
        /\ Spot(holding) = Spot(review.evidence)

\* So does the report; the legs not yet placed are part of it.
ReportCovers ==
    (review.proposal.kind = "add-long" /\ ~review.others) =>
        IF review.at \in {"approved", "regathered", "admitted"}
        THEN Exposure(holding) + Spot(holding) + RequestedNotional
                <= review.gross + Before(review.leg)
        ELSE Exposure(holding) + Spot(holding) <= review.gross

\* The plan fits, the legs placed counted once.
PlanFits ==
    (review.at \in {"approved", "regathered", "admitted"} /\ ~review.others) =>
        /\ Fits(holding, review.leg)
        /\ (review.at = "regathered") => Fits(review.evidence, review.leg)

RiskInv ==
    /\ RiskTyped
    /\ NothingDecided
    /\ EvidenceShows
    /\ ReportCovers
    /\ PlanFits
    /\ ApprovedLegsFit

LEMMA LegIsBefore ==
    ASSUME NEW k \in Legs
    PROVE  /\ Before(k) \in Nat /\ LegSizes[k] \in Nat /\ RequestedNotional \in Nat
           /\ Before(k) <= RequestedNotional
           /\ k \in 1..(Len(LegSizes) + 1)
BY BeforeNext, BeforeTheLast, LegsAreTyped, LegIsRequested

\* What orders, withdrawals and fills of the account do to the review, if they expose it
\* no more.
LEMMA LessExposed ==
    ASSUME RiskInv, UNCHANGED review, IsAccount(holding'), holding'.asset = holding.asset,
           Exposure(holding') <= Exposure(holding)
    PROVE  RiskInv'
<1>1. PICK h : h = holding'
  OBVIOUS
<1>2. /\ IsAccount(holding) /\ IsAccount(h) /\ Exposure(h) \in Nat /\ Exposure(holding) \in Nat
      /\ Exposure(h) <= Exposure(holding) /\ Spot(h) = Spot(holding) /\ Spot(h) \in Nat
  BY <1>1, ExposureIsNat DEF RiskInv, RiskTyped, Spot
<1>3. review \in Review /\ review' = review
  BY DEF RiskInv, RiskTyped
<1>4. /\ review.leg \in Legs /\ review.gross \in Nat /\ IsAccount(review.evidence)
      /\ Exposure(review.evidence) \in Nat
  BY <1>3, ExposureIsNat DEF Review, RiskInv, RiskTyped
<1>5. /\ Before(review.leg) \in Nat /\ RequestedNotional \in Nat
      /\ review.leg \in 1..(Len(LegSizes) + 1)
  BY <1>4, LegIsBefore
<1>6. RiskTyped' /\ NothingDecided' /\ ApprovedLegsFit'
  BY <1>1, <1>2, <1>3 DEF RiskInv, RiskTyped, NothingDecided, ApprovedLegsFit
<1>7. EvidenceShows'
  BY <1>1, <1>2, <1>3, <1>4 DEF RiskInv, EvidenceShows
<1>8. ReportCovers'
  BY <1>1, <1>2, <1>3, <1>4, <1>5 DEF RiskInv, ReportCovers
<1>9. PlanFits'
  <2>1. Fits(holding, review.leg) => Fits(h, review.leg)
    <3>1. Exposure(h) + Before(review.leg) <= Exposure(holding) + Before(review.leg)
      BY <1>2, <1>5
    <3> QED
      BY <1>2, <1>5, <3>1, FitsStill
  <2> QED
    BY <1>1, <1>3, <2>1 DEF RiskInv, PlanFits
<1> QED
  BY <1>6, <1>7, <1>8, <1>9 DEF RiskInv

\* An order of the owner's: nothing is claimed any more.
LEMMA OthersReleased ==
    ASSUME RiskInv, NEW o \in OwnersOrders, OwnerPlaces(o)
    PROVE  RiskInv'
<1>1. o \in Order
  BY RiskAssumption
<1>2. PICK h : h = holding'
  OBVIOUS
<1>3. PICK new : new = review'
  OBVIOUS
<1>4. IsAccount(h)
  <2>1. h = [holding EXCEPT !.orders = @ \cup {o}] /\ IsAccount(holding)
    BY <1>2 DEF OwnerPlaces, RiskInv, RiskTyped
  <2> QED
    BY <1>1, <2>1, OrdersExpose
<1>5. /\ new \in Review /\ new.others = TRUE /\ new.at = review.at /\ new.leg = review.leg
      /\ new.proposal = review.proposal /\ new.blocked = review.blocked
      /\ new.evidence = review.evidence
  BY <1>1, <1>3 DEF OwnerPlaces, RiskInv, RiskTyped, Review, Order
<1> QED
  BY <1>2, <1>3, <1>4, <1>5 DEF RiskInv, RiskTyped, NothingDecided, EvidenceShows,
     ReportCovers, PlanFits, ApprovedLegsFit

-----------------------------------------------------------------------------
(* The reasons.                                                             *)

LEMMA PreflightReasonsAreCodes ==
    ASSUME NEW ev, NEW supplement, NEW plan, NEW trouble
    PROVE  PreflightReasons(ev, supplement, plan, trouble) \in SUBSET Codes
<1>1. SharedReasons(trouble) \in SUBSET Codes
  BY DEF Codes, SharedReasons
<1>2. EconomicsReasons(trouble) \in SUBSET Codes
  BY DEF Codes, EconomicsReasons
<1>3. Projected(ev) \in SUBSET Codes
  BY DEF Codes, Projected, PositionReasons, OrderBookReasons, WalletReasons
<1>4. LeverageReasons(ev, supplement) \in SUBSET Codes
  BY DEF Codes, LeverageReasons, SupplementReasons
<1>5. CapacityReasons(ev, RequestedNotional) \in SUBSET Codes
  BY DEF Codes, CapacityReasons
<1>6. ReductionReasons(ev) \in SUBSET Codes
  BY DEF Codes, ReductionReasons
<1> QED
  BY <1>1, <1>2, <1>3, <1>4, <1>5, <1>6 DEF PreflightReasons

LEMMA LegReasonsAreCodes ==
    ASSUME NEW ev, NEW k
    PROVE  LegReasons(ev, k) \in SUBSET Codes
<1>1. Projected(ev) \in SUBSET Codes
  BY DEF Codes, Projected, PositionReasons, OrderBookReasons, WalletReasons
<1>2. LeverageReasons(ev, NotRead) \in SUBSET Codes
  BY DEF Codes, LeverageReasons, SupplementReasons
<1>3. CapacityReasons(ev, LegSizes[k]) \in SUBSET Codes
  BY DEF Codes, CapacityReasons
<1> QED
  BY <1>1, <1>2, <1>3 DEF Codes, LegReasons

\* A leg that fits is not blocked for capacity.
LEMMA CapacityAllows ==
    ASSUME NEW ev, NEW k, WithinCapacity(ev, LegSizes[k])
    PROVE  "CAPACITY_EXCEEDED" \notin LegReasons(ev, k)
<1>1. "CAPACITY_EXCEEDED" \notin Projected(ev)
  BY DEF Projected, PositionReasons, OrderBookReasons, WalletReasons
<1>2. "CAPACITY_EXCEEDED" \notin LeverageReasons(ev, NotRead)
  BY DEF LeverageReasons, SupplementReasons
<1>3. CapacityReasons(ev, LegSizes[k]) = {}
  BY DEF CapacityReasons
<1> QED
  BY <1>1, <1>2, <1>3 DEF LegReasons

\* A plan without reasons against it is within the capacity.
LEMMA PassedIsWithin ==
    ASSUME NEW ev, NEW supplement, NEW trouble,
           PreflightReasons(ev, supplement, "ADD_LONG", trouble) = {}
    PROVE  WithinCapacity(ev, RequestedNotional)
<1>1. trouble # "stale account"
  BY DEF PreflightReasons, SharedReasons
<1>2. CapacityReasons(ev, RequestedNotional) = {}
  BY <1>1 DEF PreflightReasons
<1> QED
  BY <1>2 DEF CapacityReasons

LEMMA ReductionIsTyped ==
    ASSUME NEW ev \in AccountState
    PROVE  Reduction(ev) \in Int
<1>1. ev.held[target] \in Int /\ Fraction[1] \in Nat /\ Fraction[2] \in Nat \ {0}
  BY RiskAssumption DEF AccountState
<1>2. PICK p : p = ev.held[target] * Fraction[1]
  OBVIOUS
<1>3. p \in Int
  BY <1>1, <1>2, Z3
<1>4. p \div Fraction[2] \in Int
  BY <1>1, <1>3
<1> QED
  BY <1>2, <1>4 DEF Reduction

LEMMA ProposalIsTyped ==
    ASSUME NEW ev \in AccountState, NEW plan, NEW reasons
    PROVE  /\ Proposal(ev, plan, reasons) \in [kind : Kinds, quantity : Int]
           /\ (Proposal(ev, plan, reasons).kind = "add-long") =>
                  (reasons = {} /\ plan = "ADD_LONG")
<1>1. RequestedNotional \in Int /\ Reduction(ev) \in Int
  BY ReductionIsTyped, BeforeTheLast
<1>2. CASE reasons # {}
  BY <1>2 DEF Proposal, Kinds
<1>3. CASE reasons = {} /\ plan = "ADD_LONG"
  BY <1>1, <1>3 DEF Proposal, Kinds
<1>4. CASE reasons = {} /\ plan = "REDUCE_LONG"
  BY <1>1, <1>4 DEF Proposal, Kinds
<1>5. CASE reasons = {} /\ plan # "ADD_LONG" /\ plan # "REDUCE_LONG"
  BY <1>5 DEF Proposal, Kinds
<1> QED
  BY <1>2, <1>3, <1>4, <1>5

-----------------------------------------------------------------------------
(* The steps.                                                               *)

LEMMA FlatIsAccount == IsAccount(FlatAccount) /\ FlatAccount.orders = {}
<1>1. FlatAccount.orders = {}
  BY DEF FlatAccount
<1>2. FlatAccount \in AccountState
  BY DEF FlatAccount, AccountState, Assets
<1> QED
  BY <1>1, <1>2, FS_EmptySet DEF IsAccount

LEMMA RiskStarts == ASSUME RiskInit PROVE RiskInv
<1>1. IsAccount(holding)
  BY FlatIsAccount DEF RiskInit
<1>2. /\ review.at = "new" /\ review.evidence = holding /\ review.leg = 1
      /\ review.proposal.kind = "none" /\ review.blocked = {}
  BY DEF RiskInit
<1>3. review \in Review
  BY <1>1, LegsAreTyped
  DEF RiskInit, Review, RiskStages, NotRead, Kinds, IsAccount
<1> QED
  BY <1>1, <1>2, <1>3 DEF RiskInv, RiskTyped, NothingDecided, EvidenceShows, ReportCovers,
     PlanFits, ApprovedLegsFit

LEMMA RiskSuppose ==
    ASSUME RiskInv, NEW found \in Accounts, Suppose(found)
    PROVE  RiskInv'
<1>1. IsAccount(found)
  BY RiskAssumption DEF IsAccount
<1>2. PICK new : new = review'
  OBVIOUS
<1>3. /\ new \in Review /\ new.at = "idle" /\ new.leg = review.leg
      /\ new.proposal = review.proposal /\ new.blocked = review.blocked
      /\ new.evidence = review.evidence
  BY <1>2 DEF Suppose, RiskInv, RiskTyped, Review, RiskStages
<1>4. review.at = "new" /\ holding' = found
  BY DEF Suppose
<1> QED
  BY <1>1, <1>2, <1>3, <1>4 DEF RiskInv, RiskTyped, NothingDecided, EvidenceShows,
     ReportCovers, PlanFits, ApprovedLegsFit

LEMMA RiskGathers ==
    ASSUME RiskInv, GatherAccount
    PROVE  RiskInv'
<1>1. PICK new : new = review'
  OBVIOUS
<1>2. holding' = holding /\ IsAccount(holding) /\ holding \in AccountState /\ review.at = "idle"
  BY DEF GatherAccount, RiskInv, RiskTyped, IsAccount
<1>3. /\ new \in Review /\ new.at = "gathered" /\ new.leg = review.leg
      /\ new.proposal = review.proposal /\ new.blocked = review.blocked
      /\ new.evidence = holding
  BY <1>1, <1>2 DEF GatherAccount, RiskInv, RiskTyped, Review, RiskStages
<1>4. Exposure(holding) <= Exposure(holding)
  BY <1>2, ExposureIsNat
<1> QED
  BY <1>1, <1>2, <1>3, <1>4 DEF RiskInv, RiskTyped, NothingDecided, EvidenceShows,
     ReportCovers, PlanFits, ApprovedLegsFit

LEMMA RiskReads ==
    ASSUME RiskInv, NEW answered \in BOOLEAN, ReadTarget(answered)
    PROVE  RiskInv'
<1>1. PICK new : new = review'
  OBVIOUS
<1>2. /\ holding' = holding /\ IsAccount(holding) /\ holding \in AccountState
      /\ review.at = "gathered"
  BY DEF ReadTarget, RiskInv, RiskTyped, IsAccount
<1>3. holding.held[target] \in Int /\ holding.lever[target] \in Nat
  BY <1>2, RiskAssumption DEF AccountState
<1>4. /\ new \in Review /\ new.at = "supplied" /\ new.leg = review.leg
      /\ new.proposal = review.proposal /\ new.blocked = review.blocked
      /\ new.evidence = review.evidence /\ new.others = review.others
  <2>1. PICK given : given = IF answered
                             THEN [read |-> TRUE, held |-> holding.held[target],
                                   lever |-> holding.lever[target]]
                             ELSE NotRead
    OBVIOUS
  <2>2. given \in [read : BOOLEAN, held : Int, lever : Nat]
    BY <1>3, <2>1 DEF NotRead
  <2>3. new = [review EXCEPT !.at = "supplied", !.supplement = given]
    BY <1>1, <2>1 DEF ReadTarget
  <2>4. review \in Review
    BY DEF RiskInv, RiskTyped
  <2> QED
    BY <2>2, <2>3, <2>4 DEF Review, RiskStages
<1> QED
  BY <1>1, <1>2, <1>4 DEF RiskInv, RiskTyped, NothingDecided, EvidenceShows,
     ReportCovers, PlanFits, ApprovedLegsFit

\* The evaluation: a plan without reasons against it fits what the evidence shows, and so
\* what there is.
LEMMA RiskEvaluates ==
    ASSUME RiskInv, NEW plan \in Planned, NEW trouble \in Troubles,
           EvaluatePreflight(plan, trouble)
    PROVE  RiskInv'
<1> DEFINE ev == review.evidence
           reasons == PreflightReasons(ev, review.supplement, plan, trouble)
           passed == reasons = {} /\ plan = "ADD_LONG"
<1>1. PICK new : new = review'
  OBVIOUS
<1>2. /\ holding' = holding /\ IsAccount(holding) /\ IsAccount(ev) /\ ev \in AccountState
      /\ review.at \in {"gathered", "supplied"}
      /\ review.leg = 1 /\ review.blocked = {}
  BY DEF EvaluatePreflight, RiskInv, RiskTyped, NothingDecided, IsAccount
<1>3. /\ reasons \in SUBSET Codes
      /\ Proposal(ev, plan, reasons) \in [kind : Kinds, quantity : Int]
      /\ (Proposal(ev, plan, reasons).kind = "add-long") => passed
  BY <1>2, PreflightReasonsAreCodes, ProposalIsTyped
<1>4. /\ Exposure(ev) \in Nat /\ Exposure(holding) \in Nat /\ Spot(ev) \in Nat
      /\ RequestedNotional \in Nat /\ Before(1) = 0 /\ 1 \in 1..(Len(LegSizes) + 1)
  BY <1>2, ExposureIsNat, SpotIsNat, BeforeTheLast, LegsAreTyped, LegIsBefore
<1>5. /\ Gross(ev, RequestedNotional) \in Nat
      /\ Gross(ev, RequestedNotional) = Exposure(ev) + Spot(ev) + RequestedNotional
  <2>1. Held(ev) \in Nat /\ Leaves(Increasing(ev)) \in Nat
    BY <1>2, HeldIsNat, IncreasingIsTyped, LeavesIsNat DEF AccountState
  <2> QED
    BY <1>4, <2>1 DEF Gross, PendingGross, Exposure
<1> HIDE DEF reasons
<1>6. /\ new \in Review
      /\ new.at = IF passed THEN "approved" ELSE "ended"
      /\ new.proposal = Proposal(ev, plan, reasons)
      /\ new.gross = IF passed THEN Gross(ev, RequestedNotional) ELSE 0
      /\ new.leg = 1 /\ new.blocked = {} /\ new.evidence = ev /\ new.others = review.others
  <2>1. review \in Review
    BY DEF RiskInv, RiskTyped
  <2>2. new = [review EXCEPT
                  !.at = IF passed THEN "approved" ELSE "ended",
                  !.reasons = reasons,
                  !.proposal = Proposal(ev, plan, reasons),
                  !.gross = IF plan = "ADD_LONG" /\ reasons = {}
                            THEN Gross(ev, RequestedNotional) ELSE 0]
    BY <1>1 DEF EvaluatePreflight, reasons
  <2> QED
    BY <1>2, <1>3, <1>5, <2>1, <2>2 DEF Review, RiskStages
<1>7. RiskTyped' /\ NothingDecided' /\ EvidenceShows' /\ ApprovedLegsFit'
  BY <1>1, <1>2, <1>6
  DEF RiskTyped, NothingDecided, EvidenceShows, ApprovedLegsFit
<1>8. (~review.others) => (Exposure(holding) <= Exposure(ev) /\ Spot(holding) = Spot(ev))
  BY <1>2 DEF RiskInv, EvidenceShows
<1>9. ReportCovers'
  <2>1. SUFFICES ASSUME passed, ~review.others
                 PROVE  Exposure(holding) + Spot(holding) + RequestedNotional
                            <= new.gross + Before(1)
    BY <1>1, <1>2, <1>3, <1>6 DEF ReportCovers
  <2> QED
    BY <1>4, <1>5, <1>6, <1>8, <2>1
<1>10. PlanFits'
  <2>1. SUFFICES ASSUME passed, ~review.others PROVE Fits(holding, 1)
    BY <1>1, <1>2, <1>6 DEF PlanFits
  <2>2. WithinCapacity(ev, RequestedNotional)
    BY <2>1, PassedIsWithin DEF reasons
  <2>3. Fits(ev, 1)
    BY <1>2, <2>2, CapacityFits
  <2>4. Exposure(holding) + Before(1) <= Exposure(ev) + Before(1)
    BY <1>4, <1>8, <2>1
  <2> QED
    BY <1>2, <1>4, <2>3, <2>4, FitsStill
<1> QED
  BY <1>7, <1>9, <1>10 DEF RiskInv

LEMMA RiskGathersForLeg ==
    ASSUME RiskInv, GatherForLeg
    PROVE  RiskInv'
<1>1. PICK new : new = review'
  OBVIOUS
<1>2. /\ holding' = holding /\ IsAccount(holding) /\ holding \in AccountState
      /\ review.at = "approved"
  BY DEF GatherForLeg, RiskInv, RiskTyped, IsAccount
<1>3. /\ new \in Review /\ new.at = "regathered" /\ new.leg = review.leg
      /\ new.proposal = review.proposal /\ new.blocked = review.blocked
      /\ new.gross = review.gross /\ new.evidence = holding /\ new.others = review.others
  BY <1>1, <1>2 DEF GatherForLeg, RiskInv, RiskTyped, Review, RiskStages
<1> QED
  BY <1>1, <1>2, <1>3 DEF RiskInv, RiskTyped, NothingDecided, EvidenceShows,
     ReportCovers, PlanFits, ApprovedLegsFit

\* The admission of a leg: one that fits is not blocked for capacity.
LEMMA RiskAdmits ==
    ASSUME RiskInv, AdmitLeg
    PROVE  RiskInv'
<1> DEFINE reasons == LegReasons(review.evidence, review.leg)
<1>1. PICK new : new = review'
  OBVIOUS
<1>2. /\ holding' = holding /\ IsAccount(holding) /\ IsAccount(review.evidence)
      /\ review.at = "regathered" /\ review.leg \in Legs /\ review.gross \in Nat
      /\ review \in Review
  BY DEF AdmitLeg, RiskInv, RiskTyped, Review
<1>3. reasons \in SUBSET Codes
  BY LegReasonsAreCodes
<1>4. (~review.others) => ("CAPACITY_EXCEEDED" \notin reasons)
  <2>1. SUFFICES ASSUME ~review.others PROVE "CAPACITY_EXCEEDED" \notin reasons
    OBVIOUS
  <2>2. Fits(review.evidence, review.leg)
    BY <1>2, <2>1 DEF RiskInv, PlanFits
  <2>3. WithinCapacity(review.evidence, LegSizes[review.leg])
    BY <1>2, <2>2, LegsFit
  <2> QED
    BY <2>3, CapacityAllows
<1> HIDE DEF reasons
<1>5. /\ new \in Review
      /\ new.at = (IF reasons = {} THEN "admitted" ELSE "ended")
      /\ new.blocked = reasons /\ new.leg = review.leg /\ new.gross = review.gross
      /\ new.proposal = review.proposal /\ new.evidence = review.evidence
      /\ new.others = review.others
  <2>1. new = [review EXCEPT !.at = IF reasons = {} THEN "admitted" ELSE "ended",
                             !.blocked = reasons]
    BY <1>1 DEF AdmitLeg, reasons
  <2> QED
    BY <1>2, <1>3, <2>1 DEF Review, RiskStages
<1>6. RiskTyped' /\ NothingDecided' /\ EvidenceShows' /\ ApprovedLegsFit' /\ PlanFits'
  BY <1>1, <1>2, <1>4, <1>5
  DEF RiskInv, RiskTyped, NothingDecided, EvidenceShows, ApprovedLegsFit, PlanFits
<1>7. ReportCovers'
  <2>1. /\ Exposure(holding) \in Nat /\ Spot(holding) \in Nat /\ RequestedNotional \in Nat
        /\ Before(review.leg) \in Nat /\ Before(review.leg) <= RequestedNotional
    BY <1>2, ExposureIsNat, SpotIsNat, LegIsBefore
  <2>2. SUFFICES ASSUME review.proposal.kind = "add-long", ~review.others
                 PROVE  /\ Exposure(holding) + Spot(holding) + RequestedNotional
                              <= review.gross + Before(review.leg)
                        /\ Exposure(holding) + Spot(holding) <= review.gross
    BY <1>1, <1>2, <1>5 DEF ReportCovers
  <2>3. Exposure(holding) + Spot(holding) + RequestedNotional
            <= review.gross + Before(review.leg)
    BY <1>2, <2>2 DEF RiskInv, ReportCovers
  <2> QED
    BY <1>2, <2>1, <2>3
<1> QED
  BY <1>6, <1>7 DEF RiskInv

\* A leg placed: the account bears it, and what was requested for it is now exposed.
LEMMA RiskPlaces ==
    ASSUME RiskInv, PlaceLeg
    PROVE  RiskInv'
<1> DEFINE k == review.leg
           o == LegOrder(k)
           borne == o.leaves <= Available(holding)
           with == [holding EXCEPT !.orders = @ \cup {o}]
<1>1. PICK new : new = review'
  OBVIOUS
<1>2. PICK h : h = holding'
  OBVIOUS
<1>3. /\ IsAccount(holding) /\ holding \in AccountState /\ IsAccount(review.evidence)
      /\ review.at = "admitted" /\ k \in Legs /\ review.gross \in Nat
      /\ review \in Review /\ review.blocked = {}
  BY DEF PlaceLeg, RiskInv, RiskTyped, NothingDecided, Review, IsAccount
<1>4. /\ o \in Order /\ o.leaves = LegSizes[k] /\ Before(k) \in Nat /\ LegSizes[k] \in Nat
      /\ RequestedNotional \in Nat /\ Before(k) <= RequestedNotional
      /\ Before(k + 1) \in Nat /\ Before(k + 1) = Before(k) + LegSizes[k]
      /\ k \in 1..Len(LegSizes) /\ Len(LegSizes) \in Nat
      /\ RequestedNotional = Before(Len(LegSizes) + 1)
  BY <1>3, LegOrderIsTyped, LegIsBefore, BeforeNext, BeforeTheLast, LegsAreTyped
<1>5. /\ IsAccount(with) /\ Spot(with) = Spot(holding)
      /\ Exposure(with) <= Exposure(holding) + LegSizes[k]
      /\ Exposure(with) \in Nat /\ Exposure(holding) \in Nat /\ Spot(holding) \in Nat
  <2>1. PICK w : w = with
    OBVIOUS
  <2>2. IsAccount(w) /\ w.asset = holding.asset /\ Exposure(w) <= Exposure(holding) + o.leaves
    BY <1>3, <1>4, <2>1, OrdersExpose
  <2>3. Spot(w) = Spot(holding)
    BY <2>2 DEF Spot
  <2>4. Exposure(w) \in Nat /\ Exposure(holding) \in Nat /\ Spot(holding) \in Nat
    BY <1>3, <2>2, ExposureIsNat, SpotIsNat
  <2> QED
    BY <1>4, <2>1, <2>2, <2>3, <2>4
<1>6. (~review.others) => borne
  <2>1. SUFFICES ASSUME ~review.others PROVE borne
    OBVIOUS
  <2>2. Fits(holding, k)
    BY <1>3, <2>1 DEF RiskInv, PlanFits
  <2> QED
    BY <1>3, <1>4, <2>2, LegsFit
<1>7. (~review.others /\ review.proposal.kind = "add-long") =>
          Exposure(holding) + Spot(holding) + RequestedNotional <= review.gross + Before(k)
  BY <1>3 DEF RiskInv, ReportCovers
<1>8. (~review.others) => Fits(holding, k)
  BY <1>3 DEF RiskInv, PlanFits
<1> HIDE DEF with, o
<1>9. h = (IF borne THEN with ELSE holding)
  BY <1>2, <1>3 DEF PlaceLeg, with, o, AccountState
<1>10. /\ new \in Review /\ new.evidence = review.evidence /\ new.others = review.others
       /\ new.proposal = review.proposal /\ new.gross = review.gross /\ new.blocked = {}
       /\ new.at = (CASE ~borne -> "refused"
                      [] borne /\ k < Len(LegSizes) -> "approved"
                      [] OTHER -> "placed")
       /\ new.leg = (IF borne /\ k < Len(LegSizes) THEN k + 1 ELSE k)
  <2>1. new = [review EXCEPT
                  !.at = CASE ~borne -> "refused"
                           [] borne /\ k < Len(LegSizes) -> "approved"
                           [] OTHER -> "placed",
                  !.leg = IF borne /\ k < Len(LegSizes) THEN @ + 1 ELSE @]
    BY <1>1 DEF PlaceLeg, o
  <2>2. (k < Len(LegSizes)) => (k + 1 \in Legs)
    BY <1>4, LegsAreTyped
  <2>3. (CASE ~borne -> "refused"
           [] borne /\ k < Len(LegSizes) -> "approved"
           [] OTHER -> "placed") \in RiskStages
    BY DEF RiskStages
  <2> QED
    BY <1>3, <2>1, <2>2, <2>3 DEF Review
<1>11. CASE ~borne
  <2>1. h = holding /\ new.at = "refused" /\ review.others
    BY <1>6, <1>9, <1>10, <1>11
  <2> QED
    BY <1>1, <1>2, <1>3, <1>10, <2>1 DEF RiskInv, RiskTyped, NothingDecided, EvidenceShows,
       ReportCovers, PlanFits, ApprovedLegsFit
<1>12. CASE borne /\ k < Len(LegSizes)
  <2>1. h = with /\ new.at = "approved" /\ new.leg = k + 1
    BY <1>9, <1>10, <1>12
  <2>2. RiskTyped' /\ NothingDecided' /\ EvidenceShows' /\ ApprovedLegsFit'
    BY <1>1, <1>2, <1>3, <1>5, <1>10, <2>1
    DEF RiskInv, RiskTyped, NothingDecided, EvidenceShows, ApprovedLegsFit
  <2>3. ReportCovers'
    <3>1. ASSUME review.proposal.kind = "add-long", ~review.others
          PROVE  Exposure(with) + Spot(holding) + RequestedNotional
                     <= review.gross + Before(k + 1)
      <4>1. /\ Exposure(with) \in Nat /\ Exposure(holding) \in Nat /\ Spot(holding) \in Nat
            /\ RequestedNotional \in Nat /\ review.gross \in Nat
            /\ Before(k) \in Nat /\ LegSizes[k] \in Nat
        BY <1>3, <1>4, <1>5
      <4>2. Exposure(with) <= Exposure(holding) + LegSizes[k]
        BY <1>5
      <4>3. Exposure(holding) + Spot(holding) + RequestedNotional <= review.gross + Before(k)
        BY <1>7, <3>1
      <4>4. Exposure(with) + Spot(holding) + RequestedNotional
                <= review.gross + (Before(k) + LegSizes[k])
        BY <4>1, <4>2, <4>3
      <4>5. Before(k) + LegSizes[k] = Before(k + 1)
        BY <1>4
      <4> QED
        BY <4>4, <4>5
    <3>2. /\ review' = new /\ holding' = with /\ new.at = "approved" /\ new.leg = k + 1
          /\ new.proposal = review.proposal /\ new.others = review.others
          /\ new.gross = review.gross /\ Spot(with) = Spot(holding)
      BY <1>1, <1>2, <1>5, <1>10, <2>1
    <3> HIDE DEF borne
    <3> QED
      BY <3>1, <3>2 DEF ReportCovers
  <2>4. PlanFits'
    <3>1. SUFFICES ASSUME ~review.others PROVE Fits(with, k + 1)
      BY <1>1, <1>2, <1>10, <2>1 DEF PlanFits
    <3>2. k \in 1..(Len(LegSizes) + 1) /\ k + 1 \in 1..(Len(LegSizes) + 1)
      BY <1>4
    <3>3. Exposure(with) + Before(k) <= Exposure(holding) + Before(k + 1)
      <4>1. /\ Exposure(with) \in Nat /\ Exposure(holding) \in Nat
            /\ Before(k) \in Nat /\ LegSizes[k] \in Nat
            /\ Before(k + 1) = Before(k) + LegSizes[k]
        BY <1>4, <1>5
      <4>2. Exposure(with) <= Exposure(holding) + LegSizes[k]
        BY <1>5
      <4> QED
        BY <4>1, <4>2
    <3> QED
      BY <1>3, <1>5, <1>8, <3>1, <3>2, <3>3, FitsStill
  <2> QED
    BY <2>2, <2>3, <2>4 DEF RiskInv
<1>13. CASE borne /\ ~(k < Len(LegSizes))
  <2>1. h = with /\ new.at = "placed" /\ new.leg = k /\ k = Len(LegSizes)
    BY <1>4, <1>9, <1>10, <1>13
  <2>2. RiskTyped' /\ NothingDecided' /\ EvidenceShows' /\ ApprovedLegsFit' /\ PlanFits'
    BY <1>1, <1>2, <1>3, <1>5, <1>10, <2>1
    DEF RiskInv, RiskTyped, NothingDecided, EvidenceShows, ApprovedLegsFit, PlanFits
  <2>3. ReportCovers'
    <3>1. SUFFICES ASSUME review.proposal.kind = "add-long", ~review.others
                   PROVE  Exposure(with) + Spot(holding) <= review.gross
      BY <1>1, <1>2, <1>5, <1>10, <2>1 DEF ReportCovers
    <3>2. Before(k) + LegSizes[k] = RequestedNotional
      BY <1>4, <2>1
    <3>3. /\ Exposure(with) \in Nat /\ Exposure(holding) \in Nat /\ Spot(holding) \in Nat
          /\ RequestedNotional \in Nat /\ review.gross \in Nat
          /\ Before(k) \in Nat /\ LegSizes[k] \in Nat
      BY <1>3, <1>4, <1>5
    <3>4. Exposure(with) <= Exposure(holding) + LegSizes[k]
      BY <1>5
    <3>5. Exposure(holding) + Spot(holding) + RequestedNotional <= review.gross + Before(k)
      BY <1>7, <3>1
    <3> QED
      BY <3>2, <3>3, <3>4, <3>5
  <2> QED
    BY <2>2, <2>3 DEF RiskInv
<1> QED
  BY <1>11, <1>12, <1>13

LEMMA RiskSteps ==
    ASSUME RiskInv, [RiskNext]_riskVars
    PROVE  RiskInv'
<1>1. ASSUME NEW found \in Accounts, Suppose(found) PROVE RiskInv'
  BY <1>1, RiskSuppose
<1>2. ASSUME NEW o \in OwnersOrders, OwnerPlaces(o) PROVE RiskInv'
  BY <1>2, OthersReleased
<1>3. ASSUME NEW o \in holding.orders, OwnerWithdraws(o) PROVE RiskInv'
  <2>1. UNCHANGED review /\ IsAccount(holding)
    BY <1>3 DEF OwnerWithdraws, RiskInv, RiskTyped
  <2> QED
    BY <1>3, <2>1, WithdrawalsDoNotExpose, LessExposed
<1>4. ASSUME NEW o \in holding.orders, NEW quantity \in 1..o.leaves, Executes(o, quantity)
      PROVE  RiskInv'
  <2>1. UNCHANGED review /\ IsAccount(holding)
    BY <1>4 DEF Executes, RiskInv, RiskTyped
  <2> QED
    BY <1>4, <2>1, FillsDoNotExpose, LessExposed
<1>5. CASE GatherAccount
  BY <1>5, RiskGathers
<1>6. ASSUME NEW answered \in BOOLEAN, ReadTarget(answered) PROVE RiskInv'
  BY <1>6, RiskReads
<1>7. ASSUME NEW plan \in Planned, NEW trouble \in Troubles, EvaluatePreflight(plan, trouble)
      PROVE  RiskInv'
  BY <1>7, RiskEvaluates
<1>8. CASE GatherForLeg
  BY <1>8, RiskGathersForLeg
<1>9. CASE AdmitLeg
  BY <1>9, RiskAdmits
<1>10. CASE PlaceLeg
  BY <1>10, RiskPlaces
<1>11. CASE UNCHANGED riskVars
  BY <1>11 DEF riskVars, RiskInv, RiskTyped, NothingDecided, EvidenceShows, ReportCovers,
     PlanFits, ApprovedLegsFit
<1> QED
  BY <1>1, <1>2, <1>3, <1>4, <1>5, <1>6, <1>7, <1>8, <1>9, <1>10, <1>11 DEF RiskNext

LEMMA RiskInvHolds == RiskSpec => []RiskInv
<1>1. RiskInit => RiskInv
  BY RiskStarts
<1>2. RiskInv /\ [RiskNext]_riskVars => RiskInv'
  BY RiskSteps
<1> QED
  BY <1>1, <1>2, PTL DEF RiskSpec

\* The account, its evidence and the review of it are always of their types
\* (portfolio-risk-preflight.ts).
THEOREM RiskIsTyped == RiskSpec => []RiskTypeOK
<1>1. RiskInv => RiskTypeOK
  BY DEF RiskInv, RiskTyped, RiskTypeOK, IsAccount, AccountState, Order, Review, RiskStages
<1> QED
  BY <1>1, RiskInvHolds, PTL

\* For any account, plan and reserve, and any orders of the owner's: until he adds to it,
\* what the account holds never comes to more than the gross exposure a passing preflight
\* reported, whatever fills and in whatever order (projectPositions, projectOrders,
\* projectPlannedOrders).
THEOREM ReportedGrossIsTheWorst == RiskSpec => []GrossIsTheWorst
<1>1. RiskInv => GrossIsTheWorst
  <2>1. SUFFICES ASSUME RiskInv, review.proposal.kind = "add-long", ~review.others
                 PROVE  Held(holding) + Spot(holding) <= review.gross
    BY DEF GrossIsTheWorst
  <2>2. IsAccount(holding) /\ review.leg \in Legs /\ review.gross \in Nat
    BY <2>1 DEF RiskInv, RiskTyped, Review
  <2>3. /\ Held(holding) \in Nat /\ Leaves(Increasing(holding)) \in Nat
        /\ Spot(holding) \in Nat
    BY <2>2, HeldIsNat, IncreasingIsTyped, LeavesIsNat, SpotIsNat DEF IsAccount, AccountState
  <2>4. /\ Before(review.leg) \in Nat /\ RequestedNotional \in Nat
        /\ Before(review.leg) <= RequestedNotional
    BY <2>2, LegIsBefore
  <2>5. Held(holding) <= Exposure(holding) /\ Exposure(holding) \in Nat
    BY <2>3 DEF Exposure
  <2>6. \/ Exposure(holding) + Spot(holding) + RequestedNotional
              <= review.gross + Before(review.leg)
        \/ Exposure(holding) + Spot(holding) <= review.gross
    BY <2>1 DEF RiskInv, ReportCovers
  <2> QED
    BY <2>2, <2>3, <2>4, <2>5, <2>6
<1> QED
  BY <1>1, RiskInvHolds, PTL

\* For any account, legs and reserve: a plan the preflight passed is never blocked for
\* capacity at one of its legs, nor refused by the exchange, unless the owner adds orders
\* (deriveRequestedNotional, calculatePortfolioRiskIncrementalCapacity).
THEOREM PassedLegsFit == RiskSpec => []ApprovedLegsFit
<1>1. RiskInv => ApprovedLegsFit
  BY DEF RiskInv
<1> QED
  BY <1>1, RiskInvHolds, PTL

-----------------------------------------------------------------------------
(***************************************************************************)
(* The plan of the day and the consent to it.                              *)
(***************************************************************************)
Things == {"position", "order"}

\* The stages before the account is read.
Early == {"new", "market", "liquidation", "analytics", "planning", "keys"}

RunStages == {"new", "market", "liquidation", "analytics", "planning", "keys", "account",
              "risk", "saved", "ended"}

Run == [at : RunStages, recommendation : Recommendations, keys : SUBSET Holders,
        reads : 0 .. 5, A : Seen, B : Seen, complete : BOOLEAN, lasting : SUBSET Things,
        shadow : BOOLEAN]

\* An approve command is about stored plans.
Command == [at : {"new", "shown", "noted", "granted", "ended"}, plan : SUBSET plans,
            note : {"none", "blank", "text"}]

\* The types of what the runs, the commands and the clock hold.
ReviewTyped ==
    /\ targeted \in [Holders -> SUBSET Things]
    /\ storedKeys \in Holders
    /\ exchangeTime \in Skew .. LastSecond
    /\ preparation \in [Preparations -> Run]
    /\ reports \subseteq Preparations
    /\ \A plan \in plans : plan.state \in PlanStates /\ plan.evaluation \in Nat
    /\ consent \in [Consents -> Command]

\* What pass B has not read yet is unread.
UnreadStays ==
    \A p \in Preparations :
        /\ (preparation[p].reads <= 3) => (preparation[p].B.position = "unread")
        /\ (preparation[p].reads <= 4) => (preparation[p].B.orders = "unread")
        /\ (preparation[p].reads <= 2) => (preparation[p].lasting = {})
        /\ (preparation[p].at \in Early) => (preparation[p].reads = 0)

\* While the account is read, what lasts from the cutoff is still there.
LastingIsThere ==
    \A p \in Preparations : InStage(p, "account") =>
        \E a \in Holders :
            /\ preparation[p].keys = {a}
            /\ preparation[p].lasting \subseteq targeted[a]

\* What pass B shows empty has nothing that lasts.
EmptyMeansGone ==
    \A p \in Preparations :
        /\ (preparation[p].B.position = "flat") => ("position" \notin preparation[p].lasting)
        /\ (preparation[p].B.orders = "none") => ("order" \notin preparation[p].lasting)

\* A stored plan that adds and may be approved has missed nothing.
PlansMissNothing ==
    \A plan \in plans :
        (plan.state # "BLOCKED" /\ plan.recommendation = "ADD_LONG") => (plan.lasting = {})

\* A command that was granted was granted by its operator.
GrantsAreKept ==
    \A c \in Consents :
        (consent[c].at = "granted") => \A plan \in consent[c].plan : <<c, plan>> \in granted

ReviewInv ==
    /\ ReviewTyped /\ UnreadStays /\ LastingIsThere /\ EmptyMeansGone
    /\ PlansMissNothing /\ GrantsAreKept /\ ConsentIsExact

LEMMA ReviewStarts == ReviewInit => ReviewInv
BY ReviewTimes DEF ReviewInit, ReviewInv, ReviewTyped, UnreadStays, LastingIsThere,
       EmptyMeansGone, PlansMissNothing, GrantsAreKept, ConsentIsExact, Unprepared, Unasked,
       Unseen, Seen, Run, RunStages, Recommendations, InStage, Things, Early, Command

\* A trade takes away from what lasts what it takes away from the account.
LEMMA TradeKeeps ==
    ASSUME ReviewInv, NEW a \in Holders, NEW now \in SUBSET Things, Trade(a, now)
    PROVE  ReviewInv'
<1>1. ASSUME NEW p \in Preparations
      PROVE  /\ preparation'[p] \in Run
             /\ preparation'[p].at = preparation[p].at
             /\ preparation'[p].keys = preparation[p].keys
             /\ preparation'[p].reads = preparation[p].reads
             /\ preparation'[p].B = preparation[p].B
             /\ preparation'[p].lasting =
                   IF InStage(p, "account") /\ preparation[p].keys = {a}
                   THEN preparation[p].lasting \cap now ELSE preparation[p].lasting
  <2>1. preparation[p] \in Run
    BY DEF ReviewInv, ReviewTyped
  <2> QED
    BY <2>1 DEF Trade, Run, InStage
<1>2. ReviewTyped'
  BY <1>1 DEF ReviewInv, ReviewTyped, Trade, Command
<1>3. \A p \in Preparations : preparation'[p].lasting \subseteq preparation[p].lasting
  BY <1>1
<1>4. EmptyMeansGone'
  BY <1>1, <1>3 DEF ReviewInv, EmptyMeansGone
<1>5. UnreadStays'
  <2> SUFFICES ASSUME NEW p \in Preparations
               PROVE  /\ (preparation'[p].reads <= 3) => (preparation'[p].B.position = "unread")
                      /\ (preparation'[p].reads <= 4) => (preparation'[p].B.orders = "unread")
                      /\ (preparation'[p].reads <= 2) => (preparation'[p].lasting = {})
                      /\ (preparation'[p].at \in Early) => (preparation'[p].reads = 0)
    BY DEF UnreadStays
  <2>1. (preparation[p].lasting = {}) => (preparation'[p].lasting = {})
    BY <1>3
  <2>2. /\ preparation'[p].reads = preparation[p].reads
        /\ preparation'[p].B = preparation[p].B /\ preparation'[p].at = preparation[p].at
    BY <1>1
  <2> QED
    BY <2>1, <2>2 DEF ReviewInv, UnreadStays
<1>6. LastingIsThere'
  BY <1>1 DEF ReviewInv, ReviewTyped, LastingIsThere, Trade, InStage
<1> QED
  BY <1>2, <1>4, <1>5, <1>6
  DEF Trade, ReviewInv, PlansMissNothing, GrantsAreKept, ConsentIsExact

\* A run that goes on with a record that keeps what is known of it.
LEMMA RunKeeps ==
    ASSUME ReviewInv, NEW p \in Preparations, NEW run \in Run,
           preparation' = [preparation EXCEPT ![p] = run],
           UNCHANGED <<worldVars, consent, approvals, granted>>,
           plans \subseteq plans', reports' \subseteq Preparations,
           \A plan \in plans' : plan.state \in PlanStates /\ plan.evaluation \in Nat,
           PlansMissNothing',
           (run.reads <= 3) => (run.B.position = "unread"),
           (run.reads <= 4) => (run.B.orders = "unread"),
           (run.reads <= 2) => (run.lasting = {}),
           (run.at \in Early) => (run.reads = 0),
           (run.B.position = "flat") => ("position" \notin run.lasting),
           (run.B.orders = "none") => ("order" \notin run.lasting),
           (run.at = "account") =>
                \E a \in Holders : run.keys = {a} /\ run.lasting \subseteq targeted[a]
    PROVE  ReviewInv'
<1>1. /\ preparation' \in [Preparations -> Run]
      /\ preparation'[p] = run
      /\ \A q \in Preparations \ {p} : preparation'[q] = preparation[q]
  BY DEF ReviewInv, ReviewTyped
<1>2. ReviewTyped'
  <2>1. Command \subseteq Command'
    BY DEF Command
  <2> QED
    BY <1>1, <2>1 DEF ReviewInv, ReviewTyped, worldVars
<1>3. UnreadStays' /\ EmptyMeansGone'
  BY <1>1 DEF ReviewInv, UnreadStays, EmptyMeansGone
<1>4. LastingIsThere'
  BY <1>1 DEF ReviewInv, LastingIsThere, InStage, worldVars
<1>5. GrantsAreKept' /\ ConsentIsExact'
  BY DEF ReviewInv, GrantsAreKept, ConsentIsExact
<1> QED
  BY <1>2, <1>3, <1>4, <1>5 DEF ReviewInv

\* A run that leaves the stores alone.
LEMMA ProceedKeeps ==
    ASSUME ReviewInv, NEW p \in Preparations, NEW run \in Run, Proceed(p, run),
           (run.reads <= 3) => (run.B.position = "unread"),
           (run.reads <= 4) => (run.B.orders = "unread"),
           (run.reads <= 2) => (run.lasting = {}),
           (run.at \in Early) => (run.reads = 0),
           (run.B.position = "flat") => ("position" \notin run.lasting),
           (run.B.orders = "none") => ("order" \notin run.lasting),
           (run.at = "account") =>
                \E a \in Holders : run.keys = {a} /\ run.lasting \subseteq targeted[a]
    PROVE  ReviewInv'
<1>1. PlansMissNothing' /\ UNCHANGED <<worldVars, consent, approvals, granted, plans, reports>>
  BY DEF Proceed, ReviewInv, PlansMissNothing
<1> QED
  BY <1>1, RunKeeps DEF Proceed, ReviewInv, ReviewTyped

\* The stages before the account is read.
LEMMA EarlyStageKeeps ==
    ASSUME ReviewInv, NEW p \in Preparations,
           \/ BeginPreparation(p) \/ CollectMarket(p) \/ CollectLiquidation(p)
           \/ Analyse(p) \/ DecideDay(p) \/ CaptureKeys(p)
    PROVE  ReviewInv'
<1>1. /\ preparation[p] \in Run /\ storedKeys \in Holders
      /\ preparation[p].at \in Early
  BY DEF ReviewInv, ReviewTyped, BeginPreparation, CollectMarket, CollectLiquidation,
         Analyse, DecideDay, CaptureKeys, InStage, Early
<1>2. /\ preparation[p].reads = 0 /\ preparation[p].lasting = {}
      /\ preparation[p].B.position = "unread" /\ preparation[p].B.orders = "unread"
  BY <1>1 DEF ReviewInv, UnreadStays
<1>3. \E run \in Run :
         /\ Proceed(p, run)
         /\ run.reads = 0 /\ run.B = preparation[p].B /\ run.lasting = {}
         /\ (run.at = "account") => (run.keys = {storedKeys})
  <2>1. ASSUME NEW stage \in Early, Proceed(p, [preparation[p] EXCEPT !.at = stage])
        PROVE  \E run \in Run :
                 /\ Proceed(p, run)
                 /\ run.reads = 0 /\ run.B = preparation[p].B /\ run.lasting = {}
                 /\ (run.at = "account") => (run.keys = {storedKeys})
    <3>1. [preparation[p] EXCEPT !.at = stage] \in Run
      BY <1>1 DEF Run, Early, RunStages
    <3> QED
      BY <1>1, <1>2, <2>1, <3>1 DEF Run, Early
  <2>2. CASE Analyse(p)
    <3>1. PICK recorded \in BOOLEAN :
             Proceed(p, [preparation[p] EXCEPT !.at = "planning", !.shadow = recorded])
      BY <2>2 DEF Analyse
    <3>2. [preparation[p] EXCEPT !.at = "planning", !.shadow = recorded] \in Run
      BY <1>1 DEF Run, RunStages
    <3> QED
      BY <1>1, <1>2, <3>1, <3>2 DEF Run
  <2>3. CASE DecideDay(p)
    <3>1. PICK recommendation \in Recommendations :
             Proceed(p, [preparation[p] EXCEPT !.at = "keys",
                                               !.recommendation = recommendation])
      BY <2>3 DEF DecideDay
    <3>2. [preparation[p] EXCEPT !.at = "keys", !.recommendation = recommendation] \in Run
      BY <1>1 DEF Run, RunStages
    <3> QED
      BY <1>1, <1>2, <3>1, <3>2 DEF Run
  <2>4. CASE CaptureKeys(p)
    <3>1. Proceed(p, [preparation[p] EXCEPT !.at = "account", !.keys = {storedKeys}])
      BY <2>4 DEF CaptureKeys
    <3>2. [preparation[p] EXCEPT !.at = "account", !.keys = {storedKeys}] \in Run
      BY <1>1 DEF Run, RunStages
    <3> QED
      BY <1>1, <1>2, <3>1, <3>2 DEF Run
  <2> QED
    BY <2>1, <2>2, <2>3, <2>4
    DEF BeginPreparation, CollectMarket, CollectLiquidation, Early
<1> QED
  BY <1>1, <1>2, <1>3, ProceedKeeps DEF Early

\* One read: what pass B finds empty is not among what lasts, since that is there.
LEMMA ReadKeeps ==
    ASSUME ReviewInv, NEW p \in Preparations, ReadPass(p)
    PROVE  ReviewInv'
<1>1. preparation[p] \in Run /\ preparation[p].at = "account" /\ preparation[p].reads \in 0 .. 4
  <2>1. preparation[p] \in Run
    BY DEF ReviewInv, ReviewTyped
  <2>2. preparation[p].at = "account" /\ preparation[p].reads < 5
    BY DEF ReadPass, InStage
  <2> QED
    BY <2>1, <2>2 DEF Run
<1>2. PICK a \in Holders :
         preparation[p].keys = {a} /\ preparation[p].lasting \subseteq targeted[a]
  BY <1>1 DEF ReviewInv, LastingIsThere, InStage
<1>3. targeted[a] \subseteq Things
  BY DEF ReviewInv, ReviewTyped
<1>4. preparation[p].A \in Seen /\ preparation[p].B \in Seen
  BY <1>1 DEF Run
<1> DEFINE read == [preparation[p] EXCEPT !.reads = @ + 1]
<1>5. /\ read \in Run /\ read.reads = preparation[p].reads + 1
      /\ read.A = preparation[p].A /\ read.B = preparation[p].B
      /\ read.lasting = preparation[p].lasting
      /\ read.at = "account" /\ read.keys = {a}
  BY <1>1, <1>2 DEF Run
<1>6. /\ (read.reads <= 4) => (read.B.position = "unread")
      /\ read.B.orders = "unread"
      /\ (read.reads <= 3) => (read.lasting = {})
      /\ (read.B.position = "flat") => ("position" \notin read.lasting)
  BY <1>1, <1>5 DEF ReviewInv, UnreadStays, EmptyMeansGone
<1> HIDE DEF read
<1> DEFINE next == TargetReads[preparation[p].reads + 1]
<1>7. /\ (next = "cutoff") => (preparation[p].reads = 2)
      /\ (next = "B.position") => (preparation[p].reads = 3)
      /\ (next = "B.orders") => (preparation[p].reads = 4)
  BY <1>1 DEF TargetReads
<1>8. \/ \E row \in PositionShown(a) : Proceed(p, [read EXCEPT !.A.position = row])
      \/ \E row \in OrdersShown(a) : Proceed(p, [read EXCEPT !.A.orders = row])
      \/ next = "cutoff" /\ Proceed(p, [read EXCEPT !.lasting = targeted[a]])
      \/ /\ next = "B.position"
         /\ \E row \in PositionShown(a) : Proceed(p, [read EXCEPT !.B.position = row])
      \/ /\ next = "B.orders"
         /\ \E row \in OrdersShown(a) : Proceed(p, [read EXCEPT !.B.orders = row])
      \/ Proceed(p, [read EXCEPT !.complete = FALSE])
  BY <1>2 DEF ReadPass, read
<1> HIDE DEF next
<1>9. PositionShown(a) \subseteq {"flat", "held", "unclear"}
      /\ OrdersShown(a) \subseteq {"none", "active", "unclear"}
  BY DEF PositionShown, OrdersShown
<1>10. ASSUME NEW run \in Run, Proceed(p, run), run.at = "account", run.keys = {a},
              run.reads = read.reads,
              \/ run.lasting = read.lasting
              \/ run.lasting = targeted[a] /\ read.reads = 3,
              \/ run.B = read.B
              \/ /\ run.B.position \in PositionShown(a) /\ run.B.orders = read.B.orders
                 /\ read.reads = 4
              \/ /\ run.B.orders \in OrdersShown(a) /\ run.B.position = read.B.position
                 /\ read.reads = 5
       PROVE  ReviewInv'
  <2>1. run.lasting \subseteq targeted[a]
    BY <1>2, <1>5, <1>10
  <2>2. (run.reads <= 3) => (run.B.position = "unread")
    BY <1>1, <1>5, <1>6, <1>10
  <2>3. (run.reads <= 4) => (run.B.orders = "unread")
    BY <1>5, <1>6, <1>10
  <2>4. (run.reads <= 2) => (run.lasting = {})
    BY <1>1, <1>5, <1>6, <1>10
  <2>5. (run.B.position = "flat") => ("position" \notin run.lasting)
    BY <2>1, <1>1, <1>5, <1>6, <1>10 DEF PositionShown
  <2>6. (run.B.orders = "none") => ("order" \notin run.lasting)
    BY <2>1, <1>1, <1>5, <1>6, <1>10 DEF OrdersShown
  <2> QED
    BY <2>1, <2>2, <2>3, <2>4, <2>5, <2>6, <1>10, ProceedKeeps DEF Early
<1>11. CASE \E row \in PositionShown(a) : Proceed(p, [read EXCEPT !.A.position = row])
  <2>1. PICK row \in PositionShown(a) : Proceed(p, [read EXCEPT !.A.position = row])
    BY <1>11
  <2>2. [read EXCEPT !.A.position = row] \in Run
    BY <1>4, <1>5, <1>9 DEF Run, Seen
  <2> QED
    BY <1>5, <2>1, <2>2, <1>10 DEF Run
<1>12. CASE \E row \in OrdersShown(a) : Proceed(p, [read EXCEPT !.A.orders = row])
  <2>1. PICK row \in OrdersShown(a) : Proceed(p, [read EXCEPT !.A.orders = row])
    BY <1>12
  <2>2. [read EXCEPT !.A.orders = row] \in Run
    BY <1>4, <1>5, <1>9 DEF Run, Seen
  <2> QED
    BY <1>5, <2>1, <2>2, <1>10 DEF Run
<1>13. CASE next = "cutoff" /\ Proceed(p, [read EXCEPT !.lasting = targeted[a]])
  <2>1. [read EXCEPT !.lasting = targeted[a]] \in Run
    BY <1>3, <1>5 DEF Run
  <2> QED
    BY <1>1, <1>5, <1>7, <1>13, <2>1, <1>10 DEF Run
<1>14. CASE /\ next = "B.position"
            /\ \E row \in PositionShown(a) : Proceed(p, [read EXCEPT !.B.position = row])
  <2>1. PICK row \in PositionShown(a) : Proceed(p, [read EXCEPT !.B.position = row])
    BY <1>14
  <2>2. [read EXCEPT !.B.position = row] \in Run
    BY <1>4, <1>5, <1>9 DEF Run, Seen
  <2>3. /\ [read EXCEPT !.B.position = row].B.position = row
        /\ [read EXCEPT !.B.position = row].B.orders = read.B.orders
    BY <1>4, <1>5 DEF Run, Seen
  <2> QED
    BY <1>1, <1>5, <1>7, <1>14, <2>1, <2>2, <2>3, <1>10 DEF Run
<1>15. CASE /\ next = "B.orders"
            /\ \E row \in OrdersShown(a) : Proceed(p, [read EXCEPT !.B.orders = row])
  <2>1. PICK row \in OrdersShown(a) : Proceed(p, [read EXCEPT !.B.orders = row])
    BY <1>15
  <2>2. [read EXCEPT !.B.orders = row] \in Run
    BY <1>4, <1>5, <1>9 DEF Run, Seen
  <2>3. /\ [read EXCEPT !.B.orders = row].B.orders = row
        /\ [read EXCEPT !.B.orders = row].B.position = read.B.position
    BY <1>4, <1>5 DEF Run, Seen
  <2> QED
    BY <1>1, <1>5, <1>7, <1>15, <2>1, <2>2, <2>3, <1>10 DEF Run
<1>16. CASE Proceed(p, [read EXCEPT !.complete = FALSE])
  <2>1. [read EXCEPT !.complete = FALSE] \in Run
    BY <1>5 DEF Run
  <2> QED
    BY <1>5, <1>16, <2>1, <1>10 DEF Run
<1> QED
  BY <1>8, <1>11, <1>12, <1>13, <1>14, <1>15, <1>16

\* A plan is stored as what the run has read of the target lets it be.
LEMMA SaveKeeps ==
    ASSUME ReviewInv, NEW p \in Preparations, PrepareAndSave(p)
    PROVE  ReviewInv'
<1>1. preparation[p] \in Run /\ preparation[p].at = "risk" /\ preparation[p].B \in Seen
      /\ exchangeTime \in Nat
  BY ReviewTimes DEF ReviewInv, ReviewTyped, PrepareAndSave, InStage, Run
<1>2. PICK verdict \in RiskVerdicts, needsReview \in BOOLEAN :
         plans' = plans \cup
             {[run |-> p, account |-> preparation[p].keys,
               recommendation |-> preparation[p].recommendation,
               state |-> PlanState(preparation[p], verdict, needsReview),
               evaluation |-> exchangeTime, lasting |-> preparation[p].lasting]}
  BY DEF PrepareAndSave
<1>3. PlanState(preparation[p], verdict, needsReview) \in PlanStates
  BY DEF PlanState, PlanStates
<1>4. ASSUME PlanState(preparation[p], verdict, needsReview) # "BLOCKED",
             preparation[p].recommendation = "ADD_LONG"
      PROVE  preparation[p].lasting = {}
  <2>1. TargetGate(preparation[p]) \notin {"conflict", "unknown"}
    BY <1>4 DEF PlanState
  <2>2. preparation[p].B.position = "flat" /\ preparation[p].B.orders = "none"
    BY <1>1, <1>4, <2>1 DEF TargetGate, RelevantCoverageComplete, Seen
  <2> QED
    BY <1>1, <2>2 DEF ReviewInv, EmptyMeansGone, Run, Things
<1>5. PlansMissNothing'
  BY <1>2, <1>4 DEF ReviewInv, PlansMissNothing
<1>6. \A plan \in plans' : plan.state \in PlanStates /\ plan.evaluation \in Nat
  BY <1>1, <1>2, <1>3 DEF ReviewInv, ReviewTyped
<1> DEFINE run == [preparation[p] EXCEPT !.at = "saved"]
<1>7. run \in Run /\ run.at = "saved" /\ run.reads = preparation[p].reads
      /\ run.B = preparation[p].B /\ run.lasting = preparation[p].lasting
  BY <1>1 DEF Run, RunStages
<1>8. preparation' = [preparation EXCEPT ![p] = run]
      /\ UNCHANGED <<worldVars, consent, approvals, granted, reports>>
  BY DEF PrepareAndSave, ReviewInv, ReviewTyped
<1> HIDE DEF run
<1> QED
  BY <1>2, <1>5, <1>6, <1>7, <1>8, RunKeeps
  DEF ReviewInv, ReviewTyped, UnreadStays, EmptyMeansGone, Early

\* A run that ends forgets what it has read.
LEMMA EndKeeps ==
    ASSUME ReviewInv, NEW p \in Preparations, EndPreparation(p)
    PROVE  ReviewInv'
<1> DEFINE run == [Unprepared EXCEPT !.at = "ended"]
<1>1. run \in Run /\ run.at = "ended" /\ run.reads = 0 /\ run.lasting = {}
      /\ run.B.position = "unread" /\ run.B.orders = "unread"
  <2>1. Unprepared \in Run /\ Unprepared.B = Unseen
        /\ Unprepared.reads = 0 /\ Unprepared.lasting = {}
    BY DEF Run, RunStages, Unprepared, Unseen, Seen, Recommendations
  <2>2. Unseen.position = "unread" /\ Unseen.orders = "unread"
    BY DEF Unseen
  <2> QED
    BY <2>1, <2>2 DEF Run, RunStages
<1>2. preparation' = [preparation EXCEPT ![p] = run]
      /\ UNCHANGED <<worldVars, plans, consent, approvals, granted>>
      /\ reports' \subseteq Preparations
  BY DEF EndPreparation, ReviewInv, ReviewTyped
<1>3. PlansMissNothing'
      /\ \A plan \in plans' : plan.state \in PlanStates /\ plan.evaluation \in Nat
  BY <1>2 DEF ReviewInv, ReviewTyped, PlansMissNothing
<1> HIDE DEF run
<1> QED
  BY <1>1, <1>2, <1>3, RunKeeps DEF Early

\* The account has been read.
LEMMA EndAccountKeeps ==
    ASSUME ReviewInv, NEW p \in Preparations, EndAccount(p)
    PROVE  ReviewInv'
<1> DEFINE run == [preparation[p] EXCEPT !.at = "risk"]
<1>1. preparation[p] \in Run
  BY DEF ReviewInv, ReviewTyped
<1>2. run \in Run /\ run.at = "risk" /\ run.reads = preparation[p].reads
      /\ run.B = preparation[p].B /\ run.lasting = preparation[p].lasting
  BY <1>1 DEF Run, RunStages
<1>3. Proceed(p, run)
  BY DEF EndAccount
<1> HIDE DEF run
<1> QED
  BY <1>2, <1>3, ProceedKeeps DEF ReviewInv, UnreadStays, EmptyMeansGone, Early

\* A command of one operator touches its own record, what was granted and the approvals.
LEMMA CommandKeeps ==
    ASSUME ReviewInv, NEW c \in Consents,
           \/ LoadPrepared(c) \/ AskNote(c) \/ TypeYes(c) \/ SaveConsent(c) \/ EndConsent(c)
    PROVE  ReviewInv'
<1>1. /\ UNCHANGED <<worldVars, preparation, plans, reports>> /\ granted \subseteq granted'
      /\ consent \in [Consents -> Command]
  BY DEF LoadPrepared, AskNote, TypeYes, SaveConsent, EndConsent, Step, ReviewInv,
         ReviewTyped
<1>2. \E command \in Command :
         /\ consent' = [consent EXCEPT ![c] = command]
         /\ (command.at = "granted") => \A plan \in command.plan : <<c, plan>> \in granted'
  <2>1. CASE LoadPrepared(c)
    <3>1. PICK plan \in plans, note \in {"none", "blank", "text"} :
             Step(c, [at |-> "shown", plan |-> {plan}, note |-> note])
      BY <2>1 DEF LoadPrepared
    <3>2. [at |-> "shown", plan |-> {plan}, note |-> note] \in Command
      BY DEF Command
    <3> QED
      BY <3>1, <3>2 DEF Step
  <2>2. CASE AskNote(c)
    <3>1. PICK note \in {"none", "blank", "text"} :
             Step(c, [consent[c] EXCEPT !.at = "noted", !.note = note])
      <4>1. PICK plan \in consent[c].plan :
               \/ Step(c, [consent[c] EXCEPT !.at = "noted", !.note = "text"])
               \/ Step(c, [consent[c] EXCEPT !.at = "noted"])
        BY <2>2 DEF AskNote
      <4>2. [consent[c] EXCEPT !.at = "noted"] =
                [consent[c] EXCEPT !.at = "noted", !.note = consent[c].note]
        BY <1>1 DEF Command
      <4>3. consent[c].note \in {"none", "blank", "text"}
        BY <1>1 DEF Command
      <4> QED
        BY <4>1, <4>2, <4>3
    <3>2. [consent[c] EXCEPT !.at = "noted", !.note = note] \in Command
      BY <1>1 DEF Command
    <3> QED
      BY <1>1, <3>1, <3>2 DEF Step, Command
  <2>3. CASE TypeYes(c)
    <3>1. /\ consent' = [consent EXCEPT ![c] = [consent[c] EXCEPT !.at = "granted"]]
          /\ granted' = granted \cup {<<c, plan>> : plan \in consent[c].plan}
      BY <2>3 DEF TypeYes, Step
    <3>2. /\ [consent[c] EXCEPT !.at = "granted"] \in Command
          /\ [consent[c] EXCEPT !.at = "granted"].plan = consent[c].plan
      BY <1>1 DEF Command
    <3> QED
      BY <3>1, <3>2
  <2>4. CASE SaveConsent(c) \/ EndConsent(c)
    <3>1. /\ [Unasked EXCEPT !.at = "ended"] \in Command
          /\ [Unasked EXCEPT !.at = "ended"].at = "ended"
      BY DEF Unasked, Command
    <3> QED
      BY <2>4, <3>1 DEF SaveConsent, EndConsent, Step
  <2> QED
    BY <2>1, <2>2, <2>3, <2>4
<1>3. PICK command \in Command :
         /\ consent' = [consent EXCEPT ![c] = command]
         /\ (command.at = "granted") => \A plan \in command.plan : <<c, plan>> \in granted'
  BY <1>2
<1>4. /\ consent'[c] = command
      /\ \A d \in Consents \ {c} : consent'[d] = consent[d]
      /\ consent' \in [Consents -> Command]
  BY <1>1, <1>3
<1>5. Command' = Command
  BY <1>1 DEF Command
<1>7. GrantsAreKept'
  BY <1>1, <1>3, <1>4 DEF ReviewInv, GrantsAreKept
<1>8. ConsentIsExact'
  <2>1. CASE UNCHANGED approvals
    BY <1>1, <2>1 DEF ReviewInv, ConsentIsExact
  <2>2. CASE SaveConsent(c)
    <3>1. PICK plan \in consent[c].plan, approvedAt \in LocalClock :
             /\ plan.state # "BLOCKED" /\ approvedAt >= plan.evaluation
             /\ NoteRequired(plan) => (consent[c].note = "text")
             /\ plan \in plans
             /\ approvals' = approvals \cup
                   {[by |-> c, plan |-> plan, approvedAt |-> approvedAt,
                     note |-> IF consent[c].note = "text" THEN "text" ELSE "none"]}
      BY <2>2 DEF SaveConsent
    <3>2. <<c, plan>> \in granted
      BY <2>2, <3>1 DEF SaveConsent, ReviewInv, GrantsAreKept
    <3>3. (plan.recommendation = "ADD_LONG") => (plan.lasting = {})
      BY <3>1 DEF ReviewInv, PlansMissNothing
    <3>4. plan.evaluation <= approvedAt
      BY <3>1
    <3> QED
      <4> DEFINE approval == [by |-> c, plan |-> plan, approvedAt |-> approvedAt,
                              note |-> IF consent[c].note = "text" THEN "text" ELSE "none"]
      <4>1. /\ approval.by = c /\ approval.plan = plan /\ approval.approvedAt = approvedAt
            /\ (plan.state = "REVIEW") => (approval.note = "text")
        BY <3>1 DEF NoteRequired
      <4>2. approvals' = approvals \cup {approval}
        BY <3>1
      <4> HIDE DEF approval
      <4> QED
        BY <1>1, <3>1, <3>2, <3>3, <3>4, <4>1, <4>2 DEF ReviewInv, ConsentIsExact
  <2> QED
    BY <2>1, <2>2 DEF LoadPrepared, AskNote, TypeYes, EndConsent, Step
<1>9. ReviewTyped' /\ UnreadStays' /\ LastingIsThere' /\ EmptyMeansGone' /\ PlansMissNothing'
  BY <1>1, <1>4, <1>5 DEF ReviewInv, ReviewTyped, UnreadStays, LastingIsThere,
     EmptyMeansGone, PlansMissNothing, InStage, worldVars
<1> QED
  BY <1>7, <1>8, <1>9 DEF ReviewInv

LEMMA ReviewSteps == ReviewInv /\ [ReviewNext]_reviewVars => ReviewInv'
<1> SUFFICES ASSUME ReviewInv, [ReviewNext]_reviewVars PROVE ReviewInv'
  OBVIOUS
<1>1. CASE TargetTraded
  <2>1. PICK a \in Holders, now \in SUBSET Things : Trade(a, now)
    BY <1>1 DEF TargetTraded, ReviewInv, ReviewTyped, Things
  <2> QED
    BY <2>1, TradeKeeps
<1>2. CASE KeysReplaced \/ SecondPasses
  <2>1. UNCHANGED <<targeted, preparation, plans, reports, consent, approvals, granted>>
    BY <1>2 DEF KeysReplaced, SecondPasses
  <2>2. storedKeys' \in Holders /\ exchangeTime' \in Skew .. LastSecond
    BY <1>2, ReviewTimes DEF KeysReplaced, SecondPasses, ReviewInv, ReviewTyped
  <2> QED
    BY <2>1, <2>2 DEF ReviewInv, ReviewTyped, UnreadStays, LastingIsThere, EmptyMeansGone,
       PlansMissNothing, GrantsAreKept, ConsentIsExact, InStage, Command
<1>3. CASE UNCHANGED reviewVars
  BY <1>3 DEF reviewVars, ReviewInv, ReviewTyped, UnreadStays, LastingIsThere,
     EmptyMeansGone, PlansMissNothing, GrantsAreKept, ConsentIsExact, InStage, Command
<1> QED
  BY <1>1, <1>2, <1>3, EarlyStageKeeps, ReadKeeps, SaveKeeps, EndKeeps, CommandKeeps,
     EndAccountKeeps
  DEF ReviewNext

LEMMA ReviewHolds == ReviewSpec => []ReviewInv
BY ReviewStarts, ReviewSteps, PTL DEF ReviewSpec

\* The runs that prepare the plan of the day, the plans they leave and the commands that
\* approve them are what they are declared to be, at every step.
THEOREM ReviewIsTyped == ReviewSpec => []ReviewTypeOK
<1>1. ReviewInv => ReviewTypeOK
  BY DEF ReviewInv, ReviewTyped, ReviewTypeOK, Run, Things
<1> QED
  BY <1>1, ReviewHolds, PTL

\* An approval that is stored is to a plan that is stored and not blocked, its operator said
\* yes to it, with a note where review was asked for, and no earlier than the exchange's
\* time of its evaluation; and a plan that adds has missed nothing of the target that was
\* there at the cutoff and to the end of the reading, whatever was traded meanwhile
\* (createPreparedPlanApproval, targetGate).
THEOREM ConsentsAreExact == ReviewSpec => []ConsentIsExact
<1>1. ReviewInv => ConsentIsExact
  BY DEF ReviewInv
<1> QED
  BY <1>1, ReviewHolds, PTL
=============================================================================
