-------------------------- MODULE OperatorEvidence --------------------------
(***************************************************************************)
(* The evidence an operator's order leaves on: who the key belongs to, the  *)
(* mode and the balance of the account, the fee rate, the quote and the     *)
(* state of the symbol, each read by a request of its own and each with an  *)
(* age it may not exceed when the order is sent                             *)
(* (mainnet-operator-test-preparation-composition.ts,                       *)
(* mainnet-operator-test-composition.ts, mainnet-operator-test-evidence.ts, *)
(* mainnet-entry-evidence.ts).                                              *)
(* A direct command collects once when its plan is made and hands the       *)
(* evidence on; the admission refreshes what has grown old.  Preparing and  *)
(* executing an approved plan collect separately, each on the compact route *)
(* and, where that fails, from the full account evidence.  What the answers *)
(* say is abstracted to good or bad: a bad answer refuses.  The clock of    *)
(* the process and the clock of the exchange advance together, and their    *)
(* difference does not enter: the code only compares times of one clock.    *)
(***************************************************************************)
EXTENDS Naturals, Sequences

CONSTANTS
    EvidenceAge,     \* PROVISIONAL_M1_MAX_ACCOUNT_EVIDENCE_AGE_MS
    QuoteAge,        \* OPERATOR_MAINNET_QUOTE_FRESHNESS_MS
    InspectionAge,   \* OPERATOR_MAINNET_RECOVERY_MAX_AGE_MS
    LastMoment       \* the bound on time

ASSUME EvidenceAges ==
    /\ EvidenceAge \in Nat /\ QuoteAge \in Nat /\ InspectionAge \in Nat /\ LastMoment \in Nat
    /\ QuoteAge <= EvidenceAge

VARIABLES
    present,   \* the time
    order      \* the order on its way: what it has read, when, and how far it has come

orderVars == <<present, order>>

\* The facts with an age of their own.
AccountFacts == {"identity", "mode", "balance"}
Aged == AccountFacts \cup {"fee", "quote"}

\* What is read: the facts, the times of the exchange around them, the second reads of
\* the compact account evidence.
Requests == Aged \cup {"state", "started", "completed", "before", "after", "clock", "ended",
                      "identityTime", "modeAgain", "balanceAgain"}

\* Requests whose time counts for something; those of the facts and of the state are kept.
Timed == Aged \cup {"started", "completed", "before", "clock", "ended"}
Facts == Aged \cup {"state"}

\* The checks made between the reads.
Checks == {"account", "candidate", "judged"}

\* Requests made side by side, but for those that wait for another's answer.
WaitsFor(read) ==
    CASE read \in {"mode", "balance"} -> {"before"}
      [] read = "after" -> {"mode", "balance"}
      [] read = "quote" -> {"started"}
      [] read = "completed" -> {"started", "quote"}
      [] read = "clock" -> {"state"}
      [] OTHER -> {}

QuoteReads == {"started", "quote", "completed"}
StateReads == {"state", "clock"}

\* The direct command: its plan is made of the quote, before the account is read.
CommandReads ==
    <<{"identity"}, QuoteReads, {"candidate"}, {"before", "mode", "balance", "after"},
      {"fee"}, StateReads, {"judged"}>>

\* The compact route of an approved plan: mode and balance are read twice.
CompactReads(purpose) ==
    <<{"identity"}, {"mode"}, {"modeAgain"}, {"balance"}, {"balanceAgain"}, {"fee"},
      {"account"}, QuoteReads>>
    \o (IF purpose = "prepare" THEN <<{"candidate"}>> ELSE <<>>)
    \o <<StateReads, {"judged"}>>

\* The full account evidence, whose age counts from the end of its collection.
FullReads(purpose) ==
    <<{"identity"}, {"mode"}, {"balance"}, {"ended"}>>
    \o (IF purpose = "prepare"
        THEN <<QuoteReads, {"fee"}, {"clock"}>>
        ELSE <<{"fee"}, QuoteReads, StateReads>>)
    \o <<{"judged"}>>

\* What the admission of a command reads again.
RefreshReads(stale) ==
    LET account == stale \cap AccountFacts
        bracket == IF account \cap {"mode", "balance"} # {} THEN {"before", "after"} ELSE {}
        groups == <<account \cup bracket,
                    IF "quote" \in stale THEN QuoteReads ELSE {},
                    stale \cap {"fee"},
                    IF "clock" \in stale THEN StateReads ELSE {},
                    {"judged"}>>
    IN SelectSeq(groups, LAMBDA group : group # {})

OrderInit ==
    /\ present = 0
    /\ order = [purpose |-> "none", manual |-> FALSE, route |-> "compact", at |-> "new",
                todo |-> <<>>, stamp |-> [read \in Timed |-> 0],
                read |-> [fact \in Facts |-> 0], admitted |-> FALSE,
                captured |-> 0, began |-> 0]

\* A process starts: the direct command, the preparation of a plan, the execution of an
\* approved one; the last two may rest on the operator's inspection of the account, made now.
BeginOrder(purpose, manual) ==
    /\ order.at = "new"
    /\ manual => purpose # "command"
    /\ order' = [order EXCEPT
                    !.purpose = purpose, !.manual = manual, !.at = "reading",
                    !.todo = IF purpose = "command" THEN CommandReads
                             ELSE CompactReads(purpose)]
    /\ UNCHANGED present

\* Times that serve no more once an answer is there.
DoneWith(read) ==
    CASE read = "completed" -> {"started"}
      [] read = "after" -> {"before"}
      [] OTHER -> {}

\* The group done with is left.
WithoutRead(todo, read) ==
    IF Head(todo) = {read} THEN Tail(todo) ELSE <<Head(todo) \ {read}>> \o Tail(todo)

\* The time an answer is stamped with.  The account endpoints may answer a direct command
\* without a time: the time read before them stands in.
Stamps(read) ==
    IF order.purpose = "command" /\ read \in {"mode", "balance"}
    THEN {present, order.stamp["before"]}
    ELSE {present}

\* An answer arrives.  A quote whose bracket took longer than its freshness is no quote.
ReadAnswer(read) ==
    /\ order.at = "reading"
    /\ order.todo # <<>>
    /\ read \in Head(order.todo) \cap Requests
    /\ WaitsFor(read) \cap Head(order.todo) = {}
    /\ (read = "completed") => (present - order.stamp["started"] <= QuoteAge)
    /\ \E at \in Stamps(read) :
          order' = [order EXCEPT
                       !.todo = WithoutRead(@, read),
                       !.stamp = [answer \in Timed |->
                                     IF answer = read THEN at
                                     ELSE IF answer \in DoneWith(read) THEN 0
                                     ELSE @[answer]],
                       !.read = [fact \in Facts |-> IF fact = read THEN present ELSE @[fact]]]
    /\ UNCHANGED present

\* The answer to the identity bears no time: the time of the exchange is read after it.
AnswerUntimed ==
    /\ order.at = "reading"
    /\ order.todo # <<>>
    /\ "identity" \in Head(order.todo)
    /\ order' = [order EXCEPT
                    !.todo = <<(Head(@) \ {"identity"}) \cup {"identityTime"}>> \o Tail(@),
                    !.read["identity"] = present]
    /\ UNCHANGED present

AnswerIdentityTime ==
    /\ order.at = "reading"
    /\ order.todo # <<>>
    /\ "identityTime" \in Head(order.todo)
    /\ order' = [order EXCEPT !.todo = WithoutRead(@, "identityTime"),
                              !.stamp["identity"] = present]
    /\ UNCHANGED present

\* The compact route gives up: the full account evidence is collected instead, but for a
\* manual recovery and a direct command.
GivenUp ==
    IF order.purpose # "command" /\ order.route = "compact" /\ ~order.manual
    THEN [order EXCEPT !.route = "full", !.todo = FullReads(order.purpose)]
    ELSE [order EXCEPT !.at = "refused", !.todo = <<>>]

Refused(why) == [order EXCEPT !.at = why, !.todo = <<>>]

\* A read fails, or answers what the order cannot be sent on.  A manual recovery does
\* without the state of the symbol if it cannot be read.
FailRead ==
    /\ order.at = "reading"
    /\ order.todo # <<>>
    /\ Head(order.todo) \cap Checks = {}
    /\ \/ order' = GivenUp
       \/ order' = Refused("refused")
       \/ /\ order.manual
          /\ "state" \in Head(order.todo)
          /\ order' = [order EXCEPT !.todo = WithoutRead(@, "state")]
    /\ UNCHANGED present

\* The times ages are counted from: a direct command takes the newest answer of the
\* account, of the fee, of the quote's bracket and of the symbol's state, never the quote's
\* own; an approved plan takes the time read with the state, a preparation from the full
\* evidence the one read last.
Dated == {"identity", "mode", "balance", "fee", "completed", "clock"}
Reference(o) ==
    IF o.purpose = "command"
    THEN CHOOSE time \in {o.stamp[read] : read \in Dated} :
            \A read \in Dated : o.stamp[read] <= time
    ELSE o.stamp["clock"]

\* When a fact was observed, as far as its age goes.
ObservedAt(o, fact) ==
    IF o.route = "full" /\ fact \in AccountFacts /\ ~(o.purpose = "prepare" /\ fact = "balance")
    THEN o.stamp["ended"]
    ELSE o.stamp[fact]

MaxAge(fact) == IF fact = "quote" THEN QuoteAge ELSE EvidenceAge

InWindow(now, at, limit) == at <= now /\ now - at <= limit

\* Facts outside their window at a time.
Stale(o, facts, now) ==
    {fact \in facts : ~InWindow(now, ObservedAt(o, fact), MaxAge(fact))}

\* The operator's inspection was made at time 0.
InspectionHolds(o, elapsed) == o.manual => Reference(o) + elapsed <= InspectionAge

\* The account is checked at the time of the fee, before anything else is read.
CheckAccount ==
    /\ order.at = "reading"
    /\ order.todo # <<>>
    /\ Head(order.todo) = {"account"}
    /\ order' = IF Stale(order, AccountFacts, order.stamp["fee"]) = {}
                THEN [order EXCEPT !.todo = Tail(@)]
                ELSE GivenUp
    /\ UNCHANGED present

\* The time a plan claims to be prepared at when it is first made.
PreparedAt(o) == IF o.purpose = "command" THEN o.stamp["completed"] ELSE o.stamp["quote"]

\* A plan is refused whose quote is old or was completed after the plan's own time.
QuoteFits(o, at) ==
    InWindow(at, o.stamp["quote"], QuoteAge) /\ o.stamp["completed"] <= at

\* The plan is made before the state of the symbol is read, and what has been read of the
\* account must be fresh at the time of the quote.
MakeCandidate ==
    /\ order.at = "reading"
    /\ order.todo # <<>>
    /\ Head(order.todo) = {"candidate"}
    /\ order' =
          IF ~QuoteFits(order, PreparedAt(order)) THEN Refused("stale")
          ELSE IF order.purpose = "prepare"
                  /\ Stale(order, AccountFacts \cup {"fee"}, order.stamp["quote"]) # {}
          THEN Refused("refused")
          ELSE [order EXCEPT !.todo = Tail(@)]
    /\ UNCHANGED present

\* What an order is sent on: nothing in it is outside its window.
CompactSound(o) ==
    LET now == Reference(o) IN
    /\ InspectionHolds(o, 0)
    /\ Stale(o, Aged, now) = {}
    /\ (o.purpose = "command") => InWindow(now, o.stamp["clock"], EvidenceAge)

FullSound(o) == ~o.manual /\ Stale(o, Aged, Reference(o)) = {}

\* The evidence of an order as a whole.  Where it is old the compact route is given up.
Judge ==
    /\ order.at = "reading"
    /\ order.todo # <<>>
    /\ Head(order.todo) = {"judged"}
    /\ order.purpose # "prepare"
    /\ order' = IF (IF order.route = "full" THEN FullSound(order) ELSE CompactSound(order))
                THEN [order EXCEPT !.at = "sound", !.todo = <<>>]
                ELSE GivenUp
    /\ UNCHANGED present

\* The evidence of a preparation: an old quote refuses, an old account gives the compact
\* route up, and the plan that is stored is made anew at the time last read.
JudgePreparation ==
    /\ order.at = "reading"
    /\ order.todo # <<>>
    /\ Head(order.todo) = {"judged"}
    /\ order.purpose = "prepare"
    /\ LET now == Reference(order) IN
       order' = IF ~InspectionHolds(order, 0) THEN GivenUp
                ELSE IF order.route = "compact" /\ Stale(order, AccountFacts, now) # {}
                THEN GivenUp
                ELSE IF ~QuoteFits(order, now) THEN Refused("stale")
                ELSE IF Stale(order, AccountFacts \cup {"fee"}, now) # {}
                THEN Refused("refused")
                ELSE [order EXCEPT !.at = "sound", !.todo = <<>>]
    /\ UNCHANGED present

\* The clock of the process is read once the evidence is sound: ages are counted on from
\* there.  A prepared plan is stored; a direct command's is stored and handed on.
Capture ==
    /\ order.at = "sound"
    /\ order' = [order EXCEPT
                    !.captured = present,
                    !.at = CASE order.purpose = "prepare" -> "stored"
                             [] order.purpose = "command" /\ ~order.admitted -> "handed"
                             [] OTHER -> "collected"]
    /\ UNCHANGED present

\* The ages once some time has passed since the evidence was judged.  The state of the
\* symbol is not among them.
AgesHold(o, elapsed) ==
    /\ Stale(o, Aged, Reference(o) + elapsed) = {}
    /\ InspectionHolds(o, elapsed)

\* The admission of a direct command: what has grown old since is read again.
AdmitOrder ==
    /\ order.at = "handed"
    /\ LET now == Reference(order) + present - order.captured
           stale == Stale(order, Aged, now)
                    \cup {read \in {"clock"} :
                             ~InWindow(now, order.stamp[read], EvidenceAge)}
       IN order' = IF stale # {}
                   THEN [order EXCEPT !.at = "reading", !.admitted = TRUE,
                                      !.todo = RefreshReads(stale)]
                   ELSE [order EXCEPT !.at = "collected", !.admitted = TRUE]
    /\ UNCHANGED present

\* The intent is prepared: executeMainnetOperatorTest counts the time from here.
PrepareIntent ==
    /\ order.at = "collected"
    /\ order' = [order EXCEPT !.at = "intended", !.began = present]
    /\ UNCHANGED present

\* The check behind the intent.
Recheck ==
    /\ order.at = "intended"
    /\ order' = [order EXCEPT
                    !.at = IF AgesHold(order, present - order.began) THEN "armed"
                           ELSE "withheld"]
    /\ UNCHANGED present

\* A variant: the final check counts from the intent, as the check before it does.
ElapsedSinceIntent(o) == present - o.began

\* How old the evidence is when the request is about to leave.
FinalElapsed(o) == present - o.captured

\* The final check of the transport.
SendOrder ==
    /\ order.at = "armed"
    /\ order' = [order EXCEPT
                    !.at = IF AgesHold(order, FinalElapsed(order)) THEN "sent" ELSE "withheld"]
    /\ UNCHANGED present

\* Time passes while an answer is awaited or the process is at work.
PassTime ==
    /\ present < LastMoment
    /\ order.at \notin {"new", "refused", "stale", "stored", "withheld", "sent"}
    /\ present' = present + 1
    /\ UNCHANGED order

OrderNext ==
    \/ \E purpose \in {"command", "prepare", "execute"}, manual \in BOOLEAN :
          BeginOrder(purpose, manual)
    \/ \E read \in Requests \ {"identityTime"} : ReadAnswer(read)
    \/ AnswerUntimed \/ AnswerIdentityTime
    \/ FailRead
    \/ CheckAccount \/ MakeCandidate \/ Judge \/ JudgePreparation \/ Capture
    \/ AdmitOrder \/ PrepareIntent \/ Recheck \/ SendOrder
    \/ PassTime

OrderSpec == OrderInit /\ [][OrderNext]_orderVars

OrderTypeOK ==
    /\ present \in 0 .. LastMoment
    /\ order.at \in {"new", "reading", "sound", "handed", "collected", "intended", "armed",
                     "sent", "stored", "withheld", "stale", "refused"}
    /\ order.captured \in 0 .. present
    /\ \A read \in Timed : order.stamp[read] \in 0 .. present

\* How much younger than its answer a fact may pass for: the identity whose answer bore no
\* time, and what the full evidence read before it ended.
Uncounted(fact) ==
    IF fact = "identity" \/ (order.route = "full" /\ fact \in AccountFacts)
    THEN LET taken == ObservedAt(order, fact) IN
         IF taken > order.read[fact] THEN taken - order.read[fact] ELSE 0
    ELSE 0

\* What the code leaves out of every age: the way from the exchange of the answer the ages
\* are counted from.
OnTheWay == order.captured - Reference(order)

\* When an order leaves, or a plan is stored, every fact it rests on was read no longer ago
\* than its limit allows, but for the time the code cannot count: whatever was handed on,
\* refreshed or waited for between the reads and the request.  The state of the symbol has
\* no limit of its own after the admission: the quote's bounds it.  The operator's
\* inspection is no older than its limit.
\* (finalTransportCheck, mainnet-operator-test-composition.ts:585; src/docs/architecture/
\* system-design.md:228 "refuses execution after evidence freshness expires")
LeavesFresh ==
    order.at \in {"sent", "stored"} =>
        /\ \A fact \in Aged :
              present - order.read[fact] <= MaxAge(fact) + OnTheWay + Uncounted(fact)
        /\ (order.read["state"] > 0 /\ ~order.manual) =>
              present - order.read["state"]
              <= EvidenceAge + QuoteAge + OnTheWay + order.stamp["clock"] - order.read["state"]
        /\ order.manual => present <= InspectionAge + OnTheWay
=============================================================================
