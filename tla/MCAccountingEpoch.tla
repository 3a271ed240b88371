------------------------- MODULE MCAccountingEpoch --------------------------
(***************************************************************************)
(* AccountingEpoch for TLC: two anchors of a small account.                *)
(***************************************************************************)
EXTENDS AccountingEpoch, TLC

CONSTANTS in, out, part1, part2, coin, usdt, other

Transfer(of, amount) == [kind |-> "transfer", coin |-> of, amount |-> amount, closes |-> FALSE]
FillOf(amount, last) == [kind |-> "fill", coin |-> usdt, amount |-> amount, closes |-> last]

MCMovementOf == [name \in Movements |->
    CASE name = in    -> Transfer(usdt, 1)
      [] name = out   -> Transfer(usdt, -1)
      [] name = coin  -> Transfer(other, 1)
      [] name = part1 -> FillOf(-1, FALSE)
      [] name = part2 -> FillOf(1, TRUE)]

MCSpans == {<<0, 0>>, <<1, 5>>}

\* What moves in one behaviour, and what may be restated.
Together == {{in, out}, {part1, part2}, {coin, in}}
Restatable == {<<"transactions", coin>>, <<"transactions", in>>, <<"closes", part2>>}

\* Bounds of the captures: the opening is captured from instant 1, the closing from 4,
\* each within an instant, and what happens before its answer comes after its balances.
CaptureBound ==
    LET step == wallet.capture.step
        closed == Cardinality(books.anchors) = 2
    IN  /\ (step = "idle" /\ wallet'.capture.step = "begun") =>
              IF books.anchors = {} THEN wallet'.capture.kind = "opening" /\ instant = 1
              ELSE wallet'.capture.kind = "closing" /\ instant = 4 /\ ~closed
        /\ (instant' > instant /\ ~closed) =>
              step = IF instant \in {0, 2, 3} THEN "idle" ELSE "begun"
        /\ (step \in {"begun", "answered"}) => wallet'.moved = wallet.moved

\* Bounds of the history: the account moves until the closing is stored; then it is
\* imported, all but one stream at most the first time, and whole later; one row at most is
\* restated between two imports, or the run records its order.
HistoryIsBounded ==
    LET closed == Cardinality(books.anchors) = 2
        imported == books'.traversals \ books.traversals
    IN  /\ (instant' > instant /\ closed) => imported # {}
        /\ (wallet'.moved # wallet.moved) => ~closed
        /\ \E names \in Together : {move[1] : move \in wallet'.moved} \subseteq names
        /\ (imported # {}) =>
              /\ closed
              /\ IF books.traversals = {} THEN Cardinality(imported) >= 2
                 ELSE Cardinality(imported) = 3
        /\ (wallet'.restated # wallet.restated) => (books.traversals # {} /\ ~books.claimed)
        /\ wallet'.restated \subseteq Restatable
        /\ Cardinality(wallet'.restated) <= 1
        /\ books'.claimed => (closed /\ wallet'.restated = {})

\* What each pair of movements is for: a restated row beside a coin that is left out, in
\* the middle of the epoch and imported whole; the order, of both policies; two transfers
\* that cancel out, and are not restated.
PairsAreFor ==
    /\ (wallet'.restated # {}) => (Moved(part1) \/ Moved(coin))
    /\ (\E move \in wallet'.moved : move[1] = coin) =>
          /\ \A move \in wallet'.moved : move[2] = 3
          /\ Cardinality(books.traversals) \in {0, 3, 6}
    /\ (outcome'.said = "appended") => (outcome'.report.policy = "scoped" \/ Moved(part1))

EpochBound == CaptureBound /\ HistoryIsBounded /\ PairsAreFor

MCEpochSpec == EpochInit /\ [][EpochNext /\ EpochBound]_epochVars
=============================================================================
