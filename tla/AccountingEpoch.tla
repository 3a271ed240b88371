--------------------------- MODULE AccountingEpoch ---------------------------
(***************************************************************************)
(* accounting:reconcile and the proof of a report: what the wallet held at *)
(* an opening and at a closing anchor, bridged by the transactions the     *)
(* history journal has between them (application/history-accounting-*.ts,  *)
(* history-attribution.ts, and the anchor and report stores of             *)
(* adapters/sqlite).                                                       *)
(*                                                                         *)
(* The account moves while its wallet is read and its history imported.    *)
(* What happened at an instant comes before a request of that instant, and *)
(* every answer of the exchange takes an instant.  The history is imported *)
(* a span at a time; how HistorySync gets a span whole is its own matter.  *)
(***************************************************************************)
EXTENDS Integers, FiniteSets

LOCAL INSTANCE FiniteSetsExt

CONSTANTS
    Movements,    \* what may happen to the wallet, by name
    MovementOf,   \* its kind, coin and amount, and whether it closes the position
    Included,     \* the coins a scoped policy accounts for
    LastInstant,  \* bound: the last instant
    Spans,        \* the spans of history an operator may import: <<first, last>>
    Imports,      \* bound: the imports
    Reports       \* bound: the reports stored

VARIABLES
    instant,   \* the exchange's clock
    wallet,    \* what happened to the account, and the anchor being captured
    books,     \* the local journal: anchors, history, reports, claims of the runs
    outcome    \* how the last call of the operator ended

epochVars == <<instant, wallet, books, outcome>>

-----------------------------------------------------------------------------
Instants == 0 .. LastInstant

\* A transfer, or a fill of the one order that closes the position; the last fill of
\* an order is the one that closes it.  Two fills with one amount look the same.
ASSUME MovementAssumption ==
    \A name \in Movements :
        /\ MovementOf[name].kind \in {"transfer", "fill"}
        /\ MovementOf[name].amount \in Int
        /\ MovementOf[name].closes \in BOOLEAN

ASSUME InstantAssumption == LastInstant \in Nat /\ Spans \subseteq Nat \X Nat

Streams == {"transactions", "executions", "closes"}

\* A row of the history.  The exchange may restate a transaction, or revise a closed
\* profit; fills says of how many fills the closed profit is.
HistoryRow == [stream : Streams, of : Movements, at : Instants,
               content : {"first", "other"}, fills : Nat]

\* What an import says of a stream: the span it read to the end, and the transactions it
\* found contradicted there.
Traversal == [stream : Streams, from : Instants, to : Instants, number : 1 .. Imports,
              disputed : SUBSET Movements]

Kinds == {"opening", "closing"}

CoinsHeld == Included \cup {MovementOf[name].coin : name \in Movements}

Anchor == [kind : Kinds, before : Instants, boundary : Instants, after : Instants,
           balance : [CoinsHeld -> Int], read : Instants]

Policies == {"account", "scoped"}

Calm == [said |-> "none"]

EpochTypeOK ==
    /\ instant \in Instants
    /\ wallet.moved \subseteq (Movements \X Instants)
    /\ wallet.restated \subseteq ({"transactions", "closes"} \X Movements)
    /\ wallet.capture.step \in {"idle", "begun", "read", "answered"}
    /\ books.anchors \subseteq Anchor
    /\ books.rows \subseteq HistoryRow
    /\ books.traversals \subseteq Traversal
    /\ books.claimed \in BOOLEAN
    /\ \A report \in books.reports : report.policy \in Policies
    /\ outcome.said \in {"none", "appended", "conflict", "accepted", "refused"}

NoCapture == [step |-> "idle"]

EpochInit ==
    /\ instant = 0
    /\ wallet = [moved |-> {}, restated |-> {}, capture |-> NoCapture]
    /\ books = [anchors |-> {}, rows |-> {}, traversals |-> {}, reports |-> {},
                claimed |-> FALSE]
    /\ outcome = Calm

-----------------------------------------------------------------------------
(* The account.                                                             *)

Moved(name) == \E at \in Instants : <<name, at>> \in wallet.moved

Fills == {move \in wallet.moved : MovementOf[move[1]].kind = "fill"}

InstantPasses ==
    /\ instant < LastInstant
    /\ instant' = instant + 1
    /\ outcome' = Calm
    /\ UNCHANGED <<wallet, books>>

Happens(name) ==
    /\ ~Moved(name)
    /\ (MovementOf[name].kind = "fill") =>
           ~\E fill \in Fills : MovementOf[fill[1]].closes
    /\ wallet' = [wallet EXCEPT !.moved = @ \cup {<<name, instant>>}]
    /\ outcome' = Calm
    /\ UNCHANGED <<instant, books>>

\* The exchange shows a transaction with another amount, or revises a closed profit.
IsRestated(stream, name) ==
    /\ Moved(name)
    /\ (stream = "closes") => MovementOf[name].closes
    /\ wallet' = [wallet EXCEPT !.restated = @ \cup {<<stream, name>>}]
    /\ outcome' = Calm
    /\ UNCHANGED <<instant, books>>

\* What the exchange has of a stream.
RowsOf(stream) ==
    {[stream  |-> stream,
      of      |-> move[1],
      at      |-> move[2],
      content |-> IF <<stream, move[1]>> \in wallet.restated THEN "other" ELSE "first",
      fills   |-> IF stream = "closes" THEN Cardinality(Fills) ELSE 0] :
        move \in {move \in wallet.moved :
                    CASE stream = "transactions" -> TRUE
                      [] stream = "executions"   -> MovementOf[move[1]].kind = "fill"
                      [] stream = "closes"       -> MovementOf[move[1]].closes}}

\* What the wallet holds of a coin once the moves have happened; it began with 2.
Holding(of, moves) ==
    (IF of \in Included THEN 2 ELSE 0)
    + MapThenSumSet(LAMBDA move : MovementOf[move[1]].amount,
                    {move \in moves : MovementOf[move[1]].coin = of})

-----------------------------------------------------------------------------
(* An anchor: the exchange's time, the identity, the wallet, the time.      *)

BeginCapture(kind) ==
    /\ wallet.capture.step = "idle"
    /\ instant < LastInstant
    /\ wallet' = [wallet EXCEPT !.capture = [step |-> "begun", kind |-> kind,
                                             before |-> instant]]
    /\ outcome' = Calm
    /\ UNCHANGED <<instant, books>>

\* The exchange takes the balances; its answer carries the time it is given.
WalletIsRead ==
    /\ wallet.capture.step = "begun"
    /\ instant < LastInstant
    /\ instant' = instant + 1
    /\ wallet' = [wallet EXCEPT !.capture =
                     [step |-> "read", kind |-> @.kind, before |-> @.before,
                      read |-> instant,
                      balance |-> [of \in CoinsHeld |-> Holding(of, wallet.moved)]]]
    /\ outcome' = Calm
    /\ UNCHANGED books

WalletIsAnswered ==
    /\ wallet.capture.step = "read"
    /\ wallet' = [wallet EXCEPT !.capture =
                     [step |-> "answered", kind |-> @.kind, before |-> @.before,
                      read |-> @.read, balance |-> @.balance, boundary |-> instant]]
    /\ outcome' = Calm
    /\ UNCHANGED <<instant, books>>

\* The anchor is stored with the second reading of the clock.
KeepAnchor ==
    LET capture == wallet.capture
    IN  /\ capture.step = "answered"
        /\ books' = [books EXCEPT !.anchors = @ \cup
              {[kind |-> capture.kind, before |-> capture.before, read |-> capture.read,
                boundary |-> capture.boundary, after |-> instant,
                balance |-> capture.balance]}]
        /\ wallet' = [wallet EXCEPT !.capture = NoCapture]
        /\ outcome' = Calm
        /\ UNCHANGED instant

\* A request of the capture fails, or its times are out of order: nothing is stored.
CaptureFails ==
    /\ wallet.capture.step # "idle"
    /\ wallet' = [wallet EXCEPT !.capture = NoCapture]
    /\ outcome' = Calm
    /\ UNCHANGED <<instant, books>>

-----------------------------------------------------------------------------
(* The history and the runs, as the journal has them.                       *)

Journaled(stream) == {row \in books.rows : row.stream = stream}

\* Two contents of one transaction: both are kept, with the conflict.
Contradicted(name) ==
    \E one, two \in Journaled("transactions") :
        one.of = name /\ two.of = name /\ one.content # two.content

\* A span is imported for every stream but those the run loses.  A transaction that was
\* stored with another content is a conflict each time it is read.
ImportHistory(span, lost) ==
    LET number == Cardinality({traversal.number : traversal \in books.traversals}) + 1
        rows == {row \in UNION {RowsOf(stream) : stream \in Streams \ lost} :
                    row.at \in span[1] .. span[2]}
        disputed == {row.of : row \in
                        {row \in rows : row.stream = "transactions"
                            /\ \E known \in Journaled("transactions") :
                                  known.of = row.of /\ known.content # row.content}}
    IN  /\ span[2] <= instant
        /\ instant < LastInstant
        /\ number <= Imports
        /\ instant' = instant + 1
        /\ books' = [books EXCEPT
              !.rows = @ \cup rows,
              !.traversals = @ \cup
                  {[stream |-> stream, from |-> span[1], to |-> span[2],
                    number |-> number,
                    disputed |-> IF stream = "transactions" THEN disputed ELSE {}] :
                      stream \in Streams \ lost}]
        /\ outcome' = Calm
        /\ UNCHANGED wallet

\* A run records the exchange's id of the order that closes the position.
RunClaimsOrder ==
    /\ ~books.claimed
    /\ Fills # {}
    /\ books' = [books EXCEPT !.claimed = TRUE]
    /\ outcome' = Calm
    /\ UNCHANGED <<instant, wallet>>

-----------------------------------------------------------------------------
(* The epoch between two anchors, opening o and closing c.                  *)

InEpoch(at, o, c) == o.boundary < at /\ at <= c.boundary

\* A variant of InBracket that knows the capture of the opening only.
InOpeningBracket(at, o, c) == at \in o.before .. o.after

\* While an anchor was captured its wallet may or may not have had the movement.
InBracket(at, o, c) ==
    at \in (o.before .. o.after) \cup (c.before .. c.after)

Near(at, o, c) == InEpoch(at, o, c) \/ InBracket(at, o, c)

\* The history must cover both captures, from the first reading of the clock to the last.
CoverageSpan(o, c) == o.before .. c.after

OrderRow(row) == MovementOf[row.of].kind = "fill"

\* A scoped policy leaves out a transfer of a coin it does not account for.
Independent(policy, name) ==
    /\ policy = "scoped"
    /\ MovementOf[name].kind = "transfer"
    /\ MovementOf[name].coin \notin Included

\* One row for each transaction with one content, every execution, and the latest
\* revision of a closed profit.
Canonical ==
    {row \in books.rows :
        CASE row.stream = "transactions" -> ~Contradicted(row.of)
          [] row.stream = "executions"   -> TRUE
          [] row.stream = "closes"       ->
                (row.content = "other")
                \/ ~\E later \in Journaled("closes") :
                        later.of = row.of /\ later.content = "other"}

\* What a report is made from: the rows near the epoch; the account policy adds every
\* execution of an order closed in it, the scoped policy all that is linked by the order.
Selected(policy, o, c) ==
    LET near == {row \in Canonical : Near(row.at, o, c) /\ ~Independent(policy, row.of)}
        closed == \E row \in Journaled("closes") : InEpoch(row.at, o, c)
        linked == \E row \in near : OrderRow(row)
    IN  near \cup {row \in Canonical :
                      CASE policy = "account" -> row.stream = "executions" /\ closed
                        [] policy = "scoped"  -> OrderRow(row) /\ linked}

\* The imports that read some of what must be covered.
Relevant(stream, o, c) ==
    {traversal \in books.traversals :
        /\ traversal.stream = stream
        /\ traversal.from <= c.after
        /\ traversal.to >= o.before}

\* The contradicted transactions that stand in the way.
Blocking(policy, o, c) ==
    {name \in Movements :
        /\ Contradicted(name)
        /\ ~Independent(policy, name)
        /\ \/ \E row \in Journaled("transactions") : row.of = name /\ Near(row.at, o, c)
           \/ /\ policy = "scoped"
              /\ \/ \E traversal \in Relevant("transactions", o, c) :
                       name \in traversal.disputed
                 \/ /\ MovementOf[name].kind = "fill"
                    /\ \E row \in Selected(policy, o, c) : OrderRow(row)}

\* The instants of the stream that were read without a conflict that counts.
Covered(policy, stream, o, c) ==
    {at \in CoverageSpan(o, c) :
        \E traversal \in Relevant(stream, o, c) :
            /\ at \in traversal.from .. traversal.to
            /\ \A name \in traversal.disputed : Independent(policy, name)}

\* The selected rows of a stream that fall in the epoch.
EpochRows(selected, stream, o, c) ==
    {row \in selected : row.stream = stream /\ InEpoch(row.at, o, c)}

\* A transaction restated is of another amount.
RowAmount(row) == MovementOf[row.of].amount + (IF row.content = "other" THEN 1 ELSE 0)

\* An execution has no id in common with its transaction: order, quantity, price and
\* fee must pair them, and pair them alone.
SameTrade(execution, transaction) ==
    /\ OrderRow(transaction)
    /\ RowAmount(execution) = RowAmount(transaction)

PairedAlone(executions, trades) ==
    /\ \A execution \in executions :
          Cardinality({trade \in trades : SameTrade(execution, trade)}) = 1
    /\ \A trade \in trades :
          Cardinality({execution \in executions : SameTrade(execution, trade)}) = 1

\* What the opening balance becomes with the transactions.
Bridged(of, o, transactions) ==
    o.balance[of] + MapThenSumSet(RowAmount, {row \in transactions :
                                                 MovementOf[row.of].coin = of})

AccountedCoins(policy, o, c, transactions) ==
    IF policy = "scoped" THEN Included
    ELSE {of \in CoinsHeld :
            \/ of \in Included \/ o.balance[of] # 0 \/ c.balance[of] # 0
            \/ \E row \in transactions : MovementOf[row.of].coin = of}

\* Why a report is not ready.
Reasons(policy, selected, o, c) ==
    LET transactions == EpochRows(selected, "transactions", o, c)
        trades == {row \in transactions : OrderRow(row)}
        executions == EpochRows(selected, "executions", o, c)
        fillsOfOrder == {row \in selected : row.stream = "executions"}
        accounted == AccountedCoins(policy, o, c, transactions)
        reasons == [
            epoch     |-> ~(o.boundary < c.boundary),
            gap       |-> \E stream \in Streams :
                             Covered(policy, stream, o, c) # CoverageSpan(o, c),
            conflict  |-> Blocking(policy, o, c) # {},
            ambiguous |-> \E row \in selected : InBracket(row.at, o, c),
            unpaired  |-> ~PairedAlone(executions, trades),
            close     |-> \E close \in EpochRows(selected, "closes", o, c) :
                             Cardinality(fillsOfOrder) # close.fills,
            drift     |-> \E of \in accounted :
                             Bridged(of, o, transactions) # c.balance[of],
            currency  |-> ~(accounted \cup {MovementOf[row.of].coin : row \in transactions}
                               \subseteq Included)]
    IN  {reason \in DOMAIN reasons : reasons[reason]}

-----------------------------------------------------------------------------
(* Reports and their proof.                                                 *)

\* The run that recorded the order, when a profit of the epoch is its.
Lineage(selected, o, c) == books.claimed /\ EpochRows(selected, "closes", o, c) # {}

\* What the account policy's report names as its evidence: the transactions and closed
\* profits of the epoch, every import that overlaps the coverage, the conflicts.
AccountDependencies(selected, o, c) ==
    [rows      |-> EpochRows(selected, "transactions", o, c)
                   \cup EpochRows(selected, "closes", o, c),
     imports   |-> UNION {Relevant(stream, o, c) : stream \in Streams},
     conflicts |-> {name \in Movements :
                       /\ Contradicted(name)
                       /\ \E row \in Journaled("transactions") :
                             row.of = name /\ InEpoch(row.at, o, c)},
     lineage   |-> Lineage(selected, o, c)]

\* A variant of ScopedDependencies that names the rows of the epoch only.
EpochDependencies(selected, o, c) ==
    [rows      |-> {row \in selected : InEpoch(row.at, o, c)},
     imports   |-> [stream \in Streams |-> Covered("scoped", stream, o, c)],
     conflicts |-> Blocking("scoped", o, c),
     lineage   |-> Lineage(selected, o, c)]

\* The scoped report names all it selected, and of the imports only what they covered.
ScopedDependencies(selected, o, c) ==
    [rows      |-> selected,
     imports   |-> [stream \in Streams |-> Covered("scoped", stream, o, c)],
     conflicts |-> Blocking("scoped", o, c),
     lineage   |-> Lineage(selected, o, c)]

\* A report calculated from the journal as it is now; its id is of all but the content.
Calculated(policy, o, c) ==
    LET selected == Selected(policy, o, c)
    IN  [policy       |-> policy,
         opening      |-> o,
         closing      |-> c,
         dependencies |-> IF policy = "account" THEN AccountDependencies(selected, o, c)
                          ELSE ScopedDependencies(selected, o, c),
         content      |->
            [reasons      |-> Reasons(policy, selected, o, c),
             gaps         |-> [stream \in Streams |->
                                 CoverageSpan(o, c) \ Covered(policy, stream, o, c)],
             transactions |-> EpochRows(selected, "transactions", o, c),
             closes       |-> EpochRows(selected, "closes", o, c),
             owned        |-> Lineage(selected, o, c),
             conflicts    |-> Blocking(policy, o, c)]]

SameReport(one, two) == [one EXCEPT !.content = {}] = [two EXCEPT !.content = {}]

Pairs == {pair \in books.anchors \X books.anchors :
            pair[1].kind = "opening" /\ pair[2].kind = "closing"}

\* The report is stored, unless its id is that of a report with other contents.
Reconcile(policy, o, c) ==
    LET report == Calculated(policy, o, c)
        known == {stored \in books.reports : SameReport(stored, report)}
    IN  /\ <<o, c>> \in Pairs
        /\ IF \E stored \in known : stored.content # report.content
           THEN /\ outcome' = [said |-> "conflict", report |-> report]
                /\ UNCHANGED books
           ELSE /\ Cardinality(books.reports \cup {report}) <= Reports
                /\ outcome' = [said |-> "appended", report |-> report]
                /\ books' = [books EXCEPT !.reports = @ \cup {report}]
        /\ UNCHANGED <<instant, wallet>>

\* A proof calculates the report again and accepts it when nothing has changed.
Prove(report) ==
    /\ report \in books.reports
    /\ outcome' = [said   |-> IF /\ report.content.reasons = {}
                                 /\ Calculated(report.policy, report.opening,
                                               report.closing) = report
                              THEN "accepted" ELSE "refused",
                   report |-> report]
    /\ UNCHANGED <<instant, wallet, books>>

EpochNext ==
    \/ InstantPasses
    \/ \E name \in Movements : Happens(name)
    \/ \E stream \in {"transactions", "closes"}, name \in Movements :
          IsRestated(stream, name)
    \/ \E kind \in Kinds : BeginCapture(kind)
    \/ WalletIsRead
    \/ WalletIsAnswered
    \/ KeepAnchor
    \/ CaptureFails
    \/ \E span \in Spans, lost \in SUBSET Streams : ImportHistory(span, lost)
    \/ RunClaimsOrder
    \/ \E policy \in Policies, o, c \in books.anchors : Reconcile(policy, o, c)
    \/ \E report \in books.reports : Prove(report)

EpochSpec == EpochInit /\ [][EpochNext]_epochVars

-----------------------------------------------------------------------------
(* Properties.                                                              *)

\* What moved the wallet between its two readings, in the coins the policy accounts for.
TrueMoves(report) ==
    {move \in wallet.moved :
        /\ report.opening.read < move[2]
        /\ move[2] <= report.closing.read
        /\ (report.policy = "scoped") => MovementOf[move[1]].coin \in Included}

\* An accepted proof is of a true account: the transactions of the report are exactly
\* what moved the wallet between its two readings, whatever moved while the wallet was
\* read and whatever the imports lost; none is stored with two contents; every fill has
\* its execution; and a profit is the run's only as the run's records say now
\* (application/history-accounting-epoch.ts, history-accounting-proof.ts).
AcceptedIsTrue ==
    (outcome.said = "accepted") =>
        LET report == outcome.report
            moves == TrueMoves(report)
            executed == {<<row.of, row.at>> : row \in Journaled("executions")}
            profits == {move \in moves : MovementOf[move[1]].closes}
        IN  /\ {<<row.of, row.at>> : row \in report.content.transactions} = moves
            /\ {<<row.of, row.at>> : row \in report.content.closes} = profits
            /\ \A move \in moves :
                  /\ ~Contradicted(move[1])
                  /\ (MovementOf[move[1]].kind = "fill") => move \in executed
            /\ report.content.owned = (books.claimed /\ profits # {})

\* When the history comes to prove a period, its report can be stored beside the earlier
\* one that was not ready ("A later relevant history import can make an earlier report
\* fail proof validation; run reconciliation again to append a report against the updated
\* evidence", docs/operator-runbook.md): no other report has its id.
ReconciledAgain ==
    (outcome.said = "conflict") => outcome.report.content.reasons # {}

\* A scoped report names all its content is made of: one id never has two contents.
ScopedNamesAll ==
    (outcome.said = "conflict") => outcome.report.policy = "account"

=============================================================================
