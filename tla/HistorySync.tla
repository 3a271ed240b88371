----------------------------- MODULE HistorySync -----------------------------
(***************************************************************************)
(* history:sync: the account's history at the exchange, read window by     *)
(* window and page by page into the local observation journal              *)
(* (application/history-ingestion.ts, history-coverage.ts and              *)
(* adapters/sqlite/history-store.ts).                                      *)
(*                                                                         *)
(* No lease guards the journal: any number of runs may be alive at once,   *)
(* each working from the checkpoints it listed when it began, each store   *)
(* call a transaction of its own with the revision the run expects, and a  *)
(* run may die between any two of them.                                    *)
(*                                                                         *)
(* Time is counted in the units of the code (windows include both ends and *)
(* share them), the four streams are Sources, and every budget of a run is *)
(* a choice where the code compares it.                                    *)
(***************************************************************************)
EXTENDS Naturals

CONSTANTS
    Sources,     \* the streams of history
    Immutable,   \* those whose records may not change: executions, transactions
    Opening,     \* the moment the first run may start
    End,         \* bound: the last moment
    MaxWindow,   \* the longest window the exchange serves
    Replays,     \* the ranges the operator may ask for: <<first, last>>
    Syncs        \* bound: the runs, each one process

ASSUME HistoryAssumption ==
    /\ Immutable \subseteq Sources
    /\ Opening \in Nat /\ End \in Nat /\ Opening <= End /\ MaxWindow \in Nat \ {0}
    /\ Replays \subseteq Nat \X Nat /\ \A range \in Replays : range[1] < range[2]

VARIABLES
    today,     \* the exchange's clock
    offered,   \* the records the exchange has
    facts,     \* the observations stored
    disputes,  \* the records of which two contents are stored
    saved,     \* the checkpoints: a function of the windows begun
    sync       \* the runs

historyVars == <<today, offered, facts, disputes, saved, sync>>

-----------------------------------------------------------------------------
Moments == 0 .. End

SourceFact == [source : Sources, at : Moments, content : {"first", "other"}]

\* What the filters of a checkpoint say of the range it is part of.
Filters == [purpose : {"backfill", "recent-refresh", "explicit-replay"},
            from : Moments, to : Moments]

Window == [from : Moments, to : Moments]

\* The window a checkpoint is kept for.
Key == [source : Sources, filters : Filters, window : Window]

\* cursor counts the pages behind it; 0 is the cursor null, the first page.
Checkpoint == [status : {"paging", "partial", "traversed", "unavailable"},
               cursor : Moments,
               reason : {"none", "conflict", "expired", "other"},
               revision : Nat \ {0}]

\* A window a run has still to read: what its checkpoint said when the run began - the
\* cursor, the revision and whether a conflict was recorded - and the pages read since.
WorkItem == [key : Key, cursor : Moments, revision : Nat, disputed : BOOLEAN,
             pages : Nat]

\* A run; taken is the window whose page is on the way or stored, out of the queue.
Sync == [at : {"new", "reading", "page read", "conflict", "pages spent", "settling",
               "ended"},
         selected : SUBSET (Sources \X Filters),
         frozen : Moments,
         queue : SUBSET WorkItem,
         taken : SUBSET WorkItem,
         page : [records : SUBSET SourceFact, next : Moments],
         stopped : BOOLEAN,
         report : {"none", "COMPLETE", "PARTIAL"}]

NewSync == [at |-> "new", selected |-> {}, frozen |-> 0, queue |-> {}, taken |-> {},
            page |-> [records |-> {}, next |-> 0], stopped |-> FALSE,
            report |-> "none"]

HistoryTypeOK ==
    /\ today \in Moments
    /\ offered \subseteq SourceFact
    /\ facts \subseteq SourceFact
    /\ disputes \subseteq Sources \X Moments
    /\ DOMAIN saved \subseteq Key
    /\ \A key \in DOMAIN saved : saved[key] \in Checkpoint
    /\ DOMAIN sync = Syncs
    /\ \A p \in Syncs : sync[p] \in Sync

HistoryInit ==
    /\ today = Opening
    /\ offered = [source : Sources, at : 0 .. (Opening - 1), content : {"first"}]
    /\ facts = {}
    /\ disputes = {}
    /\ saved = [key \in {} |-> NewSync]
    /\ sync = [p \in Syncs |-> NewSync]

-----------------------------------------------------------------------------
\* The exchange.  Every moment has a record of every stream in the end, which may
\* appear late in it; one record is shown with another content later (bound).

Appeared(source) ==
    \E record \in offered : record.source = source /\ record.at = today

DayPasses ==
    /\ today < End
    /\ \A source \in Sources : Appeared(source)
    /\ today' = today + 1
    /\ UNCHANGED <<offered, facts, disputes, saved, sync>>

RecordAppears(source) ==
    /\ ~Appeared(source)
    /\ offered' = offered \cup {[source |-> source, at |-> today, content |-> "first"]}
    /\ UNCHANGED <<today, facts, disputes, saved, sync>>

RecordChanges(record) ==
    /\ \A known \in offered : known.content = "first"
    /\ offered' = (offered \ {record}) \cup {[record EXCEPT !.content = "other"]}
    /\ UNCHANGED <<today, facts, disputes, saved, sync>>

\* The page behind a cursor, the newest first; there are as many as moments.
PageOf(key, cursor) ==
    LET moment == key.window.to - cursor
    IN  [records |-> {record \in offered : record.source = key.source
                                           /\ record.at = moment},
         next    |-> IF moment = key.window.from THEN 0 ELSE cursor + 1]

-----------------------------------------------------------------------------
\* What a run selects.

Windows(from, to) ==
    {[from |-> start, to |-> IF start + MaxWindow < to THEN start + MaxWindow ELSE to] :
        start \in {moment \in from .. (to - 1) : (moment - from) % MaxWindow = 0}}

Expired(checkpoint) ==
    checkpoint.status = "unavailable" /\ checkpoint.reason = "expired"

Checkpoints(source) == {key \in DOMAIN saved : key.source = source}

Unfinished ==
    {<<key.source, key.filters>> : key \in
        {key \in DOMAIN saved : saved[key].status # "traversed" /\ ~Expired(saved[key])}}

Latest(moments) == CHOOSE moment \in moments : \A other \in moments : other <= moment

\* Where a source's next window begins: the end of what is covered or pending.
Boundary(source, frozen) ==
    Latest({0} \cup {key.window.to : key \in
                       {key \in Checkpoints(source) : saved[key].status = "traversed"
                                                      /\ key.window.to <= frozen}}
               \cup {pending[2].to : pending \in
                       {pending \in Unfinished : pending[1] = source}})

CatchUp(source, frozen) ==
    LET boundary == Boundary(source, frozen)
        from == IF boundary > 0 THEN boundary - 1
                ELSE IF frozen > MaxWindow THEN frozen - MaxWindow ELSE 0
    IN  IF boundary < frozen /\ from < frozen
        THEN {<<source, [purpose |-> "recent-refresh", from |-> from, to |-> frozen]>>}
        ELSE {}

Backfill(frozen) ==
    LET earlier == {key.filters : key \in
                      {key \in DOMAIN saved : key.filters.purpose = "backfill"}}
    IN  IF earlier = {} THEN [purpose |-> "backfill", from |-> 0, to |-> frozen]
        ELSE CHOOSE range \in earlier : \A other \in earlier : other.to <= range.to

\* rangesForSelection, for every stream a range is read from.
SelectionsAt(frozen) ==
    {Unfinished \cup UNION {CatchUp(source, frozen) : source \in Sources},
     Sources \X {Backfill(frozen)}}
    \cup {Sources \X {[purpose |-> "explicit-replay", from |-> range[1], to |-> range[2]]} :
            range \in {asked \in Replays : asked[2] <= frozen}}

KeysOf(selected) ==
    {[source |-> pair[1][1], filters |-> pair[1][2], window |-> pair[2]] :
        pair \in {pair \in selected \X Window :
                    pair[2] \in Windows(pair[1][2].from, pair[1][2].to)}}

ItemOf(key) ==
    IF key \notin DOMAIN saved
    THEN [key |-> key, cursor |-> 0, revision |-> 0, disputed |-> FALSE, pages |-> 0]
    ELSE [key      |-> key,
          cursor   |-> IF saved[key].status \in {"paging", "partial"}
                       THEN saved[key].cursor ELSE 0,
          revision |-> saved[key].revision,
          disputed |-> saved[key].reason = "conflict",
          pages    |-> 0]

\* The windows that are neither read to the end nor expired.
WorkItems(selected) ==
    {ItemOf(key) : key \in
        {key \in KeysOf(selected) :
            key \notin DOMAIN saved
            \/ (saved[key].status # "traversed" /\ ~Expired(saved[key]))}}

\* The order they are worked through in: each gets a page before one gets its next, the
\* oldest first.  Streams and filters come in an order of their own, any here.
Before(one, other) ==
    \/ one.pages < other.pages
    \/ /\ one.pages = other.pages
       /\ \/ one.key.window.from < other.key.window.from
          \/ /\ one.key.window.from = other.key.window.from
             /\ one.key.window.to < other.key.window.to

-----------------------------------------------------------------------------
\* The store.

SavedRevision(key) == IF key \in DOMAIN saved THEN saved[key].revision ELSE 0

\* checkExpectedRevision: nobody has written the window since it was listed.
Fresh(item) == SavedRevision(item.key) = item.revision

Save(key, status, cursor, reason) ==
    saved' = [other \in DOMAIN saved \cup {key} |->
                 IF other = key
                 THEN [status |-> status, cursor |-> cursor, reason |-> reason,
                       revision |-> SavedRevision(key) + 1]
                 ELSE saved[other]]

CursorFits(item) ==
    \/ item.cursor = 0
    \/ item.key \in DOMAIN saved /\ saved[item.key].cursor = item.cursor

\* The records of a page that differ from one stored, or arriving with it.
Disputed(records) ==
    {<<record.source, record.at>> : record \in
        {record \in records : record.source \in Immutable
            /\ \E fact \in facts : fact.source = record.source /\ fact.at = record.at
                                   /\ fact.content # record.content}}

ReasonAfterPage(key, conflicts) ==
    IF conflicts # {} THEN "conflict"
    ELSE IF key \notin DOMAIN saved \/ saved[key].status = "unavailable" THEN "none"
    ELSE saved[key].reason

CommitPage(item, page) ==
    LET conflicts == Disputed(page.records)
    IN  /\ facts' = facts \cup page.records
        /\ disputes' = disputes \cup conflicts
        /\ Save(item.key, IF page.next = 0 THEN "traversed" ELSE "paging",
                page.next, ReasonAfterPage(item.key, conflicts))

\* markCoverage: a conflict that is on record is not painted over.
MarkCoverage(item, status, cursor, reason) ==
    Save(item.key, status, cursor,
         IF status = "partial" /\ item.disputed THEN "conflict" ELSE reason)

-----------------------------------------------------------------------------
\* A run.

\* The windows whose turn it may be.
Heads(p) == {item \in sync[p].queue : \A other \in sync[p].queue : ~Before(other, item)}

KeptCursor(item) == IF item.key \in DOMAIN saved THEN saved[item.key].cursor ELSE 0

\* A call the store refuses ends the run, without a report.
Ends(p) == sync' = [sync EXCEPT ![p].at = "ended"]

Begin(p) ==
    /\ sync[p].at = "new"
    /\ \E selected \in SelectionsAt(today) :
          sync' = [sync EXCEPT ![p] = [NewSync EXCEPT !.at = "reading",
                                                      !.selected = selected,
                                                      !.frozen = today,
                                                      !.queue = WorkItems(selected)]]
    /\ UNCHANGED <<today, offered, facts, disputes, saved>>

\* A window is marked and left; when the run stops here, the rest is marked after it.
Leave(p, item, status, cursor, reason, stops) ==
    /\ UNCHANGED <<today, offered, facts, disputes>>
    /\ \/ /\ Fresh(item)
          /\ MarkCoverage(item, status, cursor, reason)
          /\ sync' = [sync EXCEPT ![p].queue = @ \ {item},
                                  ![p].taken = {},
                                  ![p].at = IF stops THEN "settling" ELSE "reading",
                                  ![p].stopped = stops]
       \/ /\ ~Fresh(item)
          /\ Ends(p)
          /\ UNCHANGED saved

Asking(p) == sync[p].at = "reading"

\* The deadline or the GET budget is spent before a page is asked for.
OutOfBudget(p) ==
    /\ Asking(p)
    /\ \E item \in Heads(p) : Leave(p, item, "partial", item.cursor, "other", TRUE)

\* The transport finds the deadline or its attempts spent.
TransportSpent(p) ==
    /\ Asking(p)
    /\ \E item \in Heads(p) : Leave(p, item, "partial", KeptCursor(item), "other", TRUE)

KeyRefused(p) ==
    /\ Asking(p)
    /\ \E item \in Heads(p) : Leave(p, item, "unavailable", KeptCursor(item), "other", TRUE)

\* Any other error.  The two reasons that let a window rest as expired come from no
\* reader of the repository.
PageUnavailable(p) ==
    /\ Asking(p)
    /\ \E item \in Heads(p) : Leave(p, item, "unavailable", KeptCursor(item), "other", FALSE)

\* The answer is not the page that was asked for, or its cursor has been seen: the
\* window starts over.
InvalidPage(p) ==
    /\ Asking(p)
    /\ \E item \in Heads(p) : Leave(p, item, "unavailable", 0, "other", FALSE)

ReadPage(p) ==
    /\ Asking(p)
    /\ \E item \in Heads(p) :
          sync' = [sync EXCEPT ![p].at = "page read",
                               ![p].queue = @ \ {item},
                               ![p].taken = {item},
                               ![p].page = PageOf(item.key, item.cursor)]
    /\ UNCHANGED <<today, offered, facts, disputes, saved>>

\* A variant of TooManyRows that saves the cursor of the page it does not store.
TooManyRowsSkipped(p) ==
    /\ sync[p].at = "page read"
    /\ \E item \in sync[p].taken :
          Leave(p, item, "partial", sync[p].page.next, "other", TRUE)

\* The page is one row too many: it is read again another time.
TooManyRows(p) ==
    /\ sync[p].at = "page read"
    /\ \E item \in sync[p].taken : Leave(p, item, "partial", item.cursor, "other", TRUE)

\* The window goes behind the others while it has pages to come.
CommitOf(p, item) ==
    LET page == sync[p].page
        moved == [item EXCEPT !.revision = @ + 1, !.cursor = page.next, !.pages = @ + 1]
    IN  \/ /\ Fresh(item) /\ CursorFits(item)
           /\ CommitPage(item, page)
           /\ \/ /\ Disputed(page.records) # {}
                 /\ sync' = [sync EXCEPT ![p].at = "conflict", ![p].taken = {moved}]
              \/ /\ Disputed(page.records) = {} /\ page.next = 0
                 /\ sync' = [sync EXCEPT ![p].at = "reading", ![p].taken = {}]
              \/ /\ Disputed(page.records) = {} /\ page.next # 0
                 /\ \/ sync' = [sync EXCEPT ![p].at = "reading", ![p].taken = {},
                                            ![p].queue = @ \cup {moved}]
                    \/ sync' = [sync EXCEPT ![p].at = "pages spent", ![p].taken = {moved}]
        \/ /\ ~(Fresh(item) /\ CursorFits(item))
           /\ Ends(p)
           /\ UNCHANGED <<facts, disputes, saved>>

Commit(p) ==
    /\ sync[p].at = "page read"
    /\ \E item \in sync[p].taken : CommitOf(p, item)
    /\ UNCHANGED <<today, offered>>

\* A page with a conflict leaves its window pending, whatever came after it.
MarkConflict(p) ==
    /\ sync[p].at = "conflict"
    /\ \E item \in sync[p].taken : Leave(p, item, "partial", item.cursor, "conflict", FALSE)

\* The pages a run may read of one window are spent.
PagesSpent(p) ==
    /\ sync[p].at = "pages spent"
    /\ \E item \in sync[p].taken : Leave(p, item, "partial", item.cursor, "other", FALSE)

\* persistRemainingWork: one marker for each range of a stream.
SameRange(one, other) ==
    one.key.source = other.key.source /\ one.key.filters = other.key.filters

Settle(p) ==
    /\ sync[p].at = "settling"
    /\ \E item \in Heads(p) :
          \/ /\ Fresh(item)
             /\ MarkCoverage(item, "partial", item.cursor, "other")
             /\ sync' = [sync EXCEPT ![p].queue = {other \in @ : ~SameRange(other, item)}]
          \/ /\ ~Fresh(item)
             /\ Ends(p)
             /\ UNCHANGED saved
    /\ UNCHANGED <<today, offered, facts, disputes>>

-----------------------------------------------------------------------------
\* The report.

\* A variant of Unqueried that overlooks a hole of one moment.
UnqueriedWide(source) ==
    \E key \in Checkpoints(source) :
        LET earlier == {other \in Checkpoints(source) :
                           other.window.from < key.window.from}
        IN  earlier # {} /\ \A other \in earlier :
                               other.window.to + 2 < key.window.from

\* A hole between two windows that no window covers.
Unqueried(source) ==
    \E key \in Checkpoints(source) :
        LET earlier == {other \in Checkpoints(source) :
                           other.window.from < key.window.from}
        IN  earlier # {} /\ \A other \in earlier :
                               other.window.to + 1 < key.window.from

StatusesOf(source) == {saved[key].status : key \in Checkpoints(source)}

SourceStatus(source) ==
    IF Checkpoints(source) = {} THEN "missing"
    ELSE IF "unavailable" \in StatusesOf(source) THEN "unavailable"
    ELSE IF "partial" \in StatusesOf(source) THEN "partial"
    ELSE IF "paging" \in StatusesOf(source) THEN "paging"
    ELSE IF Unqueried(source) THEN "partial"
    ELSE "traversed"

Pending ==
    \E source \in Sources : SourceStatus(source) \in {"missing", "partial", "unavailable"}

Report(p) ==
    /\ sync[p].at \in {"reading", "settling"} /\ sync[p].queue = {}
    /\ sync' = [sync EXCEPT ![p].at = "ended",
                            ![p].report = IF Pending \/ sync[p].stopped \/ disputes # {}
                                          THEN "PARTIAL" ELSE "COMPLETE"]
    /\ UNCHANGED <<today, offered, facts, disputes, saved>>

\* The process dies.
Crash(p) ==
    /\ sync[p].at \notin {"new", "ended"}
    /\ Ends(p)
    /\ UNCHANGED <<today, offered, facts, disputes, saved>>

SyncStep(p) ==
    \/ Begin(p)
    \/ OutOfBudget(p)
    \/ TransportSpent(p)
    \/ KeyRefused(p)
    \/ PageUnavailable(p)
    \/ InvalidPage(p)
    \/ ReadPage(p)
    \/ TooManyRows(p)
    \/ Commit(p)
    \/ MarkConflict(p)
    \/ PagesSpent(p)
    \/ Settle(p)
    \/ Report(p)
    \/ Crash(p)

HistoryNext ==
    \/ DayPasses
    \/ \E source \in Sources : RecordAppears(source)
    \/ \E record \in offered : RecordChanges(record)
    \/ \E p \in Syncs : SyncStep(p)

HistorySpec == HistoryInit /\ [][HistoryNext]_historyVars

-----------------------------------------------------------------------------
\* What the exchange shows of a source from one moment up to another is stored.
Stored(source, from, to) ==
    \A record \in offered :
        (record.source = source /\ from <= record.at /\ record.at < to) =>
            \E fact \in facts : fact.source = source /\ fact.at = record.at

\* A window the journal calls traversed is stored whole, however many runs, dead
\* ones among them, read its pages; at its last moment records may still arrive.
TraversedIsStored ==
    \A key \in DOMAIN saved :
        saved[key].status = "traversed" =>
            Stored(key.source, key.window.from, key.window.to)

\* The last moment of a window behind which another begins, without sharing it.
Seam(source, moment) ==
    \E one, other \in Checkpoints(source) :
        one.window.to = moment /\ other.window.from = moment + 1

StoredButSeams(source, from, to) ==
    \A record \in offered :
        (/\ record.source = source /\ from <= record.at /\ record.at < to
         /\ ~Seam(source, record.at)) =>
            \E fact \in facts : fact.source = source /\ fact.at = record.at

\* When a run reports COMPLETE, every stream is stored from the first of its windows
\* to the last, and over all the run selected, to the record: but for what arrived late
\* at the last moment of a window behind which another begins, as only replays the
\* operator asked for do (Unqueried takes them for joined); and but for the streams of
\* which another run, dead or still alive, has left a window in the middle of its pages:
\* those the report does not count as pending.
CompleteIsTrue ==
    [][\A p \in Syncs, source \in Sources :
          (/\ sync[p].report = "none" /\ sync'[p].report = "COMPLETE"
           /\ "paging" \notin StatusesOf(source)) =>
              /\ \A first, last \in Checkpoints(source) :
                    StoredButSeams(source, first.window.from, last.window.to)
              /\ \A range \in {chosen[2] : chosen \in {pair \in sync[p].selected :
                                                         pair[1] = source}} :
                    Stored(source, range.from, range.to)]_historyVars
=============================================================================
