-------------------------- MODULE LocalStoreProofs ---------------------------
(***************************************************************************)
(* Proofs about what the program keeps on its machine: the database, whose *)
(* files any process may open and upgrade (DatabaseOpening), the           *)
(* credentials in the Keychain (CredentialStore), and the journal of the   *)
(* account's history (HistorySync).                                        *)
(*                                                                         *)
(* What a process has to know of the file it found earlier still holds     *)
(* later because two things only ever happen to the file: its marker goes  *)
(* to the release of the processes that have it open, which is one release,*)
(* and its identity goes from none to one, after that.  So a process whose *)
(* early look at the identity is stale finds the ladder climbed.           *)
(*                                                                         *)
(* The records of a credential are written one by one and any call may     *)
(* fail.  What a command has to know at each step is what it found, what it*)
(* has overwritten since and what it has read back; a command that says it *)
(* failed has put back what was there, or it says that it did not.         *)
(*                                                                         *)
(* The journal of the history is written page by page by any number of     *)
(* runs (HistorySync).  A cursor never runs ahead of the pages stored      *)
(* behind it, so a window that is traversed is stored, whoever read it; and*)
(* a run that reports COMPLETE finds each of its windows saved, and no hole*)
(* between the windows of a stream.                                        *)
(***************************************************************************)
EXTENDS DatabaseOpening, CredentialStore, HistorySync, WellFoundedInduction, TLAPS

Lease == "operator_mainnet_test_write_intents.lease"

\* The ladder is a function of the versions.
LEMMA LadderOfVersions ==
    /\ DOMAIN Migrations = Versions
    /\ Migrations[9] = {}
    /\ "artifacts.scope" \in Migrations[4]
BY DEF Migrations, Versions, authorityAccountScopeMigration

\* Only the ninth version takes something away.
LEMMA NinthDrops ==
    /\ Dropped(9) = {Lease}
    /\ \A version \in Versions : (version # 9) => (Dropped(version) = {})
BY DEF Dropped, Versions, Lease, operatorMainnetTestLeaseFreeMigration

\* What the ninth takes away does not come back.
LEMMA LeaseStaysAway == \A version \in 10 .. 15 : Lease \notin Migrations[version]
<1> SUFFICES ASSUME NEW version \in 10 .. 15
             PROVE  Lease \notin Migrations[version]
  OBVIOUS
<1>1. version \in {10, 11, 12, 13, 14, 15}
  OBVIOUS
<1>2. /\ Migrations[10] = operatorMainnetRecoveryMigration
      /\ Migrations[11] = historyIngestionMigration
      /\ Migrations[12] = historyAccountingAnchorsMigration
      /\ Migrations[13] = historyAccountingReportsMigration
      /\ Migrations[14] = operatorMainnetTradeCommandMigration
      /\ Migrations[15] = shadowMarketReportsMigration
  BY DEF Migrations
<1>3. /\ Lease \notin operatorMainnetRecoveryMigration
      /\ Lease \notin historyIngestionMigration
      /\ Lease \notin historyAccountingAnchorsMigration
      /\ Lease \notin historyAccountingReportsMigration
      /\ Lease \notin operatorMainnetTradeCommandMigration
      /\ Lease \notin shadowMarketReportsMigration
  BY DEF Lease, operatorMainnetRecoveryMigration, historyIngestionMigration,
         historyAccountingAnchorsMigration, historyAccountingReportsMigration,
         operatorMainnetTradeCommandMigration, shadowMarketReportsMigration
<1> QED
  BY <1>1, <1>2, <1>3

\* One version more adds its objects and takes away those it drops.
LEMMA SchemaClimbs ==
    ASSUME NEW version \in 0 .. 14
    PROVE  SchemaOf(version + 1) =
              (SchemaOf(version) \ Dropped(version + 1)) \cup Migrations[version + 1]
<1>1. 1 .. (version + 1) = (1 .. version) \cup {version + 1}
  OBVIOUS
<1>2. version + 1 \in Versions /\ (1 .. version) \subseteq Versions
  BY DEF Versions
<1>3. \A object :
         object \in SchemaOf(version + 1) <=>
            /\ (\E v \in 1 .. version : object \in Migrations[v])
                  \/ object \in Migrations[version + 1]
            /\ \A v \in 1 .. version : object \notin Dropped(v)
            /\ object \notin Dropped(version + 1)
  BY <1>1 DEF SchemaOf
<1>4. \A object :
         object \in SchemaOf(version) <=>
            /\ \E v \in 1 .. version : object \in Migrations[v]
            /\ \A v \in 1 .. version : object \notin Dropped(v)
  BY DEF SchemaOf
<1>5. \A object \in Migrations[version + 1] :
         /\ \A v \in 1 .. version : object \notin Dropped(v)
         /\ object \notin Dropped(version + 1)
  <2>1. CASE version + 1 = 9
    BY <2>1, LadderOfVersions
  <2>2. CASE version + 1 < 9
    <3>1. \A v \in 1 .. (version + 1) : v \in Versions /\ v # 9
      BY <2>2 DEF Versions
    <3> QED
      BY <3>1, <1>1, NinthDrops
  <2>3. CASE version + 1 > 9
    <3>1. version + 1 \in 10 .. 15
      BY <2>3
    <3>2. Lease \notin Migrations[version + 1]
      BY <3>1, LeaseStaysAway
    <3> QED
      BY <3>1, <3>2, <1>2, NinthDrops
  <2> QED
    BY <2>1, <2>2, <2>3
<1> QED
  BY <1>3, <1>4, <1>5

\* Before the first version there is nothing.
LEMMA SchemaOfNone == SchemaOf(0) = {}
BY DEF SchemaOf

\* From the fourth version on an artifact has a scope.
LEMMA ScopedSinceFour ==
    ASSUME NEW version \in 4 .. 15
    PROVE  "artifacts.scope" \in SchemaOf(version)
<1>1. \A v \in 1 .. version : "artifacts.scope" \notin Dropped(v)
  BY NinthDrops DEF Versions, Lease
<1>2. 4 \in 1 .. version
  OBVIOUS
<1> QED
  BY <1>1, <1>2, LadderOfVersions DEF SchemaOf

----------------------------------------------------------------------------
(* The invariant *)

\* What the rows are known by.
KeysIn(rows) == {KeyOf(row) : row \in rows}

\* The rows of a file are of one environment; only an artifact may have no scope yet, and
\* only before the fourth version.
RowsAreWhole(content) ==
    \A row \in content.rows :
        /\ row.scope.environment = content.identity
        /\ row.owner = row.scope
              \/ (row.kind = "artifact" /\ row.owner = Unset /\ content.marker < 4)

SchemaIsLadder(content) == content.schema = SchemaOf(content.marker)

FileIsWhole ==
    /\ RowsAreWhole(file)
    /\ (file.marker > 0) => SchemaIsLadder(file)
    /\ kept = KeysIn(file.rows)

\* The processes that have the file open are of one release.
OneRelease ==
    \A p, q \in Openers : (~At(p, "idle") /\ ~At(q, "idle")) => (Release[p] = Release[q])

WriterMigrates == \A p \in Openers : (writer = p) <=> At(p, "migrating")

RequestsAreWhole ==
    \A p \in Openers : ~At(p, "idle") =>
        /\ opener[p].environment \in Environments
        /\ (opener[p].store = "journal") => (opener[p].scope \in AccountScopes)

PlaceIsPrivate ==
    \A p \in Openers :
        opener[p].at \in Stages \ {"idle", "begun"} =>
            (place = [directory |-> "private", file |-> "private"])

\* A process that asked for another environment than the file's is behind the file.
LookIsStillGood ==
    \A p \in Openers :
        opener[p].at \in {"checked", "migrating"} =>
            (Compatible(file.identity, opener[p].environment) \/ file.marker = Release[p])

\* The draft is the file, some steps of the ladder on.
DraftClimbs ==
    \A p \in Openers : At(p, "migrating") =>
        /\ opener[p].draft.identity = file.identity
        /\ KeysIn(opener[p].draft.rows) = kept
        /\ opener[p].draft.marker \in 0 .. Release[p]
        /\ RowsAreWhole(opener[p].draft)
        /\ SchemaIsLadder(opener[p].draft)

MarkerIsReached ==
    \A p \in Openers :
        opener[p].at \in {"migrated", "identified", "open"} => (file.marker = Release[p])

IdentityIsHeld ==
    \A p \in Openers :
        opener[p].at \in {"identified", "open"} => (file.identity = opener[p].environment)

JournalIsOwn ==
    \A p \in Openers :
        (At(p, "open") /\ opener[p].store = "journal") =>
            (opener[p].scope.environment = opener[p].environment)

DatabaseInv ==
    /\ DatabaseTypeOK
    /\ FileIsWhole
    /\ OneRelease
    /\ WriterMigrates
    /\ RequestsAreWhole
    /\ PlaceIsPrivate
    /\ LookIsStillGood
    /\ DraftClimbs
    /\ MarkerIsReached
    /\ IdentityIsHeld
    /\ JournalIsOwn

----------------------------------------------------------------------------
(* The steps *)

\* The record a process has while it has the file open.
OpenerRecords == [at : Stages, store : Stores, environment : Environments \cup {Unset},
                  scope : Scopes \cup {Unset}, draft : Contents]

\* A step of the ladder keeps what the rows are known by and whose they are.
LEMMA ClimbIsWhole ==
    ASSUME NEW content \in Contents, NEW version \in Versions, version = content.marker + 1,
           Applicable(content, version), RowsAreWhole(content), SchemaIsLadder(content)
    PROVE  /\ Applied(content, version) \in Contents
           /\ Applied(content, version).marker = version
           /\ Applied(content, version).identity = content.identity
           /\ KeysIn(Applied(content, version).rows) = KeysIn(content.rows)
           /\ RowsAreWhole(Applied(content, version))
           /\ SchemaIsLadder(Applied(content, version))
<1> DEFINE next == Applied(content, version)
           rows == IF version = 4 THEN {Bound(row) : row \in content.rows}
                                  ELSE content.rows
<1>1. next = [marker |-> version, identity |-> content.identity,
              schema |-> (content.schema \ Dropped(version)) \cup Migrations[version],
              rows |-> rows]
  <2>1. /\ DOMAIN next = DOMAIN content
        /\ next.marker = version /\ next.identity = content.identity
        /\ next.schema = (content.schema \ Dropped(version)) \cup Migrations[version]
        /\ next.rows = rows
    BY DEF Applied, Contents
  <2>2. DOMAIN content = {"marker", "identity", "schema", "rows"}
    BY DEF Contents
  <2>3. next = [field \in DOMAIN next |-> next[field]]
    BY DEF Applied
  <2> QED
    BY <2>1, <2>2, <2>3
<1>2. \A row \in content.rows :
         /\ row \in Rows
         /\ Bound(row) \in Rows
         /\ Bound(row).kind = row.kind /\ Bound(row).scope = row.scope
         /\ Bound(row).referenced = row.referenced
         /\ Bound(row).owner \in {row.owner, row.scope}
  BY DEF Contents, Bound, Rows
<1>3. rows \in SUBSET Rows
  BY <1>2 DEF Contents
<1>4. next \in Contents
  <2>1. content.schema \cup Migrations[version] \subseteq SchemaObjects
    BY DEF Contents, SchemaObjects
  <2>2. version \in 0 .. 15
    BY DEF Versions
  <2> QED
    BY <1>1, <1>3, <2>1, <2>2 DEF Contents
<1>5. KeysIn(next.rows) = KeysIn(content.rows)
  <2>1. \A row \in content.rows : KeyOf(Bound(row)) = KeyOf(row)
    BY <1>2 DEF KeyOf
  <2>2. KeysIn({Bound(row) : row \in content.rows}) = KeysIn(content.rows)
    BY <2>1 DEF KeysIn
  <2>3. next.rows = rows
    BY <1>1
  <2> QED
    BY <2>2, <2>3
<1>6. RowsAreWhole(next)
  <2>1. CASE version = 4
    <3>1. \A row \in content.rows :
             /\ Bound(row).owner # Unset
             /\ row.scope.environment = content.identity
             /\ row.owner = row.scope \/ row.owner = Unset
      BY <2>1 DEF Applicable, RowsAreWhole
    <3>2. \A row \in content.rows :
             /\ Bound(row).scope.environment = content.identity
             /\ Bound(row).owner = Bound(row).scope
      BY <1>2, <3>1
    <3> QED
      BY <1>1, <2>1, <3>2 DEF RowsAreWhole
  <2>2. CASE version # 4
    <3>1. (content.marker < 4) => (version < 4)
      BY <2>2 DEF Contents
    <3> QED
      BY <1>1, <2>2, <3>1 DEF RowsAreWhole
  <2> QED
    BY <2>1, <2>2
<1>7. SchemaIsLadder(next)
  <2>1. content.marker \in 0 .. 14
    BY DEF Contents, Versions
  <2>2. SchemaOf(version) =
            (SchemaOf(content.marker) \ Dropped(version)) \cup Migrations[version]
    BY <2>1, SchemaClimbs
  <2>3. next.marker = version
        /\ next.schema = (content.schema \ Dropped(version)) \cup Migrations[version]
    BY <1>1
  <2> QED
    BY <2>2, <2>3 DEF SchemaIsLadder
<1> QED
  BY <1>1, <1>4, <1>5, <1>6, <1>7

\* A process that goes on changes nothing but its stage.
LEMMA MovedOn ==
    ASSUME NEW p \in Openers, NEW stage \in Stages, DatabaseTypeOK, Move(p, stage)
    PROVE  /\ opener' \in [Openers -> OpenerRecords]
           /\ opener'[p].at = stage
           /\ opener'[p].store = opener[p].store
           /\ opener'[p].environment = opener[p].environment
           /\ opener'[p].scope = opener[p].scope
           /\ opener'[p].draft = opener[p].draft
           /\ \A q \in Openers \ {p} : opener'[q] = opener[q]
BY DEF DatabaseTypeOK, Move, OpenerRecords

\* A process that goes on without writing, having seen what its next stage asks for.
LEMMA QuietMoves ==
    ASSUME DatabaseInv, NEW p \in Openers, NEW stage \in Stages \ {"idle", "migrating"},
           ~At(p, "idle"), ~At(p, "migrating"), Move(p, stage),
           UNCHANGED <<file, writer, kept>>,
           place' = place \/ place' = [directory |-> "private", file |-> "private"],
           stage \in Stages \ {"idle", "begun"} =>
               (place' = [directory |-> "private", file |-> "private"]),
           (stage = "checked") =>
               (Compatible(file.identity, opener[p].environment)
                   \/ file.marker = Release[p]),
           stage \in {"migrated", "identified", "open"} => (file.marker = Release[p]),
           stage \in {"identified", "open"} => (file.identity = opener[p].environment),
           (stage = "open" /\ opener[p].store = "journal") =>
               (opener[p].scope.environment = opener[p].environment)
    PROVE  DatabaseInv'
<1>1. /\ opener' \in [Openers -> OpenerRecords]
      /\ opener'[p].at = stage
      /\ opener'[p].store = opener[p].store
      /\ opener'[p].environment = opener[p].environment
      /\ opener'[p].scope = opener[p].scope
      /\ opener'[p].draft = opener[p].draft
      /\ \A q \in Openers \ {p} : opener'[q] = opener[q]
  BY MovedOn DEF DatabaseInv
<1>2. DatabaseTypeOK'
  BY <1>1 DEF DatabaseInv, DatabaseTypeOK, OpenerRecords
<1>3. FileIsWhole'
  BY DEF DatabaseInv, FileIsWhole, RowsAreWhole, SchemaIsLadder
<1>4. OneRelease'
  BY <1>1 DEF DatabaseInv, OneRelease, At
<1>5. WriterMigrates'
  BY <1>1 DEF DatabaseInv, WriterMigrates, At
<1>6. RequestsAreWhole'
  BY <1>1 DEF DatabaseInv, RequestsAreWhole, At
<1>7. PlaceIsPrivate'
  BY <1>1 DEF DatabaseInv, PlaceIsPrivate
<1>8. LookIsStillGood'
  BY <1>1 DEF DatabaseInv, LookIsStillGood
<1>9. DraftClimbs'
  BY <1>1 DEF DatabaseInv, DraftClimbs, At
<1>10. MarkerIsReached'
  BY <1>1 DEF DatabaseInv, MarkerIsReached
<1>11. IdentityIsHeld'
  BY <1>1 DEF DatabaseInv, IdentityIsHeld
<1>12. JournalIsOwn'
  BY <1>1 DEF DatabaseInv, JournalIsOwn, At
<1> QED
  BY <1>2, <1>3, <1>4, <1>5, <1>6, <1>7, <1>8, <1>9, <1>10, <1>11, <1>12 DEF DatabaseInv

\* A process that comes, or goes, leaves the file as it is.
LEMMA ComesAndGoes ==
    ASSUME DatabaseInv, NEW p \in Openers, NEW record \in OpenerRecords,
           opener' = [opener EXCEPT ![p] = record], UNCHANGED <<file, place, kept>>,
           writer' = IF writer = p THEN Unset ELSE writer,
           record.at \in {"idle", "begun"},
           (record.at # "idle") =>
               /\ \A q \in Openers : At(q, "idle") \/ Release[q] = Release[p]
               /\ record.environment \in Environments
               /\ (record.store = "journal") => (record.scope \in AccountScopes)
    PROVE  DatabaseInv'
<1>1. /\ opener' \in [Openers -> OpenerRecords]
      /\ opener'[p] = record
      /\ \A q \in Openers \ {p} : opener'[q] = opener[q]
  BY DEF DatabaseInv, DatabaseTypeOK, OpenerRecords
<1>2. DatabaseTypeOK'
  BY <1>1 DEF DatabaseInv, DatabaseTypeOK, OpenerRecords
<1>3. FileIsWhole'
  BY DEF DatabaseInv, FileIsWhole, RowsAreWhole, SchemaIsLadder
<1>4. OneRelease'
  BY <1>1 DEF DatabaseInv, OneRelease, At
<1>5. WriterMigrates'
  BY <1>1, UnsetAssumption DEF DatabaseInv, WriterMigrates, At
<1>6. RequestsAreWhole'
  BY <1>1 DEF DatabaseInv, RequestsAreWhole, At
<1>7. PlaceIsPrivate'
  BY <1>1 DEF DatabaseInv, PlaceIsPrivate
<1>8. LookIsStillGood'
  BY <1>1 DEF DatabaseInv, LookIsStillGood
<1>9. DraftClimbs'
  BY <1>1 DEF DatabaseInv, DraftClimbs, At
<1>10. MarkerIsReached'
  BY <1>1 DEF DatabaseInv, MarkerIsReached
<1>11. IdentityIsHeld'
  BY <1>1 DEF DatabaseInv, IdentityIsHeld
<1>12. JournalIsOwn'
  BY <1>1 DEF DatabaseInv, JournalIsOwn, At
<1> QED
  BY <1>2, <1>3, <1>4, <1>5, <1>6, <1>7, <1>8, <1>9, <1>10, <1>11, <1>12 DEF DatabaseInv

\* The migrations begin with the file as it is.
LEMMA BeginningKeeps ==
    ASSUME DatabaseInv, NEW p \in Openers, BeginMigrations(p)
    PROVE  DatabaseInv'
<1>1. /\ opener' \in [Openers -> OpenerRecords]
      /\ opener'[p].at = "migrating" /\ opener'[p].draft = file
      /\ opener'[p].store = opener[p].store
      /\ opener'[p].environment = opener[p].environment
      /\ opener'[p].scope = opener[p].scope
      /\ \A q \in Openers \ {p} : opener'[q] = opener[q]
  BY DEF DatabaseInv, DatabaseTypeOK, OpenerRecords, BeginMigrations, Stages
<1>2. At(p, "checked") /\ writer = Unset /\ writer' = p /\ file' = file /\ place' = place
      /\ kept' = kept
  BY DEF BeginMigrations
<1>3. DatabaseTypeOK'
  BY <1>1, <1>2 DEF DatabaseInv, DatabaseTypeOK, OpenerRecords
<1>4. FileIsWhole'
  BY <1>2 DEF DatabaseInv, FileIsWhole, RowsAreWhole, SchemaIsLadder
<1>5. OneRelease'
  BY <1>1, <1>2 DEF DatabaseInv, OneRelease, At
<1>6. WriterMigrates'
  BY <1>1, <1>2, UnsetAssumption DEF DatabaseInv, WriterMigrates, At
<1>7. RequestsAreWhole'
  BY <1>1, <1>2 DEF DatabaseInv, RequestsAreWhole, At
<1>8. PlaceIsPrivate'
  BY <1>1, <1>2 DEF DatabaseInv, PlaceIsPrivate, At, Stages
<1>9. LookIsStillGood'
  BY <1>1, <1>2 DEF DatabaseInv, LookIsStillGood, At
<1>10. DraftClimbs'
  <2>1. \A q \in Openers \ {p} : ~(At(q, "migrating")')
    BY <1>1, <1>2, UnsetAssumption DEF DatabaseInv, WriterMigrates, At
  <2>2. file.marker \in 0 .. Release[p]
    BY ReleaseAssumption
    DEF BeginMigrations, DatabaseInv, DatabaseTypeOK, Contents, Versions
  <2>3. SchemaIsLadder(file)
    <3>1. CASE file.marker = 0
      BY <3>1, SchemaOfNone DEF BeginMigrations, SchemaIsLadder
    <3>2. CASE file.marker > 0
      BY <3>2 DEF DatabaseInv, FileIsWhole
    <3> QED
      BY <3>1, <3>2, <2>2
  <2>4. RowsAreWhole(file) /\ kept = KeysIn(file.rows)
    BY DEF DatabaseInv, FileIsWhole
  <2> QED
    BY <1>1, <1>2, <2>1, <2>2, <2>3, <2>4 DEF DraftClimbs
<1>11. MarkerIsReached'
  BY <1>1, <1>2 DEF DatabaseInv, MarkerIsReached
<1>12. IdentityIsHeld'
  BY <1>1, <1>2 DEF DatabaseInv, IdentityIsHeld
<1>13. JournalIsOwn'
  BY <1>1, <1>2 DEF DatabaseInv, JournalIsOwn, At
<1> QED
  BY <1>3, <1>4, <1>5, <1>6, <1>7, <1>8, <1>9, <1>10, <1>11, <1>12, <1>13 DEF DatabaseInv

\* A version is applied to the draft.
LEMMA MigrationKeeps ==
    ASSUME DatabaseInv, NEW p \in Openers, Migrate(p)
    PROVE  DatabaseInv'
<1> DEFINE draft == opener[p].draft
           next == Applied(draft, draft.marker + 1)
<1>1. At(p, "migrating") /\ UNCHANGED <<file, place, writer, kept>>
  BY DEF Migrate
<1>2. /\ next \in Contents
      /\ next.marker = draft.marker + 1 /\ next.marker \in 0 .. Release[p]
      /\ next.identity = file.identity
      /\ KeysIn(next.rows) = kept
      /\ RowsAreWhole(next)
      /\ SchemaIsLadder(next)
  <2>1. /\ draft \in Contents
        /\ draft.identity = file.identity /\ KeysIn(draft.rows) = kept
        /\ draft.marker \in 0 .. Release[p]
        /\ RowsAreWhole(draft) /\ SchemaIsLadder(draft)
    BY <1>1 DEF DatabaseInv, DatabaseTypeOK, DraftClimbs
  <2>2. draft.marker + 1 \in Versions /\ draft.marker + 1 \in 0 .. Release[p]
    BY <2>1, ReleaseAssumption DEF Migrate, Versions
  <2>3. Applicable(draft, draft.marker + 1)
    BY DEF Migrate
  <2> HIDE DEF draft
  <2>4. \A version \in Versions :
           (version = draft.marker + 1 /\ Applicable(draft, version)) =>
              /\ Applied(draft, version) \in Contents
              /\ Applied(draft, version).marker = version
              /\ Applied(draft, version).identity = draft.identity
              /\ KeysIn(Applied(draft, version).rows) = KeysIn(draft.rows)
              /\ RowsAreWhole(Applied(draft, version))
              /\ SchemaIsLadder(Applied(draft, version))
    BY <2>1, ClimbIsWhole
  <2> QED
    BY <2>1, <2>2, <2>3, <2>4
<1>3. opener' = [opener EXCEPT ![p].draft = next]
  BY DEF Migrate
<1> HIDE DEF draft, next
<1>4. /\ opener' \in [Openers -> OpenerRecords]
      /\ opener'[p].at = opener[p].at /\ opener'[p].draft = next
      /\ opener'[p].store = opener[p].store
      /\ opener'[p].environment = opener[p].environment
      /\ opener'[p].scope = opener[p].scope
      /\ \A q \in Openers \ {p} : opener'[q] = opener[q]
  BY <1>2, <1>3 DEF DatabaseInv, DatabaseTypeOK, OpenerRecords
<1>5. DatabaseTypeOK'
  BY <1>1, <1>4 DEF DatabaseInv, DatabaseTypeOK, OpenerRecords
<1>6. FileIsWhole'
  BY <1>1 DEF DatabaseInv, FileIsWhole, RowsAreWhole, SchemaIsLadder
<1>7. OneRelease'
  BY <1>1, <1>4 DEF DatabaseInv, OneRelease, At
<1>8. WriterMigrates'
  BY <1>1, <1>4 DEF DatabaseInv, WriterMigrates, At
<1>9. RequestsAreWhole'
  BY <1>1, <1>4 DEF DatabaseInv, RequestsAreWhole, At
<1>10. PlaceIsPrivate'
  BY <1>1, <1>4 DEF DatabaseInv, PlaceIsPrivate, At, Stages
<1>11. LookIsStillGood'
  BY <1>1, <1>4 DEF DatabaseInv, LookIsStillGood, At
<1>12. DraftClimbs'
  BY <1>1, <1>2, <1>4 DEF DatabaseInv, DraftClimbs, At
<1>13. MarkerIsReached'
  BY <1>1, <1>4 DEF DatabaseInv, MarkerIsReached
<1>14. IdentityIsHeld'
  BY <1>1, <1>4 DEF DatabaseInv, IdentityIsHeld
<1>15. JournalIsOwn'
  BY <1>1, <1>4 DEF DatabaseInv, JournalIsOwn, At
<1> QED
  BY <1>5, <1>6, <1>7, <1>8, <1>9, <1>10, <1>11, <1>12, <1>13, <1>14, <1>15 DEF DatabaseInv

\* The draft becomes the file.
LEMMA CommitKeeps ==
    ASSUME DatabaseInv, NEW p \in Openers, CommitMigrations(p)
    PROVE  DatabaseInv'
<1>1. /\ opener' \in [Openers -> OpenerRecords]
      /\ opener'[p].at = "migrated"
      /\ opener'[p].store = opener[p].store
      /\ opener'[p].environment = opener[p].environment
      /\ opener'[p].scope = opener[p].scope
      /\ \A q \in Openers \ {p} : opener'[q] = opener[q]
  <2>1. Blank \in Contents
    BY DEF Blank, Contents
  <2> QED
    BY <2>1 DEF DatabaseInv, DatabaseTypeOK, OpenerRecords, CommitMigrations, Stages
<1>2. At(p, "migrating") /\ writer = p /\ writer' = Unset /\ place' = place
      /\ kept' = kept /\ file' = opener[p].draft
  BY DEF CommitMigrations, DatabaseInv, WriterMigrates
<1>3. /\ file' \in Contents
      /\ file'.identity = file.identity /\ KeysIn(file'.rows) = kept
      /\ file'.marker = Release[p]
      /\ RowsAreWhole(file') /\ SchemaIsLadder(file')
  BY <1>2 DEF DatabaseInv, DatabaseTypeOK, DraftClimbs, CommitMigrations
<1>4. \A q \in Openers \ {p} : ~At(q, "migrating") /\ ~(At(q, "migrating")')
  BY <1>1, <1>2 DEF DatabaseInv, WriterMigrates, At
<1>5. \A q \in Openers : ~At(q, "idle") => (Release[q] = Release[p])
  BY <1>2 DEF DatabaseInv, OneRelease, At
<1>6. DatabaseTypeOK'
  BY <1>1, <1>2, <1>3 DEF DatabaseInv, DatabaseTypeOK, OpenerRecords
<1>7. FileIsWhole'
  BY <1>2, <1>3 DEF FileIsWhole
<1>8. OneRelease'
  BY <1>1, <1>2 DEF DatabaseInv, OneRelease, At
<1>9. WriterMigrates'
  BY <1>1, <1>2, <1>4, UnsetAssumption DEF WriterMigrates, At
<1>10. RequestsAreWhole'
  BY <1>1, <1>2 DEF DatabaseInv, RequestsAreWhole, At
<1>11. PlaceIsPrivate'
  BY <1>1, <1>2 DEF DatabaseInv, PlaceIsPrivate, At, Stages
<1>12. LookIsStillGood'
  BY <1>1, <1>3, <1>5 DEF LookIsStillGood, At
<1>13. DraftClimbs'
  BY <1>1, <1>4 DEF DraftClimbs, At
<1>14. MarkerIsReached'
  BY <1>1, <1>3, <1>5 DEF MarkerIsReached, At
<1>15. IdentityIsHeld'
  BY <1>1, <1>3 DEF DatabaseInv, IdentityIsHeld
<1>16. JournalIsOwn'
  BY <1>1 DEF DatabaseInv, JournalIsOwn, At
<1> QED
  BY <1>6, <1>7, <1>8, <1>9, <1>10, <1>11, <1>12, <1>13, <1>14, <1>15, <1>16
  DEF DatabaseInv

\* The identity is there, and the process's own.
LEMMA IdentityKeeps ==
    ASSUME DatabaseInv, NEW p \in Openers, EnsureEnvironmentIdentity(p)
    PROVE  DatabaseInv'
<1>1. At(p, "migrated") /\ writer = Unset /\ writer' = writer /\ place' = place
      /\ kept' = kept /\ file' = [file EXCEPT !.identity = opener[p].environment]
      /\ Compatible(file.identity, opener[p].environment)
  BY DEF EnsureEnvironmentIdentity
<1>2. /\ opener' \in [Openers -> OpenerRecords]
      /\ opener'[p].at = "identified"
      /\ opener'[p].store = opener[p].store
      /\ opener'[p].environment = opener[p].environment
      /\ opener'[p].scope = opener[p].scope
      /\ opener'[p].draft = opener[p].draft
      /\ \A q \in Openers \ {p} : opener'[q] = opener[q]
  <2>1. "identified" \in Stages /\ Move(p, "identified")
    BY DEF EnsureEnvironmentIdentity, Stages
  <2> QED
    BY <2>1, MovedOn DEF DatabaseInv
<1>3. opener[p].environment \in Environments
  BY <1>1 DEF DatabaseInv, RequestsAreWhole, At
<1>4. /\ file' \in Contents
      /\ file'.identity = opener[p].environment
      /\ file'.marker = file.marker /\ file'.schema = file.schema
      /\ file'.rows = file.rows
  BY <1>1, <1>3 DEF DatabaseInv, DatabaseTypeOK, Contents
<1>5. \A q \in Openers : ~At(q, "migrating") /\ ~(At(q, "migrating")')
  BY <1>1, <1>2, UnsetAssumption DEF DatabaseInv, WriterMigrates, At
<1>6. file.marker = Release[p]
      /\ \A q \in Openers : ~At(q, "idle") => (Release[q] = Release[p])
  BY <1>1 DEF DatabaseInv, OneRelease, MarkerIsReached, At
<1>7. DatabaseTypeOK'
  BY <1>1, <1>2, <1>4 DEF DatabaseInv, DatabaseTypeOK, OpenerRecords
<1>8. FileIsWhole'
  <2>1. \A row \in file.rows : row.scope.environment \in Environments
    BY DEF DatabaseInv, DatabaseTypeOK, Contents, Rows, Scopes
  <2>2. \A row \in file.rows : row.scope.environment = opener[p].environment
    BY <1>1, <2>1, UnsetAssumption
    DEF DatabaseInv, FileIsWhole, RowsAreWhole, Compatible
  <2> QED
    BY <1>1, <1>4, <2>2 DEF DatabaseInv, FileIsWhole, RowsAreWhole, SchemaIsLadder
<1>9. OneRelease'
  BY <1>1, <1>2 DEF DatabaseInv, OneRelease, At
<1>10. WriterMigrates'
  BY <1>1, <1>5, UnsetAssumption DEF WriterMigrates, At
<1>11. RequestsAreWhole'
  BY <1>1, <1>2 DEF DatabaseInv, RequestsAreWhole, At
<1>12. PlaceIsPrivate'
  BY <1>1, <1>2 DEF DatabaseInv, PlaceIsPrivate, At, Stages
<1>13. LookIsStillGood'
  BY <1>2, <1>4, <1>6 DEF LookIsStillGood, At
<1>14. DraftClimbs'
  BY <1>5 DEF DraftClimbs, At
<1>15. MarkerIsReached'
  BY <1>2, <1>4, <1>6 DEF DatabaseInv, MarkerIsReached
<1>16. IdentityIsHeld'
  <2>1. ASSUME NEW q \in Openers \ {p}, opener[q].at \in {"identified", "open"}
        PROVE  opener[p].environment = opener[q].environment
    <3>1. file.identity = opener[q].environment /\ opener[q].environment \in Environments
      BY <2>1 DEF DatabaseInv, IdentityIsHeld, RequestsAreWhole, At
    <3> QED
      BY <1>1, <3>1, UnsetAssumption DEF Compatible
  <2> QED
    BY <1>2, <1>4, <2>1 DEF IdentityIsHeld
<1>17. JournalIsOwn'
  BY <1>2 DEF DatabaseInv, JournalIsOwn, At
<1> QED
  BY <1>7, <1>8, <1>9, <1>10, <1>11, <1>12, <1>13, <1>14, <1>15, <1>16, <1>17
  DEF DatabaseInv

\* A row of the file's environment is written by a process that has the file open.
LEMMA RowKeeps ==
    ASSUME DatabaseInv, NEW p \in Openers, NEW row \in Rows, CommitRow(p, row),
           row.scope.environment = opener[p].environment,
           row.owner = row.scope
              \/ (row.kind = "artifact" /\ row.owner = Unset /\ file.marker < 4)
    PROVE  DatabaseInv'
<1>1. At(p, "open") /\ writer = Unset /\ UNCHANGED <<place, opener, writer>>
      /\ file' = [file EXCEPT !.rows = @ \cup {row}] /\ kept' = kept \cup {KeyOf(row)}
  BY DEF CommitRow
<1>2. /\ file' \in Contents
      /\ file'.identity = file.identity /\ file'.marker = file.marker
      /\ file'.schema = file.schema /\ file'.rows = file.rows \cup {row}
  BY <1>1 DEF DatabaseInv, DatabaseTypeOK, Contents
<1>3. \A q \in Openers : ~At(q, "migrating")
  BY <1>1, UnsetAssumption DEF DatabaseInv, WriterMigrates, At
<1>4. DatabaseTypeOK'
  <2>1. KeyOf(row) \in [kind : RowKinds, scope : Scopes, referenced : BOOLEAN]
    BY DEF KeyOf, Rows
  <2> QED
    BY <1>1, <1>2, <2>1 DEF DatabaseInv, DatabaseTypeOK
<1>5. FileIsWhole'
  <2>1. file.identity = opener[p].environment
    BY <1>1 DEF DatabaseInv, IdentityIsHeld, At
  <2>2. KeysIn(file'.rows) = kept'
    BY <1>1, <1>2 DEF DatabaseInv, FileIsWhole, KeysIn
  <2>3. RowsAreWhole(file')
    BY <1>2, <2>1 DEF DatabaseInv, FileIsWhole, RowsAreWhole
  <2> QED
    BY <1>2, <2>2, <2>3 DEF DatabaseInv, FileIsWhole, SchemaIsLadder
<1>6. OneRelease' /\ WriterMigrates' /\ RequestsAreWhole' /\ JournalIsOwn'
  BY <1>1 DEF DatabaseInv, OneRelease, WriterMigrates, RequestsAreWhole, JournalIsOwn, At
<1>7. PlaceIsPrivate'
  BY <1>1 DEF DatabaseInv, PlaceIsPrivate
<1>8. LookIsStillGood' /\ MarkerIsReached' /\ IdentityIsHeld'
  BY <1>1, <1>2 DEF DatabaseInv, LookIsStillGood, MarkerIsReached, IdentityIsHeld
<1>9. DraftClimbs'
  BY <1>1, <1>3 DEF DraftClimbs, At
<1> QED
  BY <1>4, <1>5, <1>6, <1>7, <1>8, <1>9 DEF DatabaseInv

\* The rows of the stores are of the connection's environment and have their scope, except
\* an artifact of a journal that knows no scopes.
LEMMA StoresKeep ==
    ASSUME DatabaseInv, NEW p \in Openers,
           \/ WriteAuthority(p) \/ WriteArtifact(p) \/ SavePrepared(p) \/ SaveApproval(p)
           \/ SaveShadowReport(p)
    PROVE  DatabaseInv'
<1>1. At(p, "open") =>
         /\ opener[p].environment \in Environments
         /\ (opener[p].store = "journal") =>
               /\ opener[p].scope \in AccountScopes
               /\ opener[p].scope.environment = opener[p].environment
         /\ file.marker = Release[p] /\ file.identity = opener[p].environment
  BY DEF DatabaseInv, RequestsAreWhole, JournalIsOwn, MarkerIsReached, IdentityIsHeld, At
<1>2. AccountScopes \subseteq Scopes
  BY DEF AccountScopes, Scopes
<1>3. \A row : CommitRow(p, row) => At(p, "open")
  BY DEF CommitRow
<1>4. CASE WriteAuthority(p)
  <2> DEFINE row == Row("halt", opener[p].scope, TRUE, opener[p].scope)
  <2>1. CommitRow(p, row) /\ opener[p].store = "journal"
    BY <1>4 DEF WriteAuthority
  <2>2. /\ row \in Rows /\ row.scope = opener[p].scope /\ row.owner = row.scope
    BY <1>1, <1>2, <1>3, <2>1 DEF Row, Rows, RowKinds
  <2> QED
    BY <1>1, <1>3, <2>1, <2>2, RowKeeps
<1>5. CASE WriteArtifact(p)
  <2>1. PICK referenced \in BOOLEAN :
           CommitRow(p, Row("artifact", opener[p].scope, referenced,
                            OwnerOf(opener[p].scope)))
    BY <1>5 DEF WriteArtifact
  <2> DEFINE row == Row("artifact", opener[p].scope, referenced, OwnerOf(opener[p].scope))
  <2>2. opener[p].store = "journal" /\ CommitRow(p, row)
    BY <1>5, <2>1 DEF WriteArtifact
  <2>3. /\ row \in Rows /\ row.scope = opener[p].scope /\ row.kind = "artifact"
        /\ row.owner = OwnerOf(opener[p].scope)
    BY <1>1, <1>2, <1>3, <2>2 DEF Row, Rows, RowKinds, OwnerOf
  <2>4. ("artifacts.scope" \notin file.schema) => (file.marker < 4)
    <3>1. file.marker = Release[p] /\ file.marker \in 1 .. 15
      BY <1>1, <1>3, <2>2, ReleaseAssumption DEF Versions
    <3>2. file.schema = SchemaOf(file.marker)
      BY <3>1 DEF DatabaseInv, FileIsWhole, SchemaIsLadder
    <3>3. (file.marker \in 4 .. 15) => ("artifacts.scope" \in SchemaOf(file.marker))
      BY ScopedSinceFour
    <3> QED
      BY <3>1, <3>2, <3>3
  <2>5. row.owner = row.scope \/ (row.owner = Unset /\ file.marker < 4)
    BY <2>3, <2>4 DEF OwnerOf
  <2> QED
    BY <1>1, <1>3, <2>2, <2>3, <2>5, RowKeeps
<1>6. CASE SavePrepared(p)
  <2>1. PICK scope \in AccountScopes :
           /\ scope.environment = opener[p].environment
           /\ CommitRow(p, Row("prepared", scope, FALSE, scope))
    BY <1>6 DEF SavePrepared
  <2>2. LET row == Row("prepared", scope, FALSE, scope)
        IN  row \in Rows /\ row.scope = scope /\ row.owner = row.scope
    BY <1>2 DEF Row, Rows, RowKinds
  <2> QED
    BY <2>1, <2>2, RowKeeps
<1>7. CASE SaveApproval(p)
  <2>1. PICK plan \in file.rows :
           /\ plan.kind = "prepared" /\ plan.owner.environment = opener[p].environment
           /\ CommitRow(p, Row("consent", plan.owner, FALSE, plan.owner))
    BY <1>7 DEF SaveApproval
  <2>2. plan.owner = plan.scope /\ plan.scope \in Scopes
    BY <2>1 DEF DatabaseInv, FileIsWhole, RowsAreWhole, DatabaseTypeOK, Contents, Rows
  <2>3. LET row == Row("consent", plan.owner, FALSE, plan.owner)
        IN  row \in Rows /\ row.scope = plan.owner /\ row.owner = row.scope
    BY <2>2 DEF Row, Rows, RowKinds
  <2> QED
    BY <2>1, <2>3, RowKeeps
<1>8. CASE SaveShadowReport(p)
  <2> DEFINE scope == [environment |-> opener[p].environment, account |-> Unset]
             row == Row("report", scope, FALSE, scope)
  <2>1. CommitRow(p, row)
    BY <1>8 DEF SaveShadowReport
  <2>2. scope \in Scopes
    BY <1>1, <1>3, <2>1 DEF Scopes
  <2>3. row \in Rows /\ row.scope.environment = opener[p].environment
        /\ row.owner = row.scope
    BY <2>2 DEF Row, Rows, RowKinds
  <2> QED
    BY <2>1, <2>3, RowKeeps
<1> QED
  BY <1>4, <1>5, <1>6, <1>7, <1>8

\* Before anything is opened.
LEMMA DatabaseBegins == DatabaseInit => DatabaseInv
<1> SUFFICES ASSUME DatabaseInit
             PROVE  DatabaseInv
  OBVIOUS
<1>1. Blank \in Contents /\ Unmarked \in Contents /\ Resting \in OpenerRecords
  <2>1. Blank \in Contents
    BY DEF Blank, Contents
  <2>2. Unmarked = [marker |-> 0, identity |-> Unset, schema |-> {"unmarked_state"},
                    rows |-> {}]
    BY DEF Blank, Unmarked
  <2>3. Unmarked \in Contents
    <3>1. "unmarked_state" \in SchemaObjects
      BY DEF SchemaObjects
    <3>2. {} \subseteq Rows /\ 0 \in 0 .. 15 /\ Unset \in Environments \cup {Unset}
      OBVIOUS
    <3> QED
      BY <2>2, <3>1, <3>2 DEF Contents
  <2>4. Resting \in OpenerRecords
    BY <2>1 DEF Resting, OpenerRecords, Stages, Stores
  <2> QED
    BY <2>1, <2>3, <2>4
<1>2. file.rows = {} /\ file.marker = 0 /\ kept = {} /\ writer = Unset
  BY DEF DatabaseInit, Blank, Unmarked
<1>3. \A p \in Openers : opener[p].at = "idle"
  BY DEF DatabaseInit, Resting
<1>4. DatabaseTypeOK
  BY <1>1 DEF DatabaseInit, DatabaseTypeOK, OpenerRecords
<1>5. FileIsWhole
  BY <1>2 DEF FileIsWhole, RowsAreWhole, KeysIn
<1>6. OneRelease /\ WriterMigrates /\ RequestsAreWhole /\ DraftClimbs /\ JournalIsOwn
  BY <1>2, <1>3, UnsetAssumption
  DEF OneRelease, WriterMigrates, RequestsAreWhole, DraftClimbs, JournalIsOwn, At
<1>7. PlaceIsPrivate /\ LookIsStillGood /\ MarkerIsReached /\ IdentityIsHeld
  BY <1>3 DEF PlaceIsPrivate, LookIsStillGood, MarkerIsReached, IdentityIsHeld
<1> QED
  BY <1>4, <1>5, <1>6, <1>7 DEF DatabaseInv

\* Every step keeps the invariant.
LEMMA DatabaseGoesOn ==
    ASSUME DatabaseInv, [DatabaseNext]_databaseVars
    PROVE  DatabaseInv'
<1>1. CASE UNCHANGED databaseVars
  BY <1>1
  DEF databaseVars, DatabaseInv, DatabaseTypeOK, FileIsWhole, RowsAreWhole, SchemaIsLadder,
      OneRelease, WriterMigrates, RequestsAreWhole, PlaceIsPrivate, LookIsStillGood,
      DraftClimbs, MarkerIsReached, IdentityIsHeld, JournalIsOwn, At
<1>2. ASSUME NEW p \in Openers, OpenFile(p)
      PROVE  DatabaseInv'
  <2>1. PICK store \in Stores, environment \in Environments :
           \E scope \in IF store = "journal" THEN AccountScopes ELSE {Unset} :
              opener' = [opener EXCEPT ![p] =
                            [Resting EXCEPT !.at = "begun", !.store = store,
                                 !.environment = environment, !.scope = scope]]
    BY <1>2 DEF OpenFile
  <2>2. PICK scope \in IF store = "journal" THEN AccountScopes ELSE {Unset} :
           opener' = [opener EXCEPT ![p] =
                         [Resting EXCEPT !.at = "begun", !.store = store,
                              !.environment = environment, !.scope = scope]]
    BY <2>1
  <2> DEFINE record == [Resting EXCEPT !.at = "begun", !.store = store,
                             !.environment = environment, !.scope = scope]
  <2>3. scope \in Scopes \cup {Unset}
    BY DEF AccountScopes, Scopes
  <2>4. /\ record \in OpenerRecords
        /\ record.at = "begun" /\ record.environment \in Environments
        /\ (record.store = "journal") => (record.scope \in AccountScopes)
    <3>1. Resting \in OpenerRecords
      BY DEF OpenerRecords, Resting, Stages, Stores, Contents, Blank
    <3>2. record \in OpenerRecords /\ record.at = "begun" /\ record.store = store
          /\ record.environment = environment /\ record.scope = scope
      BY <2>3, <3>1 DEF OpenerRecords, Stages
    <3>3. (store = "journal") => (scope \in AccountScopes)
      OBVIOUS
    <3> QED
      BY <3>2, <3>3
  <2>5. /\ UNCHANGED <<file, place, kept>>
        /\ writer # p /\ writer' = writer
        /\ \A q \in Openers : At(q, "idle") \/ Release[q] = Release[p]
    BY <1>2 DEF OpenFile, DatabaseInv, WriterMigrates, At
  <2>6. opener' = [opener EXCEPT ![p] = record]
    BY <2>2
  <2> HIDE DEF record
  <2> QED
    BY <2>4, <2>5, <2>6, ComesAndGoes
<1>3. ASSUME NEW p \in Openers, Stop(p)
      PROVE  DatabaseInv'
  <2>1. Resting \in OpenerRecords /\ Resting.at = "idle"
    BY DEF OpenerRecords, Resting, Stages, Stores, Contents, Blank
  <2> QED
    BY <1>3, <2>1, ComesAndGoes DEF Stop, CloseFile
<1>4. ASSUME NEW p \in Openers, PrepareFile(p)
      PROVE  DatabaseInv'
  <2>1. /\ At(p, "begun") /\ Move(p, "ready") /\ UNCHANGED <<file, writer, kept>>
        /\ place' = [directory |-> "private", file |-> "private"]
    BY <1>4 DEF PrepareFile
  <2> QED
    BY <2>1, QuietMoves DEF At, Stages
<1>5. ASSUME NEW p \in Openers, Configure(p)
      PROVE  DatabaseInv'
  <2>1. /\ At(p, "ready") /\ Move(p, "configured")
        /\ UNCHANGED <<file, place, writer, kept>>
    BY <1>5 DEF Configure
  <2>2. place = [directory |-> "private", file |-> "private"]
    BY <2>1 DEF DatabaseInv, PlaceIsPrivate, At, Stages
  <2> QED
    BY <2>1, <2>2, QuietMoves DEF At, Stages
<1>6. ASSUME NEW p \in Openers, CheckIdentity(p)
      PROVE  DatabaseInv'
  <2>1. /\ At(p, "configured") /\ Move(p, "checked")
        /\ UNCHANGED <<file, place, writer, kept>>
        /\ Compatible(file.identity, opener[p].environment)
    BY <1>6 DEF CheckIdentity
  <2>2. place = [directory |-> "private", file |-> "private"]
    BY <2>1 DEF DatabaseInv, PlaceIsPrivate, At, Stages
  <2> QED
    BY <2>1, <2>2, QuietMoves DEF At, Stages
<1>7. ASSUME NEW p \in Openers, HandOut(p)
      PROVE  DatabaseInv'
  <2>1. /\ At(p, "identified") /\ Move(p, "open")
        /\ UNCHANGED <<file, place, writer, kept>>
        /\ (opener[p].store = "journal") =>
              (opener[p].scope.environment = opener[p].environment)
    BY <1>7 DEF HandOut, ScopeAccepted
  <2>2. /\ place = [directory |-> "private", file |-> "private"]
        /\ file.marker = Release[p] /\ file.identity = opener[p].environment
    BY <2>1 DEF DatabaseInv, PlaceIsPrivate, MarkerIsReached, IdentityIsHeld, At, Stages
  <2> QED
    BY <2>1, <2>2, QuietMoves DEF At, Stages
<1>8. CASE DatabaseNext
  <2>1. PICK p \in Openers :
           \/ OpenFile(p) \/ PrepareFile(p) \/ Configure(p) \/ CheckIdentity(p)
           \/ BeginMigrations(p) \/ Migrate(p) \/ CommitMigrations(p)
           \/ EnsureEnvironmentIdentity(p) \/ HandOut(p) \/ Stop(p)
           \/ WriteAuthority(p) \/ WriteArtifact(p)
           \/ SavePrepared(p) \/ SaveApproval(p) \/ SaveShadowReport(p)
    BY <1>8 DEF DatabaseNext
  <2> QED
    BY <1>2, <1>3, <1>4, <1>5, <1>6, <1>7, <2>1, BeginningKeeps, MigrationKeeps,
       CommitKeeps, IdentityKeeps, StoresKeep
<1> QED
  BY <1>1, <1>8

\* The invariant holds throughout.
LEMMA DatabaseHolds == DatabaseSpec => []DatabaseInv
<1>1. DatabaseInv /\ [DatabaseNext]_databaseVars => DatabaseInv'
  BY DatabaseGoesOn
<1> QED
  BY <1>1, DatabaseBegins, PTL DEF DatabaseSpec

----------------------------------------------------------------------------
(* The theorems *)

\* The types of the file and of the processes, whatever happens (openSqliteConnection).
THEOREM DatabaseIsTyped == DatabaseSpec => []DatabaseTypeOK
BY DatabaseHolds, PTL DEF DatabaseInv

\* A connection is handed out only to a private file of its own environment, and every row
\* of a file is of the file's environment (validateExistingEnvironmentIdentity,
\* ensureEnvironmentIdentity, the scope checks of the stores).
THEOREM RowsStayOwn == DatabaseSpec => []RowsAreOwn
<1>1. DatabaseInv => RowsAreOwn
  BY DEF DatabaseInv, FileIsWhole, RowsAreWhole, IdentityIsHeld, PlaceIsPrivate, RowsAreOwn,
         At, Stages
<1> QED
  BY <1>1, DatabaseHolds, PTL

\* The schema is the ladder's up to the marker, no row is ever lost, and since the fourth
\* version every row has the scope it was written for (applyMigrations, 004).
THEOREM UpgradesAreWhole == DatabaseSpec => []UpgradeIsWhole
<1>1. DatabaseInv => UpgradeIsWhole
  BY DEF DatabaseInv, DatabaseTypeOK, Contents, FileIsWhole, RowsAreWhole, SchemaIsLadder,
         KeysIn, UpgradeIsWhole
<1> QED
  BY <1>1, DatabaseHolds, PTL

\* A process that asked for another environment does not change the schema, although it
\* read the identity before its transaction (openSqliteConnection).
THEOREM OwnersUpgrade == DatabaseSpec => OnlyOwnersUpgrade
<1>1. ASSUME DatabaseInv, NEW p \in Openers, CommitMigrations(p),
             file'.schema # file.schema
      PROVE  Compatible(file.identity, opener[p].environment)
  <2>1. /\ At(p, "migrating") /\ file' = opener[p].draft
        /\ opener[p].draft.marker = Release[p]
    BY <1>1 DEF CommitMigrations
  <2>2. file'.schema = SchemaOf(Release[p])
    BY <1>1, <2>1 DEF DatabaseInv, DraftClimbs, SchemaIsLadder
  <2>3. Release[p] > 0
    BY ReleaseAssumption DEF Versions
  <2>4. file.marker # Release[p]
    BY <1>1, <2>2, <2>3 DEF DatabaseInv, FileIsWhole, SchemaIsLadder
  <2> QED
    BY <1>1, <2>1, <2>4 DEF DatabaseInv, LookIsStillGood, At
<1>2. ASSUME DatabaseInv, [DatabaseNext]_databaseVars
      PROVE  [\A p \in Openers : (CommitMigrations(p) /\ file'.schema # file.schema) =>
                Compatible(file.identity, opener[p].environment)]_databaseVars
  BY <1>1, <1>2
<1> QED
  BY <1>2, DatabaseHolds, PTL DEF DatabaseSpec, OnlyOwnersUpgrade

-----------------------------------------------------------------------------
(***************************************************************************)
(* The inductive invariant of the credentials.                              *)
(***************************************************************************)
Holdings == [Records -> Values]
Accounts == {AccountFor[set] : set \in Credentials}

ReadingStages == {"previous", "snapshot", "matches", "absent", "load"}
EarlyStages ==
    {"preflight", "previous", "session", "waiting", "exchange", "list", "choose", "fetch"}
StoringStages ==
    {"snapshot", "write", "read back", "restore", "matches", "clear", "absent", "load"}
WorkingStages == EarlyStages \cup StoringStages \cup {"remove"}

Invoked ==
    [at : WorkingStages \cup {"new", "killed", "ended"},
     i : 1 .. 3, found : Holdings, set : Holdings,
     seen : [Records -> Values \cup {"unreadable"}], previous : Holdings,
     before : Holdings, fine : BOOLEAN, cleaning : BOOLEAN,
     code : {"none", "own", "other"}, choice : Accounts \cup {"none", "create"},
     listed : SUBSET Accounts,
     told : {"nothing", "stored", "failed", "incomplete", "removed", "not removed"},
     left : Holdings]

FitsIn(r, set) ==
    IF r.choice = "create" THEN AccountFor[set] \notin r.listed
    ELSE AccountFor[set] = r.choice

Chosen(r, kind) ==
    \E set \in Credentials : r.set = Whole(set) /\ (kind = "connect" => FitsIn(r, set))

\* What a command at work knows of the records of the Keychain, kc.
Sound(r, kind, kc) ==
    /\ r.told = "nothing"
    /\ kind = "remove" => r.at = "remove"
    /\ r.at = "remove" => kind = "remove" \/ r.cleaning
    /\ r.at \in EarlyStages => kc = r.found /\ ~r.cleaning
    /\ r.at = "snapshot" /\ ~r.cleaning => kc = r.found
    /\ r.before # Absent => r.before = r.found /\ Present(r.before)
    /\ r.at \in StoringStages /\ r.cleaning => r.before # Absent /\ r.set = r.before
    /\ r.at \in StoringStages /\ ~r.cleaning => Chosen(r, kind)
    /\ r.at \in StoringStages \ {"snapshot", "load"} =>
          /\ r.previous # Absent => Present(r.previous)
          /\ ~r.cleaning => r.previous \in {Absent, r.found}
    /\ r.at \in {"write", "read back"} =>
          \A k \in 1 .. (r.i - 1) : kc[Names[k]] = r.set[Names[k]]
    /\ r.at = "load" => kc = r.set /\ kind = "connect" /\ ~r.cleaning
    /\ r.at \in ReadingStages =>
          \A k \in 1 .. (r.i - 1) : r.seen[Names[k]] \in Readings(kc[Names[k]])
    /\ r.at = "remove" /\ r.fine => \A k \in 1 .. (r.i - 1) : kc[Names[k]] = "absent"

\* What a command that has ended, having left kc behind, has said.
Honest(r, kind, kc) ==
    /\ r.told = "stored" =>
          \E set \in Credentials :
              kc = Whole(set) /\ r.set = Whole(set) /\ (kind = "connect" => FitsIn(r, set))
    /\ r.told = "failed" => kc \in {r.found, Absent}
    /\ r.told = "removed" => kc = Absent

CredentialInv ==
    /\ keychain \in Holdings /\ mishaps \in 0 .. KeychainFaults
    /\ subaccounts \subseteq Accounts
    /\ command \in [Invocations -> Invoked]
    /\ \A c \in Invocations :
          /\ command[c].at = "new" => command[c].before = Absent /\ ~command[c].cleaning
          /\ command[c].at \in {"new", "killed"} => command[c].told = "nothing"
          /\ Working(c) => Sound(command[c], KindOf[c], keychain)
          /\ command[c].at = "ended" => Honest(command[c], KindOf[c], command[c].left)
    /\ \A c, d \in Invocations : Working(c) /\ Working(d) => c = d

(***************************************************************************)
(* The records and the steps over them.                                     *)
(***************************************************************************)
LEMMA NamesAreRecords ==
    /\ Len(Names) = 3
    /\ \A k \in 1 .. 3 : Names[k] \in Records
    /\ \A k, j \in 1 .. 3 : Names[k] = Names[j] => k = j
    /\ \A name \in Records : \E k \in 1 .. 3 : Names[k] = name
<1>1. Names[1] = "api-key" /\ Names[2] = "api-secret" /\ Names[3] = "account-id"
  BY DEF Names
<1>2. Len(Names) = 3
  BY DEF Names
<1>3. \A k \in 1 .. 3 : k = 1 \/ k = 2 \/ k = 3
  OBVIOUS
<1>4. 1 \in 1 .. 3 /\ 2 \in 1 .. 3 /\ 3 \in 1 .. 3
  OBVIOUS
<1> QED
  BY <1>1, <1>2, <1>3, <1>4 DEF Records

LEMMA ValuesApart ==
    /\ "unreadable" \notin Values /\ "absent" \notin Credentials
    /\ "corrupt" \notin Credentials
    /\ Credentials \subseteq Values /\ "absent" \in Values /\ "corrupt" \in Values
BY CredentialAssumption DEF Values

LEMMA WholeIs ==
    /\ \A set \in Values : Whole(set) \in Holdings
    /\ Absent \in Holdings
    /\ Absent \in [Records -> Values \cup {"unreadable"}]
    /\ \A set \in Credentials : Whole(set) \in Holdings /\ Present(Whole(set))
BY ValuesApart DEF Whole, Holdings, Absent, Present

LEMMA Holding ==
    ASSUME NEW f \in Holdings, NEW g \in Holdings, \A name \in Records : f[name] = g[name]
    PROVE  f = g
BY DEF Holdings

\* The fields a step over the records leaves alone.
Kept(s, r) ==
    /\ s.found = r.found /\ s.set = r.set /\ s.previous = r.previous
    /\ s.before = r.before /\ s.cleaning = r.cleaning
    /\ s.choice = r.choice /\ s.listed = r.listed

LEMMA PassIs ==
    ASSUME NEW r \in Invoked, NEW pass \in WorkingStages
    PROVE  /\ Pass(r, pass) \in Invoked
           /\ Pass(r, pass).at = pass /\ Pass(r, pass).i = 1
           /\ Pass(r, pass).told = r.told
           /\ Kept(Pass(r, pass), r)
<1>1. 1 \in 1 .. 3
  OBVIOUS
<1> QED
  BY <1>1, WholeIs DEF Pass, Invoked, Kept

LEMMA TellIs ==
    ASSUME NEW r \in Invoked,
           NEW told \in {"stored", "failed", "incomplete", "removed", "not removed"}
    PROVE  /\ Tell(r, told) \in Invoked
           /\ Tell(r, told).at = "ended" /\ Tell(r, told).told = told
           /\ Kept(Tell(r, told), r)
BY DEF Tell, Invoked, Kept

LEMMA OnwardIs ==
    ASSUME NEW r \in Invoked, NEW pass \in WorkingStages
    PROVE  /\ Onward(r, pass) \in Invoked
           /\ Onward(r, pass).told = r.told
           /\ Onward(r, pass).fine = r.fine
           /\ Kept(Onward(r, pass), r)
           /\ r.i < 3 => /\ Onward(r, pass).at = r.at /\ Onward(r, pass).i = r.i + 1
                         /\ Onward(r, pass).seen = r.seen
           /\ r.i = 3 => Onward(r, pass).at = pass /\ Onward(r, pass).i = 1
<1>0. r.i \in 1 .. 3
  BY DEF Invoked
<1>1. CASE r.i < 3
  <2>1. r.i + 1 \in 1 .. 3 /\ r.i # 3
    BY <1>0, <1>1
  <2>2. Onward(r, pass) = [r EXCEPT !.i = r.i + 1]
    BY <1>1, NamesAreRecords DEF Onward
  <2> QED
    BY <2>1, <2>2 DEF Invoked, Kept
<1>2. CASE r.i = 3
  <2>1. 1 \in 1 .. 3
    OBVIOUS
  <2>2. Onward(r, pass) = [r EXCEPT !.i = 1, !.at = pass, !.seen = Absent]
    BY <1>2, NamesAreRecords DEF Onward
  <2>3. ~(r.i < 3) /\ Absent \in [Records -> Values \cup {"unreadable"}]
    BY <1>2, WholeIs
  <2>4. Onward(r, pass) \in Invoked
    BY <2>1, <2>2, <2>3 DEF Invoked
  <2>5. /\ Onward(r, pass).told = r.told /\ Onward(r, pass).fine = r.fine
        /\ Kept(Onward(r, pass), r)
        /\ Onward(r, pass).at = pass /\ Onward(r, pass).i = 1
    BY <2>2 DEF Invoked, Kept
  <2> QED
    BY <1>2, <2>3, <2>4, <2>5
<1> QED
  BY <1>0, <1>1, <1>2

\* The record of a command after a step, with kc in the Keychain.
Outcome(s, kind, kc) ==
    /\ s \in Invoked /\ s.at \notin {"new", "killed"}
    /\ s.at # "ended" => Sound(s, kind, kc)
    /\ s.at = "ended" => Honest(s, kind, kc)

LEMMA Becomes ==
    ASSUME CredentialInv, NEW c \in Invocations, NEW r, Become(c, r),
           \A d \in Invocations : d # c => ~Working(d),
           keychain' \in Holdings, mishaps' \in 0 .. KeychainFaults,
           subaccounts' \subseteq Accounts,
           Outcome(r, KindOf[c], keychain')
    PROVE  CredentialInv'
<1> DEFINE s == IF r.at = "ended" THEN [r EXCEPT !.left = keychain'] ELSE r
<1>1. /\ s \in Invoked /\ s.at = r.at /\ s.told = r.told
      /\ Kept(s, r)
      /\ r.at = "ended" => s.left = keychain'
      /\ r.at # "ended" => s = r
  BY DEF Outcome, Invoked, Kept
<1> HIDE DEF s
<1>2. command' = [command EXCEPT ![c] = s]
  BY DEF Become, s
<1>3. /\ command' \in [Invocations -> Invoked] /\ command'[c] = s
      /\ \A d \in Invocations : d # c => command'[d] = command[d]
  BY <1>1, <1>2 DEF CredentialInv
<1>4. \A d \in Invocations : d # c => ~Working(d)'
  BY <1>3 DEF Working
<1>5. ASSUME NEW d \in Invocations
      PROVE  /\ command'[d].at = "new" => command'[d].before = Absent /\ ~command'[d].cleaning
             /\ command'[d].at \in {"new", "killed"} => command'[d].told = "nothing"
             /\ Working(d)' => Sound(command'[d], KindOf[d], keychain')
             /\ command'[d].at = "ended" =>
                   Honest(command'[d], KindOf[d], command'[d].left)
  <2>1. CASE d # c
    BY <1>3, <1>4, <2>1 DEF CredentialInv
  <2>2. CASE d = c /\ r.at # "ended"
    <3>1. command'[d] = r
      BY <1>1, <1>3, <2>2
    <3> QED
      BY <2>2, <3>1 DEF Outcome
  <2>3. CASE d = c /\ r.at = "ended"
    <3>1. Honest(s, KindOf[c], keychain')
      BY <1>1, <2>3 DEF Outcome, Honest, Kept, FitsIn
    <3> QED
      BY <1>1, <1>3, <2>3, <3>1 DEF Working
  <2> QED
    BY <2>1, <2>2, <2>3
<1>6. \A d, e \in Invocations : Working(d)' /\ Working(e)' => d = e
  BY <1>4
<1> QED
  BY <1>3, <1>5, <1>6 DEF CredentialInv

\* A pass over the records begins with nothing read, written or deleted of it.
LEMMA PassSound ==
    ASSUME NEW r \in Invoked, NEW pass \in WorkingStages, NEW kind, NEW kc,
           r.told = "nothing",
           kind = "remove" => pass = "remove",
           pass = "remove" => kind = "remove" \/ r.cleaning,
           pass \in EarlyStages => kc = r.found /\ ~r.cleaning,
           pass = "snapshot" /\ ~r.cleaning => kc = r.found,
           r.before # Absent => r.before = r.found /\ Present(r.before),
           pass \in StoringStages /\ r.cleaning => r.before # Absent /\ r.set = r.before,
           pass \in StoringStages /\ ~r.cleaning => Chosen(r, kind),
           pass \in StoringStages \ {"snapshot", "load"} =>
              /\ r.previous # Absent => Present(r.previous)
              /\ ~r.cleaning => r.previous \in {Absent, r.found},
           pass = "load" => kc = r.set /\ kind = "connect" /\ ~r.cleaning
    PROVE  Outcome(Pass(r, pass), kind, kc)
<1> DEFINE s == Pass(r, pass)
<1>1. /\ s \in Invoked /\ s.at = pass /\ s.i = 1 /\ s.told = r.told /\ Kept(s, r)
  BY PassIs
<1> HIDE DEF s
<1>2. \A k \in 1 .. (s.i - 1) : FALSE
  BY <1>1
<1>3. Chosen(r, kind) => Chosen(s, kind)
  BY <1>1 DEF Chosen, FitsIn, Kept
<1>4. pass \notin {"new", "killed", "ended"}
  BY DEF WorkingStages, EarlyStages, StoringStages
<1>5. Sound(s, kind, kc)
  BY <1>1, <1>2, <1>3 DEF Sound, Kept
<1>6. Outcome(s, kind, kc)
  BY <1>1, <1>4, <1>5 DEF Outcome
<1> QED
  BY <1>6 DEF s

LEMMA TellOutcome ==
    ASSUME NEW r \in Invoked, NEW kind, NEW kc,
           NEW told \in {"failed", "incomplete", "removed", "not removed"},
           told = "failed" => kc \in {r.found, Absent},
           told = "removed" => kc = Absent
    PROVE  Outcome(Tell(r, told), kind, kc)
<1> DEFINE s == Tell(r, told)
<1>0. told \in {"stored", "failed", "incomplete", "removed", "not removed"}
  OBVIOUS
<1>1. s \in Invoked /\ s.at = "ended" /\ s.told = told /\ Kept(s, r)
  BY <1>0, TellIs
<1> HIDE DEF s
<1>2. Honest(s, kind, kc)
  BY <1>1 DEF Honest, Kept
<1>3. Outcome(s, kind, kc)
  BY <1>1, <1>2 DEF Outcome
<1> QED
  BY <1>3 DEF s

LEMMA StoredOutcome ==
    ASSUME NEW r \in Invoked, NEW kind, NEW kc, Chosen(r, kind), kc = r.set
    PROVE  Outcome(Tell(r, "stored"), kind, kc)
<1> DEFINE s == Tell(r, "stored")
<1>1. s \in Invoked /\ s.at = "ended" /\ s.told = "stored" /\ Kept(s, r)
  BY TellIs
<1> HIDE DEF s
<1>2. Honest(s, kind, kc)
  BY <1>1 DEF Honest, Kept, Chosen, FitsIn
<1>3. Outcome(s, kind, kc)
  BY <1>1, <1>2 DEF Outcome
<1> QED
  BY <1>3 DEF s

\* The error of a command is not told while its cleanup goes on.
LEMMA ThrownOutcome ==
    ASSUME NEW r \in Invoked, NEW kind, NEW kc, ~r.cleaning => kc \in {r.found, Absent}
    PROVE  Outcome(Thrown(r), kind, kc)
<1>1. CASE r.cleaning
  BY <1>1, TellOutcome DEF Thrown
<1>2. CASE ~r.cleaning
  BY <1>2, TellOutcome DEF Thrown
<1> QED
  BY <1>1, <1>2

(***************************************************************************)
(* The end of a pass.                                                       *)
(***************************************************************************)
\* All three records are read; those that could be read are what was seen.
AllRead(r, kc) == \A name \in Records : r.seen[name] \in Readings(kc[name])

LEMMA SeenIsThere ==
    ASSUME NEW r \in Invoked, NEW kc \in Holdings, AllRead(r, kc), r.seen \in Holdings
    PROVE  r.seen = kc
<1>1. \A name \in Records : r.seen[name] \in Values
  BY DEF Holdings
<1>2. \A name \in Records : r.seen[name] = kc[name]
  BY <1>1, ValuesApart DEF AllRead, Readings
<1> QED
  BY <1>2, Holding

LEMMA PresentIsHeld ==
    ASSUME NEW r \in Invoked, Present(r.seen)
    PROVE  r.seen \in Holdings
BY ValuesApart DEF Invoked, Holdings, Present

LEMMA AfterPreviousKept ==
    ASSUME NEW r \in Invoked, NEW kind, NEW kc \in Holdings, Sound(r, kind, kc),
           r.at = "previous", AllRead(r, kc)
    PROVE  Outcome(AfterPrevious(r), kind, kc)
<1> DEFINE troubled == {k \in 1 .. Len(Names) : r.seen[Names[k]] \notin Credentials}
           first == CHOOSE k \in troubled : \A k2 \in troubled : k <= k2
           q == [r EXCEPT !.before = r.seen]
<1>1. /\ kc = r.found /\ ~r.cleaning /\ r.told = "nothing" /\ kind # "remove"
      /\ r.before # Absent => r.before = r.found /\ Present(r.before)
  BY DEF Sound, EarlyStages
<1>2. "session" \in WorkingStages \cap EarlyStages /\ "session" \notin StoringStages
  BY DEF WorkingStages, EarlyStages, StoringStages
<1>3. CASE troubled = {}
  <2>1. Present(r.seen)
    BY <1>3, NamesAreRecords DEF Present
  <2>2. r.seen \in Holdings
    BY <2>1, PresentIsHeld
  <2>3. r.seen = kc
    BY <2>2, SeenIsThere
  <2>4. /\ q \in Invoked /\ q.before = r.seen /\ q.found = r.found
        /\ q.cleaning = r.cleaning /\ q.told = r.told
    BY <2>2 DEF Invoked
  <2>5. Outcome(Pass(q, "session"), kind, kc)
    BY <1>1, <1>2, <2>1, <2>3, <2>4, PassSound
  <2>6. AfterPrevious(r) = Pass(q, "session")
    BY <1>3 DEF AfterPrevious
  <2> QED
    BY <2>5, <2>6
<1>4. CASE troubled # {} /\ r.seen[Names[first]] = "unreadable"
  <2>1. AfterPrevious(r) = Tell(r, "failed")
    BY <1>4 DEF AfterPrevious
  <2> QED
    BY <1>1, <2>1, TellOutcome
<1>5. CASE troubled # {} /\ r.seen[Names[first]] # "unreadable"
  <2>1. AfterPrevious(r) = Pass(r, "session")
    BY <1>5 DEF AfterPrevious
  <2> QED
    BY <1>1, <1>2, <2>1, PassSound
<1> QED
  BY <1>3, <1>4, <1>5

LEMMA AfterSnapshotKept ==
    ASSUME NEW r \in Invoked, NEW kind, NEW kc \in Holdings, Sound(r, kind, kc),
           r.at = "snapshot", AllRead(r, kc)
    PROVE  Outcome(AfterSnapshot(r), kind, kc)
<1> DEFINE before == IF Present(r.seen) THEN r.seen ELSE Absent
           q == [r EXCEPT !.previous = before]
<1>1. /\ r.told = "nothing" /\ kind # "remove"
      /\ ~r.cleaning => kc = r.found /\ Chosen(r, kind)
      /\ r.cleaning => r.before # Absent /\ r.set = r.before
      /\ r.before # Absent => r.before = r.found /\ Present(r.before)
  BY DEF Sound, StoringStages
<1>2. "write" \in WorkingStages \cap StoringStages /\ "write" \notin EarlyStages
  BY DEF WorkingStages, EarlyStages, StoringStages
<1>3. CASE \E name \in Records : r.seen[name] = "unreadable"
  BY <1>1, <1>3, ThrownOutcome DEF AfterSnapshot
<1>4. CASE ~\E name \in Records : r.seen[name] = "unreadable"
  <2>1. before \in Holdings
    BY PresentIsHeld, WholeIs
  <2>2. before # Absent => before = kc /\ Present(before)
    BY PresentIsHeld, SeenIsThere
  <2>3. /\ q \in Invoked /\ q.previous = before
        /\ q.set = r.set /\ q.found = r.found /\ q.before = r.before
        /\ q.cleaning = r.cleaning /\ q.told = r.told
        /\ q.choice = r.choice /\ q.listed = r.listed
    BY <2>1 DEF Invoked
  <2>4. AfterSnapshot(r) = Pass(q, "write")
    BY <1>4 DEF AfterSnapshot
  <2> HIDE DEF q, before
  <2>5. Chosen(r, kind) => Chosen(q, kind)
    BY <2>3 DEF Chosen, FitsIn
  <2>6. Outcome(Pass(q, "write"), kind, kc)
    BY <1>1, <1>2, <2>2, <2>3, <2>5, PassSound
  <2> QED
    BY <2>4, <2>6
<1> QED
  BY <1>3, <1>4

LEMMA AfterReadingKept ==
    ASSUME NEW r \in Invoked, NEW kind, NEW kc \in Holdings, Sound(r, kind, kc),
           r.at \in ReadingStages, AllRead(r, kc)
    PROVE  Outcome(AfterReading(r), kind, kc)
<1>1. CASE r.at = "previous"
  <2>1. AfterReading(r) = AfterPrevious(r)
    BY <1>1 DEF AfterReading
  <2> QED
    BY <1>1, <2>1, AfterPreviousKept
<1>2. CASE r.at = "snapshot"
  <2>1. AfterReading(r) = AfterSnapshot(r)
    BY <1>2 DEF AfterReading
  <2> QED
    BY <1>2, <2>1, AfterSnapshotKept
<1>3. CASE r.at = "matches"
  <2>1. AfterReading(r) = IF Restored(r) THEN Thrown(r) ELSE Pass(r, "clear")
    BY <1>3 DEF AfterReading
  <2>2. /\ r.told = "nothing" /\ kind # "remove"
        /\ r.before # Absent => r.before = r.found /\ Present(r.before)
        /\ r.cleaning => r.before # Absent /\ r.set = r.before
        /\ ~r.cleaning => Chosen(r, kind)
        /\ r.previous # Absent => Present(r.previous)
        /\ ~r.cleaning => r.previous \in {Absent, r.found}
    BY <1>3 DEF Sound, StoringStages
  <2>3. CASE Restored(r)
    <3>1. r.seen = r.previous /\ r.previous \in Holdings
      BY <2>3 DEF Restored, Invoked
    <3>2. r.seen = kc
      BY <3>1, SeenIsThere
    <3> QED
      BY <2>1, <2>2, <2>3, <3>1, <3>2, ThrownOutcome
  <2>4. CASE ~Restored(r)
    <3>1. "clear" \in WorkingStages \cap StoringStages /\ "clear" \notin EarlyStages
      BY DEF WorkingStages, EarlyStages, StoringStages
    <3> QED
      BY <2>1, <2>2, <2>4, <3>1, PassSound
  <2> QED
    BY <2>3, <2>4
<1>4. CASE r.at = "absent"
  <2>1. AfterReading(r) = IF r.fine /\ r.seen = Absent THEN Thrown(r) ELSE Tell(r, "incomplete")
    BY <1>4 DEF AfterReading
  <2>2. r.seen = Absent => kc = Absent
    BY WholeIs, SeenIsThere
  <2> QED
    BY <2>1, <2>2, ThrownOutcome, TellOutcome
<1>5. CASE r.at = "load"
  <2> DEFINE q == [r EXCEPT !.cleaning = TRUE]
  <2>1. AfterReading(r) = IF r.seen = r.set THEN Tell(r, "stored") ELSE Pass(q, "remove")
    BY <1>5 DEF AfterReading
  <2>2. /\ kc = r.set /\ kind = "connect" /\ r.told = "nothing" /\ Chosen(r, kind)
        /\ r.before # Absent => r.before = r.found /\ Present(r.before)
    BY <1>5 DEF Sound, StoringStages
  <2>3. /\ q \in Invoked /\ q.cleaning /\ q.told = r.told
        /\ q.before = r.before /\ q.found = r.found
    BY DEF Invoked
  <2> HIDE DEF q
  <2>4. "remove" \in WorkingStages /\ "remove" \notin EarlyStages \cup StoringStages
    BY DEF WorkingStages, EarlyStages, StoringStages
  <2>5. Outcome(Pass(q, "remove"), kind, kc)
    BY <2>2, <2>3, <2>4, PassSound
  <2> QED
    BY <2>1, <2>2, <2>5, StoredOutcome
<1> QED
  BY <1>1, <1>2, <1>3, <1>4, <1>5 DEF ReadingStages

\* Every record that was to go is gone, if every deletion said so.
LEMMA AfterRemovalKept ==
    ASSUME NEW c \in Invocations, NEW r \in Invoked, NEW kc \in Holdings,
           r.told = "nothing",
           KindOf[c] = "remove" \/ r.cleaning,
           r.before # Absent => r.before = r.found /\ Present(r.before),
           r.fine => kc = Absent
    PROVE  Outcome(AfterRemoval(c, r), KindOf[c], kc)
<1>1. CASE KindOf[c] = "remove"
  BY <1>1, TellOutcome DEF AfterRemoval
<1>2. CASE KindOf[c] # "remove" /\ r.before # Absent
  <2> DEFINE q == [r EXCEPT !.set = r.before]
  <2>1. AfterRemoval(c, r) = Pass(q, "snapshot")
    BY <1>2 DEF AfterRemoval
  <2>2. /\ q \in Invoked /\ q.cleaning = r.cleaning /\ q.told = r.told
        /\ q.before = r.before /\ q.found = r.found /\ q.set = r.before
    BY DEF Invoked
  <2> HIDE DEF q
  <2>3. "snapshot" \in WorkingStages \cap StoringStages /\ "snapshot" \notin EarlyStages
    BY DEF WorkingStages, EarlyStages, StoringStages
  <2> QED
    BY <1>2, <2>1, <2>2, <2>3, PassSound
<1>3. CASE KindOf[c] # "remove" /\ r.before = Absent
  BY <1>3, TellOutcome DEF AfterRemoval
<1> QED
  BY <1>1, <1>2, <1>3

\* A save is over: the Keychain holds the set.
LEMMA ReturnedKept ==
    ASSUME NEW c \in Invocations, NEW r \in Invoked, NEW kc \in Holdings,
           Sound(r, KindOf[c], kc), r.at = "read back", kc = r.set
    PROVE  Outcome(Returned(c, r), KindOf[c], kc)
<1>1. /\ r.told = "nothing" /\ KindOf[c] # "remove"
      /\ r.before # Absent => r.before = r.found /\ Present(r.before)
      /\ r.cleaning => r.before # Absent /\ r.set = r.before
      /\ ~r.cleaning => Chosen(r, KindOf[c])
  BY DEF Sound, StoringStages
<1>2. CASE r.cleaning
  BY <1>1, <1>2, TellOutcome DEF Returned
<1>3. CASE ~r.cleaning /\ KindOf[c] = "setup"
  BY <1>1, <1>3, StoredOutcome DEF Returned
<1>4. CASE ~r.cleaning /\ KindOf[c] # "setup"
  <2>1. KindOf[c] = "connect"
    BY <1>1, <1>4, CredentialAssumption
  <2>2. "load" \in WorkingStages \cap StoringStages /\ "load" \notin EarlyStages
    BY DEF WorkingStages, EarlyStages, StoringStages
  <2>3. Returned(c, r) = Pass(r, "load")
    BY <1>4 DEF Returned
  <2> QED
    BY <1>1, <1>4, <2>1, <2>2, <2>3, PassSound
<1> QED
  BY <1>2, <1>3, <1>4

(***************************************************************************)
(* The Keychain commands.                                                   *)
(***************************************************************************)
LEMMA AtWork ==
    ASSUME CredentialInv, NEW c \in Invocations, command[c].at \in WorkingStages
    PROVE  /\ command[c] \in Invoked /\ Sound(command[c], KindOf[c], keychain)
           /\ \A d \in Invocations : d # c => ~Working(d)
           /\ command[c].i \in 1 .. 3 /\ NameOf(c) \in Records
           /\ NameOf(c) = Names[command[c].i]
           /\ keychain \in Holdings
<1>1. Working(c)
  BY DEF Working, WorkingStages, EarlyStages, StoringStages
<1>2. command[c] \in Invoked
  BY DEF CredentialInv
<1>3. command[c].i \in 1 .. 3
  BY <1>2 DEF Invoked
<1> QED
  BY <1>1, <1>2, <1>3, NamesAreRecords DEF CredentialInv, NameOf

LEMMA CountedIs ==
    ASSUME CredentialInv, NEW wrong \in BOOLEAN, Counted(wrong)
    PROVE  mishaps' \in 0 .. KeychainFaults
<1>1. mishaps \in Nat /\ KeychainFaults \in Nat
  BY CredentialAssumption DEF CredentialInv
<1> QED
  BY <1>1 DEF Counted

LEMMA ReadRecordKept ==
    ASSUME CredentialInv, NEW c \in Invocations, NEW seen, ReadRecord(c, seen)
    PROVE  CredentialInv'
<1> DEFINE name == NameOf(c)
           r == [command[c] EXCEPT !.seen[name] = seen]
           s == IF r.i < Len(Names) THEN [r EXCEPT !.i = @ + 1] ELSE AfterReading(r)
<1>1. /\ command[c].at \in ReadingStages /\ seen \in Readings(keychain[name])
      /\ Counted(seen = "unreadable")
      /\ UNCHANGED <<keychain, subaccounts>> /\ Become(c, s)
  BY DEF ReadRecord, ReadingStages
<1>2. /\ command[c] \in Invoked /\ Sound(command[c], KindOf[c], keychain)
      /\ \A d \in Invocations : d # c => ~Working(d)
      /\ command[c].i \in 1 .. 3 /\ name \in Records /\ name = Names[command[c].i]
      /\ keychain \in Holdings
  BY <1>1, AtWork DEF WorkingStages, EarlyStages, StoringStages, ReadingStages
<1>3. seen \in Values \cup {"unreadable"}
  BY <1>1, <1>2 DEF Readings, Holdings
<1>4. /\ r \in Invoked /\ r.at = command[c].at /\ r.i = command[c].i
      /\ r.told = command[c].told /\ Kept(r, command[c])
      /\ r.seen = [command[c].seen EXCEPT ![name] = seen]
  <2>1. [command[c].seen EXCEPT ![name] = seen] \in [Records -> Values \cup {"unreadable"}]
    BY <1>2, <1>3 DEF Invoked
  <2> QED
    BY <1>2, <2>1 DEF Invoked, Kept
<1> HIDE DEF r
<1>5. \A k \in 1 .. r.i : r.seen[Names[k]] \in Readings(keychain[Names[k]])
  <2> SUFFICES ASSUME NEW k \in 1 .. r.i
               PROVE  r.seen[Names[k]] \in Readings(keychain[Names[k]])
    OBVIOUS
  <2>1. k \in 1 .. 3 /\ Names[k] \in Records
    BY <1>2, <1>4, NamesAreRecords
  <2>2. command[c].seen \in [Records -> Values \cup {"unreadable"}]
    BY <1>2 DEF Invoked
  <2>3. CASE k = r.i
    BY <1>1, <1>2, <1>4, <2>2, <2>3
  <2>4. CASE k # r.i
    <3>1. k \in 1 .. (command[c].i - 1)
      BY <1>2, <1>4, <2>4
    <3>2. Names[k] # name
      BY <1>2, <1>4, <2>1, <2>4, NamesAreRecords
    <3>3. r.seen[Names[k]] = command[c].seen[Names[k]]
      BY <1>4, <2>1, <2>2, <3>2
    <3> QED
      BY <1>1, <1>2, <3>1, <3>3 DEF Sound
  <2> QED
    BY <2>3, <2>4
<1>6. Sound(r, KindOf[c], keychain)
  <2>1. \A k \in 1 .. (r.i - 1) : k \in 1 .. r.i
    BY <1>2, <1>4
  <2>2. r.at \notin {"remove", "write", "read back"}
    BY <1>1, <1>4 DEF ReadingStages
  <2>3. Chosen(r, KindOf[c]) <=> Chosen(command[c], KindOf[c])
    BY <1>4 DEF Chosen, Kept, FitsIn
  <2> QED
    BY <1>2, <1>4, <1>5, <2>1, <2>2, <2>3 DEF Sound, Kept
<1>7. Outcome(s, KindOf[c], keychain)
  <2>1. CASE r.i < 3
    <3>1. r.i + 1 \in 1 .. 3
      BY <1>2, <1>4, <2>1
    <3>2. s = [r EXCEPT !.i = r.i + 1]
      BY <2>1, NamesAreRecords
    <3>3. /\ s \in Invoked /\ s.at = r.at /\ s.i = r.i + 1 /\ s.seen = r.seen
          /\ s.told = r.told /\ Kept(s, r)
      BY <1>4, <3>1, <3>2 DEF Invoked, Kept
    <3> HIDE DEF s
    <3>4. \A k \in 1 .. (s.i - 1) : k \in 1 .. r.i
      BY <1>2, <1>4, <3>3
    <3>5. Chosen(s, KindOf[c]) <=> Chosen(r, KindOf[c])
      BY <3>3 DEF Chosen, Kept, FitsIn
    <3>6. s.at \notin {"remove", "write", "read back", "new", "killed", "ended"}
      BY <1>1, <1>4, <3>3 DEF ReadingStages
    <3>7. Sound(s, KindOf[c], keychain)
      BY <1>5, <1>6, <3>3, <3>4, <3>5, <3>6 DEF Sound, Kept
    <3> QED
      BY <3>3, <3>6, <3>7 DEF Outcome
  <2>2. CASE r.i = 3
    <3>1. s = AfterReading(r)
      BY <2>2, NamesAreRecords
    <3>2. AllRead(r, keychain)
      BY <1>5, <2>2, NamesAreRecords DEF AllRead
    <3> QED
      BY <1>1, <1>2, <1>4, <1>6, <3>1, <3>2, AfterReadingKept
  <2> QED
    BY <1>2, <1>4, <2>1, <2>2
<1> HIDE DEF s
<1>8. mishaps' \in 0 .. KeychainFaults
  BY <1>1, CountedIs
<1> QED
  BY <1>1, <1>2, <1>7, <1>8, Becomes DEF CredentialInv

LEMMA OutcomeOfWrite ==
    ASSUME NEW value \in Values, NEW old \in Values, NEW outcome \in Additions(value, old)
    PROVE  outcome[1] \in Values /\ outcome[2] \in BOOLEAN
<1>1. \/ outcome = <<value, TRUE>> \/ outcome = <<old, FALSE>>
      \/ outcome = <<value, FALSE>> \/ outcome = <<"corrupt", TRUE>>
  BY DEF Additions
<1>2. CASE outcome = <<value, TRUE>>
  BY <1>2
<1>3. CASE outcome = <<old, FALSE>>
  BY <1>3
<1>4. CASE outcome = <<value, FALSE>>
  BY <1>4
<1>5. CASE outcome = <<"corrupt", TRUE>>
  <2>1. outcome[1] = "corrupt" /\ outcome[2] = TRUE
    BY <1>5
  <2> QED
    BY <2>1, ValuesApart
<1> QED
  BY <1>1, <1>2, <1>3, <1>4, <1>5

LEMMA OutcomeOfDeletion ==
    ASSUME NEW old \in Values, NEW outcome \in Deletions(old)
    PROVE  /\ outcome[1] \in Values /\ outcome[2] \in BOOLEAN
           /\ outcome[2] => outcome[1] = "absent"
<1>1. \/ outcome = <<"absent", TRUE>> \/ outcome = <<old, FALSE>>
      \/ outcome = <<"absent", FALSE>>
  BY DEF Deletions
<1>2. CASE outcome = <<"absent", TRUE>>
  <2>1. outcome[1] = "absent" /\ outcome[2] = TRUE
    BY <1>2
  <2> QED
    BY <2>1, ValuesApart
<1>3. CASE outcome = <<old, FALSE>>
  <2>1. outcome[1] = old /\ outcome[2] = FALSE
    BY <1>3
  <2> QED
    BY <2>1
<1>4. CASE outcome = <<"absent", FALSE>>
  <2>1. outcome[1] = "absent" /\ outcome[2] = FALSE
    BY <1>4
  <2> QED
    BY <2>1, ValuesApart
<1> QED
  BY <1>1, <1>2, <1>3, <1>4

LEMMA WriteRecordKept ==
    ASSUME CredentialInv, NEW c \in Invocations, NEW outcome, WriteRecord(c, outcome)
    PROVE  CredentialInv'
<1> DEFINE name == NameOf(c)
           r == command[c]
           s == [command[c] EXCEPT !.at = "read back", !.fine = outcome[2]]
<1>1. /\ r.at = "write"
      /\ outcome \in Additions(r.set[name], keychain[name])
      /\ Counted(outcome # <<command[c].set[name], TRUE>>)
      /\ keychain' = [keychain EXCEPT ![name] = outcome[1]]
      /\ Become(c, s) /\ UNCHANGED subaccounts
  BY DEF WriteRecord
<1>2. /\ r \in Invoked /\ Sound(r, KindOf[c], keychain)
      /\ \A d \in Invocations : d # c => ~Working(d)
      /\ r.i \in 1 .. 3 /\ name \in Records /\ name = Names[r.i]
      /\ keychain \in Holdings
  BY <1>1, AtWork DEF WorkingStages, EarlyStages, StoringStages
<1>3. outcome[1] \in Values /\ outcome[2] \in BOOLEAN
  <2>1. r.set[name] \in Values /\ keychain[name] \in Values
    BY <1>2 DEF Invoked, Holdings
  <2> QED
    BY <1>1, <2>1, OutcomeOfWrite
<1>4. keychain' \in Holdings
  BY <1>1, <1>2, <1>3 DEF Holdings
<1>5. /\ s \in Invoked /\ s.at = "read back" /\ s.i = r.i
      /\ s.told = r.told /\ Kept(s, r)
  BY <1>2, <1>3 DEF Invoked, Kept, WorkingStages, StoringStages
<1> HIDE DEF s
<1>6. Sound(s, KindOf[c], keychain')
  <2>1. \A k \in 1 .. (s.i - 1) : keychain'[Names[k]] = s.set[Names[k]]
    <3> SUFFICES ASSUME NEW k \in 1 .. (s.i - 1)
                 PROVE  keychain'[Names[k]] = s.set[Names[k]]
      OBVIOUS
    <3>0. s.i = r.i /\ r.i \in 1 .. 3
      BY <1>2, <1>5
    <3>1. k \in 1 .. (r.i - 1) /\ k \in 1 .. 3 /\ k # r.i
      BY <3>0
    <3>2. Names[k] \in Records /\ Names[k] # name
      BY <1>2, <3>1, NamesAreRecords
    <3>3. keychain[Names[k]] = r.set[Names[k]]
      BY <1>1, <1>2, <3>1 DEF Sound
    <3> QED
      BY <1>1, <1>2, <1>5, <3>2, <3>3 DEF Holdings, Kept
  <2>2. Chosen(s, KindOf[c]) <=> Chosen(r, KindOf[c])
    BY <1>5 DEF Chosen, Kept, FitsIn
  <2>3. /\ "read back" \in StoringStages \ {"snapshot", "load"}
        /\ "write" \in StoringStages \ {"snapshot", "load"}
        /\ "read back" \notin EarlyStages \cup ReadingStages
    BY DEF StoringStages, EarlyStages, ReadingStages
  <2> QED
    BY <1>1, <1>2, <1>5, <2>1, <2>2, <2>3 DEF Sound, Kept
<1>7. Outcome(s, KindOf[c], keychain')
  BY <1>5, <1>6 DEF Outcome
<1>8. mishaps' \in 0 .. KeychainFaults
  BY <1>1, CountedIs
<1> QED
  BY <1>1, <1>2, <1>4, <1>7, <1>8, Becomes DEF CredentialInv

LEMMA ReadBackKept ==
    ASSUME CredentialInv, NEW c \in Invocations, NEW seen, ReadBack(c, seen)
    PROVE  CredentialInv'
<1> DEFINE name == NameOf(c)
           r == command[c]
           written == r.fine /\ seen = r.set[name]
           s == IF written /\ r.i < Len(Names) THEN [r EXCEPT !.at = "write", !.i = @ + 1]
                ELSE IF written THEN Returned(c, r)
                ELSE IF r.previous # Absent THEN Pass(r, "restore")
                ELSE Pass(r, "clear")
<1>1. /\ r.at = "read back" /\ seen \in Readings(keychain[name])
      /\ Counted(seen = "unreadable")
      /\ UNCHANGED <<keychain, subaccounts>> /\ Become(c, s)
  BY DEF ReadBack
<1>2. /\ r \in Invoked /\ Sound(r, KindOf[c], keychain)
      /\ \A d \in Invocations : d # c => ~Working(d)
      /\ r.i \in 1 .. 3 /\ name \in Records /\ name = Names[r.i]
      /\ keychain \in Holdings
  BY <1>1, AtWork DEF WorkingStages, EarlyStages, StoringStages
<1>3. /\ "read back" \in StoringStages \ {"snapshot", "load"}
      /\ "write" \in StoringStages \ {"snapshot", "load"}
      /\ "restore" \in (WorkingStages \cap StoringStages) \ EarlyStages
      /\ "clear" \in (WorkingStages \cap StoringStages) \ EarlyStages
      /\ "write" \in WorkingStages \ (EarlyStages \cup ReadingStages)
  BY DEF StoringStages, EarlyStages, WorkingStages, ReadingStages
<1>4. /\ r.told = "nothing" /\ KindOf[c] # "remove"
      /\ r.before # Absent => r.before = r.found /\ Present(r.before)
      /\ r.cleaning => r.before # Absent /\ r.set = r.before
      /\ ~r.cleaning => Chosen(r, KindOf[c])
      /\ r.previous # Absent => Present(r.previous)
      /\ ~r.cleaning => r.previous \in {Absent, r.found}
      /\ \A k \in 1 .. (r.i - 1) : keychain[Names[k]] = r.set[Names[k]]
  BY <1>1, <1>2, <1>3 DEF Sound
<1>5. ASSUME written
      PROVE  \A k \in 1 .. r.i : keychain[Names[k]] = r.set[Names[k]]
  <2>1. r.set[name] \in Values
    BY <1>2 DEF Invoked, Holdings
  <2>2. keychain[name] = r.set[name]
    BY <1>1, <1>5, <2>1, ValuesApart DEF Readings
  <2>3. \A k \in 1 .. r.i : k = r.i \/ k \in 1 .. (r.i - 1)
    BY <1>2
  <2> QED
    BY <1>2, <1>4, <2>2, <2>3
<1>6. ASSUME written /\ r.i < 3
      PROVE  Outcome(s, KindOf[c], keychain)
  <2>1. r.i + 1 \in 1 .. 3
    BY <1>2, <1>6
  <2>2. s = [r EXCEPT !.at = "write", !.i = r.i + 1]
    BY <1>6, NamesAreRecords
  <2> HIDE DEF s
  <2>3. /\ s \in Invoked /\ s.at = "write" /\ s.i = r.i + 1
        /\ s.told = r.told /\ Kept(s, r)
    <3>1. r \in Invoked /\ "write" \in WorkingStages
      BY <1>2, <1>3
    <3> HIDE DEF r
    <3>2. s \in Invoked
      BY <2>1, <2>2, <3>1 DEF Invoked
    <3>3. s.at = "write" /\ s.i = r.i + 1 /\ s.told = r.told
      BY <2>2, <3>1 DEF Invoked
    <3> QED
      BY <2>2, <3>1, <3>2, <3>3 DEF Invoked, Kept
  <2>4. \A k \in 1 .. (s.i - 1) : keychain[Names[k]] = s.set[Names[k]]
    <3>1. \A k \in 1 .. (s.i - 1) : k \in 1 .. r.i
      BY <1>2, <2>3
    <3> QED
      BY <1>5, <1>6, <2>3, <3>1 DEF Kept
  <2>5. Chosen(s, KindOf[c]) <=> Chosen(r, KindOf[c])
    BY <2>3 DEF Chosen, Kept, FitsIn
  <2>6. Sound(s, KindOf[c], keychain)
    BY <1>3, <1>4, <2>3, <2>4, <2>5 DEF Sound, Kept
  <2> QED
    BY <2>3, <2>6 DEF Outcome
<1>7. ASSUME written /\ ~(r.i < 3)
      PROVE  Outcome(s, KindOf[c], keychain)
  <2>1. r.i = 3
    BY <1>2, <1>7
  <2>2. r.set \in Holdings
    BY <1>2 DEF Invoked
  <2>3. \A record \in Records : keychain[record] = r.set[record]
    BY <1>5, <1>7, <2>1, NamesAreRecords
  <2>4. keychain = r.set
    BY <1>2, <2>2, <2>3, Holding
  <2>5. Outcome(Returned(c, r), KindOf[c], keychain)
    BY <1>1, <1>2, <2>4, ReturnedKept
  <2>6. s = Returned(c, r)
    BY <1>7, NamesAreRecords
  <2> QED
    BY <2>5, <2>6
<1>8. ASSUME ~written /\ r.previous # Absent
      PROVE  Outcome(s, KindOf[c], keychain)
  <2>1. s = Pass(r, "restore")
    BY <1>8
  <2>2. Outcome(Pass(r, "restore"), KindOf[c], keychain)
    BY <1>2, <1>3, <1>4, PassSound
  <2> QED
    BY <2>1, <2>2
<1>9. ASSUME ~written /\ r.previous = Absent
      PROVE  Outcome(s, KindOf[c], keychain)
  <2>1. s = Pass(r, "clear")
    BY <1>9
  <2>2. Outcome(Pass(r, "clear"), KindOf[c], keychain)
    BY <1>2, <1>3, <1>4, PassSound
  <2> QED
    BY <2>1, <2>2
<1>10. Outcome(s, KindOf[c], keychain)
  BY <1>6, <1>7, <1>8, <1>9
<1> HIDE DEF s
<1>11. mishaps' \in 0 .. KeychainFaults
  BY <1>1, CountedIs
<1> QED
  BY <1>1, <1>2, <1>10, <1>11, Becomes DEF CredentialInv

LEMMA RestoreRecordKept ==
    ASSUME CredentialInv, NEW c \in Invocations, NEW outcome, RestoreRecord(c, outcome)
    PROVE  CredentialInv'
<1> DEFINE name == NameOf(c)
           r == command[c]
           s == Onward(r, "matches")
<1>1. /\ r.at = "restore"
      /\ outcome \in Additions(r.previous[name], keychain[name])
      /\ Counted(outcome # <<command[c].previous[name], TRUE>>)
      /\ keychain' = [keychain EXCEPT ![name] = outcome[1]]
      /\ Become(c, s) /\ UNCHANGED subaccounts
  BY DEF RestoreRecord
<1>2. /\ r \in Invoked /\ Sound(r, KindOf[c], keychain)
      /\ \A d \in Invocations : d # c => ~Working(d)
      /\ r.i \in 1 .. 3 /\ name \in Records /\ name = Names[r.i]
      /\ keychain \in Holdings
  BY <1>1, AtWork DEF WorkingStages, EarlyStages, StoringStages
<1>3. outcome[1] \in Values
  <2>1. r.previous[name] \in Values /\ keychain[name] \in Values
    BY <1>2 DEF Invoked, Holdings
  <2> QED
    BY <1>1, <2>1, OutcomeOfWrite
<1>4. keychain' \in Holdings
  BY <1>1, <1>2, <1>3 DEF Holdings
<1>5. /\ "restore" \in StoringStages \ {"snapshot", "load"}
      /\ "matches" \in StoringStages \ {"snapshot", "load"}
      /\ "matches" \in WorkingStages
      /\ "restore" \notin EarlyStages \cup ReadingStages /\ "matches" \notin EarlyStages
  BY DEF StoringStages, EarlyStages, WorkingStages, ReadingStages
<1>6. /\ s \in Invoked /\ s.told = r.told /\ Kept(s, r)
      /\ (s.at = "restore") \/ (s.at = "matches" /\ s.i = 1)
  BY <1>1, <1>2, <1>5, OnwardIs
<1> HIDE DEF s
<1>7. Sound(s, KindOf[c], keychain')
  <2>1. Chosen(s, KindOf[c]) <=> Chosen(r, KindOf[c])
    BY <1>6 DEF Chosen, Kept, FitsIn
  <2>2. s.at = "matches" => \A k \in 1 .. (s.i - 1) : FALSE
    BY <1>6
  <2> QED
    BY <1>1, <1>2, <1>5, <1>6, <2>1, <2>2 DEF Sound, Kept
<1>8. Outcome(s, KindOf[c], keychain')
  BY <1>6, <1>7 DEF Outcome
<1>9. mishaps' \in 0 .. KeychainFaults
  BY <1>1, CountedIs
<1> QED
  BY <1>1, <1>2, <1>4, <1>8, <1>9, Becomes DEF CredentialInv

LEMMA DeleteRecordKept ==
    ASSUME CredentialInv, NEW c \in Invocations, NEW outcome, DeleteRecord(c, outcome)
    PROVE  CredentialInv'
<1> DEFINE name == NameOf(c)
           r == [command[c] EXCEPT !.fine = @ /\ outcome[2]]
           s == IF r.at = "clear" \/ r.i < Len(Names) THEN Onward(r, "absent")
                ELSE AfterRemoval(c, r)
<1>1. /\ r.at \in {"clear", "remove"} /\ outcome \in Deletions(keychain[name])
      /\ Counted(outcome # <<"absent", TRUE>>)
      /\ keychain' = [keychain EXCEPT ![name] = outcome[1]]
      /\ Become(c, s) /\ UNCHANGED subaccounts
  BY DEF DeleteRecord
<1>2. command[c].at \in {"clear", "remove"}
  BY <1>1 DEF CredentialInv, Invoked
<1>3. /\ command[c] \in Invoked /\ Sound(command[c], KindOf[c], keychain)
      /\ \A d \in Invocations : d # c => ~Working(d)
      /\ command[c].i \in 1 .. 3 /\ name \in Records /\ name = Names[command[c].i]
      /\ keychain \in Holdings
  BY <1>2, AtWork DEF WorkingStages, EarlyStages, StoringStages
<1>4. /\ outcome[1] \in Values /\ outcome[2] \in BOOLEAN
      /\ outcome[2] => outcome[1] = "absent"
  <2>1. keychain[name] \in Values
    BY <1>3 DEF Holdings
  <2> QED
    BY <1>1, <2>1, OutcomeOfDeletion
<1>5. keychain' \in Holdings
  BY <1>1, <1>3, <1>4 DEF Holdings
<1>6. /\ r \in Invoked /\ r.at = command[c].at /\ r.i = command[c].i
      /\ r.told = command[c].told /\ Kept(r, command[c])
      /\ r.fine => command[c].fine /\ outcome[2]
  <2>1. (command[c].fine /\ outcome[2]) \in BOOLEAN
    OBVIOUS
  <2> QED
    BY <1>3, <2>1 DEF Invoked, Kept
<1> HIDE DEF r
<1>7. ASSUME r.at = "remove", r.fine
      PROVE  \A k \in 1 .. r.i : keychain'[Names[k]] = "absent"
  <2> SUFFICES ASSUME NEW k \in 1 .. r.i
               PROVE  keychain'[Names[k]] = "absent"
    OBVIOUS
  <2>1. k \in 1 .. 3 /\ Names[k] \in Records
    BY <1>3, <1>6, NamesAreRecords
  <2>2. CASE k = r.i
    BY <1>1, <1>3, <1>4, <1>6, <1>7, <2>2 DEF Holdings
  <2>3. CASE k # r.i
    <3>1. k \in 1 .. (command[c].i - 1)
      BY <1>3, <1>6, <2>3
    <3>2. keychain[Names[k]] = "absent"
      BY <1>3, <1>6, <1>7, <3>1 DEF Sound
    <3> QED
      BY <1>1, <1>3, <1>4, <1>6, <1>7, <2>1, <3>2 DEF Holdings
  <2> QED
    BY <2>2, <2>3
<1>8. /\ "clear" \in StoringStages \ {"snapshot", "load"}
      /\ "absent" \in StoringStages \ {"snapshot", "load"}
      /\ "absent" \in WorkingStages
      /\ "clear" \notin EarlyStages \cup ReadingStages
      /\ "absent" \notin EarlyStages
      /\ "remove" \notin EarlyStages \cup ReadingStages \cup StoringStages
  BY DEF StoringStages, EarlyStages, WorkingStages, ReadingStages
<1>9. /\ r.told = "nothing"
      /\ r.before # Absent => r.before = r.found /\ Present(r.before)
      /\ r.at = "remove" => KindOf[c] = "remove" \/ r.cleaning
  BY <1>3, <1>6 DEF Sound, Kept
<1>10. ASSUME r.at = "clear"
       PROVE  Outcome(s, KindOf[c], keychain')
  <2>1. s = Onward(r, "absent")
    BY <1>10
  <2>2. /\ s \in Invoked /\ s.told = r.told /\ Kept(s, r)
        /\ (s.at = "clear") \/ (s.at = "absent" /\ s.i = 1)
    BY <1>3, <1>6, <1>8, <1>10, <2>1, OnwardIs
  <2> HIDE DEF s
  <2>3. Chosen(s, KindOf[c]) <=> Chosen(command[c], KindOf[c])
    BY <1>6, <2>2 DEF Chosen, Kept, FitsIn
  <2>4. s.at = "absent" => \A k \in 1 .. (s.i - 1) : FALSE
    BY <2>2
  <2>5. /\ KindOf[c] # "remove"
        /\ r.cleaning => r.before # Absent /\ r.set = r.before
        /\ ~r.cleaning => Chosen(command[c], KindOf[c])
        /\ r.previous # Absent => Present(r.previous)
        /\ ~r.cleaning => r.previous \in {Absent, r.found}
    BY <1>3, <1>6, <1>8, <1>10 DEF Sound, Kept
  <2>6. s.at \in StoringStages \ {"snapshot", "load", "write", "read back", "remove"}
    BY <1>8, <2>2
  <2>7. s.at \notin EarlyStages /\ (s.at \in ReadingStages => s.at = "absent")
    BY <1>8, <2>2
  <2>8. Sound(s, KindOf[c], keychain')
    BY <1>9, <2>2, <2>3, <2>4, <2>5, <2>6, <2>7 DEF Sound, Kept
  <2> QED
    BY <2>2, <2>8 DEF Outcome
<1>11. ASSUME r.at = "remove" /\ r.i < 3
       PROVE  Outcome(s, KindOf[c], keychain')
  <2>1. s = Onward(r, "absent")
    BY <1>11, NamesAreRecords
  <2>2. /\ s \in Invoked /\ s.told = r.told /\ Kept(s, r) /\ s.fine = r.fine
        /\ s.at = "remove" /\ s.i = r.i + 1
    BY <1>6, <1>8, <1>11, <2>1, OnwardIs
  <2> HIDE DEF s
  <2>3. \A k \in 1 .. (s.i - 1) : k \in 1 .. r.i
    BY <1>3, <1>6, <2>2
  <2>4. Sound(s, KindOf[c], keychain')
    BY <1>7, <1>8, <1>9, <1>11, <2>2, <2>3 DEF Sound, Kept
  <2> QED
    BY <2>2, <2>4 DEF Outcome
<1>12. ASSUME r.at = "remove" /\ ~(r.i < 3)
       PROVE  Outcome(s, KindOf[c], keychain')
  <2>1. r.i = 3
    BY <1>3, <1>6, <1>12
  <2>2. s = AfterRemoval(c, r)
    BY <1>12, NamesAreRecords
  <2>3. ASSUME r.fine PROVE keychain' = Absent
    <3>1. \A record \in Records : keychain'[record] = "absent"
      BY <1>7, <1>12, <2>1, <2>3, NamesAreRecords
    <3>2. \A record \in Records : Absent[record] = "absent"
      BY DEF Absent, Whole
    <3> QED
      BY <1>5, <3>1, <3>2, Holding, WholeIs
  <2> QED
    BY <1>5, <1>6, <1>9, <1>12, <2>2, <2>3, AfterRemovalKept
<1>13. Outcome(s, KindOf[c], keychain')
  BY <1>1, <1>10, <1>11, <1>12
<1> HIDE DEF s
<1>14. mishaps' \in 0 .. KeychainFaults
  BY <1>1, CountedIs
<1> QED
  BY <1>1, <1>3, <1>5, <1>13, <1>14, Becomes DEF CredentialInv

(***************************************************************************)
(* The commands.                                                            *)
(***************************************************************************)
\* Until the set is stored the Keychain is as it was found.
LEMMA EarlyIs ==
    ASSUME CredentialInv, NEW c \in Invocations, command[c].at \in EarlyStages
    PROVE  /\ command[c] \in Invoked /\ Sound(command[c], KindOf[c], keychain)
           /\ \A d \in Invocations : d # c => ~Working(d)
           /\ keychain \in Holdings
           /\ command[c].told = "nothing" /\ KindOf[c] # "remove"
           /\ keychain = command[c].found /\ ~command[c].cleaning
           /\ command[c].before # Absent =>
                 command[c].before = command[c].found /\ Present(command[c].before)
<1>1. command[c].at \in WorkingStages /\ command[c].at # "remove"
  BY DEF WorkingStages, EarlyStages
<1> QED
  BY <1>1, AtWork DEF Sound

LEMMA EarlyStep ==
    ASSUME CredentialInv, NEW c \in Invocations, command[c].at \in EarlyStages,
           NEW s, Become(c, s), UNCHANGED <<keychain, mishaps>>,
           subaccounts' \subseteq Accounts,
           Outcome(s, KindOf[c], keychain)
    PROVE  CredentialInv'
BY EarlyIs, Becomes DEF CredentialInv

LEMMA EarlyFailure ==
    ASSUME CredentialInv, NEW c \in Invocations, command[c].at \in EarlyStages
    PROVE  Outcome(Tell(command[c], "failed"), KindOf[c], keychain)
BY EarlyIs, TellOutcome

LEMMA EarlyPass ==
    ASSUME CredentialInv, NEW c \in Invocations, command[c].at \in EarlyStages,
           NEW pass \in EarlyStages \ StoringStages
    PROVE  Outcome(Pass(command[c], pass), KindOf[c], keychain)
<1>1. /\ pass \in WorkingStages /\ pass # "remove" /\ pass # "snapshot"
      /\ pass # "load" /\ pass \notin StoringStages
  BY DEF WorkingStages, EarlyStages, StoringStages
<1>2. /\ command[c] \in Invoked
      /\ command[c].told = "nothing" /\ KindOf[c] # "remove"
      /\ keychain = command[c].found /\ ~command[c].cleaning
      /\ command[c].before # Absent =>
            command[c].before = command[c].found /\ Present(command[c].before)
  BY EarlyIs
<1> QED
  BY <1>1, <1>2, PassSound

\* A step that reads no record and goes on with the next stage.
LEMMA EarlyOutcome ==
    ASSUME NEW r \in Invoked, NEW s \in Invoked, NEW kind, NEW kc, Sound(r, kind, kc),
           r.at \in EarlyStages, s.at \in EarlyStages \ (ReadingStages \cup StoringStages),
           s.found = r.found, s.before = r.before, s.cleaning = r.cleaning, s.told = r.told
    PROVE  Outcome(s, kind, kc)
<1>1. r.at # "remove"
  BY DEF EarlyStages
<1>2. s.at \notin StoringStages \cup ReadingStages
         \cup {"remove", "snapshot", "write", "read back", "load", "new", "killed", "ended"}
  BY DEF EarlyStages, StoringStages
<1>3. Sound(s, kind, kc)
  BY <1>1, <1>2 DEF Sound
<1> QED
  BY <1>2, <1>3 DEF Outcome

LEMMA InvokeKept ==
    ASSUME CredentialInv, NEW c \in Invocations, NEW typed \in Credentials, Invoke(c, typed)
    PROVE  CredentialInv'
<1> DEFINE r == [command[c] EXCEPT !.found = keychain]
           q == [r EXCEPT !.set = Whole(typed)]
           s == CASE KindOf[c] = "setup" -> Pass(q, "snapshot")
                  [] KindOf[c] = "connect" -> Pass(r, "preflight")
                  [] OTHER -> Pass(r, "remove")
<1>1. /\ command[c].at = "new" /\ \A d \in Invocations : ~Working(d)
      /\ UNCHANGED <<keychain, subaccounts, mishaps>> /\ Become(c, s)
  BY DEF Invoke
<1>2. /\ command[c] \in Invoked /\ keychain \in Holdings
      /\ command[c].before = Absent /\ ~command[c].cleaning /\ command[c].told = "nothing"
  BY <1>1 DEF CredentialInv
<1>3. /\ r \in Invoked /\ r.found = keychain
      /\ r.before = Absent /\ ~r.cleaning /\ r.told = "nothing"
  BY <1>2 DEF Invoked
<1> HIDE DEF r
<1>4. /\ q \in Invoked /\ q.found = keychain /\ q.set = Whole(typed)
      /\ q.before = Absent /\ ~q.cleaning /\ q.told = "nothing"
  BY <1>3, WholeIs DEF Invoked
<1> HIDE DEF q
<1>5. /\ "snapshot" \in (WorkingStages \cap StoringStages) \ EarlyStages
      /\ "preflight" \in (WorkingStages \cap EarlyStages) \ StoringStages
      /\ "remove" \in WorkingStages \ (EarlyStages \cup StoringStages)
  BY DEF WorkingStages, EarlyStages, StoringStages
<1>6. ASSUME KindOf[c] = "setup"
      PROVE  Outcome(s, KindOf[c], keychain)
  <2>1. Chosen(q, KindOf[c])
    BY <1>4, <1>6 DEF Chosen
  <2>2. Outcome(Pass(q, "snapshot"), KindOf[c], keychain)
    BY <1>4, <1>5, <1>6, <2>1, PassSound
  <2> QED
    BY <1>6, <2>2
<1>7. ASSUME KindOf[c] = "connect"
      PROVE  Outcome(s, KindOf[c], keychain)
  <2>1. Outcome(Pass(r, "preflight"), KindOf[c], keychain)
    BY <1>3, <1>5, <1>7, PassSound
  <2> QED
    BY <1>7, <2>1
<1>8. ASSUME KindOf[c] = "remove"
      PROVE  Outcome(s, KindOf[c], keychain)
  <2>1. Outcome(Pass(r, "remove"), KindOf[c], keychain)
    BY <1>3, <1>5, <1>8, PassSound
  <2> QED
    BY <1>8, <2>1
<1>9. Outcome(s, KindOf[c], keychain)
  BY <1>6, <1>7, <1>8, CredentialAssumption
<1> HIDE DEF s
<1> QED
  BY <1>1, <1>2, <1>9, Becomes DEF CredentialInv

LEMMA PreflightKept ==
    ASSUME CredentialInv, NEW c \in Invocations, NEW verified \in BOOLEAN,
           Preflight(c, verified)
    PROVE  CredentialInv'
<1>1. command[c].at \in EarlyStages /\ "previous" \in EarlyStages \ StoringStages
  BY DEF Preflight, EarlyStages, StoringStages
<1> QED
  BY <1>1, EarlyPass, EarlyFailure, EarlyStep DEF Preflight, CredentialInv

LEMMA CreateSessionKept ==
    ASSUME CredentialInv, NEW c \in Invocations, NEW listening \in BOOLEAN,
           CreateSession(c, listening)
    PROVE  CredentialInv'
<1>1. command[c].at \in EarlyStages /\ "waiting" \in EarlyStages \ StoringStages
  BY DEF CreateSession, EarlyStages, StoringStages
<1> QED
  BY <1>1, EarlyPass, EarlyFailure, EarlyStep DEF CreateSession, CredentialInv

LEMMA DeliverCodeKept ==
    ASSUME CredentialInv, NEW c \in Invocations, NEW way \in DOMAIN Codes, NEW code,
           DeliverCode(c, way, code)
    PROVE  CredentialInv'
<1> DEFINE s == [command[c] EXCEPT !.at = "exchange", !.code = code]
<1>1. /\ command[c].at = "waiting" /\ code \in Codes[way]
      /\ UNCHANGED <<keychain, subaccounts, mishaps>> /\ Become(c, s)
  BY DEF DeliverCode
<1>2. /\ command[c].at \in EarlyStages
      /\ "exchange" \in (EarlyStages \cap WorkingStages) \ (ReadingStages \cup StoringStages)
  BY <1>1 DEF EarlyStages, ReadingStages, StoringStages, WorkingStages
<1>3. code \in {"own", "other"}
  BY <1>1 DEF Codes
<1>4. /\ s \in Invoked /\ s.at = "exchange"
      /\ s.found = command[c].found /\ s.before = command[c].before
      /\ s.cleaning = command[c].cleaning /\ s.told = command[c].told
  <2>1. command[c] \in Invoked
    BY <1>2, EarlyIs
  <2> QED
    BY <1>2, <1>3, <2>1 DEF Invoked
<1> HIDE DEF s
<1>5. Outcome(s, KindOf[c], keychain)
  BY <1>2, <1>4, EarlyIs, EarlyOutcome
<1> QED
  BY <1>1, <1>2, <1>5, EarlyStep DEF CredentialInv

LEMMA EndSessionKept ==
    ASSUME CredentialInv, NEW c \in Invocations, EndSession(c)
    PROVE  CredentialInv'
<1>1. command[c].at \in EarlyStages
  BY DEF EndSession, EarlyStages
<1> QED
  BY <1>1, EarlyFailure, EarlyStep DEF EndSession, CredentialInv

LEMMA ExchangeCodeKept ==
    ASSUME CredentialInv, NEW c \in Invocations, NEW answered \in BOOLEAN,
           ExchangeCode(c, answered)
    PROVE  CredentialInv'
<1>1. command[c].at \in EarlyStages /\ "list" \in EarlyStages \ StoringStages
  BY DEF ExchangeCode, EarlyStages, StoringStages
<1> QED
  BY <1>1, EarlyPass, EarlyFailure, EarlyStep DEF ExchangeCode, CredentialInv

LEMMA ListAccountsKept ==
    ASSUME CredentialInv, NEW c \in Invocations, ListAccounts(c)
    PROVE  CredentialInv'
<1> DEFINE s == [command[c] EXCEPT !.at = "choose", !.listed = subaccounts]
<1>1. /\ command[c].at = "list"
      /\ UNCHANGED <<keychain, subaccounts, mishaps>> /\ Become(c, s)
  BY DEF ListAccounts
<1>2. /\ command[c].at \in EarlyStages
      /\ "choose" \in (EarlyStages \cap WorkingStages) \ (ReadingStages \cup StoringStages)
  BY <1>1 DEF EarlyStages, ReadingStages, StoringStages, WorkingStages
<1>3. /\ s \in Invoked /\ s.at = "choose"
      /\ s.found = command[c].found /\ s.before = command[c].before
      /\ s.cleaning = command[c].cleaning /\ s.told = command[c].told
  <2>1. subaccounts \in SUBSET Accounts
    BY DEF CredentialInv
  <2>2. command[c] \in Invoked
    BY <1>2, EarlyIs
  <2> QED
    BY <1>2, <2>1, <2>2 DEF Invoked
<1> HIDE DEF s
<1>4. Outcome(s, KindOf[c], keychain)
  BY <1>2, <1>3, EarlyIs, EarlyOutcome
<1> QED
  BY <1>1, <1>2, <1>4, EarlyStep DEF CredentialInv

LEMMA ChooseKept ==
    ASSUME CredentialInv, NEW c \in Invocations, NEW choice, Choose(c, choice)
    PROVE  CredentialInv'
<1> DEFINE s == [command[c] EXCEPT !.at = "fetch", !.choice = choice]
<1>1. /\ command[c].at = "choose" /\ choice \in Choices(c)
      /\ UNCHANGED <<keychain, subaccounts, mishaps>> /\ Become(c, s)
  BY DEF Choose
<1>2. /\ command[c].at \in EarlyStages
      /\ "fetch" \in (EarlyStages \cap WorkingStages) \ (ReadingStages \cup StoringStages)
  BY <1>1 DEF EarlyStages, ReadingStages, StoringStages, WorkingStages
<1>3. choice \in Accounts \cup {"none", "create"}
  <2>1. command[c].listed \subseteq Accounts
    BY <1>2, EarlyIs DEF Invoked
  <2> QED
    BY <1>1, <2>1 DEF Choices
<1>4. /\ s \in Invoked /\ s.at = "fetch"
      /\ s.found = command[c].found /\ s.before = command[c].before
      /\ s.cleaning = command[c].cleaning /\ s.told = command[c].told
  <2>1. command[c] \in Invoked
    BY <1>2, EarlyIs
  <2> QED
    BY <1>2, <1>3, <2>1 DEF Invoked
<1> HIDE DEF s
<1>5. Outcome(s, KindOf[c], keychain)
  BY <1>2, <1>4, EarlyIs, EarlyOutcome
<1> QED
  BY <1>1, <1>2, <1>5, EarlyStep DEF CredentialInv

LEMMA ChooseNothingKept ==
    ASSUME CredentialInv, NEW c \in Invocations, ChooseNothing(c)
    PROVE  CredentialInv'
<1>1. command[c].at \in EarlyStages
  BY DEF ChooseNothing, EarlyStages
<1> QED
  BY <1>1, EarlyFailure, EarlyStep DEF ChooseNothing, CredentialInv

LEMMA FetchCredentialsKept ==
    ASSUME CredentialInv, NEW c \in Invocations, NEW set \in Credentials,
           FetchCredentials(c, set)
    PROVE  CredentialInv'
<1> DEFINE q == [command[c] EXCEPT !.set = Whole(set)]
           s == IF Fits(c, set) THEN Pass(q, "snapshot") ELSE Tell(command[c], "failed")
<1>1. /\ command[c].at = "fetch"
      /\ subaccounts' = IF command[c].choice = "create"
                        THEN subaccounts \cup {AccountFor[set]} ELSE subaccounts
      /\ UNCHANGED <<keychain, mishaps>> /\ Become(c, s)
  BY DEF FetchCredentials
<1>2. /\ command[c].at \in EarlyStages
      /\ "snapshot" \in (StoringStages \cap WorkingStages) \ EarlyStages
  BY <1>1 DEF EarlyStages, StoringStages, WorkingStages
<1>3. subaccounts' \subseteq Accounts
  BY <1>1 DEF CredentialInv, Accounts
<1>4. ASSUME Fits(c, set)
      PROVE  Outcome(Pass(q, "snapshot"), KindOf[c], keychain)
  <2>1. /\ q \in Invoked /\ q.set = Whole(set)
        /\ q.found = command[c].found /\ q.before = command[c].before
        /\ q.cleaning = command[c].cleaning /\ q.told = command[c].told
        /\ q.choice = command[c].choice /\ q.listed = command[c].listed
    <3>1. command[c] \in Invoked /\ Whole(set) \in Holdings
      BY <1>2, EarlyIs, WholeIs
    <3> QED
      BY <3>1 DEF Invoked
  <2> HIDE DEF q
  <2>2. Chosen(q, KindOf[c])
    BY <1>4, <2>1 DEF Chosen, FitsIn, Fits
  <2> QED
    BY <1>2, <2>1, <2>2, EarlyIs, PassSound
<1>5. Outcome(s, KindOf[c], keychain)
  BY <1>2, <1>4, EarlyFailure
<1> HIDE DEF s
<1> QED
  BY <1>1, <1>2, <1>3, <1>5, EarlyStep

LEMMA FindKeychainKept ==
    ASSUME CredentialInv, NEW found \in FoundRecords,
           NEW there \in SUBSET {AccountFor[set] : set \in Credentials},
           FindKeychain(found, there)
    PROVE  CredentialInv'
<1>1. /\ \A c \in Invocations : ~Working(c)
      /\ keychain' = found /\ subaccounts' = there /\ UNCHANGED <<command, mishaps>>
  BY DEF FindKeychain, Working
<1>2. found \in Holdings
  BY CredentialAssumption DEF Holdings
<1>3. \A c \in Invocations : ~Working(c)'
  BY <1>1 DEF Working
<1> QED
  BY <1>1, <1>2, <1>3 DEF CredentialInv, Accounts

LEMMA InterruptKept ==
    ASSUME CredentialInv, NEW c \in Invocations, Interrupt(c)
    PROVE  CredentialInv'
<1>1. /\ Working(c) /\ command' = [command EXCEPT ![c].at = "killed"]
      /\ UNCHANGED <<keychain, subaccounts, mishaps>>
  BY DEF Interrupt
<1>2. /\ command[c] \in Invoked /\ command[c].told = "nothing"
      /\ \A d \in Invocations : d # c => ~Working(d)
  BY <1>1 DEF CredentialInv, Sound
<1>3. /\ command' \in [Invocations -> Invoked]
      /\ command'[c].at = "killed" /\ command'[c].told = "nothing"
      /\ \A d \in Invocations : d # c => command'[d] = command[d]
  <2>1. [command[c] EXCEPT !.at = "killed"] \in Invoked
    BY <1>2 DEF Invoked
  <2>2. /\ [command[c] EXCEPT !.at = "killed"].at = "killed"
        /\ [command[c] EXCEPT !.at = "killed"].told = "nothing"
    BY <1>2 DEF Invoked
  <2>3. command' = [command EXCEPT ![c] = [command[c] EXCEPT !.at = "killed"]]
    BY <1>1
  <2> QED
    BY <2>1, <2>2, <2>3 DEF CredentialInv
<1>4. \A d \in Invocations : ~Working(d)'
  BY <1>2, <1>3 DEF Working
<1> QED
  BY <1>1, <1>3, <1>4 DEF CredentialInv

(***************************************************************************)
(* The theorems.                                                            *)
(***************************************************************************)
LEMMA CredentialStarts == CredentialInit => CredentialInv
<1> SUFFICES ASSUME CredentialInit PROVE CredentialInv
  OBVIOUS
<1>1. 0 \in 0 .. KeychainFaults
  BY CredentialAssumption
<1>2. \A c \in Invocations :
         /\ command[c] \in Invoked /\ command[c].at = "new"
         /\ command[c].before = Absent /\ ~command[c].cleaning
         /\ command[c].told = "nothing"
  BY WholeIs DEF CredentialInit, Invoked
<1>3. command \in [Invocations -> Invoked]
  BY <1>2 DEF CredentialInit
<1>4. \A c \in Invocations : ~Working(c)
  BY <1>2 DEF Working
<1> QED
  BY <1>1, <1>2, <1>3, <1>4, WholeIs DEF CredentialInit, CredentialInv

LEMMA CredentialStep == CredentialInv /\ [CredentialNext]_credentialVars => CredentialInv'
<1> SUFFICES ASSUME CredentialInv, [CredentialNext]_credentialVars PROVE CredentialInv'
  OBVIOUS
<1>1. CASE UNCHANGED credentialVars
  BY <1>1 DEF credentialVars, CredentialInv, Working
<1>2. ASSUME NEW c \in Invocations, KeychainStep(c)
      PROVE  CredentialInv'
  BY <1>2, ReadRecordKept, ReadBackKept, WriteRecordKept, RestoreRecordKept,
     DeleteRecordKept DEF KeychainStep
<1>3. ASSUME NEW c \in Invocations, NEW way \in DOMAIN Codes, NEW code \in Codes[way],
             DeliverCode(c, way, code)
      PROVE  CredentialInv'
  BY <1>3, DeliverCodeKept
<1>4. ASSUME NEW c \in Invocations, NEW choice \in Choices(c), Choose(c, choice)
      PROVE  CredentialInv'
  BY <1>4, ChooseKept
<1>5. ASSUME NEW found \in FoundRecords,
             NEW there \in SUBSET {AccountFor[set] : set \in Credentials},
             FindKeychain(found, there)
      PROVE  CredentialInv'
  BY <1>5, FindKeychainKept
<1> QED
  BY <1>1, <1>2, <1>3, <1>4, <1>5, InvokeKept, PreflightKept, CreateSessionKept,
     EndSessionKept, ExchangeCodeKept, ListAccountsKept, ChooseNothingKept,
     FetchCredentialsKept, InterruptKept DEF CredentialNext

\* The Keychain holds issued values, nothing or something no set has, whatever Keychain
\* command fails, and the bookkeeping of the commands is of its type.
THEOREM CredentialsAreTyped == CredentialSpec => []CredentialTypeOK
<1>1. CredentialInv => CredentialTypeOK
  <2> SUFFICES ASSUME CredentialInv PROVE CredentialTypeOK
    OBVIOUS
  <2>1. ASSUME NEW c \in Invocations
        PROVE  /\ command[c].i \in 1 .. Len(Names)
               /\ command[c].seen \in [Records -> Values \cup {"unreadable"}]
               /\ {command[c].found, command[c].set, command[c].previous,
                   command[c].before} \subseteq [Records -> Values]
               /\ command[c].told \in {"nothing", "stored", "failed", "incomplete",
                                       "removed", "not removed"}
    <3>1. command[c] \in Invoked
      BY DEF CredentialInv
    <3> QED
      BY <3>1, NamesAreRecords DEF Invoked, Holdings
  <2> QED
    BY <2>1 DEF CredentialInv, CredentialTypeOK, Holdings
<1> QED
  BY <1>1, CredentialStarts, CredentialStep, PTL DEF CredentialSpec

\* Whatever Keychain command fails, fails after its effect or stores something else on
\* the way, and wherever a command is interrupted, a command that says stored, failed or
\* removed leaves a whole set of the account chosen, what it found, or nothing
\* (save, remove, runCredentialsConnectCli).
THEOREM SetsAreWholeOrTold == CredentialSpec => []WholeOrTold
<1>1. CredentialInv => WholeOrTold
  <2> SUFFICES ASSUME CredentialInv, NEW c \in Invocations
               PROVE  LET r == command[c]
                      IN /\ r.told = "stored" =>
                               /\ \E set \in Credentials :
                                     r.left = Whole(set) /\ r.set = Whole(set)
                               /\ KindOf[c] = "connect" =>
                                     \E set \in Credentials :
                                         r.left = Whole(set) /\ Fits(c, set)
                         /\ r.told = "failed" => r.left \in {r.found, Absent}
                         /\ r.told = "removed" => r.left = Absent
    BY DEF WholeOrTold
  <2>1. CASE command[c].at = "ended"
    <3>1. Honest(command[c], KindOf[c], command[c].left)
      BY <2>1 DEF CredentialInv
    <3>2. \A set \in Credentials : FitsIn(command[c], set) <=> Fits(c, set)
      BY DEF FitsIn, Fits
    <3> QED
      BY <3>1, <3>2 DEF Honest
  <2>2. CASE command[c].at # "ended"
    <3>1. command[c].told = "nothing"
      BY <2>2 DEF CredentialInv, Working, Sound
    <3> QED
      BY <3>1
  <2> QED
    BY <2>1, <2>2
<1> QED
  BY <1>1, CredentialStarts, CredentialStep, PTL DEF CredentialSpec

-----------------------------------------------------------------------------
(***************************************************************************)
(* The inductive invariant of the history runs.                             *)
(***************************************************************************)
\* A record the exchange has is of a moment that has come.
ExchangeInv ==
    /\ today \in Moments
    /\ offered \subseteq SourceFact
    /\ \A record \in offered : record.at <= today

JournalTyped == facts \subseteq SourceFact /\ disputes \subseteq Sources \X Moments

KeyInv(key) ==
    /\ key \in Key
    /\ key.window.from < key.window.to /\ key.window.to <= today
    /\ key.filters.to <= today

\* The pages behind the cursor of a window are stored.
Behind(key, cursor) ==
    \A record \in offered :
        (/\ record.source = key.source /\ record.at < key.window.to
         /\ key.window.to < record.at + cursor) =>
            \E fact \in facts : fact.source = record.source /\ fact.at = record.at

CursorInv(key, cursor) ==
    /\ KeyInv(key) /\ cursor \in Moments
    /\ cursor + key.window.from <= key.window.to
    /\ Behind(key, cursor)

ItemInv(item) ==
    /\ item \in WorkItem
    /\ CursorInv(item.key, item.cursor)

\* The page on the way is the one behind the cursor, and whole.
PageInv(item, page) ==
    /\ \/ page.next = 0 /\ item.cursor + item.key.window.from = item.key.window.to
       \/ /\ page.next = item.cursor + 1
          /\ item.cursor + item.key.window.from < item.key.window.to
    /\ \A record \in offered :
          (/\ record.source = item.key.source /\ record.at < item.key.window.to
           /\ record.at + item.cursor = item.key.window.to) =>
              \E read \in page.records : read.source = record.source /\ read.at = record.at

SavedInv ==
    /\ DOMAIN saved \subseteq Key
    /\ \A key \in DOMAIN saved :
          /\ saved[key] \in Checkpoint /\ CursorInv(key, saved[key].cursor)
          /\ saved[key].status = "traversed" =>
                Stored(key.source, key.window.from, key.window.to)

\* What is selected, and where each of its windows is: saved or still to be read.
SelectedInv(run) ==
    /\ \A chosen \in run.selected : chosen[2].to <= today
    /\ run.at \in {"reading", "page read", "conflict", "pages spent"} =>
          \A key \in KeysOf(run.selected) :
              key \in DOMAIN saved \/ \E item \in run.queue \cup run.taken : item.key = key

RunInv(run) ==
    /\ run \in Sync
    /\ \A item \in run.queue \cup run.taken : ItemInv(item)
    /\ \A one, other \in run.taken : one = other
    /\ run.at \in {"reading", "settling"} => run.taken = {}
    /\ run.at = "settling" => run.stopped
    /\ run.at = "page read" => \A item \in run.taken : PageInv(item, run.page)
    /\ SelectedInv(run)

HistoryInv ==
    /\ ExchangeInv /\ JournalTyped /\ SavedInv
    /\ sync \in [Syncs -> Sync]
    /\ \A p \in Syncs : RunInv(sync[p])

-----------------------------------------------------------------------------
(* Moments.                                                                 *)

LEMMA LeastOfNat ==
    ASSUME NEW T \in SUBSET Nat, T # {}
    PROVE  \E x \in T : \A y \in T : x <= y
<1>1. \A x \in Nat, y \in Nat : <<y, x>> \in OpToRel(<, Nat) <=> y < x
  BY DEF OpToRel
<1>2. \E R : IsWellFoundedOn(R, Nat) /\ \A x \in Nat, y \in Nat : <<y, x>> \in R <=> y < x
  BY <1>1, NatLessThanWellFounded, Zenon
<1>3. PICK R : IsWellFoundedOn(R, Nat) /\ \A x \in Nat, y \in Nat : <<y, x>> \in R <=> y < x
  BY <1>2
<1>4. PICK x \in T : \A y \in T : ~(<<y, x>> \in R)
  BY <1>3, WFMin
<1>5. ASSUME NEW y \in T PROVE x <= y
  <2>1. x \in Nat /\ y \in Nat
    OBVIOUS
  <2>2. ~(y < x)
    BY <1>3, <1>4, <2>1
  <2> QED
    BY <2>1, <2>2
<1> QED
  BY <1>5

\* A set of moments that has a bound has a latest one.
LEMMA LatestIs ==
    ASSUME NEW S \in SUBSET Nat, S # {}, NEW bound \in Nat, \A x \in S : x <= bound
    PROVE  Latest(S) \in S /\ \A x \in S : x <= Latest(S)
<1> DEFINE T == {n \in Nat : \E x \in S : n = bound - x}
<1>1. T \in SUBSET Nat /\ T # {}
  <2>1. PICK x \in S : TRUE
    OBVIOUS
  <2>2. bound - x \in Nat
    BY <2>1
  <2> QED
    BY <2>1, <2>2
<1>2. PICK n \in T : \A m \in T : n <= m
  BY <1>1, LeastOfNat
<1>3. PICK x \in S : n = bound - x
  BY <1>2
<1>4. ASSUME NEW y \in S PROVE y <= x
  <2>1. bound - y \in Nat /\ y \in Nat /\ x \in Nat
    OBVIOUS
  <2>2. bound - y \in T
    BY <2>1
  <2>3. bound - x <= bound - y
    BY <1>2, <1>3, <2>2
  <2> QED
    BY <2>1, <2>3
<1> QED
  BY <1>4 DEF Latest

LEMMA MomentsAreNat == Moments \subseteq Nat /\ End \in Nat
BY HistoryAssumption DEF Moments

LEMMA KeyFields ==
    ASSUME NEW key \in Key
    PROVE  /\ key.source \in Sources /\ key.filters \in Filters /\ key.window \in Window
           /\ key.window.from \in Moments /\ key.window.to \in Moments
           /\ key.window.from \in Nat /\ key.window.to \in Nat
           /\ key.filters.from \in Moments /\ key.filters.to \in Moments
           /\ key.filters.from \in Nat /\ key.filters.to \in Nat
BY MomentsAreNat DEF Key, Filters, Window

LEMMA ItemFields ==
    ASSUME NEW item \in WorkItem
    PROVE  /\ item.key \in Key /\ item.cursor \in Moments /\ item.cursor \in Nat
           /\ item.revision \in Nat /\ item.disputed \in BOOLEAN /\ item.pages \in Nat
BY MomentsAreNat DEF WorkItem

LEMMA RunFields ==
    ASSUME NEW run \in Sync
    PROVE  /\ run.selected \in SUBSET (Sources \X Filters)
           /\ run.frozen \in Moments /\ run.queue \in SUBSET WorkItem
           /\ run.taken \in SUBSET WorkItem /\ run.page.records \in SUBSET SourceFact
           /\ run.page.next \in Moments /\ run.page.next \in Nat /\ run.stopped \in BOOLEAN
           /\ run.page \in [records : SUBSET SourceFact, next : Moments]
BY MomentsAreNat DEF Sync

LEMMA RecordFields ==
    ASSUME NEW record \in SourceFact
    PROVE  /\ record.source \in Sources /\ record.at \in Moments /\ record.at \in Nat
           /\ record.content \in {"first", "other"}
BY MomentsAreNat DEF SourceFact

-----------------------------------------------------------------------------
(* What goes on in the world never takes back what is known of it.          *)

\* Time goes on, what is stored stays, and nothing is new of a moment that has passed.
GoesOn ==
    /\ today' \in Moments /\ today <= today'
    /\ facts \subseteq facts'
    /\ offered' \subseteq SourceFact
    /\ \A record \in offered' : record.at < today =>
          \E old \in offered : old.source = record.source /\ old.at = record.at

LEMMA StoredStays ==
    ASSUME ExchangeInv, GoesOn, NEW source, NEW from, NEW to \in Nat, to <= today,
           Stored(source, from, to)
    PROVE  Stored(source, from, to)'
<1> SUFFICES ASSUME NEW record \in offered', record.source = source, from <= record.at,
                    record.at < to
             PROVE  \E fact \in facts' : fact.source = source /\ fact.at = record.at
  BY DEF Stored
<1>1. record.at \in Nat /\ today \in Nat
  BY RecordFields, MomentsAreNat DEF GoesOn, ExchangeInv
<1>2. record.at < today
  BY <1>1
<1>3. PICK old \in offered : old.source = record.source /\ old.at = record.at
  BY <1>2 DEF GoesOn
<1> QED
  BY <1>3 DEF Stored, GoesOn

LEMMA CursorStays ==
    ASSUME ExchangeInv, GoesOn, NEW key, NEW cursor, CursorInv(key, cursor)
    PROVE  CursorInv(key, cursor)'
<1>1. key.window.to \in Nat /\ key.filters.to \in Nat /\ today \in Nat /\ today' \in Nat
  BY KeyFields, MomentsAreNat DEF CursorInv, KeyInv, ExchangeInv, GoesOn
<1>2. KeyInv(key)'
  BY <1>1 DEF CursorInv, KeyInv, GoesOn
<1>3. Behind(key, cursor)'
  <2> SUFFICES ASSUME NEW record \in offered', record.source = key.source,
                      record.at < key.window.to, key.window.to < record.at + cursor
               PROVE  \E fact \in facts' : fact.source = record.source /\ fact.at = record.at
    BY DEF Behind
  <2>1. record.at \in Nat
    BY RecordFields DEF GoesOn
  <2>2. record.at < today
    BY <1>1, <2>1 DEF CursorInv, KeyInv
  <2>3. PICK old \in offered : old.source = record.source /\ old.at = record.at
    BY <2>2 DEF GoesOn
  <2> QED
    BY <2>3 DEF CursorInv, Behind, GoesOn
<1> QED
  BY <1>2, <1>3 DEF CursorInv

LEMMA PageStays ==
    ASSUME ExchangeInv, GoesOn, NEW item, ItemInv(item), NEW page, PageInv(item, page)
    PROVE  PageInv(item, page)'
<1>1. item.key.window.to \in Nat /\ item.key.window.to <= today /\ today \in Nat
  BY KeyFields, MomentsAreNat DEF ItemInv, CursorInv, KeyInv, ExchangeInv
<1> SUFFICES ASSUME NEW record \in offered', record.source = item.key.source,
                    record.at < item.key.window.to,
                    record.at + item.cursor = item.key.window.to
             PROVE  \E read \in page.records :
                       read.source = record.source /\ read.at = record.at
  BY DEF PageInv
<1>2. record.at \in Nat
  BY RecordFields DEF GoesOn
<1>3. record.at < today
  BY <1>1, <1>2
<1>4. PICK old \in offered : old.source = record.source /\ old.at = record.at
  BY <1>3 DEF GoesOn
<1> QED
  BY <1>4 DEF PageInv

\* Journals and runs that are left alone are right as the world goes on.
LEMMA JournalStays ==
    ASSUME HistoryInv, GoesOn, UNCHANGED saved
    PROVE  SavedInv'
<1> SUFFICES ASSUME NEW key \in DOMAIN saved
             PROVE  /\ CursorInv(key, saved[key].cursor)'
                    /\ saved[key].status = "traversed" =>
                          Stored(key.source, key.window.from, key.window.to)'
  BY DEF HistoryInv, SavedInv
<1>1. CursorInv(key, saved[key].cursor) /\ ExchangeInv
  BY DEF HistoryInv, SavedInv
<1>2. key.window.to \in Nat /\ key.window.to <= today
  BY <1>1, KeyFields DEF CursorInv, KeyInv
<1>3. PICK cursor : cursor = saved[key].cursor
  OBVIOUS
<1>4. CursorInv(key, cursor)'
  BY <1>1, <1>3, CursorStays
<1>5. saved[key].status = "traversed" => Stored(key.source, key.window.from, key.window.to)'
  BY <1>1, <1>2, StoredStays DEF HistoryInv, SavedInv
<1> QED
  BY <1>3, <1>4, <1>5

\* So is a run whose windows stay where they were.
LEMMA RunStays ==
    ASSUME HistoryInv, GoesOn, NEW run, RunInv(run), DOMAIN saved \subseteq DOMAIN saved'
    PROVE  RunInv(run)'
<1>1. run \in Sync /\ ExchangeInv
  BY DEF RunInv, HistoryInv
<1>2. ASSUME NEW item \in run.queue \cup run.taken PROVE ItemInv(item)'
  <2>1. ItemInv(item)
    BY DEF RunInv
  <2> QED
    BY <1>1, <2>1, CursorStays DEF ItemInv
<1>3. ASSUME run.at = "page read", NEW item \in run.taken PROVE PageInv(item, run.page)'
  BY <1>1, <1>3, PageStays DEF RunInv
<1>4. SelectedInv(run)'
  <2>1. ASSUME NEW chosen \in run.selected PROVE chosen[2].to <= today'
    <3>1. chosen[2].to \in Moments
      BY <1>1, RunFields DEF Filters
    <3>2. chosen[2].to \in Nat /\ today \in Nat /\ today' \in Nat
      BY <1>1, <3>1, MomentsAreNat DEF ExchangeInv, GoesOn
    <3>3. chosen[2].to <= today /\ today <= today'
      BY DEF RunInv, SelectedInv, GoesOn
    <3> QED
      BY <3>2, <3>3
  <2> QED
    BY <2>1 DEF RunInv, SelectedInv
<1> QED
  BY <1>1, <1>2, <1>3, <1>4 DEF RunInv

\* A world that stands still.
LEMMA StandingWorld ==
    ASSUME HistoryInv, UNCHANGED <<today, offered, facts>>
    PROVE  /\ ExchangeInv' /\ GoesOn
           /\ UNCHANGED disputes => JournalTyped'
<1>1. ExchangeInv /\ ExchangeInv' /\ (UNCHANGED disputes => JournalTyped')
  BY DEF HistoryInv, ExchangeInv, JournalTyped
<1>2. today' \in Moments /\ today <= today'
  BY <1>1, MomentsAreNat DEF ExchangeInv
<1> QED
  BY <1>1, <1>2 DEF ExchangeInv, GoesOn

-----------------------------------------------------------------------------
(* The steps of the exchange.                                               *)

\* A step that only lets the world go on.
LEMMA WorldStep ==
    ASSUME HistoryInv, ExchangeInv', GoesOn, UNCHANGED <<facts, disputes, saved, sync>>
    PROVE  HistoryInv'
<1>1. ASSUME NEW p \in Syncs PROVE RunInv(sync[p])'
  <2>1. PICK run : run = sync[p]
    OBVIOUS
  <2>2. RunInv(run)'
    BY <2>1, RunStays DEF HistoryInv
  <2> QED
    BY <2>1, <2>2
<1> QED
  BY <1>1, JournalStays DEF HistoryInv, JournalTyped

LEMMA DayKeepsHistory == HistoryInv /\ DayPasses => HistoryInv'
<1> SUFFICES ASSUME HistoryInv, DayPasses PROVE HistoryInv'
  OBVIOUS
<1>1. /\ today < End /\ today' = today + 1 /\ UNCHANGED <<offered, facts, disputes, saved, sync>>
      /\ ExchangeInv
  BY DEF DayPasses, HistoryInv
<1>2. today \in Nat /\ End \in Nat /\ today' \in Moments /\ today <= today'
  BY <1>1, MomentsAreNat DEF ExchangeInv, Moments
<1>3. ASSUME NEW record \in offered PROVE record.at <= today'
  <2>1. record.at \in Nat /\ record.at <= today
    BY <1>1, RecordFields DEF ExchangeInv
  <2> QED
    BY <1>1, <1>2, <2>1
<1>4. ExchangeInv' /\ GoesOn
  BY <1>1, <1>2, <1>3 DEF ExchangeInv, GoesOn
<1> QED
  BY <1>1, <1>4, WorldStep

LEMMA RecordKeepsHistory ==
    ASSUME HistoryInv, NEW source \in Sources, RecordAppears(source)
    PROVE  HistoryInv'
<1>1. /\ offered' = offered \cup {[source |-> source, at |-> today, content |-> "first"]}
      /\ UNCHANGED <<today, facts, disputes, saved, sync>> /\ ExchangeInv
  BY DEF RecordAppears, HistoryInv
<1>2. PICK new : new = [source |-> source, at |-> today, content |-> "first"]
  OBVIOUS
<1>3. new \in SourceFact /\ new.at = today /\ today \in Nat
  BY <1>1, <1>2, MomentsAreNat DEF ExchangeInv, SourceFact
<1>4. ExchangeInv'
  BY <1>1, <1>2, <1>3 DEF ExchangeInv
<1>5. GoesOn
  BY <1>1, <1>2, <1>3, <1>4 DEF ExchangeInv, GoesOn
<1> QED
  BY <1>1, <1>4, <1>5, WorldStep

LEMMA ChangeKeepsHistory ==
    ASSUME HistoryInv, NEW record \in offered, RecordChanges(record)
    PROVE  HistoryInv'
<1>1. /\ offered' = (offered \ {record}) \cup {[record EXCEPT !.content = "other"]}
      /\ UNCHANGED <<today, facts, disputes, saved, sync>> /\ ExchangeInv
  BY DEF RecordChanges, HistoryInv
<1>2. PICK new : new = [record EXCEPT !.content = "other"]
  OBVIOUS
<1>3. new \in SourceFact /\ new.at = record.at /\ new.source = record.source /\ today \in Nat
  BY <1>1, <1>2, MomentsAreNat DEF ExchangeInv, SourceFact
<1>4. ExchangeInv'
  BY <1>1, <1>2, <1>3 DEF ExchangeInv
<1>5. GoesOn
  <2>1. ASSUME NEW row \in offered'
        PROVE  \E old \in offered : old.source = row.source /\ old.at = row.at
    <3>1. row \in offered \/ row = new
      BY <1>1, <1>2
    <3> QED
      BY <1>3, <3>1
  <2>2. today' \in Moments /\ today <= today' /\ offered' \subseteq SourceFact
    BY <1>1, <1>3, <1>4 DEF ExchangeInv
  <2> QED
    BY <1>1, <2>1, <2>2 DEF GoesOn
<1> QED
  BY <1>1, <1>4, <1>5, WorldStep

-----------------------------------------------------------------------------
(* The steps of a run.                                                      *)

\* What the store keeps after one checkpoint is written.
LEMMA SaveKeepsJournal ==
    ASSUME HistoryInv, GoesOn, NEW key \in Key,
           NEW status \in {"paging", "partial", "traversed", "unavailable"},
           NEW cursor, NEW reason \in {"none", "conflict", "expired", "other"},
           Save(key, status, cursor, reason), CursorInv(key, cursor)',
           status = "traversed" => Stored(key.source, key.window.from, key.window.to)'
    PROVE  /\ SavedInv' /\ DOMAIN saved' = DOMAIN saved \cup {key}
<1>1. DOMAIN saved' = DOMAIN saved \cup {key}
  BY DEF Save
<1>2. ExchangeInv /\ SavedInv
  BY DEF HistoryInv
<1>3. ASSUME NEW other \in DOMAIN saved'
      PROVE  /\ saved'[other] \in Checkpoint /\ CursorInv(other, saved[other].cursor)'
             /\ saved'[other].status = "traversed" =>
                   Stored(other.source, other.window.from, other.window.to)'
  <2>1. CASE other = key
    <3>1. SavedRevision(key) + 1 \in Nat \ {0}
      <4>1. SavedRevision(key) \in Nat
        BY <1>2 DEF SavedRevision, SavedInv, Checkpoint
      <4> QED
        BY <4>1
    <3>2. saved'[other] = [status |-> status, cursor |-> cursor, reason |-> reason,
                           revision |-> SavedRevision(key) + 1]
      BY <1>1, <2>1 DEF Save
    <3>3. cursor \in Moments
      BY DEF CursorInv
    <3>4. saved'[other].status = status /\ saved'[other].cursor = cursor
      BY <3>2
    <3>5. saved'[other] \in Checkpoint
      BY <3>1, <3>2, <3>3 DEF Checkpoint
    <3>6. CursorInv(other, saved[other].cursor)'
      BY <2>1, <3>4
    <3> QED
      BY <2>1, <3>4, <3>5, <3>6
  <2>2. CASE other # key
    <3>1. other \in DOMAIN saved /\ saved'[other] = saved[other]
      BY <1>1, <2>2 DEF Save
    <3>2. PICK old : old = saved[other]
      OBVIOUS
    <3>3. /\ old \in Checkpoint /\ CursorInv(other, old.cursor)
          /\ old.status = "traversed" => Stored(other.source, other.window.from, other.window.to)
      BY <1>2, <3>1, <3>2 DEF SavedInv
    <3>4. other.window.to \in Nat /\ other.window.to <= today
      BY <3>3, KeyFields DEF CursorInv, KeyInv
    <3>5. CursorInv(other, old.cursor)'
      BY <1>2, <3>3, CursorStays
    <3>6. old.status = "traversed" => Stored(other.source, other.window.from, other.window.to)'
      BY <1>2, <3>3, <3>4, StoredStays
    <3> QED
      BY <3>1, <3>2, <3>3, <3>5, <3>6
  <2> QED
    BY <2>1, <2>2
<1>4. DOMAIN saved' \subseteq Key
  BY <1>1, <1>2 DEF SavedInv
<1> QED
  BY <1>1, <1>3, <1>4 DEF SavedInv

\* A step of one run: the others stay as they were.
LEMMA RunStep ==
    ASSUME HistoryInv, GoesOn, ExchangeInv', JournalTyped', SavedInv',
           DOMAIN saved \subseteq DOMAIN saved',
           NEW p \in Syncs, NEW run, sync' = [sync EXCEPT ![p] = run], RunInv(run)'
    PROVE  HistoryInv'
<1>1. sync \in [Syncs -> Sync] /\ run \in Sync
  BY DEF HistoryInv, RunInv
<1>2. sync' \in [Syncs -> Sync]
  BY <1>1
<1>3. ASSUME NEW q \in Syncs PROVE RunInv(sync[q])'
  <2>1. CASE q = p
    <3>1. sync'[q] = run
      BY <1>1, <2>1
    <3> QED
      BY <3>1
  <2>2. CASE q # p
    <3>1. PICK other : other = sync[q] /\ other = sync'[q]
      BY <1>1, <2>2
    <3>2. RunInv(other)
      BY <3>1 DEF HistoryInv
    <3>3. RunInv(other)'
      BY <3>2, RunStays
    <3> QED
      BY <3>1, <3>3
  <2> QED
    BY <2>1, <2>2
<1> QED
  BY <1>2, <1>3 DEF HistoryInv

\* A run that ends holds on to nothing.
LEMMA EndedRun ==
    ASSUME NEW run, RunInv(run), NEW report \in {"none", "COMPLETE", "PARTIAL"}, NEW new,
           \/ new = [run EXCEPT !.at = "ended"]
           \/ new = [run EXCEPT !.at = "ended", !.report = report]
    PROVE  RunInv(new)
<1>1. run \in Sync
  BY DEF RunInv
<1>2. /\ new \in Sync /\ new.at = "ended" /\ new.queue = run.queue /\ new.taken = run.taken
      /\ new.selected = run.selected
  <2>1. CASE new = [run EXCEPT !.at = "ended"]
    BY <1>1, <2>1 DEF Sync
  <2>2. CASE new = [run EXCEPT !.at = "ended", !.report = report]
    BY <1>1, <2>2 DEF Sync
  <2> QED
    BY <2>1, <2>2
<1> QED
  BY <1>2 DEF RunInv, SelectedInv

\* A call the store refuses, a report and a death leave everything but the run.
LEMMA EndKeepsHistory ==
    ASSUME HistoryInv, NEW p \in Syncs, NEW report \in {"none", "COMPLETE", "PARTIAL"},
           \/ sync' = [sync EXCEPT ![p].at = "ended"]
           \/ sync' = [sync EXCEPT ![p].at = "ended", ![p].report = report],
           UNCHANGED <<today, offered, facts, disputes, saved>>
    PROVE  HistoryInv'
<1>1. PICK run : run = sync[p]
  OBVIOUS
<1>2. PICK new : /\ \/ new = [run EXCEPT !.at = "ended"]
                    \/ new = [run EXCEPT !.at = "ended", !.report = report]
                 /\ sync' = [sync EXCEPT ![p] = new]
  BY <1>1
<1>3. RunInv(run)
  BY <1>1 DEF HistoryInv
<1>4. RunInv(new)
  BY <1>2, <1>3, EndedRun
<1>5. ExchangeInv' /\ JournalTyped'
  BY StandingWorld
<1>6. GoesOn
  BY StandingWorld
<1>7. RunInv(new)'
  BY <1>4, <1>6, RunStays
<1>8. SavedInv'
  BY <1>6, JournalStays
<1> QED
  BY <1>2, <1>5, <1>6, <1>7, <1>8, RunStep

\* A window that is left keeps the cursor it is marked with.
LEMMA LeaveKeepsHistory ==
    ASSUME HistoryInv, NEW p \in Syncs, NEW item \in sync[p].queue \cup sync[p].taken,
           \/ sync[p].at = "reading"
           \/ sync[p].at \in {"page read", "conflict", "pages spent"} /\ item \in sync[p].taken,
           NEW status \in {"partial", "unavailable"},
           NEW cursor, CursorInv(item.key, cursor),
           NEW reason \in {"none", "conflict", "expired", "other"},
           NEW stops \in BOOLEAN, Leave(p, item, status, cursor, reason, stops)
    PROVE  HistoryInv'
<1>1. PICK run : run = sync[p]
  OBVIOUS
<1>2. /\ RunInv(run) /\ run \in Sync /\ ExchangeInv /\ sync \in [Syncs -> Sync]
      /\ UNCHANGED <<today, offered, facts, disputes>>
  BY <1>1 DEF HistoryInv, RunInv, Leave
<1>3. item \in WorkItem /\ ItemInv(item) /\ item.key \in Key
  BY <1>1, <1>2, RunFields, ItemFields DEF RunInv
<1>4. CASE ~Fresh(item) /\ Ends(p) /\ UNCHANGED saved
  BY <1>2, <1>4, EndKeepsHistory DEF Ends
<1>5. CASE /\ MarkCoverage(item, status, cursor, reason)
           /\ sync' = [sync EXCEPT ![p].queue = @ \ {item},
                                   ![p].taken = {},
                                   ![p].at = IF stops THEN "settling" ELSE "reading",
                                   ![p].stopped = stops]
  <2>1. ExchangeInv' /\ JournalTyped' /\ GoesOn
    BY <1>2, StandingWorld
  <2>2. CursorInv(item.key, cursor)'
    BY <1>2, <2>1, CursorStays
  <2>3. PICK written \in {"none", "conflict", "expired", "other"} :
           Save(item.key, status, cursor, written)
    BY <1>5 DEF MarkCoverage
  <2>4. SavedInv' /\ DOMAIN saved' = DOMAIN saved \cup {item.key}
    BY <1>3, <2>1, <2>2, <2>3, SaveKeepsJournal
  <2>5. PICK new :
           /\ new = [run EXCEPT !.queue = @ \ {item}, !.taken = {},
                                !.at = IF stops THEN "settling" ELSE "reading",
                                !.stopped = stops]
           /\ sync' = [sync EXCEPT ![p] = new]
    BY <1>1, <1>5
  <2>6. /\ new \in Sync /\ new.queue = run.queue \ {item} /\ new.taken = {}
        /\ new.at = (IF stops THEN "settling" ELSE "reading") /\ new.stopped = stops
        /\ new.selected = run.selected
    BY <1>2, <2>5 DEF Sync
  <2>7. RunInv(run)'
    BY <1>2, <2>1, <2>4, RunStays
  <2>8. SelectedInv(new)'
    <3>1. ASSUME NEW key \in KeysOf(run.selected)
          PROVE  key \in DOMAIN saved' \/ \E other \in new.queue \cup new.taken : other.key = key
      <4>1. CASE key \in DOMAIN saved
        BY <2>4, <4>1
      <4>2. CASE key \notin DOMAIN saved
        <5>1. PICK other \in run.queue \cup run.taken : other.key = key
          BY <1>1, <1>2, <4>2 DEF RunInv, SelectedInv
        <5>2. CASE other = item
          BY <2>4, <5>1, <5>2
        <5>3. CASE other # item
          <6>1. other \in run.queue
            <7>1. CASE run.at = "reading"
              BY <1>2, <5>1, <7>1 DEF RunInv
            <7>2. CASE item \in run.taken
              BY <1>2, <5>1, <5>3, <7>2 DEF RunInv
            <7> QED
              BY <1>1, <7>1, <7>2
          <6> QED
            BY <2>6, <5>1, <5>3, <6>1
        <5> QED
          BY <5>2, <5>3
      <4> QED
        BY <4>1, <4>2
    <3>2. \A chosen \in new.selected : chosen[2].to <= today'
      BY <2>6, <2>7 DEF RunInv, SelectedInv
    <3> QED
      BY <2>6, <3>1, <3>2 DEF SelectedInv
  <2>9. RunInv(new)'
    BY <2>6, <2>7, <2>8 DEF RunInv
  <2> QED
    BY <2>1, <2>4, <2>5, <2>9, RunStep
<1> QED
  BY <1>4, <1>5 DEF Leave

\* The cursor a run may mark its window with.
LEMMA CursorsOfItem ==
    ASSUME HistoryInv, NEW p \in Syncs, NEW item \in sync[p].queue \cup sync[p].taken
    PROVE  /\ CursorInv(item.key, item.cursor) /\ CursorInv(item.key, 0)
           /\ CursorInv(item.key, KeptCursor(item))
<1>1. RunInv(sync[p]) /\ ExchangeInv
  BY DEF HistoryInv
<1>2. CursorInv(item.key, item.cursor)
  BY <1>1 DEF RunInv, ItemInv
<1>3. CursorInv(item.key, 0)
  <2>1. KeyInv(item.key) /\ item.key.window.from \in Nat /\ item.key.window.to \in Nat
    BY <1>2, KeyFields DEF CursorInv, KeyInv
  <2>2. 0 \in Moments /\ 0 + item.key.window.from <= item.key.window.to
    BY <2>1, MomentsAreNat DEF KeyInv, Moments
  <2>3. Behind(item.key, 0)
    <3> SUFFICES ASSUME NEW record \in offered, record.at < item.key.window.to,
                        item.key.window.to < record.at + 0
                 PROVE  FALSE
      BY DEF Behind
    <3>1. record.at \in Nat
      BY <1>1, RecordFields DEF ExchangeInv
    <3> QED
      BY <2>1, <3>1
  <2> QED
    BY <2>1, <2>2, <2>3 DEF CursorInv
<1>4. CursorInv(item.key, KeptCursor(item))
  <2>1. CASE item.key \in DOMAIN saved
    BY <2>1 DEF KeptCursor, HistoryInv, SavedInv
  <2>2. CASE item.key \notin DOMAIN saved
    BY <1>3, <2>2 DEF KeptCursor
  <2> QED
    BY <2>1, <2>2
<1> QED
  BY <1>2, <1>3, <1>4

\* The steps that leave a window.
LEMMA LeavingKeepsHistory ==
    ASSUME HistoryInv, NEW p \in Syncs,
           \/ OutOfBudget(p) \/ TransportSpent(p) \/ KeyRefused(p) \/ PageUnavailable(p)
           \/ InvalidPage(p) \/ TooManyRows(p) \/ MarkConflict(p) \/ PagesSpent(p)
    PROVE  HistoryInv'
<1>1. PICK item \in sync[p].queue \cup sync[p].taken :
         /\ \/ sync[p].at = "reading"
            \/ sync[p].at \in {"page read", "conflict", "pages spent"} /\ item \in sync[p].taken
         /\ \/ Leave(p, item, "partial", item.cursor, "other", TRUE)
            \/ Leave(p, item, "partial", KeptCursor(item), "other", TRUE)
            \/ Leave(p, item, "unavailable", KeptCursor(item), "other", TRUE)
            \/ Leave(p, item, "unavailable", KeptCursor(item), "other", FALSE)
            \/ Leave(p, item, "unavailable", 0, "other", FALSE)
            \/ Leave(p, item, "partial", item.cursor, "conflict", FALSE)
            \/ Leave(p, item, "partial", item.cursor, "other", FALSE)
  <2>1. CASE \/ OutOfBudget(p) \/ TransportSpent(p) \/ KeyRefused(p) \/ PageUnavailable(p)
             \/ InvalidPage(p)
    BY <2>1, Zenon DEF OutOfBudget, TransportSpent, KeyRefused, PageUnavailable, InvalidPage, Heads,
               Asking
  <2>2. CASE TooManyRows(p) \/ MarkConflict(p) \/ PagesSpent(p)
    BY <2>2, Zenon DEF TooManyRows, MarkConflict, PagesSpent
  <2> QED
    BY <2>1, <2>2
<1>2. /\ CursorInv(item.key, item.cursor) /\ CursorInv(item.key, 0)
      /\ CursorInv(item.key, KeptCursor(item))
  BY <1>1, CursorsOfItem
<1> QED
  BY <1>1, <1>2, LeaveKeepsHistory

\* The page that is read is the one behind the cursor.
LEMMA ReadKeepsHistory ==
    ASSUME HistoryInv, NEW p \in Syncs, ReadPage(p)
    PROVE  HistoryInv'
<1>1. PICK run : run = sync[p]
  OBVIOUS
<1>2. /\ RunInv(run) /\ run \in Sync /\ ExchangeInv /\ sync \in [Syncs -> Sync]
      /\ UNCHANGED <<today, offered, facts, disputes, saved>> /\ run.at = "reading"
      /\ run.taken = {}
  BY <1>1 DEF HistoryInv, RunInv, ReadPage, Asking
<1>3. PICK item \in run.queue :
         sync' = [sync EXCEPT ![p].at = "page read",
                              ![p].queue = @ \ {item},
                              ![p].taken = {item},
                              ![p].page = PageOf(item.key, item.cursor)]
  BY <1>1 DEF ReadPage, Heads
<1>4. PICK page : page = PageOf(item.key, item.cursor)
  OBVIOUS
<1>5. /\ item \in WorkItem /\ ItemInv(item) /\ CursorInv(item.key, item.cursor)
      /\ item.cursor \in Nat /\ item.key.window.from \in Nat /\ item.key.window.to \in Nat
      /\ item.key.window.to \in Moments /\ item.cursor + item.key.window.from <= item.key.window.to
  BY <1>2, RunFields, ItemFields, KeyFields DEF RunInv, ItemInv, CursorInv
<1>6. PICK moment \in Nat : moment = item.key.window.to - item.cursor
                            /\ moment + item.cursor = item.key.window.to
  BY <1>5
<1>7. /\ page = [records |-> {record \in offered : record.source = item.key.source
                                                  /\ record.at = moment},
                 next    |-> IF moment = item.key.window.from THEN 0 ELSE item.cursor + 1]
  BY <1>4, <1>6 DEF PageOf
<1>8. /\ page.records = {record \in offered : record.source = item.key.source
                                              /\ record.at = moment}
      /\ page.next = (IF moment = item.key.window.from THEN 0 ELSE item.cursor + 1)
  BY <1>7
<1>9. PageInv(item, page)
  <2>1. \/ page.next = 0 /\ item.cursor + item.key.window.from = item.key.window.to
        \/ /\ page.next = item.cursor + 1
           /\ item.cursor + item.key.window.from < item.key.window.to
    BY <1>5, <1>6, <1>8
  <2>2. ASSUME NEW record \in offered, record.source = item.key.source,
               record.at + item.cursor = item.key.window.to
        PROVE  record \in page.records
    <3>1. record.at \in Nat
      BY <1>2, RecordFields DEF ExchangeInv
    <3>2. record.at = moment
      BY <1>5, <1>6, <2>2, <3>1
    <3> QED
      BY <1>8, <2>2, <3>2
  <2> QED
    BY <2>1, <2>2 DEF PageInv
<1>10. page \in [records : SUBSET SourceFact, next : Moments]
  <2>1. page.records \in SUBSET SourceFact
    BY <1>2, <1>8 DEF ExchangeInv
  <2>2. page.next \in Moments
    <3>1. 0 \in Moments /\ item.key.window.to <= End
      BY <1>5, MomentsAreNat DEF Moments
    <3>2. moment # item.key.window.from => item.cursor + 1 <= item.key.window.to
      BY <1>5, <1>6
    <3>3. moment # item.key.window.from => item.cursor + 1 \in Moments
      BY <1>5, <3>1, <3>2, MomentsAreNat DEF Moments
    <3> QED
      BY <1>8, <3>1, <3>3
  <2> QED
    BY <1>7, <2>1, <2>2
<1>11. PICK new :
          /\ new = [run EXCEPT !.at = "page read", !.queue = @ \ {item}, !.taken = {item},
                               !.page = page]
          /\ sync' = [sync EXCEPT ![p] = new]
  BY <1>1, <1>3, <1>4
<1>12. /\ new \in Sync /\ new.queue = run.queue \ {item} /\ new.taken = {item}
       /\ new.at = "page read" /\ new.page = page /\ new.selected = run.selected
  BY <1>2, <1>5, <1>10, <1>11 DEF Sync
<1>13. new.queue \cup new.taken = run.queue \cup run.taken
  BY <1>2, <1>3, <1>12
<1>14. RunInv(new)
  BY <1>2, <1>9, <1>12, <1>13 DEF RunInv, SelectedInv
<1>15. ExchangeInv' /\ JournalTyped' /\ GoesOn
  BY <1>2, StandingWorld
<1>16. RunInv(new)' /\ SavedInv'
  BY <1>2, <1>14, <1>15, RunStays, JournalStays
<1> QED
  BY <1>2, <1>11, <1>15, <1>16, RunStep

\* What a page adds to what is stored behind a cursor.
LEMMA PageIsBehind ==
    ASSUME HistoryInv, NEW item, ItemInv(item), NEW page, PageInv(item, page),
           page.next \in Moments, UNCHANGED <<today, offered>>,
           facts' = facts \cup page.records
    PROVE  /\ CursorInv(item.key, page.next)'
           /\ page.next = 0 =>
                 Stored(item.key.source, item.key.window.from, item.key.window.to)'
<1>1. /\ item.cursor \in Nat /\ item.key.window.from \in Nat /\ item.key.window.to \in Nat
      /\ KeyInv(item.key) /\ Behind(item.key, item.cursor) /\ page.next \in Nat /\ ExchangeInv
      /\ item.key.window.from < item.key.window.to
  BY ItemFields, KeyFields, MomentsAreNat DEF ItemInv, CursorInv, KeyInv, HistoryInv
<1>2. ASSUME NEW record \in offered, record.source = item.key.source,
             record.at < item.key.window.to, item.key.window.to <= record.at + item.cursor
      PROVE  \E fact \in facts' : fact.source = record.source /\ fact.at = record.at
  <2>1. record.at \in Nat
    BY <1>1, RecordFields DEF ExchangeInv
  <2>2. CASE item.key.window.to < record.at + item.cursor
    BY <1>1, <1>2, <2>2 DEF Behind
  <2>3. CASE item.key.window.to = record.at + item.cursor
    BY <1>2, <2>3 DEF PageInv
  <2> QED
    BY <1>1, <1>2, <2>1, <2>2, <2>3
<1>3. KeyInv(item.key)'
  BY <1>1 DEF KeyInv
<1>4. CASE page.next = 0 /\ item.cursor + item.key.window.from = item.key.window.to
  <2>1. Stored(item.key.source, item.key.window.from, item.key.window.to)'
    <3> SUFFICES ASSUME NEW record \in offered, record.source = item.key.source,
                        item.key.window.from <= record.at, record.at < item.key.window.to
                 PROVE  \E fact \in facts' : fact.source = record.source /\ fact.at = record.at
      BY DEF Stored
    <3>1. record.at \in Nat
      BY <1>1, RecordFields DEF ExchangeInv
    <3>2. item.key.window.to <= record.at + item.cursor
      BY <1>1, <1>4, <3>1
    <3> QED
      BY <1>2, <3>2
  <2>2. Behind(item.key, 0)'
    <3> SUFFICES ASSUME NEW record \in offered, record.at < item.key.window.to,
                        item.key.window.to < record.at + 0
                 PROVE  FALSE
      BY DEF Behind
    <3>1. record.at \in Nat
      BY <1>1, RecordFields DEF ExchangeInv
    <3> QED
      BY <1>1, <3>1
  <2>3. 0 + item.key.window.from <= item.key.window.to
    BY <1>1
  <2> QED
    BY <1>3, <1>4, <2>1, <2>2, <2>3 DEF CursorInv
<1>5. CASE page.next = item.cursor + 1 /\ item.cursor + item.key.window.from < item.key.window.to
  <2>1. page.next # 0 /\ page.next + item.key.window.from <= item.key.window.to
    BY <1>1, <1>5
  <2>2. Behind(item.key, page.next)'
    <3> SUFFICES ASSUME NEW record \in offered, record.source = item.key.source,
                        record.at < item.key.window.to,
                        item.key.window.to < record.at + page.next
                 PROVE  \E fact \in facts' : fact.source = record.source /\ fact.at = record.at
      BY DEF Behind
    <3>1. record.at \in Nat
      BY <1>1, RecordFields DEF ExchangeInv
    <3>2. item.key.window.to <= record.at + item.cursor
      BY <1>1, <1>5, <3>1
    <3> QED
      BY <1>2, <3>2
  <2> QED
    BY <1>3, <2>1, <2>2 DEF CursorInv
<1> QED
  BY <1>4, <1>5 DEF PageInv

\* A run that has committed the page of its window.
LEMMA CommittedRun ==
    ASSUME HistoryInv, GoesOn, NEW run, RunInv(run), run.at = "page read",
           NEW item \in run.taken, DOMAIN saved' = DOMAIN saved \cup {item.key},
           NEW moved, ItemInv(moved)', NEW new,
           \/ new = [run EXCEPT !.at = "conflict", !.taken = {moved}]
           \/ new = [run EXCEPT !.at = "reading", !.taken = {}]
           \/ new = [run EXCEPT !.at = "reading", !.taken = {}, !.queue = @ \cup {moved}]
           \/ new = [run EXCEPT !.at = "pages spent", !.taken = {moved}]
    PROVE  RunInv(new)'
<1>1. run \in Sync /\ RunInv(run)' /\ moved \in WorkItem
  BY RunStays DEF RunInv, ItemInv
<1>2. /\ new \in Sync /\ new.selected = run.selected /\ run.queue \subseteq new.queue
      /\ new.queue \cup new.taken \subseteq run.queue \cup {moved}
      /\ new.at \in {"conflict", "reading", "pages spent"}
      /\ new.taken \subseteq {moved} /\ (new.at = "reading" => new.taken = {})
  <2>1. CASE new = [run EXCEPT !.at = "conflict", !.taken = {moved}]
    BY <1>1, <2>1 DEF Sync
  <2>2. CASE new = [run EXCEPT !.at = "reading", !.taken = {}]
    BY <1>1, <2>2 DEF Sync
  <2>3. CASE new = [run EXCEPT !.at = "reading", !.taken = {}, !.queue = @ \cup {moved}]
    BY <1>1, <2>3 DEF Sync
  <2>4. CASE new = [run EXCEPT !.at = "pages spent", !.taken = {moved}]
    BY <1>1, <2>4 DEF Sync
  <2> QED
    BY <2>1, <2>2, <2>3, <2>4
<1>3. SelectedInv(new)'
  <2>1. ASSUME NEW key \in KeysOf(run.selected)
        PROVE  key \in DOMAIN saved' \/ \E other \in new.queue : other.key = key
    <3>1. CASE key \notin DOMAIN saved
      <4>1. PICK other \in run.queue \cup run.taken : other.key = key
        BY <3>1 DEF RunInv, SelectedInv
      <4>2. CASE other \in run.queue
        BY <1>2, <4>1, <4>2
      <4>3. CASE other \in run.taken
        BY <4>1, <4>3 DEF RunInv
      <4> QED
        BY <4>1, <4>2, <4>3
    <3> QED
      BY <3>1
  <2> QED
    BY <1>1, <1>2, <2>1 DEF RunInv, SelectedInv
<1>4. \A other \in new.queue \cup new.taken : ItemInv(other)'
  BY <1>1, <1>2 DEF RunInv
<1> QED
  BY <1>2, <1>3, <1>4 DEF RunInv

\* A page is stored with the cursor behind it, or not at all.
LEMMA CommitKeepsHistory ==
    ASSUME HistoryInv, NEW p \in Syncs, Commit(p)
    PROVE  HistoryInv'
<1>1. PICK run : run = sync[p]
  OBVIOUS
<1>2. /\ RunInv(run) /\ run \in Sync /\ ExchangeInv /\ sync \in [Syncs -> Sync]
      /\ UNCHANGED <<today, offered>> /\ run.at = "page read" /\ JournalTyped /\ SavedInv
  BY <1>1 DEF HistoryInv, RunInv, Commit
<1>3. PICK item \in run.taken : CommitOf(p, item)
  BY <1>1 DEF Commit
<1>4. PICK page : page = run.page
  OBVIOUS
<1>5. PICK moved : moved = [item EXCEPT !.revision = @ + 1, !.cursor = page.next, !.pages = @ + 1]
  OBVIOUS
<1>6. /\ item \in WorkItem /\ ItemInv(item) /\ item.key \in Key /\ page.records \subseteq SourceFact
      /\ page.next \in Moments /\ PageInv(item, page)
  BY <1>2, <1>4, RunFields, ItemFields DEF RunInv
<1>7. CASE Ends(p) /\ UNCHANGED <<facts, disputes, saved>>
  BY <1>2, <1>7, EndKeepsHistory DEF Ends
<1>8. CASE /\ CommitPage(item, page)
           /\ \/ sync' = [sync EXCEPT ![p].at = "conflict", ![p].taken = {moved}]
              \/ sync' = [sync EXCEPT ![p].at = "reading", ![p].taken = {}]
              \/ sync' = [sync EXCEPT ![p].at = "reading", ![p].taken = {},
                                      ![p].queue = @ \cup {moved}]
              \/ sync' = [sync EXCEPT ![p].at = "pages spent", ![p].taken = {moved}]
  <2>1. PICK conflicts : conflicts = Disputed(page.records)
    OBVIOUS
  <2>2. PICK reason : reason = ReasonAfterPage(item.key, conflicts)
    OBVIOUS
  <2>3. /\ facts' = facts \cup page.records /\ disputes' = disputes \cup conflicts
        /\ Save(item.key, IF page.next = 0 THEN "traversed" ELSE "paging", page.next, reason)
    BY <1>8, <2>1, <2>2 DEF CommitPage
  <2>4. conflicts \subseteq Sources \X Moments
    <3>1. ASSUME NEW pair \in conflicts PROVE pair \in Sources \X Moments
      <4>1. PICK record \in page.records : pair = <<record.source, record.at>>
        BY <2>1 DEF Disputed
      <4> QED
        BY <1>6, <4>1, RecordFields
    <3> QED
      BY <3>1
  <2>5. reason \in {"none", "conflict", "expired", "other"}
    BY <1>2, <2>2 DEF ReasonAfterPage, SavedInv, Checkpoint
  <2>6. ExchangeInv' /\ JournalTyped'
    BY <1>2, <1>6, <2>3, <2>4 DEF ExchangeInv, JournalTyped
  <2>7. today' \in Moments /\ today <= today'
    <3>1. today' = today /\ today \in Moments /\ today \in Nat
      BY <1>2, MomentsAreNat DEF ExchangeInv
    <3> QED
      BY <3>1
  <2>8. GoesOn
    BY <1>2, <2>3, <2>6, <2>7 DEF GoesOn, ExchangeInv
  <2>9. /\ CursorInv(item.key, page.next)'
        /\ page.next = 0 => Stored(item.key.source, item.key.window.from, item.key.window.to)'
    BY <1>2, <1>6, <2>3, PageIsBehind
  <2>10. SavedInv' /\ DOMAIN saved' = DOMAIN saved \cup {item.key}
    <3>1. CASE page.next = 0
      <4>1. Save(item.key, "traversed", page.next, reason)
        BY <2>3, <3>1
      <4> QED
        BY <1>6, <2>5, <2>8, <2>9, <3>1, <4>1, SaveKeepsJournal
    <3>2. CASE page.next # 0
      <4>1. Save(item.key, "paging", page.next, reason)
        BY <2>3, <3>2
      <4> QED
        BY <1>6, <2>5, <2>8, <2>9, <4>1, SaveKeepsJournal
    <3> QED
      BY <3>1, <3>2
  <2>11. ItemInv(moved)'
    <3>0. item.revision + 1 \in Nat /\ item.pages + 1 \in Nat
      BY <1>6, ItemFields
    <3>1. moved \in WorkItem /\ moved.key = item.key /\ moved.cursor = page.next
      BY <1>5, <1>6, <3>0 DEF WorkItem
    <3> QED
      BY <2>9, <3>1 DEF ItemInv
  <2>12. PICK new :
            /\ \/ new = [run EXCEPT !.at = "conflict", !.taken = {moved}]
               \/ new = [run EXCEPT !.at = "reading", !.taken = {}]
               \/ new = [run EXCEPT !.at = "reading", !.taken = {}, !.queue = @ \cup {moved}]
               \/ new = [run EXCEPT !.at = "pages spent", !.taken = {moved}]
            /\ sync' = [sync EXCEPT ![p] = new]
    <3>1. CASE sync' = [sync EXCEPT ![p].at = "conflict", ![p].taken = {moved}]
      BY <1>1, <3>1
    <3>2. CASE sync' = [sync EXCEPT ![p].at = "reading", ![p].taken = {}]
      BY <1>1, <3>2
    <3>3. CASE sync' = [sync EXCEPT ![p].at = "reading", ![p].taken = {},
                                    ![p].queue = @ \cup {moved}]
      BY <1>1, <3>3
    <3>4. CASE sync' = [sync EXCEPT ![p].at = "pages spent", ![p].taken = {moved}]
      BY <1>1, <3>4
    <3> QED
      BY <1>8, <3>1, <3>2, <3>3, <3>4
  <2>13. RunInv(new)'
    BY <1>2, <2>8, <2>10, <2>11, <2>12, CommittedRun
  <2> QED
    BY <2>6, <2>8, <2>10, <2>12, <2>13, RunStep
<1> QED
  BY <1>1, <1>3, <1>4, <1>5, <1>7, <1>8 DEF CommitOf

\* A stream's range that is marked is out of the queue.
LEMMA SettleKeepsHistory ==
    ASSUME HistoryInv, NEW p \in Syncs, Settle(p)
    PROVE  HistoryInv'
<1>1. PICK run : run = sync[p]
  OBVIOUS
<1>2. /\ RunInv(run) /\ run \in Sync /\ sync \in [Syncs -> Sync] /\ run.at = "settling"
      /\ UNCHANGED <<today, offered, facts, disputes>>
  BY <1>1 DEF HistoryInv, RunInv, Settle
<1>3. PICK item \in run.queue :
         \/ /\ Fresh(item)
            /\ MarkCoverage(item, "partial", item.cursor, "other")
            /\ sync' = [sync EXCEPT ![p].queue = {other \in @ : ~SameRange(other, item)}]
         \/ /\ ~Fresh(item)
            /\ Ends(p)
            /\ UNCHANGED saved
  BY <1>1, Zenon DEF Settle, Heads
<1>4. CASE Ends(p) /\ UNCHANGED saved
  BY <1>2, <1>4, EndKeepsHistory DEF Ends
<1>5. CASE /\ MarkCoverage(item, "partial", item.cursor, "other")
           /\ sync' = [sync EXCEPT ![p].queue = {other \in @ : ~SameRange(other, item)}]
  <2>1. ExchangeInv' /\ JournalTyped' /\ GoesOn
    BY <1>2, StandingWorld
  <2>2. item \in WorkItem /\ item.key \in Key /\ CursorInv(item.key, item.cursor)
    BY <1>2, RunFields, ItemFields DEF RunInv, ItemInv
  <2>3. CursorInv(item.key, item.cursor)'
    BY <2>1, <2>2, CursorStays DEF HistoryInv
  <2>4. PICK written \in {"none", "conflict", "expired", "other"} :
           Save(item.key, "partial", item.cursor, written)
    BY <1>5 DEF MarkCoverage
  <2>5. SavedInv' /\ DOMAIN saved' = DOMAIN saved \cup {item.key}
    BY <2>1, <2>2, <2>3, <2>4, SaveKeepsJournal
  <2>6. PICK new : /\ new = [run EXCEPT !.queue = {other \in @ : ~SameRange(other, item)}]
                   /\ sync' = [sync EXCEPT ![p] = new]
    BY <1>1, <1>5
  <2>7. {other \in run.queue : ~SameRange(other, item)} \in SUBSET WorkItem
    BY <1>2, RunFields
  <2>8. /\ new \in Sync /\ new.queue \subseteq run.queue /\ new.taken = run.taken
        /\ new.at = run.at /\ new.stopped = run.stopped /\ new.selected = run.selected
    BY <1>2, <2>6, <2>7 DEF Sync
  <2>9. RunInv(run)'
    BY <1>2, <2>1, <2>5, RunStays
  <2>10. SelectedInv(new)'
    BY <1>2, <2>8, <2>9 DEF RunInv, SelectedInv
  <2>11. RunInv(new)'
    BY <1>2, <2>8, <2>9, <2>10 DEF RunInv
  <2> QED
    BY <2>1, <2>5, <2>6, <2>11, RunStep
<1> QED
  BY <1>3, <1>4, <1>5

-----------------------------------------------------------------------------
(* What a run selects.                                                      *)

\* A page has yet to be read of a window that begins.
LEMMA FirstCursor ==
    ASSUME ExchangeInv, NEW key, KeyInv(key)
    PROVE  CursorInv(key, 0)
<1>1. key.window.from \in Nat /\ key.window.to \in Nat /\ key.window.from < key.window.to
  BY KeyFields DEF KeyInv
<1>2. 0 \in Moments /\ 0 + key.window.from <= key.window.to
  BY <1>1, MomentsAreNat DEF Moments
<1>3. Behind(key, 0)
  <2> SUFFICES ASSUME NEW record \in offered, record.at < key.window.to,
                      key.window.to < record.at + 0
               PROVE  FALSE
    BY DEF Behind
  <2>1. record.at \in Nat
    BY RecordFields DEF ExchangeInv
  <2> QED
    BY <1>1, <2>1
<1> QED
  BY <1>2, <1>3 DEF CursorInv

LEMMA UnfinishedIsPast ==
    ASSUME HistoryInv, NEW chosen \in Unfinished
    PROVE  /\ chosen \in Sources \X Filters /\ chosen[2].to \in Nat /\ chosen[2].to <= today
<1>1. PICK key \in DOMAIN saved : chosen = <<key.source, key.filters>>
  BY DEF Unfinished
<1>2. key \in Key /\ KeyInv(key)
  BY <1>1 DEF HistoryInv, SavedInv, CursorInv, KeyInv
<1> QED
  BY <1>1, <1>2, KeyFields DEF KeyInv

\* The next window of a stream begins at a moment that has come.
LEMMA BoundaryIsPast ==
    ASSUME HistoryInv, NEW source \in Sources
    PROVE  Boundary(source, today) \in Nat
<1> DEFINE traversed == {key.window.to : key \in
                           {key \in Checkpoints(source) : saved[key].status = "traversed"
                                                          /\ key.window.to <= today}}
           left == {pending[2].to : pending \in
                      {pending \in Unfinished : pending[1] = source}}
<1>1. today \in Nat
  BY MomentsAreNat DEF HistoryInv, ExchangeInv
<1>2. ASSUME NEW moment \in traversed PROVE moment \in Nat /\ moment <= today
  <2>1. PICK key \in DOMAIN saved : moment = key.window.to
    BY DEF Checkpoints
  <2>2. key \in Key /\ KeyInv(key)
    BY <2>1 DEF HistoryInv, SavedInv, CursorInv, KeyInv
  <2> QED
    BY <2>1, <2>2, KeyFields DEF KeyInv
<1>3. ASSUME NEW moment \in left PROVE moment \in Nat /\ moment <= today
  <2>1. PICK pending \in Unfinished : moment = pending[2].to
    OBVIOUS
  <2> QED
    BY <2>1, UnfinishedIsPast
<1> DEFINE S == {0} \cup traversed \cup left
<1>4. S \in SUBSET Nat /\ S # {} /\ \A moment \in S : moment <= today
  <2> HIDE DEF traversed, left
  <2> QED
    BY <1>1, <1>2, <1>3
<1>5. Latest(S) \in S
  <2> HIDE DEF S
  <2> QED
    BY <1>1, <1>4, LatestIs
<1>6. Latest(S) \in Nat
  <2> HIDE DEF S
  <2> QED
    BY <1>4, <1>5
<1> QED
  BY <1>6 DEF Boundary

LEMMA CatchUpIsPast ==
    ASSUME HistoryInv, NEW source \in Sources, NEW chosen \in CatchUp(source, today)
    PROVE  /\ chosen \in Sources \X Filters /\ chosen[2].to <= today
<1>1. today \in Moments /\ today \in Nat /\ today <= End /\ End \in Nat /\ MaxWindow \in Nat
  BY MomentsAreNat, HistoryAssumption DEF HistoryInv, ExchangeInv, Moments
<1>2. PICK boundary \in Nat : boundary = Boundary(source, today)
  BY BoundaryIsPast
<1>3. PICK from : from = IF boundary > 0 THEN boundary - 1
                         ELSE IF today > MaxWindow THEN today - MaxWindow ELSE 0
  OBVIOUS
<1>4. from \in Nat
  BY <1>1, <1>2, <1>3
<1>5. /\ from < today
      /\ chosen = <<source, [purpose |-> "recent-refresh", from |-> from, to |-> today]>>
  BY <1>2, <1>3 DEF CatchUp
<1>6. from \in Moments
  BY <1>1, <1>4, <1>5 DEF Moments
<1>7. [purpose |-> "recent-refresh", from |-> from, to |-> today] \in Filters
  BY <1>1, <1>6 DEF Filters
<1> QED
  BY <1>1, <1>5, <1>7

LEMMA BackfillIsPast ==
    ASSUME HistoryInv
    PROVE  /\ Backfill(today) \in Filters /\ Backfill(today).to <= today
<1>1. today \in Moments /\ today \in Nat /\ 0 \in Moments
  BY MomentsAreNat DEF HistoryInv, ExchangeInv, Moments
<1> DEFINE earlier == {key.filters : key \in
                         {key \in DOMAIN saved : key.filters.purpose = "backfill"}}
           ends == {range.to : range \in earlier}
<1>2. ASSUME NEW range \in earlier
      PROVE  range \in Filters /\ range.to \in Nat /\ range.to <= today
  <2>1. PICK key \in DOMAIN saved : range = key.filters
    OBVIOUS
  <2>2. key \in Key /\ KeyInv(key)
    BY <2>1 DEF HistoryInv, SavedInv, CursorInv, KeyInv
  <2> QED
    BY <2>1, <2>2, KeyFields DEF KeyInv
<1>3. CASE earlier = {}
  <2>1. Backfill(today) = [purpose |-> "backfill", from |-> 0, to |-> today]
    BY <1>3 DEF Backfill
  <2>2. [purpose |-> "backfill", from |-> 0, to |-> today] \in Filters
    BY <1>1 DEF Filters
  <2> QED
    BY <1>1, <2>1, <2>2
<1>4. CASE earlier # {}
  <2>1. Backfill(today) = CHOOSE range \in earlier : \A other \in earlier : other.to <= range.to
    BY <1>4 DEF Backfill
  <2> HIDE DEF earlier
  <2>2. ends \in SUBSET Nat /\ ends # {} /\ \A moment \in ends : moment <= today
    BY <1>2, <1>4
  <2>3. Latest(ends) \in ends /\ \A moment \in ends : moment <= Latest(ends)
    <3> HIDE DEF ends
    <3> QED
      BY <1>1, <2>2, LatestIs
  <2>4. \E range \in earlier : \A other \in earlier : other.to <= range.to
    BY <2>3
  <2>5. Backfill(today) \in earlier
    BY <2>1, <2>4
  <2> QED
    BY <1>2, <2>5
<1> QED
  BY <1>3, <1>4

\* No range that is selected reaches beyond today.
LEMMA SelectionsArePast ==
    ASSUME HistoryInv, NEW selected \in SelectionsAt(today)
    PROVE  /\ selected \subseteq Sources \X Filters
           /\ \A chosen \in selected : chosen[2].to <= today
<1> SUFFICES ASSUME NEW chosen \in selected
             PROVE  chosen \in Sources \X Filters /\ chosen[2].to <= today
  OBVIOUS
<1>1. CASE selected = Unfinished \cup UNION {CatchUp(source, today) : source \in Sources}
  <2>1. CASE chosen \in Unfinished
    BY <2>1, UnfinishedIsPast
  <2>2. CASE chosen \in UNION {CatchUp(source, today) : source \in Sources}
    <3>1. PICK source \in Sources : chosen \in CatchUp(source, today)
      BY <2>2
    <3> QED
      BY <3>1, CatchUpIsPast
  <2> QED
    BY <1>1, <2>1, <2>2
<1>2. CASE selected = Sources \X {Backfill(today)}
  BY <1>2, BackfillIsPast
<1>3. CASE \E range \in Replays : /\ range[2] <= today
              /\ selected = Sources \X {[purpose |-> "explicit-replay", from |-> range[1],
                                         to |-> range[2]]}
  <2>1. PICK range \in Replays : /\ range[2] <= today
              /\ selected = Sources \X {[purpose |-> "explicit-replay", from |-> range[1],
                                         to |-> range[2]]}
    BY <1>3
  <2>2. range[1] \in Nat /\ range[2] \in Nat /\ range[1] < range[2]
    BY <2>1, HistoryAssumption
  <2>3. today \in Nat /\ today <= End /\ End \in Nat
    BY HistoryAssumption DEF HistoryInv, ExchangeInv, Moments
  <2>4. range[1] \in Moments /\ range[2] \in Moments
    BY <2>1, <2>2, <2>3 DEF Moments
  <2>5. PICK filters : filters = [purpose |-> "explicit-replay", from |-> range[1],
                                  to |-> range[2]]
    OBVIOUS
  <2>6. filters \in Filters /\ filters.to = range[2]
    BY <2>4, <2>5 DEF Filters
  <2> QED
    BY <2>1, <2>5, <2>6
<1> QED
  BY <1>1, <1>2, <1>3 DEF SelectionsAt

\* The windows of what is selected have passed.
LEMMA KeysArePast ==
    ASSUME HistoryInv, NEW selected \in SUBSET (Sources \X Filters),
           \A chosen \in selected : chosen[2].to <= today, NEW key \in KeysOf(selected)
    PROVE  KeyInv(key)
<1>1. PICK pair \in selected \X Window :
         /\ pair[2] \in Windows(pair[1][2].from, pair[1][2].to)
         /\ key = [source |-> pair[1][1], filters |-> pair[1][2], window |-> pair[2]]
  BY DEF KeysOf
<1>2. PICK chosen \in selected, window \in Window : chosen = pair[1] /\ window = pair[2]
  BY <1>1
<1>3. /\ window \in Windows(chosen[2].from, chosen[2].to)
      /\ key = [source |-> chosen[1], filters |-> chosen[2], window |-> window]
  BY <1>1, <1>2
<1>4. PICK range : range = chosen[2]
  OBVIOUS
<1>5. /\ chosen[1] \in Sources /\ range \in Filters /\ range.from \in Nat /\ range.to \in Nat
      /\ range.to <= today /\ today \in Nat
  BY <1>4, MomentsAreNat DEF Filters, HistoryInv, ExchangeInv
<1>6. PICK start \in range.from .. (range.to - 1) :
         window = [from |-> start, to |-> IF start + MaxWindow < range.to THEN start + MaxWindow
                                          ELSE range.to]
  BY <1>3, <1>4 DEF Windows
<1>7. /\ start \in Nat /\ MaxWindow \in Nat /\ start < start + MaxWindow /\ start < range.to
  BY <1>5, <1>6, HistoryAssumption
<1>8. /\ window.from = start /\ window.from < window.to /\ window.to <= range.to
      /\ window.to \in Nat
  BY <1>5, <1>6, <1>7
<1>9. window.to <= today
  BY <1>5, <1>8
<1>10. key \in Key /\ key.window = window /\ key.filters = range
  BY <1>3, <1>4, <1>5 DEF Key
<1> QED
  BY <1>5, <1>8, <1>9, <1>10 DEF KeyInv

\* A window is taken up where it was left.
LEMMA ItemOfIs ==
    ASSUME HistoryInv, NEW key, KeyInv(key)
    PROVE  ItemInv(ItemOf(key)) /\ ItemOf(key).key = key
<1>1. ExchangeInv /\ SavedInv /\ key \in Key /\ 0 \in Moments
  BY MomentsAreNat DEF HistoryInv, KeyInv, Moments
<1>2. PICK item : item = ItemOf(key)
  OBVIOUS
<1>3. CursorInv(key, 0)
  BY <1>1, FirstCursor
<1>4. CASE key \notin DOMAIN saved
  <2>1. item = [key |-> key, cursor |-> 0, revision |-> 0, disputed |-> FALSE, pages |-> 0]
    BY <1>2, <1>4 DEF ItemOf
  <2>2. item \in WorkItem /\ item.key = key /\ item.cursor = 0
    BY <1>1, <2>1 DEF WorkItem
  <2> QED
    BY <1>2, <1>3, <2>2 DEF ItemInv
<1>5. CASE key \in DOMAIN saved
  <2>1. PICK checkpoint \in Checkpoint : checkpoint = saved[key]
    BY <1>1, <1>5 DEF SavedInv
  <2>2. PICK cursor : cursor = IF checkpoint.status \in {"paging", "partial"}
                               THEN checkpoint.cursor ELSE 0
    OBVIOUS
  <2>3. CursorInv(key, cursor)
    BY <1>1, <1>3, <1>5, <2>1, <2>2 DEF SavedInv
  <2>4. item = [key |-> key, cursor |-> cursor, revision |-> checkpoint.revision,
                disputed |-> checkpoint.reason = "conflict", pages |-> 0]
    BY <1>2, <1>5, <2>1, <2>2 DEF ItemOf
  <2>5. cursor \in Moments /\ checkpoint.revision \in Nat
    BY <2>1, <2>3 DEF CursorInv, Checkpoint
  <2>6. item \in WorkItem /\ item.key = key /\ item.cursor = cursor
    BY <1>1, <2>4, <2>5 DEF WorkItem
  <2> QED
    BY <1>2, <2>3, <2>6 DEF ItemInv
<1> QED
  BY <1>4, <1>5

LEMMA BeginKeepsHistory ==
    ASSUME HistoryInv, NEW p \in Syncs, Begin(p)
    PROVE  HistoryInv'
<1>1. PICK selected \in SelectionsAt(today) :
         sync' = [sync EXCEPT ![p] = [NewSync EXCEPT !.at = "reading",
                                                     !.selected = selected,
                                                     !.frozen = today,
                                                     !.queue = WorkItems(selected)]]
  BY DEF Begin
<1>2. /\ selected \subseteq Sources \X Filters
      /\ \A chosen \in selected : chosen[2].to <= today
  BY SelectionsArePast
<1>3. UNCHANGED <<today, offered, facts, disputes, saved>> /\ ExchangeInv
  BY DEF Begin, HistoryInv
<1>4. PICK queue : queue = WorkItems(selected)
  OBVIOUS
<1>5. ASSUME NEW item \in queue PROVE ItemInv(item) /\ item \in WorkItem
  <2>1. PICK key \in KeysOf(selected) : item = ItemOf(key)
    BY <1>4 DEF WorkItems
  <2> QED
    BY <1>2, <2>1, KeysArePast, ItemOfIs DEF ItemInv
<1>6. ASSUME NEW key \in KeysOf(selected)
      PROVE  key \in DOMAIN saved \/ \E item \in queue : item.key = key
  <2>1. CASE key \notin DOMAIN saved
    <3>1. ItemOf(key) \in queue
      BY <1>4, <2>1 DEF WorkItems
    <3> QED
      BY <1>2, <3>1, KeysArePast, ItemOfIs
  <2> QED
    BY <2>1
<1>7. PICK new : new = [NewSync EXCEPT !.at = "reading", !.selected = selected,
                                       !.frozen = today, !.queue = queue]
  OBVIOUS
<1>8. NewSync \in Sync
  BY MomentsAreNat DEF NewSync, Sync, Moments
<1>9. /\ new \in Sync /\ new.at = "reading" /\ new.selected = selected /\ new.queue = queue
      /\ new.taken = {}
  BY <1>2, <1>3, <1>5, <1>7, <1>8 DEF Sync, NewSync, ExchangeInv
<1>10. SelectedInv(new)
  BY <1>2, <1>6, <1>9 DEF SelectedInv
<1>11. RunInv(new)
  BY <1>5, <1>9, <1>10 DEF RunInv
<1>12. ExchangeInv' /\ JournalTyped' /\ GoesOn
  BY <1>3, StandingWorld
<1>13. RunInv(new)' /\ SavedInv'
  BY <1>3, <1>11, <1>12, RunStays, JournalStays
<1>14. sync' = [sync EXCEPT ![p] = new]
  BY <1>1, <1>4, <1>7
<1> QED
  BY <1>3, <1>12, <1>13, <1>14, RunStep

-----------------------------------------------------------------------------
(* The invariant.                                                           *)

LEMMA InitKeepsHistory == HistoryInit => HistoryInv
<1> SUFFICES ASSUME HistoryInit PROVE HistoryInv
  OBVIOUS
<1>1. Opening \in Nat /\ Opening <= End /\ End \in Nat
  BY HistoryAssumption
<1>2. today \in Moments
  BY <1>1 DEF HistoryInit, Moments
<1>3. ASSUME NEW record \in offered PROVE record \in SourceFact /\ record.at <= today
  <2>1. record \in [source : Sources, at : 0 .. (Opening - 1), content : {"first"}]
    BY DEF HistoryInit
  <2>2. record.at \in Moments /\ record.at <= today
    BY <1>1, <2>1 DEF HistoryInit, Moments
  <2> QED
    BY <2>1, <2>2 DEF SourceFact
<1>4. ExchangeInv /\ JournalTyped /\ SavedInv
  BY <1>2, <1>3 DEF HistoryInit, ExchangeInv, JournalTyped, SavedInv
<1>5. NewSync \in Sync
  BY MomentsAreNat DEF NewSync, Sync, Moments
<1>6. RunInv(NewSync)
  BY <1>5 DEF RunInv, SelectedInv, NewSync
<1>7. sync \in [Syncs -> Sync]
  BY <1>5 DEF HistoryInit
<1> QED
  BY <1>4, <1>6, <1>7 DEF HistoryInit, HistoryInv

LEMMA RunKeepsHistory ==
    ASSUME HistoryInv, NEW p \in Syncs, SyncStep(p)
    PROVE  HistoryInv'
<1>1. CASE Begin(p)
  BY <1>1, BeginKeepsHistory
<1>2. CASE \/ OutOfBudget(p) \/ TransportSpent(p) \/ KeyRefused(p) \/ PageUnavailable(p)
           \/ InvalidPage(p) \/ TooManyRows(p) \/ MarkConflict(p) \/ PagesSpent(p)
  BY <1>2, LeavingKeepsHistory
<1>3. CASE ReadPage(p)
  BY <1>3, ReadKeepsHistory
<1>4. CASE Commit(p)
  BY <1>4, CommitKeepsHistory
<1>5. CASE Settle(p)
  BY <1>5, SettleKeepsHistory
<1>6. CASE Report(p)
  <2>1. PICK report \in {"COMPLETE", "PARTIAL"} :
           sync' = [sync EXCEPT ![p].at = "ended", ![p].report = report]
    BY <1>6 DEF Report
  <2> QED
    BY <1>6, <2>1, EndKeepsHistory DEF Report
<1>7. CASE Crash(p)
  BY <1>7, EndKeepsHistory DEF Crash, Ends
<1> QED
  BY <1>1, <1>2, <1>3, <1>4, <1>5, <1>6, <1>7 DEF SyncStep

LEMMA NextKeepsHistory == HistoryInv /\ [HistoryNext]_historyVars => HistoryInv'
<1> SUFFICES ASSUME HistoryInv, [HistoryNext]_historyVars PROVE HistoryInv'
  OBVIOUS
<1>1. CASE DayPasses
  BY <1>1, DayKeepsHistory
<1>2. CASE \E source \in Sources : RecordAppears(source)
  BY <1>2, RecordKeepsHistory
<1>3. CASE \E record \in offered : RecordChanges(record)
  BY <1>3, ChangeKeepsHistory
<1>4. CASE \E p \in Syncs : SyncStep(p)
  BY <1>4, RunKeepsHistory
<1>5. CASE UNCHANGED historyVars
  <2>1. UNCHANGED <<today, offered, facts, disputes, saved, sync>>
    BY <1>5 DEF historyVars
  <2>2. ExchangeInv' /\ GoesOn
    BY <2>1, StandingWorld
  <2> QED
    BY <2>1, <2>2, WorldStep
<1> QED
  BY <1>1, <1>2, <1>3, <1>4, <1>5 DEF HistoryNext

LEMMA HistoryHolds == HistorySpec => []HistoryInv
BY InitKeepsHistory, NextKeepsHistory, PTL DEF HistorySpec

\* Whatever the runs, the records, the windows they are cut into and the ranges that are
\* asked for, the journal and the runs stay what the store and the program write
\* (saveCheckpoint, persistPage and the work items of history-ingestion.ts).
THEOREM HistoryIsTyped == HistorySpec => []HistoryTypeOK
<1>1. HistoryInv => HistoryTypeOK
  BY DEF HistoryInv, ExchangeInv, JournalTyped, SavedInv, HistoryTypeOK
<1> QED
  BY <1>1, HistoryHolds, PTL

\* Whatever dies, and whoever else reads the same pages, a window the journal calls
\* traversed is stored whole: the cursor of a checkpoint never runs ahead of the pages
\* that are stored behind it (persistPage commits both at once).
THEOREM TraversedWindowsAreStored == HistorySpec => []TraversedIsStored
<1>1. HistoryInv => TraversedIsStored
  BY DEF HistoryInv, SavedInv, TraversedIsStored
<1> QED
  BY <1>1, HistoryHolds, PTL

-----------------------------------------------------------------------------
(* What a report says.                                                      *)

\* The last of the windows of a range that begins no later than a moment of it.
LEMMA GridMoment ==
    ASSUME NEW from \in Nat, NEW moment \in Nat, from <= moment
    PROVE  \E start \in Nat : /\ from <= start /\ start <= moment
                              /\ moment < start + MaxWindow
                              /\ (start - from) % MaxWindow = 0
<1>1. PICK n \in Nat, w \in Nat : n = moment - from /\ w = MaxWindow /\ w > 0
  BY HistoryAssumption
<1>2. (n % w) \in Nat /\ (n % w) < w
  BY <1>1, Z3
<1>3. (n % w) <= n /\ (n - (n % w)) % w = 0
  <2>1. (n % w) <= n
    BY <1>1, Z3
  <2>2. (n - (n % w)) % w = 0
    BY <1>1, Z3
  <2> QED
    BY <2>1, <2>2
<1>4. PICK r \in Nat, m \in Nat : r = (n % w) /\ m = n - r /\ m % w = 0
  <2>1. PICK r \in Nat : r = (n % w)
    BY <1>2
  <2>2. n - r \in Nat /\ (n - r) % w = 0
    BY <1>1, <1>3, <2>1
  <2> QED
    BY <2>1, <2>2
<1>5. (from + m) - from = m /\ from + m \in Nat
  BY <1>4
<1>6. from <= from + m /\ from + m <= moment /\ moment < (from + m) + MaxWindow
  BY <1>1, <1>2, <1>4
<1> QED
  BY <1>1, <1>4, <1>5, <1>6

\* Every moment of a range is in one of its windows.
LEMMA RangeIsCut ==
    ASSUME NEW selected \in SUBSET (Sources \X Filters), NEW chosen \in selected,
           NEW moment \in Nat, chosen[2].from <= moment, moment < chosen[2].to
    PROVE  \E key \in KeysOf(selected) :
              /\ key.source = chosen[1]
              /\ key.window.from <= moment /\ moment < key.window.to
<1>1. PICK range : range = chosen[2]
  OBVIOUS
<1>2. /\ chosen \in Sources \X Filters /\ range \in Filters /\ range.from \in Moments
      /\ range.to \in Moments /\ range.from \in Nat /\ range.to \in Nat /\ range.to <= End
      /\ End \in Nat /\ MaxWindow \in Nat
  BY <1>1, MomentsAreNat, HistoryAssumption DEF Filters, Moments
<1>3. PICK start \in Nat : /\ range.from <= start /\ start <= moment
                           /\ moment < start + MaxWindow
                           /\ (start - range.from) % MaxWindow = 0
  BY <1>1, <1>2, GridMoment
<1>4. PICK to \in Nat : /\ to = IF start + MaxWindow < range.to THEN start + MaxWindow
                                ELSE range.to
                        /\ moment < to /\ to <= range.to
  BY <1>1, <1>2, <1>3
<1>5. PICK window : window = [from |-> start, to |-> to]
  OBVIOUS
<1>6. start \in range.from .. (range.to - 1)
  BY <1>1, <1>2, <1>3
<1>7. window \in Windows(range.from, range.to)
  BY <1>3, <1>4, <1>5, <1>6 DEF Windows
<1>8. start \in Moments /\ to \in Moments
  BY <1>2, <1>4, <1>6 DEF Moments
<1>9. window \in Window /\ window.from = start /\ window.to = to
  BY <1>5, <1>8 DEF Window
<1>10. PICK key : key = [source |-> chosen[1], filters |-> chosen[2], window |-> window]
  OBVIOUS
<1>11. PICK pair : pair = <<chosen, window>>
  OBVIOUS
<1>12. /\ pair \in selected \X Window /\ pair[2] \in Windows(pair[1][2].from, pair[1][2].to)
       /\ key = [source |-> pair[1][1], filters |-> pair[1][2], window |-> pair[2]]
  BY <1>1, <1>7, <1>9, <1>10, <1>11
<1>13. key \in KeysOf(selected)
  BY <1>12 DEF KeysOf
<1> QED
  BY <1>3, <1>4, <1>9, <1>10, <1>13

\* Windows that are all stored, with no hole between them, are stored but for their seams.
LEMMA JoinedIsStored ==
    ASSUME HistoryInv, NEW source \in Sources, ~Unqueried(source),
           \A key \in Checkpoints(source) : saved[key].status = "traversed",
           NEW first \in Checkpoints(source), NEW last \in Checkpoints(source)
    PROVE  StoredButSeams(source, first.window.from, last.window.to)
<1>1. ExchangeInv /\ SavedInv
  BY DEF HistoryInv
<1>2. ASSUME NEW key \in Checkpoints(source)
      PROVE  /\ key \in DOMAIN saved /\ key.source = source
             /\ key.window.from \in Nat /\ key.window.to \in Nat
             /\ key.window.from < key.window.to
             /\ Stored(source, key.window.from, key.window.to)
  <2>1. key \in DOMAIN saved /\ key.source = source
    BY DEF Checkpoints
  <2>2. KeyInv(key) /\ key \in Key
    BY <1>1, <2>1 DEF SavedInv, CursorInv, KeyInv
  <2> QED
    BY <1>1, <2>1, <2>2, KeyFields DEF SavedInv, KeyInv
<1> SUFFICES ASSUME NEW record \in offered, record.source = source,
                    first.window.from <= record.at, record.at < last.window.to,
                    ~Seam(source, record.at)
             PROVE  \E fact \in facts : fact.source = source /\ fact.at = record.at
  BY DEF StoredButSeams
<1>3. record.at \in Nat
  BY <1>1, RecordFields DEF ExchangeInv
<1>4. CASE \E key \in Checkpoints(source) : key.window.from <= record.at
                                            /\ record.at < key.window.to
  BY <1>2, <1>4 DEF Stored
<1>5. CASE \A key \in Checkpoints(source) : ~(key.window.from <= record.at
                                              /\ record.at < key.window.to)
  <2> DEFINE T == {moment \in Nat : record.at < moment
                      /\ \E key \in Checkpoints(source) : key.window.from = moment}
  <2>1. last.window.from \in T
    BY <1>2, <1>3, <1>5
  <2>2. PICK least \in T : \A moment \in T : least <= moment
    BY <2>1, LeastOfNat
  <2>3. PICK key \in Checkpoints(source) : key.window.from = least
    BY <2>2
  <2> DEFINE earlier == {other \in Checkpoints(source) : other.window.from < key.window.from}
  <2>4. first \in earlier /\ least \in Nat /\ record.at < least
    BY <1>2, <1>3, <2>2, <2>3
  <2>5. PICK other \in earlier : ~(other.window.to + 1 < key.window.from)
    BY <2>3, <2>4 DEF Unqueried
  <2>6. /\ other \in Checkpoints(source) /\ other.window.from < least
        /\ other.window.from \in Nat /\ other.window.to \in Nat
    BY <1>2, <2>3, <2>5
  <2>7. ~(record.at < other.window.from)
    <3>1. ASSUME record.at < other.window.from PROVE FALSE
      <4>1. other.window.from \in T
        BY <2>6, <3>1
      <4>2. least <= other.window.from
        BY <2>2, <4>1
      <4> QED
        BY <2>4, <2>6, <4>2
    <3> QED
      BY <3>1
  <2>8. other.window.to <= record.at
    BY <1>3, <1>5, <2>6, <2>7
  <2>9. other.window.to = record.at /\ key.window.from = record.at + 1
    BY <1>3, <2>3, <2>4, <2>5, <2>6, <2>8
  <2>10. Seam(source, record.at)
    BY <2>3, <2>6, <2>9 DEF Seam
  <2> QED
    BY <2>10
<1> QED
  BY <1>4, <1>5

\* What a run knows that reports COMPLETE.
LEMMA CompleteKnows ==
    ASSUME HistoryInv, NEW p \in Syncs, sync[p].at \in {"reading", "settling"},
           sync[p].queue = {}, ~Pending, ~sync[p].stopped,
           NEW source \in Sources, "paging" \notin StatusesOf(source)
    PROVE  /\ \A key \in Checkpoints(source) : saved[key].status = "traversed"
           /\ ~Unqueried(source)
           /\ KeysOf(sync[p].selected) \subseteq DOMAIN saved
<1>1. SourceStatus(source) \notin {"missing", "partial", "unavailable"}
  BY DEF Pending
<1>2. /\ "unavailable" \notin StatusesOf(source) /\ "partial" \notin StatusesOf(source)
      /\ ~Unqueried(source)
  BY <1>1 DEF SourceStatus
<1>3. ASSUME NEW key \in Checkpoints(source) PROVE saved[key].status = "traversed"
  <2>1. saved[key].status \in StatusesOf(source)
    BY DEF StatusesOf
  <2>2. saved[key].status \in {"paging", "partial", "traversed", "unavailable"}
    BY DEF HistoryInv, SavedInv, Checkpoints, Checkpoint
  <2> QED
    BY <1>2, <2>1, <2>2
<1>4. ASSUME NEW key \in KeysOf(sync[p].selected) PROVE key \in DOMAIN saved
  <2>1. RunInv(sync[p])
    BY DEF HistoryInv
  <2>2. sync[p].at = "reading" /\ sync[p].taken = {}
    BY <2>1 DEF RunInv
  <2> QED
    BY <2>1, <2>2 DEF RunInv, SelectedInv
<1> QED
  BY <1>2, <1>3, <1>4

\* Only its own report makes a run COMPLETE.
LEMMA OnlyReports ==
    ASSUME HistoryInv, HistoryNext, NEW p \in Syncs,
           sync[p].report = "none", sync'[p].report = "COMPLETE"
    PROVE  Report(p)
<1>1. sync \in [Syncs -> Sync]
  BY DEF HistoryInv
<1>2. ASSUME NEW q \in Syncs, NEW new, sync' = [sync EXCEPT ![q] = new],
             new.report \in {"none", sync[q].report}
      PROVE  FALSE
  <2>1. CASE q = p
    <3>1. sync'[p] = new
      BY <1>1, <1>2, <2>1
    <3> QED
      BY <1>2, <2>1, <3>1
  <2>2. CASE q # p
    <3>1. sync'[p] = sync[p]
      BY <1>1, <1>2, <2>2
    <3> QED
      BY <3>1
  <2> QED
    BY <2>1, <2>2
<1>3. ASSUME NEW q \in Syncs, Begin(q) PROVE FALSE
  <2>1. PICK selected :
           sync' = [sync EXCEPT ![q] = [NewSync EXCEPT !.at = "reading",
                                                       !.selected = selected,
                                                       !.frozen = today,
                                                       !.queue = WorkItems(selected)]]
    BY <1>3 DEF Begin
  <2>2. PICK new : /\ new = [NewSync EXCEPT !.at = "reading", !.selected = selected, !.frozen = today,
                                            !.queue = WorkItems(selected)]
                   /\ sync' = [sync EXCEPT ![q] = new]
    BY <2>1
  <2>3. new.report = "none"
    BY <2>2 DEF NewSync
  <2> QED
    BY <1>2, <2>2, <2>3
<1>4. ASSUME NEW q \in Syncs, Ends(q) PROVE FALSE
  <2>1. PICK run \in Sync : run = sync[q]
    BY <1>1
  <2>2. PICK new : new = [run EXCEPT !.at = "ended"] /\ sync' = [sync EXCEPT ![q] = new]
    BY <1>4, <2>1 DEF Ends
  <2>3. new.report = run.report
    BY <2>1, <2>2 DEF Sync
  <2> QED
    BY <1>2, <2>1, <2>2, <2>3
<1>5. ASSUME NEW q \in Syncs, NEW queue, NEW taken, NEW at, NEW stopped,
             sync' = [sync EXCEPT ![q].queue = queue, ![q].taken = taken, ![q].at = at,
                                  ![q].stopped = stopped]
      PROVE  FALSE
  <2>1. PICK run \in Sync : run = sync[q]
    BY <1>1
  <2>2. PICK new : /\ new = [run EXCEPT !.queue = queue, !.taken = taken, !.at = at,
                                        !.stopped = stopped]
                   /\ sync' = [sync EXCEPT ![q] = new]
    BY <1>5, <2>1
  <2>3. new.report = run.report
    BY <2>1, <2>2 DEF Sync
  <2> QED
    BY <1>2, <2>1, <2>2, <2>3
<1>6. ASSUME NEW q \in Syncs, NEW item, NEW status, NEW cursor, NEW reason, NEW stops,
             Leave(q, item, status, cursor, reason, stops)
      PROVE  FALSE
  <2>1. CASE Ends(q)
    BY <1>4, <2>1
  <2>2. CASE sync' = [sync EXCEPT ![q].queue = @ \ {item}, ![q].taken = {},
                                  ![q].at = IF stops THEN "settling" ELSE "reading",
                                  ![q].stopped = stops]
    <3>1. PICK queue, at : queue = sync[q].queue \ {item}
                           /\ at = IF stops THEN "settling" ELSE "reading"
      OBVIOUS
    <3>2. sync' = [sync EXCEPT ![q].queue = queue, ![q].taken = {}, ![q].at = at,
                               ![q].stopped = stops]
      BY <2>2, <3>1
    <3> QED
      BY <1>5, <3>2
  <2> QED
    BY <1>6, <2>1, <2>2 DEF Leave
<1>7. ASSUME NEW q \in Syncs,
             \/ OutOfBudget(q) \/ TransportSpent(q) \/ KeyRefused(q) \/ PageUnavailable(q)
             \/ InvalidPage(q)
      PROVE  FALSE
  BY <1>6, <1>7, Zenon DEF OutOfBudget, TransportSpent, KeyRefused, PageUnavailable, InvalidPage
<1>8. ASSUME NEW q \in Syncs, TooManyRows(q) \/ MarkConflict(q) \/ PagesSpent(q) PROVE FALSE
  BY <1>6, <1>8, Zenon DEF TooManyRows, MarkConflict, PagesSpent
<1>9. ASSUME NEW q \in Syncs, ReadPage(q) PROVE FALSE
  <2>1. PICK run \in Sync : run = sync[q]
    BY <1>1
  <2>2. PICK item :
           sync' = [sync EXCEPT ![q].at = "page read", ![q].queue = @ \ {item},
                                ![q].taken = {item},
                                ![q].page = PageOf(item.key, item.cursor)]
    BY <1>9 DEF ReadPage
  <2>3. PICK new : /\ new = [run EXCEPT !.at = "page read", !.queue = @ \ {item},
                                        !.taken = {item},
                                        !.page = PageOf(item.key, item.cursor)]
                   /\ sync' = [sync EXCEPT ![q] = new]
    BY <2>1, <2>2
  <2>4. new.report = run.report
    BY <2>1, <2>3 DEF Sync
  <2> QED
    BY <1>2, <2>1, <2>3, <2>4
<1>10. ASSUME NEW q \in Syncs, Commit(q) PROVE FALSE
  <2>1. PICK run \in Sync : run = sync[q]
    BY <1>1
  <2>2. ASSUME NEW at, NEW taken, sync' = [sync EXCEPT ![q].at = at, ![q].taken = taken]
        PROVE  FALSE
    <3>1. PICK new : /\ new = [run EXCEPT !.at = at, !.taken = taken]
                     /\ sync' = [sync EXCEPT ![q] = new]
      BY <2>1, <2>2
    <3>2. new.report = run.report
      BY <2>1, <3>1 DEF Sync
    <3> QED
      BY <1>2, <2>1, <3>1, <3>2
  <2>3. ASSUME NEW moved, sync' = [sync EXCEPT ![q].at = "reading", ![q].taken = {},
                                              ![q].queue = @ \cup {moved}]
        PROVE  FALSE
    <3>1. PICK new : /\ new = [run EXCEPT !.at = "reading", !.taken = {},
                                          !.queue = @ \cup {moved}]
                     /\ sync' = [sync EXCEPT ![q] = new]
      BY <2>1, <2>3
    <3>2. new.report = run.report
      BY <2>1, <3>1 DEF Sync
    <3> QED
      BY <1>2, <2>1, <3>1, <3>2
  <2>4. PICK item : CommitOf(q, item)
    BY <1>10 DEF Commit
  <2>5. PICK moved : moved = [item EXCEPT !.revision = @ + 1, !.cursor = sync[q].page.next,
                                          !.pages = @ + 1]
    OBVIOUS
  <2>6. \/ sync' = [sync EXCEPT ![q].at = "conflict", ![q].taken = {moved}]
        \/ sync' = [sync EXCEPT ![q].at = "reading", ![q].taken = {}]
        \/ sync' = [sync EXCEPT ![q].at = "reading", ![q].taken = {},
                                ![q].queue = @ \cup {moved}]
        \/ sync' = [sync EXCEPT ![q].at = "pages spent", ![q].taken = {moved}]
        \/ Ends(q)
    BY <2>4, <2>5, Zenon DEF CommitOf
  <2> QED
    BY <1>4, <2>2, <2>3, <2>6
<1>11. ASSUME NEW q \in Syncs, Settle(q) PROVE FALSE
  <2>1. PICK run \in Sync : run = sync[q]
    BY <1>1
  <2>2. PICK queue : Ends(q) \/ sync' = [sync EXCEPT ![q].queue = queue]
    BY <1>11 DEF Settle
  <2>3. CASE sync' = [sync EXCEPT ![q].queue = queue]
    <3>1. PICK new : new = [run EXCEPT !.queue = queue] /\ sync' = [sync EXCEPT ![q] = new]
      BY <2>1, <2>3
    <3>2. new.report = run.report
      BY <2>1, <3>1 DEF Sync
    <3> QED
      BY <1>2, <2>1, <3>1, <3>2
  <2> QED
    BY <1>4, <2>2, <2>3
<1>12. ASSUME NEW q \in Syncs, Report(q) PROVE Report(p)
  <2>1. CASE q = p
    BY <1>12, <2>1
  <2>2. CASE q # p
    BY <1>1, <1>12, <2>2 DEF Report
  <2> QED
    BY <2>1, <2>2
<1>13. PICK q \in Syncs : SyncStep(q)
  <2>1. sync' # sync
    OBVIOUS
  <2> QED
    BY <2>1 DEF HistoryNext, DayPasses, RecordAppears, RecordChanges
<1> QED
  BY <1>3, <1>4, <1>7, <1>8, <1>9, <1>10, <1>11, <1>12, <1>13 DEF SyncStep, Crash

\* A run that reports COMPLETE has left no hole: whatever dies and whatever the other runs
\* do, every stream whose windows are all behind their pages is stored from its first
\* window to its last, and over all the run selected (the status of a source and
\* complete in history-coverage.ts and history-ingestion.ts), but for the late records of
\* the seams Unqueried takes for joined.
THEOREM CompleteReportsAreTrue == HistorySpec => CompleteIsTrue
<1>1. ASSUME HistoryInv, HistoryNext, NEW p \in Syncs, NEW source \in Sources,
             sync[p].report = "none", sync'[p].report = "COMPLETE",
             "paging" \notin StatusesOf(source)
      PROVE  /\ \A first, last \in Checkpoints(source) :
                    StoredButSeams(source, first.window.from, last.window.to)
             /\ \A range \in {chosen[2] : chosen \in {pair \in sync[p].selected :
                                                         pair[1] = source}} :
                    Stored(source, range.from, range.to)
  <2>1. Report(p) /\ sync \in [Syncs -> Sync]
    BY <1>1, OnlyReports DEF HistoryInv
  <2>2. /\ sync[p].at \in {"reading", "settling"} /\ sync[p].queue = {}
        /\ sync' = [sync EXCEPT ![p].at = "ended",
                                ![p].report = IF Pending \/ sync[p].stopped \/ disputes # {}
                                              THEN "PARTIAL" ELSE "COMPLETE"]
    BY <2>1 DEF Report
  <2>3. ~Pending /\ ~sync[p].stopped
    <3>1. PICK run \in Sync, word \in {"PARTIAL", "COMPLETE"} :
             /\ run = sync[p]
             /\ word = IF Pending \/ sync[p].stopped \/ disputes # {}
                       THEN "PARTIAL" ELSE "COMPLETE"
      BY <2>1
    <3>2. PICK new : new = [run EXCEPT !.at = "ended", !.report = word]
                     /\ sync' = [sync EXCEPT ![p] = new]
      BY <2>2, <3>1
    <3>3. new.report = word /\ sync'[p] = new
      BY <2>1, <3>1, <3>2 DEF Sync
    <3> QED
      BY <1>1, <3>1, <3>3
  <2>4. /\ \A key \in Checkpoints(source) : saved[key].status = "traversed"
        /\ ~Unqueried(source)
        /\ KeysOf(sync[p].selected) \subseteq DOMAIN saved
    BY <1>1, <2>2, <2>3, CompleteKnows
  <2>5. \A first, last \in Checkpoints(source) :
           StoredButSeams(source, first.window.from, last.window.to)
    BY <1>1, <2>4, JoinedIsStored
  <2>6. ASSUME NEW chosen \in sync[p].selected, chosen[1] = source
        PROVE  Stored(source, chosen[2].from, chosen[2].to)
    <3> SUFFICES ASSUME NEW record \in offered, record.source = source,
                        chosen[2].from <= record.at, record.at < chosen[2].to
                 PROVE  \E fact \in facts : fact.source = source /\ fact.at = record.at
      BY DEF Stored
    <3>1. record.at \in Nat /\ sync[p].selected \in SUBSET (Sources \X Filters)
      BY <1>1, <2>1, RecordFields, RunFields DEF HistoryInv, ExchangeInv
    <3>2. PICK key \in KeysOf(sync[p].selected) :
             /\ key.source = source
             /\ key.window.from <= record.at /\ record.at < key.window.to
      BY <2>6, <3>1, RangeIsCut
    <3>3. key \in DOMAIN saved /\ saved[key].status = "traversed"
      BY <2>4, <3>2 DEF Checkpoints
    <3>4. Stored(key.source, key.window.from, key.window.to)
      BY <1>1, <3>3 DEF HistoryInv, SavedInv
    <3> QED
      BY <3>2, <3>4 DEF Stored
  <2> QED
    BY <2>5, <2>6
<1>2. HistoryInv /\ [HistoryNext]_historyVars =>
         [\A p \in Syncs, source \in Sources :
            (/\ sync[p].report = "none" /\ sync'[p].report = "COMPLETE"
             /\ "paging" \notin StatusesOf(source)) =>
                /\ \A first, last \in Checkpoints(source) :
                      StoredButSeams(source, first.window.from, last.window.to)
                /\ \A range \in {chosen[2] : chosen \in {pair \in sync[p].selected :
                                                           pair[1] = source}} :
                      Stored(source, range.from, range.to)]_historyVars
  BY <1>1
<1> QED
  BY <1>2, HistoryHolds, PTL DEF HistorySpec, CompleteIsTrue
=============================================================================
