-------------------------- MODULE DatabaseOpening ---------------------------
(***************************************************************************)
(* The database of an environment: how a process opens it                   *)
(* (openSqliteConnection), brings it to the schema its release knows        *)
(* (applyMigrations), and what the stores behind the connection write.      *)
(*                                                                          *)
(* One file, found under one path; several processes, each of a release     *)
(* that knows the first Release[p] migrations and opens the file once or    *)
(* again.  A process may name the path itself, so it may ask for an         *)
(* environment the file is not of.  The committed content is `file`; what   *)
(* a transaction in progress has made of it is the process's `draft`, which *)
(* a failure or a crash throws away.                                        *)
(***************************************************************************)
EXTENDS Naturals

CONSTANTS
    Openers,        \* the processes
    Release,        \* how many migrations the release of a process knows
    Environments,   \* demo, testnet, mainnet
    MainnetOnly,    \* the environment whose stores ask for a sanitized scope
    AccountIds,     \* accounts of an environment
    Plain,          \* accounts whose scope is not linear, one-way and hashed
    Unset           \* no environment, no account, no process

\* schema_meta and database_identity.
bootstrapMigration == {"schema_meta", "database_identity"}

\* The journal of the execution, its leases and HALT.
executionOperationalMigration ==
    {"artifacts", "execution_lineages", "approvals", "owned_intents",
     "execution_attempts", "exchange_observations", "reconciliation_results", "leases",
     "halt_state", "halt_events"}

accountingCheckpointsMigration ==
    {"accounting_facts", "accounting_conflicts", "checkpoints", "audit_events"}

\* Leases and HALT are copied into tables keyed by the account; artifacts get a scope.
authorityAccountScopeMigration ==
    {"execution_attempts.dispatched_at", "reconciliation_results.recorded_at",
     "artifacts.scope"}

executionIdentityBindingsMigration == {"execution_identity_bindings"}

preparedLegExecutionMigration ==
    {"prepared_leg_sources", "prepared_leg_approvals", "prepared_leg_write_intents",
     "prepared_leg_attempts", "prepared_leg_reconciliations"}

preparedLegProtectionV2Migration == {"prepared_leg_reconciliation_v2"}

operatorMainnetTestMigration ==
    {"operator_mainnet_test_sources", "operator_mainnet_test_write_intents",
     "operator_mainnet_test_write_intents.lease", "operator_mainnet_test_attempts",
     "operator_mainnet_test_reconciliations", "operator_mainnet_test_manual_actions"}

\* The ninth only takes columns away.
operatorMainnetTestLeaseFreeMigration == {"operator_mainnet_test_write_intents.lease"}

operatorMainnetRecoveryMigration ==
    {"operator_mainnet_recovery_attestations", "operator_mainnet_recovery_grants",
     "operator_mainnet_recovery_grant_consumptions",
     "operator_mainnet_test_source_dispositions"}

historyIngestionMigration ==
    {"history_source_observations", "history_source_conflicts", "history_window_conflicts",
     "history_window_checkpoints"}

historyAccountingAnchorsMigration == {"history_accounting_wallet_anchors"}

historyAccountingReportsMigration == {"history_accounting_reports"}

operatorMainnetTradeCommandMigration ==
    {"operator_mainnet_test_sources.authorization",
     "operator_mainnet_trade_command_receipts", "operator_mainnet_trade_command_bindings",
     "operator_mainnet_trade_command_consumptions",
     "operator_mainnet_trade_command_outcomes"}

shadowMarketReportsMigration == {"shadow_market_reports"}

\* The ladder: what each version adds to the schema, and what it takes away.
Migrations ==
    <<bootstrapMigration, executionOperationalMigration, accountingCheckpointsMigration,
      authorityAccountScopeMigration, executionIdentityBindingsMigration,
      preparedLegExecutionMigration, preparedLegProtectionV2Migration,
      operatorMainnetTestMigration, {}, operatorMainnetRecoveryMigration,
      historyIngestionMigration, historyAccountingAnchorsMigration,
      historyAccountingReportsMigration, operatorMainnetTradeCommandMigration,
      shadowMarketReportsMigration>>

Dropped(version) == IF version = 9 THEN operatorMainnetTestLeaseFreeMigration ELSE {}

Versions == 1 .. 15

ASSUME ReleaseAssumption == Release \in [Openers -> Versions]

\* A scope: an environment and an account of it; a public report has no account.
Scopes == [environment : Environments, account : AccountIds \cup {Unset}]
AccountScopes == [environment : Environments, account : AccountIds]

\* Unset is none of the values it stands in for.
ASSUME UnsetAssumption ==
    /\ Unset \notin Environments \cup AccountIds \cup Openers
    /\ Unset \notin Scopes

\* A row of the journal or of the stores beside it: HALT and the lease of an account, an
\* artifact (named by a row of the journal or not), a prepared plan, a consent, a report.
\* The scope is the one it was written for; owner is the scope its columns say.
RowKinds == {"halt", "artifact", "prepared", "consent", "report"}
Rows ==
    [kind : RowKinds, scope : Scopes, referenced : BOOLEAN, owner : Scopes \cup {Unset}]

Row(kind, scope, referenced, owner) ==
    [kind |-> kind, scope |-> scope, referenced |-> referenced, owner |-> owner]

\* What a row is known by, whatever columns are added to it.
KeyOf(row) == [kind |-> row.kind, scope |-> row.scope, referenced |-> row.referenced]

\* A file of no content, and one whose objects carry no schema marker.
Blank == [marker |-> 0, identity |-> Unset, schema |-> {}, rows |-> {}]
Unmarked == [Blank EXCEPT !.schema = {"unmarked_state"}]

Stages == {"idle", "begun", "ready", "configured", "checked", "migrating", "migrated",
           "identified", "open"}
Stores == {"journal", "artifacts", "reports"}

VARIABLES
    file,     \* committed: schema marker, environment identity, schema objects, rows
    place,    \* who may read the directory and the file
    opener,   \* what each process is doing
    writer,   \* the process in a write transaction of several steps, or Unset
    kept      \* history: the keys of all rows ever committed

databaseVars == <<file, place, opener, writer, kept>>

\* A process that does not have the file open.
Resting == [at |-> "idle", store |-> "journal", environment |-> Unset, scope |-> Unset,
            draft |-> Blank]

DatabaseInit ==
    /\ file \in {Blank, Unmarked}
    /\ place \in [directory : {"absent", "private", "loose"}, file : {"absent", "loose"}]
    /\ opener = [p \in Openers |-> Resting]
    /\ writer = Unset
    /\ kept = {}

At(p, stage) == opener[p].at = stage
Move(p, stage) == opener' = [opener EXCEPT ![p].at = stage]

\* The connection is closed, or the process dies: what its transaction did is gone.
CloseFile(p) ==
    /\ opener' = [opener EXCEPT ![p] = Resting]
    /\ writer' = IF writer = p THEN Unset ELSE writer
    /\ UNCHANGED <<file, place, kept>>

\* An error of any step, a lock not had in time, the end of the work, or a crash.
Stop(p) == ~At(p, "idle") /\ CloseFile(p)

\* A process asks for an environment, and for a scope when it opens the journal.  A new
\* release is deployed with the application stopped: processes of two releases do not have
\* the file open at a time.
OpenFile(p) ==
    /\ At(p, "idle")
    /\ \A q \in Openers : At(q, "idle") \/ Release[q] = Release[p]
    /\ \E store \in Stores, environment \in Environments :
          \E scope \in IF store = "journal" THEN AccountScopes ELSE {Unset} :
             opener' = [opener EXCEPT ![p] =
                           [Resting EXCEPT !.at = "begun", !.store = store,
                                !.environment = environment, !.scope = scope]]
    /\ UNCHANGED <<file, place, writer, kept>>

\* The directory is made private when its path is the default one, and has to be; the file
\* is made, or found, and then made private.
PrepareFile(p) ==
    /\ At(p, "begun")
    /\ \E named \in BOOLEAN :
          LET directory == IF named /\ place.directory # "absent" THEN place.directory
                                                                  ELSE "private"
          IN  /\ directory = "private"
              /\ place' = [directory |-> directory, file |-> "private"]
    /\ Move(p, "ready")
    /\ UNCHANGED <<file, writer, kept>>

\* Foreign keys, write-ahead log, full synchronisation and the busy timeout all took.
Configure(p) ==
    /\ At(p, "ready")
    /\ Move(p, "configured")
    /\ UNCHANGED <<file, place, writer, kept>>

Compatible(identity, environment) == identity \in {Unset, environment}

\* The identity is read before anything is written, outside a transaction.
CheckIdentity(p) ==
    /\ At(p, "configured")
    /\ Compatible(file.identity, opener[p].environment)
    /\ Move(p, "checked")
    /\ UNCHANGED <<file, place, writer, kept>>

\* The ladder is climbed in one transaction, from the marker it finds: not in a file that
\* has objects and no marker, and not from a marker of a newer release.
BeginMigrations(p) ==
    /\ At(p, "checked")
    /\ writer = Unset
    /\ ~(file.marker = 0 /\ file.schema # {})
    /\ file.marker <= Release[p]
    /\ opener' = [opener EXCEPT ![p].at = "migrating", ![p].draft = file]
    /\ writer' = p
    /\ UNCHANGED <<file, place, kept>>

\* Migration 4 gives an artifact the scope of the row that names it.
Bound(row) == IF row.owner = Unset /\ row.referenced THEN [row EXCEPT !.owner = row.scope]
                                                     ELSE row

Applied(content, version) ==
    [content EXCEPT
        !.marker = version,
        !.schema = (@ \ Dropped(version)) \cup Migrations[version],
        !.rows = IF version = 4 THEN {Bound(row) : row \in @} ELSE @]

\* Variant: migration 4 does not look for artifacts that stay without one.
ApplicableToAll(content, version) == TRUE

\* Migration 4 throws when an artifact stays without one.
Applicable(content, version) ==
    version = 4 => \A row \in content.rows : Bound(row).owner # Unset

Migrate(p) ==
    LET draft == opener[p].draft
    IN  /\ At(p, "migrating")
        /\ draft.marker < Release[p]
        /\ Applicable(draft, draft.marker + 1)
        /\ opener' = [opener EXCEPT ![p].draft = Applied(draft, draft.marker + 1)]
        /\ UNCHANGED <<file, place, writer, kept>>

CommitMigrations(p) ==
    /\ At(p, "migrating")
    /\ opener[p].draft.marker = Release[p]
    /\ file' = opener[p].draft
    /\ opener' = [opener EXCEPT ![p].at = "migrated", ![p].draft = Blank]
    /\ writer' = Unset
    /\ UNCHANGED <<place, kept>>

\* Variant: the identity is written where there is none, and not compared.
WriteEnvironmentIdentity(p) ==
    /\ At(p, "migrated")
    /\ writer = Unset
    /\ file' = [file EXCEPT !.identity = IF @ = Unset THEN opener[p].environment ELSE @]
    /\ Move(p, "identified")
    /\ UNCHANGED <<place, writer, kept>>

\* The identity is written, or compared, in a transaction of its own.
EnsureEnvironmentIdentity(p) ==
    /\ At(p, "migrated")
    /\ writer = Unset
    /\ Compatible(file.identity, opener[p].environment)
    /\ file' = [file EXCEPT !.identity = opener[p].environment]
    /\ Move(p, "identified")
    /\ UNCHANGED <<place, writer, kept>>

\* A store behind the connection is of the connection's environment, and of a sanitized
\* scope where the environment has the stores that ask for one.
ScopeAccepted(p) ==
    opener[p].store = "journal" =>
        /\ opener[p].scope.environment = opener[p].environment
        /\ (opener[p].environment \in MainnetOnly) => (opener[p].scope.account \notin Plain)

HandOut(p) ==
    /\ At(p, "identified")
    /\ ScopeAccepted(p)
    /\ Move(p, "open")
    /\ UNCHANGED <<file, place, writer, kept>>

\* A row is committed, in one transaction.
CommitRow(p, row) ==
    /\ At(p, "open")
    /\ writer = Unset
    /\ file' = [file EXCEPT !.rows = @ \cup {row}]
    /\ kept' = kept \cup {KeyOf(row)}
    /\ UNCHANGED <<place, opener, writer>>

\* A journal that knows no scopes yet has no columns for them.
OwnerOf(scope) == IF "artifacts.scope" \in file.schema THEN scope ELSE Unset

\* HALT and the lease of the journal's account.
WriteAuthority(p) ==
    /\ opener[p].store = "journal" /\ "halt_state" \in file.schema
    /\ CommitRow(p, Row("halt", opener[p].scope, TRUE, opener[p].scope))

\* An artifact, with the row of the journal that names it or without.
WriteArtifact(p) ==
    /\ opener[p].store = "journal" /\ "artifacts" \in file.schema
    /\ \E referenced \in BOOLEAN :
          CommitRow(p, Row("artifact", opener[p].scope, referenced,
                           OwnerOf(opener[p].scope)))

\* A prepared plan goes under the scope it names itself.
SavePrepared(p) ==
    /\ opener[p].store = "artifacts" /\ "artifacts.scope" \in file.schema
    /\ \E scope \in AccountScopes :
          /\ scope.environment = opener[p].environment
          /\ CommitRow(p, Row("prepared", scope, FALSE, scope))

\* A consent goes beside the prepared plan it is about.
SaveApproval(p) ==
    /\ opener[p].store = "artifacts"
    /\ \E row \in file.rows :
          /\ row.kind = "prepared" /\ row.owner.environment = opener[p].environment
          /\ CommitRow(p, Row("consent", row.owner, FALSE, row.owner))

SaveShadowReport(p) ==
    /\ opener[p].store = "reports" /\ "shadow_market_reports" \in file.schema
    /\ LET scope == [environment |-> opener[p].environment, account |-> Unset]
       IN  CommitRow(p, Row("report", scope, FALSE, scope))

DatabaseNext ==
    \E p \in Openers :
        \/ OpenFile(p) \/ PrepareFile(p) \/ Configure(p) \/ CheckIdentity(p)
        \/ BeginMigrations(p) \/ Migrate(p) \/ CommitMigrations(p)
        \/ EnsureEnvironmentIdentity(p) \/ HandOut(p) \/ Stop(p)
        \/ WriteAuthority(p) \/ WriteArtifact(p)
        \/ SavePrepared(p) \/ SaveApproval(p) \/ SaveShadowReport(p)

DatabaseSpec == DatabaseInit /\ [][DatabaseNext]_databaseVars

SchemaObjects == (UNION {Migrations[v] : v \in Versions}) \cup {"unmarked_state"}

Contents ==
    [marker : 0 .. 15, identity : Environments \cup {Unset}, schema : SUBSET SchemaObjects,
     rows : SUBSET Rows]

\* Types of the file and of the processes that open it.
DatabaseTypeOK ==
    /\ file \in Contents
    /\ place \in [directory : {"absent", "private", "loose"},
                  file : {"absent", "private", "loose"}]
    /\ opener \in [Openers -> [at : Stages, store : Stores,
                               environment : Environments \cup {Unset},
                               scope : Scopes \cup {Unset}, draft : Contents]]
    /\ writer \in Openers \cup {Unset}
    /\ kept \subseteq [kind : RowKinds, scope : Scopes, referenced : BOOLEAN]

----------------------------------------------------------------------------
(* Properties *)

\* A connection is handed out only to a private file of its own environment, and so every
\* row of a file is of one environment, the file's: a name of another environment's file,
\* two processes that open a new file at once, a crash between the schema and the identity
\* and a plan of another environment do not change it.
RowsAreOwn ==
    /\ \A p \in Openers :
          At(p, "open") => /\ file.identity = opener[p].environment
                           /\ place = [directory |-> "private", file |-> "private"]
    /\ \A row \in file.rows : row.scope.environment = file.identity

\* The schema of a version: what the migrations up to it added and did not take away.
SchemaOf(version) ==
    {object \in UNION {Migrations[v] : v \in 1 .. version} :
        \A v \in 1 .. version : object \notin Dropped(v)}

\* An upgrade is whole or nothing: the schema is the ladder's up to the marker, HALT,
\* leases and artifacts of the older release are all still there, and once artifacts have
\* scopes each has the one it was written for; whatever step fails, and wherever a process
\* dies.
UpgradeIsWhole ==
    /\ (file.marker > 0) => (file.schema = SchemaOf(file.marker))
    /\ kept = {KeyOf(row) : row \in file.rows}
    /\ (file.marker >= 4) => \A row \in file.rows : row.owner = row.scope

\* The schema of a file is changed by a process of the file's own environment alone: one
\* that asks for the wrong file is refused before it migrates it.
OnlyOwnersUpgrade ==
    [][\A p \in Openers : (CommitMigrations(p) /\ file'.schema # file.schema) =>
          Compatible(file.identity, opener[p].environment)]_databaseVars

=============================================================================
