----------------------------- MODULE MCRecords ------------------------------
(***************************************************************************)
(* Small instances checked in one run: one status observation of an         *)
(* operator's source (StatusRead), the history runs                         *)
(* (HistorySync), the collections of account, market and liquidation        *)
(* evidence (AccountEvidence, MarketEvidence, LiquidationEvidence), the     *)
(* reports of an epoch (AccountingEpoch), the evidence an operator's order  *)
(* leaves on (OperatorEvidence), the plan of the day against the account    *)
(* (PortfolioRisk), the commands that keep credentials (CredentialStore),   *)
(* the openings of a database (DatabaseOpening), the plan of the day and    *)
(* the consent to it (PreparedReview).                                      *)
(* A behaviour is about one part; the variables of the others keep their    *)
(* initial values.                                                          *)
(***************************************************************************)
EXTENDS StatusRead, HistorySync, AccountEvidence, MarketEvidence,
        LiquidationEvidence, MCAccountingEpoch, OperatorEvidence, PortfolioRisk,
        CredentialStore, DatabaseOpening, PreparedReview

CONSTANTS o1, o2, o3, fills, h1, h2, late, away, inverse

\* The module a behaviour is about.
VARIABLE part

Only(name) == part = name /\ UNCHANGED part

MCBarLengths == {2, 3}

MCReplays == {<<0, 1>>, <<0, 2>>, <<3, 4>>}

\* Bounds of the history runs: how much is in trouble at a time; the second run begun
\* after the first, and each with a replay of its own; how often a window is written;
\* and one record, long past, that changes while at most one run is at work.
HistoryBound ==
    /\ Cardinality({p \in Syncs : sync[p].at \notin {"new", "ended"}})
       + Cardinality({p \in Syncs : sync[p].at = "ended" /\ sync[p].report = "none"})
       + Cardinality({key \in DOMAIN saved :
                         saved[key].status \in {"partial", "unavailable"}}) <= 2
    /\ (sync[h2].at # "new") => (sync[h1].at # "new")
    /\ \A p \in Syncs : \A chosen \in sync[p].selected :
          chosen[2].purpose = "explicit-replay" => (chosen[2].from = 0 <=> p = h1)
    /\ \A key \in DOMAIN saved : saved[key].revision <= 3
    /\ Cardinality({key \in DOMAIN saved : saved[key].revision > 1}) <= 2
    /\ \A record \in offered :
          record.content = "other" =>
              (record.at = 1 /\ \E p \in Syncs : sync[p].at \in {"new", "ended"})

\* How far an order or a position has come.
Stage == [never |-> 0, there |-> 1, gone |-> 2]

\* Bounds of the account evidence: what happens to the account while it is read, and
\* nothing more once the evidence cannot be admitted.
AccountBound ==
    /\ Stage[account'.order[usdt]] + Stage[account'.position[usdt]]
       + Stage[account'.order[late]] + Stage[account'.position[late]]
       + account'.amount + Cardinality(account'.listed \ Listed) <= 4
    /\ (gather.gap = "open") => UNCHANGED account

\* Bound of the market evidence: no time passes once the bundle cannot be complete.
MarketBound == (survey.fault \/ survey.faulty # {}) => UNCHANGED clock

\* A plan of two legs and a reduction by half.
MCLegSizes == <<1, 2>>
MCFraction == <<1, 2>>

\* The accounts it is asked about: one thing out of the ordinary in each.
With(m, amount) == [FlatAccount EXCEPT !.held[m] = amount]
MCAccounts ==
    {FlatAccount, With(away, 2), With(away, -1), With(target, 3), With(target, -1),
     With(inverse, 1)}
    \cup {[FlatAccount EXCEPT !.rows = {}], [FlatAccount EXCEPT !.rows = {}, !.lever[target] = 2],
          [With(away, 1) EXCEPT !.lever[away] = 2], [With(away, 1) EXCEPT !.asset = "valued"]}
    \cup {[FlatAccount EXCEPT !.asset = asset] : asset \in Assets}

\* The owner's orders: one of any kind, and one beside it.
OwnersOrder(id, m, side, leaves, closing, limit) ==
    [id |-> id, symbol |-> m, side |-> side, leaves |-> leaves, closing |-> closing,
     limit |-> limit, leg |-> 0]
MCOwnersOrders ==
    {OwnersOrder(1, away, side, leaves, TRUE, TRUE) : side \in {1, -1}, leaves \in {1, 2}}
    \cup {OwnersOrder(1, m, -1, 2, TRUE, TRUE) : m \in {target, inverse}}
    \cup {OwnersOrder(1, m, side, 1, FALSE, TRUE) : m \in {target, away}, side \in {1, -1}}
    \cup {OwnersOrder(1, inverse, 1, 1, FALSE, TRUE), OwnersOrder(1, away, 1, 1, FALSE, FALSE)}
    \cup {OwnersOrder(2, away, side, 2, FALSE, TRUE) : side \in {1, -1}}

\* Bounds of the preflight: the owner places one order of each id before the evidence is
\* gathered or one after it, and then only the process goes on; nothing fills before.
RiskBound ==
    (holding' # holding /\ review'.at = review.at) =>
        CASE review.at = "idle" -> review'.used # review.used
          [] review.at \in {"ended", "refused"} ->
                review.proposal.kind = "add-long" /\ ~review.others
          [] OTHER -> ~review.others

\* The commands of the operator; each on any of the Keychains an interrupted one leaves.
MCKindOf == [c \in Invocations |-> c]
MCAccountFor == [set \in Credentials |-> set]
MCFoundRecords ==
    {Absent, Whole("old"), [Whole("old") EXCEPT !["account-id"] = "absent"],
     [Whole("old") EXCEPT !["api-key"] = "corrupt"],
     [Whole("old") EXCEPT !["api-secret"] = "new"]}

\* Bound of the credentials: one command at a time, and none after it; accounts are looked
\* at by connect alone.
CredentialBound ==
    \A c \in Invocations :
        (command[c].at = "new" /\ command'[c].at # "new") =>
            /\ \A d \in Invocations \ {c} : command[d].at = "new"
            /\ (KindOf[c] # "connect") => (subaccounts = {})

\* Two processes of this release, and one of a release before artifacts had scopes.
MCRelease == (o1 :> 3) @@ (o2 :> 15) @@ (o3 :> 15)

\* Bounds of the database: two processes at work at a time, the third beginning beside the
\* second; two rows.
DatabaseBound ==
    /\ Cardinality({p \in Openers : opener'[p].at # "idle"}) <= 2
    /\ Cardinality(kept') <= 2
    /\ (opener[o3].at = "idle" /\ opener'[o3].at # "idle") => (opener[o2].at # "idle")

\* Bounds of the review: a plan that is a hold to review and then a second one, whose keys
\* may have been replaced; trades in the account while it is read for an addition; time
\* passes when a plan is stored or about to be approved; approvals when no run is at work.
ReviewBound ==
    /\ (preparation' # preparation) =>
          /\ \A c \in Consents : consent[c].at = "new"
          /\ (preparation["first"].at # "ended") => (preparation'["second"].at = "new")
          /\ (InStage("second", "new") /\ preparation'["second"].at # "new") =>
                \E plan \in plans : plan.recommendation = "HOLD" /\ plan.state = "REVIEW"
    /\ (targeted' # targeted) =>
          \E p \in Preparations :
             /\ InStage(p, "account") /\ preparation[p].recommendation = "ADD_LONG"
             /\ \A a \in Holders \ preparation[p].keys : targeted'[a] = targeted[a]
    /\ (storedKeys' # storedKeys) => (InStage("second", "keys") /\ storedKeys = "main")
    /\ (exchangeTime' # exchangeTime) =>
          \/ \E p \in Preparations : InStage(p, "saved")
          \/ \E c \in Consents : consent[c].at = "noted"
    /\ (consent' # consent) =>
          \A p \in Preparations : preparation[p].at \in {"new", "ended"}

recordsVars == <<part, statusVars, historyVars, evidenceVars, marketVars,
                 liquidationVars, epochVars, orderVars, riskVars, credentialVars,
                 databaseVars, reviewVars>>

RecordsInit ==
    /\ part \in {"status", "history", "account", "market", "liquidation", "epoch",
                "order", "risk", "keychain", "database", "review"}
    /\ StatusInit
    /\ HistoryInit
    /\ EvidenceInit
    /\ MarketInit
    /\ LiquidationInit
    /\ EpochInit
    /\ OrderInit
    /\ RiskInit
    /\ CredentialInit
    /\ DatabaseInit
    /\ ReviewInit /\ storedKeys = "main"
    /\ (part # "database") =>
          (file = Blank /\ place = [directory |-> "absent", file |-> "absent"])

\* What a part leaves alone: the variables of the others.
RecordsNext ==
    \/ /\ Only("status") /\ StatusNext
       /\ UNCHANGED <<historyVars, evidenceVars, marketVars, liquidationVars,
                      epochVars, orderVars, riskVars, credentialVars,
                      databaseVars, reviewVars>>
    \/ /\ Only("history") /\ HistoryNext /\ HistoryBound'
       /\ UNCHANGED <<statusVars, evidenceVars, marketVars, liquidationVars, epochVars,
                      orderVars, riskVars, credentialVars, databaseVars, reviewVars>>
    \/ /\ Only("account") /\ EvidenceNext /\ AccountBound
       /\ UNCHANGED <<statusVars, historyVars, marketVars, liquidationVars, epochVars,
                      orderVars, riskVars, credentialVars, databaseVars, reviewVars>>
    \/ /\ Only("market") /\ MarketNext /\ MarketBound
       /\ UNCHANGED <<statusVars, historyVars, evidenceVars, liquidationVars, epochVars,
                      orderVars, riskVars, credentialVars, databaseVars, reviewVars>>
    \/ /\ Only("liquidation") /\ LiquidationNext
       /\ UNCHANGED <<statusVars, historyVars, evidenceVars, marketVars, epochVars,
                      orderVars, riskVars, credentialVars, databaseVars, reviewVars>>
    \/ /\ Only("epoch") /\ EpochNext /\ EpochBound
       /\ UNCHANGED <<statusVars, historyVars, evidenceVars, marketVars,
                      liquidationVars, orderVars, riskVars, credentialVars,
                      databaseVars, reviewVars>>
    \/ /\ Only("order") /\ OrderNext
       /\ UNCHANGED <<statusVars, historyVars, evidenceVars, marketVars,
                      liquidationVars, epochVars, riskVars, credentialVars,
                      databaseVars, reviewVars>>
    \/ /\ Only("risk") /\ RiskNext /\ RiskBound
       /\ UNCHANGED <<statusVars, historyVars, evidenceVars, marketVars,
                      liquidationVars, epochVars, orderVars, credentialVars,
                      databaseVars, reviewVars>>
    \/ /\ Only("keychain") /\ CredentialNext /\ CredentialBound
       /\ UNCHANGED <<statusVars, historyVars, evidenceVars, marketVars,
                      liquidationVars, epochVars, orderVars, riskVars,
                      databaseVars, reviewVars>>
    \/ /\ Only("database") /\ DatabaseNext /\ DatabaseBound
       /\ UNCHANGED <<statusVars, historyVars, evidenceVars, marketVars,
                      liquidationVars, epochVars, orderVars, riskVars, credentialVars,
                      reviewVars>>
    \/ /\ Only("review") /\ ReviewNext /\ ReviewBound
       /\ UNCHANGED <<statusVars, historyVars, evidenceVars, marketVars,
                      liquidationVars, epochVars, orderVars, riskVars, credentialVars,
                      databaseVars>>

RecordsSpec ==
    /\ RecordsInit
    /\ [][RecordsNext]_recordsVars

\* The variables of every part are of their types: the program counters, journals
\* and observations the modules take from the code.
RecordsTypeOK ==
    /\ StatusTypeOK /\ HistoryTypeOK
    /\ EvidenceTypeOK /\ MarketTypeOK /\ LiquidationTypeOK /\ EpochTypeOK /\ OrderTypeOK
    /\ RiskTypeOK /\ CredentialTypeOK /\ DatabaseTypeOK /\ ReviewTypeOK
=============================================================================
