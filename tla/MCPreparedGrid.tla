--------------------------- MODULE MCPreparedGrid ---------------------------
(***************************************************************************)
(* Instances of PreparedGrid.  The Mainnet scope has no owned intents of   *)
(* the execution journal, only its lease and HALT.                         *)
(***************************************************************************)
EXTENDS PreparedGrid, TLC

CONSTANTS one, two, three, approval, mainnet

\* What an instance is about: a grid, or the operations on one leg.
VARIABLE family

\* Two processes have a run id of their own; a third has that of the first.
MCRunOf == [p \in Procs |-> IF p = three THEN one ELSE p]

NoPlans == [i \in Intents |-> approval]
Mainnet == [p \in Plans |-> mainnet]

\* The first two are alike wherever both are at work; where only the first is, no other
\* behaviour has the second in its place.
Symmetric == Permutations({one, two})

\* The processes of a family.
AtWork == IF family = "one run" THEN {one, three} ELSE {one, two}

\* The legs of a grid are filled as a whole; a leg on its own may be filled in
\* part and is the first one.  Two processes of one run hold one lease between them.
InFamily ==
    CASE family = "grid" ->
           /\ \A p \in AtWork : proc[p].op \in {"none", "grid", "sweep"}
           /\ \A l \in Legs : order[l].filled \in {0, Full}
      [] family = "leg" ->
           \A p \in AtWork : /\ proc[p].op # "grid"
                             /\ proc[p].at \in {1, None}
      [] family = "one run" ->
           /\ \A p \in AtWork : /\ proc[p].op # "grid"
                                /\ proc[p].at \in {1, None}
           /\ \A l \in Legs : order[l].filled \in {0, Full}
           /\ Len(grants) <= 1

MCInit ==
    /\ Init
    /\ family \in {"leg"} \cup (IF "grid" \in Offered THEN {"grid", "one run"} ELSE {})

\* Next, of the processes of the family.
MCNext ==
    /\ \/ \E p \in AtWork : CreateStep(p) \/ ReconcileStep(p) \/ CancelStep(p) \/ Crash(p)
       \/ ExchangeStep
       \/ TimeStep
    /\ UNCHANGED family
    /\ InFamily'

MCSpec == MCInit /\ [][MCNext]_<<vars, family>>

\* Two processes of one run release its lease for each other, and may write an old answer
\* over a newer one: these hold of processes that have runs of their own
\* (createMainnetPreparedGrid, reconcilePreparedLegSource).
OwnRun == family # "one run"

\* A leg in doubt keeps the account leased (DoubtKeepsLease).
DoubtKeepsOwnLease == OwnRun => DoubtKeepsLease

\* A fill that was recorded is never forgotten (FillsStayKnown).
FillsStayKnownToOwn == OwnRun => FillsStayKnown
=============================================================================
