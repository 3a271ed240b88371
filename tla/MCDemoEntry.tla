---------------------------- MODULE MCDemoEntry -----------------------------
(***************************************************************************)
(* TLC instances of DemoEntry.  A start, its plan, its client order id and *)
(* its exchange order share one model value, so the mappings between them  *)
(* are identities.                                                         *)
(***************************************************************************)
EXTENDS DemoEntry, TLC

CONSTANTS main, r1, r2, s1, s2   \* the scope; run ids; starts

MCIdentity == [i \in Intents |-> i]

MCScopeOf == [p \in Plans |-> main]

MCAttemptIds == Intents \X {"entry", "recovery"}

\* Every start has an input, and so a run id, of its own.
MCOwnRun == [i \in Intents |-> i]

\* One input, and so one run id, for every start.
MCSameRun == [i \in Intents |-> r1]

\* All starts are reviewed; or one is, and the leverage has to be set first.
MCBeginnings ==
    {[reviewed |-> Intents, levered |-> TRUE]}
        \cup {[reviewed |-> {i}, levered |-> FALSE] : i \in Intents}

\* One start is reviewed, at 1x.
MCOneReviewed == {[reviewed |-> {s1}, levered |-> TRUE]}

\* Up to three grants, up to three HALT revisions, and four of them in all.
MCSpec == Init /\ [][Next /\ Len(grants') + halt'.revision <= 4]_vars

\* Starts are alike when each has its own run id: whichever of them is reviewed
\* may be.
MCSymmetry == Permutations(Intents)
=============================================================================
