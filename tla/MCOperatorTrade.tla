--------------------------- MODULE MCOperatorTrade --------------------------
(***************************************************************************)
(* TLC instances of OperatorTrade: typed commands c1, c2 in one symbol and *)
(* c3 in another, an approved plan a1 that two processes execute, and a    *)
(* plan m1 issued for an attestation.                                      *)
(***************************************************************************)
EXTENDS OperatorTrade, TLC

CONSTANTS c1, c2, c3, a1, a1again, m1, btc, eth

MCSymbolOf == [p \in Plans |-> IF p = c3 THEN eth ELSE btc]

MCPlanOf == [q \in Procs |-> IF q = a1again THEN a1 ELSE q]

\* What is started together in the run that has to pass.
MCPairs == {{c1, c3}, {a1, a1again, Foreign}, {c1, m1}, {c1, a1}}

\* A plan whose source is recovered, a command in another symbol, the recovery.
MCRecoveryRace == {{c1, c3, m1}}

\* Commands in two symbols.
MCTwoSymbols == {{c1, c3}}

\* A command, and the recovery of its source.
MCReleased == {{c1, m1}}
=============================================================================
