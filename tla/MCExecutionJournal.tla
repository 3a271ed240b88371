------------------------- MODULE MCExecutionJournal -------------------------
(***************************************************************************)
(* TLC instances of ExecutionJournal.  Every plan has one intent, as the   *)
(* plans of the demo entry have, and is named like its intent, so that the *)
(* mapping is the identity and intents may be permuted.                    *)
(***************************************************************************)
EXTENDS ExecutionJournal, TLC

CONSTANTS main, other   \* scopes

MCPlanOf == [i \in Intents |-> i]

\* One scope: the trader's only supported category and position mode.
MCOneScope == [p \in Plans |-> main]

\* Two scopes of one account.
MCTwoScopes == [p \in Plans |-> IF p = CHOOSE q \in Plans : TRUE
                                THEN other ELSE main]

\* Two families of behaviours share the run that has to pass: up to two runs, with
\* one attempt and one exchange order between all intents (four grants and HALT
\* revisions in all), and one run that holds one lease, with two attempts and two
\* exchange orders.
OrdersUsed == {attempt[a].order : a \in {b \in AttemptIds : attempt[b] # None}}
              \cup {binding[a] : a \in AttemptIds}
              \cup {latest[i].order : i \in Intents}
              \cup {e[2] : e \in evidenced}

OneOrder ==
    /\ \E a \in AttemptIds : \A b \in AttemptIds \ {a} : attempt[b] = None
    /\ \E o \in Orders : OrdersUsed \subseteq {o, None}
    /\ Len(grants) + halt.revision <= 4

OneRun ==
    /\ Len(grants) <= 1
    /\ halt.revision <= 1
    /\ \A p, q \in Plans : lineage[p] = None \/ lineage[q] \in {None, lineage[p]}
    /\ \A i \in Intents : latest[i].revision <= 1

MCNext == JournalNext /\ (OneOrder' \/ OneRun')

MCSpec == JournalInit /\ [][MCNext]_journalVars

MCSymmetry == Permutations(Runs) \cup Permutations(Intents)
              \cup Permutations(ClientIds) \cup Permutations(AttemptIds)
              \cup Permutations(Orders)
=============================================================================
