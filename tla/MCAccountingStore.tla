------------------------- MODULE MCAccountingStore --------------------------
(***************************************************************************)
(* TLC instances of AccountingStore: the journal's orders stand still, its *)
(* leases and HALT move.                                                   *)
(***************************************************************************)
EXTENDS AccountingStore, TLC

CONSTANTS main   \* the scope

MCPlanOf == [i \in Intents |-> i]

MCScopeOf == [p \in Plans |-> main]

\* Two families of behaviours share the run: three events in three versions without
\* a checkpoint, and two events in two versions beside a checkpoint.
NoStream == checkpoint = None /\ Len(grants) <= 1

TwoEvents ==
    /\ halt.revision <= 2
    /\ \E e \in Events :
          /\ fact[e] = None /\ \A h \in Hashes : <<e, h>> \notin delivered
          /\ \A x \in Events : fact[x] # None => fact[x].link # e
    /\ \E h \in Hashes : \A e \in Events : <<e, h>> \notin delivered

MCSpec == AccountingInit
          /\ [][AccountingNext /\ (NoStream' \/ TwoEvents')]_accountingVars

MCSymmetry == Permutations(Runs) \cup Permutations(Events) \cup Permutations(Hashes)
=============================================================================
