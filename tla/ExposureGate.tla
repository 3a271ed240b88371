---------------------------- MODULE ExposureGate ----------------------------
(***************************************************************************)
(* What the execution journal promises its callers, without runs, leases,  *)
(* epochs, attempts, orders or evidence: a gate in front of new exposure,  *)
(* and the fate of every order intent that has passed it.                  *)
(***************************************************************************)
CONSTANT Intents

VARIABLES
    gate,   \* "open" or "shut"
    fate    \* what is known of an intent

Fate == {"none", "admitted", "doubtful", "settled"}

Init ==
    /\ gate = "open"
    /\ fate = [i \in Intents |-> "none"]

\* New exposure passes an open gate only.
Admit(i) ==
    /\ gate = "open"
    /\ fate[i] = "none"
    /\ fate' = [fate EXCEPT ![i] = "admitted"]
    /\ UNCHANGED gate

\* An order is known to be over, or filled and accounted for by its owner.
Settle(i) ==
    /\ fate[i] # "none"
    /\ fate' = [fate EXCEPT ![i] = "settled"]
    /\ UNCHANGED gate

\* An order turns out to be open, partly filled or of unknown fate; what was
\* settled may become doubtful again.  The gate shuts with the news.
Doubt(i) ==
    /\ fate[i] # "none"
    /\ fate' = [fate EXCEPT ![i] = "doubtful"]
    /\ gate' = "shut"

\* The gate may shut for any reason, and at any time.
Shut ==
    /\ gate' = "shut"
    /\ UNCHANGED fate

\* It reopens when every intent that ever passed it is settled.
Reopen ==
    /\ gate = "shut"
    /\ \A i \in Intents : fate[i] \in {"none", "settled"}
    /\ gate' = "open"
    /\ UNCHANGED fate

Next ==
    \/ \E i \in Intents : Admit(i) \/ Settle(i) \/ Doubt(i)
    \/ Shut
    \/ Reopen

Spec == Init /\ [][Next]_<<gate, fate>>
=============================================================================
