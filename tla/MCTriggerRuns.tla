---------------------------- MODULE MCTriggerRuns ----------------------------
(* Instances of TriggerRuns for TLC. *)
EXTENDS TriggerRuns

CONSTANTS i1, s1, s2, ann, bob

OneImpact == {i1}
TwoSweeps == {s1, s2}

\* Ann's impact check and her sweep, and a sweep of Bob's.
TwoPeople == [r \in Impacts \cup Sweeps |-> IF r \in {i1, s1} THEN ann ELSE bob]
Scopes == [r \in Sweeps |-> "mine"]
FewTokens == 1..2
=============================================================================
