-------------------------- MODULE MCServiceLifecycle --------------------------
(* Instances of ServiceLifecycle for TLC. *)
EXTENDS ServiceLifecycle, TLC

CONSTANTS a1, a2
TwoApprovals == {a1, a2}
OneApproval == {a1}
Symmetry == Permutations(Approvals)
=============================================================================
