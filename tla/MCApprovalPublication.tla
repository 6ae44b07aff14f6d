------------------------ MODULE MCApprovalPublication ------------------------
(* Instances of ApprovalPublication for TLC. *)
EXTENDS ApprovalPublication, TLC

CONSTANTS a1, a2, a3, c1, c2, c3, desktop, slack, w1, w2

TwoProposals == {a1, a2}
ThreeProposals == {a1, a2, a3}
TwoCommands == {c1, c2}
ThreeCommands == {c1, c2, c3}
BothSurfaces == {desktop, slack}
OneSurface == {desktop}
OnePublisher == {w1}
TwoPublishers == {w1, w2}
NoneUnpublishable == {}
FirstUnpublishable == {a1}

Symmetry ==
  Permutations(Publishers) \cup Permutations(Commands) \cup Permutations(Surfaces)
=============================================================================
