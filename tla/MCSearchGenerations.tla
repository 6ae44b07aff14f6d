-------------------------- MODULE MCSearchGenerations --------------------------
(* Instances of SearchGenerations for TLC. *)
EXTENDS SearchGenerations

CONSTANTS old, new

TwoReleases == {old, new}
=============================================================================
