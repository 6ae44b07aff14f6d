--------------------------- MODULE MCSessionFiles ---------------------------
(* Instances of SessionFiles for TLC. *)
EXTENDS SessionFiles

CONSTANTS p1, p2

TwoClients == {p1, p2}

\* One client reads and refreshes; the other refreshes, signs in and
\* out and asks for the status.
Roles ==
  [p \in TwoClients |-> IF p = p1 THEN {"read", "refresh"} ELSE Operations \ {"read"}]
=============================================================================
