--------------------------- MODULE MCOutMessages ---------------------------
(***************************************************************************)
(* OutMessages for TLC: its constants and the symmetry of the publishers.  *)
(***************************************************************************)
EXTENDS OutMessages

CONSTANTS p1, p2

TwoPublishers == {p1, p2}
OnePublisher == {p1}
AllSizes == BOOLEAN
SmallOnly == {FALSE}
Symmetry == Permutations(TwoPublishers)
=============================================================================
