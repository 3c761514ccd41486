-------------------------- MODULE MCPublishSession --------------------------
(***************************************************************************)
(* PublishSession for TLC.                                                 *)
(***************************************************************************)
EXTENDS PublishSession

CONSTANTS p1, p2

TwoPublishers == {p1, p2}
OnePublisher == {p1}
AllSizes == BOOLEAN
SmallOnly == {FALSE}
AnyPhase == Links
NotWhileConnecting == Links \ {"reset"}
WhenActive == {"active"}
=============================================================================
