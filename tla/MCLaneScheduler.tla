-------------------------- MODULE MCLaneScheduler --------------------------
(* LaneScheduler for TLC.                                                   *)
EXTENDS LaneScheduler

CONSTANT none

TwoPriorities == {0, 1}
=============================================================================
