---------------------------- MODULE MC_FrameLane ----------------------------
(* FrameLane for TLC: two sessions whose frames go to one connection, two    *)
(* control messages to tell orders apart.                                    *)
EXTENDS FrameLane
=============================================================================
