-------------------------- MODULE MCDemotionPolicy --------------------------
(* Two sessions over a HOT pool that both fill and a WARM pool that one    *)
(* demotion fills: demotions succeed, are refused, and are probed.  And    *)
(* three evaluated sessions with a ballast request, whose histories are    *)
(* together larger than what lies between the two watermarks.              *)
EXTENDS ResumePreflight

TwoSessions == 1 .. 2
NoTransition == 0 - 1

ThreeAndBallast == 1 .. 4
FirstThree == 1 .. 3
TwoBlocksEach(s) == 2
=============================================================================
