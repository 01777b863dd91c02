---------------------------- MODULE EyesQueueMC ----------------------------
(***************************************************************************)
(* EyesQueue for TLC.  Run ids and recoverers are model values; run ids    *)
(* are interchangeable, which the safety runs use.                         *)
(***************************************************************************)
EXTENDS EyesQueue, TLC

RunSymmetry == Permutations(Runs)
=============================================================================
