---------------------------- MODULE ReviewGateMC ----------------------------
(***************************************************************************)
(* ReviewGate for TLC, in two modes.  Serial: two reviews, decisions one   *)
(* after the other, two kills.  Else: one review, decisions that overlap,  *)
(* one kill.  A kill may come inside a write.  Review ids and decision     *)
(* processes are model values.                                             *)
(***************************************************************************)
EXTENDS ReviewGate, TLC

CONSTANT Spare       \* the reviews of the serial mode only

VARIABLE serial

(* At most one decision is under way.                                      *)
Solo == \A d, o \in Deciders : Live(d) /\ Live(o) => d = o

MCInit == serial \in BOOLEAN /\ Init
MCNext ==
  /\ UNCHANGED serial
  /\ Next
  /\ \/ serial /\ Solo'
     \/ ~serial /\ mishaps' <= 1 /\ \A r \in Spare : pending'[r] = Unborn
MCSpec == MCInit /\ [][MCNext]_<<vars, serial>>

DeciderSymmetry == Permutations(Deciders)

-----------------------------------------------------------------------------
(* Decisions that do not overlap leave one chain of audit events, wherever *)
(* they are killed: see ChainLinear.                                       *)
SerialChainLinear == serial => ChainLinear
=============================================================================
