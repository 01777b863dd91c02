---------------------------- MODULE EyesInboxMC -----------------------------
(***************************************************************************)
(* EyesInbox for TLC, in two modes.  Serial: two names, scans that run one *)
(* after the other and move what they take, drops that appear whole, two   *)
(* mishaps.  Else: one name, scans that overlap, one of them with          *)
(* --no-move, drops that may show before they have content, one mishap.    *)
(* Contents and scans are model values; names are numbers, in the order in *)
(* which a scan takes them.                                                *)
(***************************************************************************)
EXTENDS EyesInbox, TLC

CONSTANTS s1, s2, s3, s4  \* the scans: s4 has --no-move,
                          \* s3 is of the serial mode only

VARIABLE serial

(* At most one scan is under way.                                          *)
Solo == \A p, q \in Scans : Live(p) /\ Live(q) => p = q

(* Scans take turns and move what they take; no file shows half written.   *)
Orderly ==
  /\ Solo
  /\ \A p \in NoMove : pc[p] = "idle"
  /\ \A f \in Files : place[f] # "outside" => whole[f]

MCInit == serial \in BOOLEAN /\ Init
MCNext ==
  /\ UNCHANGED serial
  /\ Next
  /\ \/ serial /\ Orderly'
     \/ ~serial /\ mishaps' <= 1 /\ pc'[s3] = "idle"
        /\ \A f \in Files : NameOf(f) # 1 => place'[f] = "outside"
MCSpec == MCInit /\ [][MCNext]_<<vars, serial>>

InboxSymmetry == Permutations(Contents) \cup Permutations({s1, s2})

-----------------------------------------------------------------------------
(* What holds of scans that run one after the other, as the job scheduler  *)
(* runs them: see EyesInbox for each.                                      *)
SerialContentRetained == serial => ContentRetained
SerialItemBacked == serial => ItemBacked
SerialQueuedOnce == serial => QueuedOnce
SerialNothingSwallowed == serial => NothingSwallowed
=============================================================================
