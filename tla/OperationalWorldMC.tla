------------------------- MODULE OperationalWorldMC -------------------------
(***************************************************************************)
(* OperationalWorld for TLC, in two modes.  Serial: two submissions, two   *)
(* ticks, a scan, an init or a reconciliation, one call at a time, one     *)
(* kill that may come inside an append.  Else: one submission, one tick, a *)
(* scan, and a replay or a reset that overlap, without kills.  Calls are   *)
(* model values; calls of the same tool are interchangeable.               *)
(***************************************************************************)
EXTENDS OperationalWorld, FiniteSets

CONSTANTS SerialKinds, OverlapKinds   \* kinds of action in each mode

VARIABLE serial

(* At most one call is under way.                                          *)
Solo == \A c, d \in Calls : Live(c) /\ Live(d) => c = d
Submitted(kinds) ==
  \A c \in Submits : \A a \in ToSet(mem[c].queued) : a.kind \in kinds
Started(calls) == {c \in calls : pc[c] # "idle"}

MCInit == serial \in BOOLEAN /\ Init
MCNext ==
  /\ UNCHANGED serial
  /\ Next
  /\ \/ serial /\ Solo' /\ Started(Replays \cup Resets)' = {}
        /\ Cardinality(Started(Inits \cup Reconciles)') <= 1
        /\ Submitted(SerialKinds)'
     \/ ~serial /\ mishaps' = 0
        /\ Submitted(OverlapKinds)'
        /\ Started(Inits \cup Reconciles)' = {}
        /\ Cardinality(Started(Replays \cup Resets)') <= 1
        /\ Cardinality(Started(Submits)') <= 1
        /\ Cardinality(Started(Ticks)') <= 1
MCSpec == MCInit /\ [][MCNext]_<<vars, serial>>

CallSymmetry == Permutations(Submits) \cup Permutations(Ticks)

-----------------------------------------------------------------------------
(* What holds of calls that come one after the other, as one agent makes   *)
(* them: see OperationalWorld for each.                                    *)
SerialProcessedOnce == serial => ProcessedOnce
SerialNoActionLost == serial => NoActionLost
SerialReplayAgrees == serial => ReplayAgrees
SerialConsequenceOnce == serial => ConsequenceOnce

(* The stream is ahead of the state in both modes.  A consequence the      *)
(* state remembers is in the stream unless a line was cut short.           *)
SpineAhead == StreamAhead /\ (serial \/ ConsequenceAhead)
=============================================================================
