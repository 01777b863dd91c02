------------------------------ MODULE EyesItem ------------------------------
(***************************************************************************)
(* What the Eyes queue promises for each item, without files, processes or *)
(* kills: an item waits, is claimed, may be given back, and ends completed *)
(* with one result of its own, or failed; an end is final.                 *)
(***************************************************************************)
CONSTANTS
  Items,
  ResultsOf(_),   \* the results that can be computed for an item
  NoResult

VARIABLES
  phase,          \* the item's place in its life
  outcome         \* the result a completed item stands for

vars == <<phase, outcome>>

Phases == {"waiting", "claimed", "completed", "failed"}

(* An item has one phase and at most one result of its own.                *)
TypeOK ==
  /\ phase \in [Items -> Phases]
  /\ \A i \in Items : outcome[i] \in ResultsOf(i) \cup {NoResult}

Init ==
  /\ phase = [i \in Items |-> "waiting"]
  /\ outcome = [i \in Items |-> NoResult]

Move(i, from, to) ==
  /\ phase[i] = from
  /\ phase' = [phase EXCEPT ![i] = to]

Claim(i)   == Move(i, "waiting", "claimed") /\ UNCHANGED outcome
Requeue(i) == Move(i, "claimed", "waiting") /\ UNCHANGED outcome
Fail(i)    == Move(i, "claimed", "failed") /\ UNCHANGED outcome
Complete(i) ==
  /\ Move(i, "claimed", "completed")
  /\ \E x \in ResultsOf(i) : outcome' = [outcome EXCEPT ![i] = x]

Next == \E i \in Items : Claim(i) \/ Requeue(i) \/ Fail(i) \/ Complete(i)

Spec == Init /\ [][Next]_vars
=============================================================================
