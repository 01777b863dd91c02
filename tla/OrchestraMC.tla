---------------------------- MODULE OrchestraMC -----------------------------
(***************************************************************************)
(* Orchestra for TLC.  ChainDepends is plan_prepare_and_trade: watchlist,  *)
(* browser, order.  ForkDepends ends in steps that do not depend on one    *)
(* another, so that two tasks can await approval at a time.                *)
(***************************************************************************)
EXTENDS Orchestra, TLC

ChainDepends == [s \in Steps |-> IF s = 1 THEN {} ELSE {s - 1}]
ForkDepends == [s \in Steps |-> IF s = 1 THEN {} ELSE IF s = 2 THEN {1}
                                ELSE {2}]

CallSymmetry == Permutations(Runs) \cup Permutations(Approvals)
=============================================================================
