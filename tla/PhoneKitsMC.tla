----------------------------- MODULE PhoneKitsMC ----------------------------
(***************************************************************************)
(* The kits of the phone for TLC.  They share no state, so a behaviour     *)
(* uses one of them, and the others rest.                                  *)
(***************************************************************************)
EXTENDS AppPlanning, PhoneScreen, Browser, PhoneActions, TLC

VARIABLE kit      \* the one that is used

phoneVars == <<kit, planVars, screenVars, browserVars, actionVars>>

(* Five apps a phone may have, and the two that the stack asks for. *)
App(installed, thirdParty, launcher, url, text, images) ==
  [installed |-> installed, thirdParty |-> thirdParty, launcher |-> launcher,
   url |-> url, text |-> text, images |-> images]
MCAppStates ==
  {App(FALSE, FALSE, "none", FALSE, FALSE, FALSE),
   App(TRUE, TRUE, "reactivate", FALSE, FALSE, FALSE),
   App(TRUE, TRUE, "launch", FALSE, FALSE, FALSE),
   App(TRUE, FALSE, "none", FALSE, TRUE, TRUE),
   App(TRUE, TRUE, "launch", TRUE, TRUE, TRUE)}
MCStack == <<"browser", "driver">>

(* A form whose label and field have the same text, and a list. *)
Node(text, at, clickable, takes) ==
  [text |-> text, at |-> at, clickable |-> clickable, takes |-> takes]
MCLayout ==
  [form |-> <<Node("name", 1, FALSE, "nothing"), Node("name", 2, TRUE, "focus")>>,
   list |-> <<Node("name", 1, TRUE, "press"), Node("note", 2, TRUE, "focus")>>]

(* Two browsers that both have a tab 1. *)
MCSockets == <<"chrome", "brave">>
MCFirstTabs == [s \in {"chrome", "brave"} |->
                  IF s = "chrome" THEN <<Tab(1, "p"), Tab(2, "p")>>
                  ELSE <<Tab(1, "q")>>]

KitsSymmetry == Permutations(ScreenCalls) \cup Permutations(BrowserCalls)
                  \cup Permutations(ActionCalls)

-----------------------------------------------------------------------------
PhoneInit ==
  /\ kit \in {"planning", "screen", "browser", "actions"}
  /\ PlanInit
  /\ kit # "planning" => apps = [p \in Packages |-> CHOOSE s \in AppStates : TRUE]
  /\ ScreenInit /\ BrowserInit /\ ActionsInit

PhoneNext ==
  /\ UNCHANGED kit
  /\ \/ /\ kit = "planning" /\ PlanNext
        /\ UNCHANGED <<screenVars, browserVars, actionVars>>
     \/ /\ kit = "screen" /\ ScreenNext
        /\ UNCHANGED <<planVars, browserVars, actionVars>>
     \/ /\ kit = "browser" /\ BrowserNext
        /\ UNCHANGED <<planVars, screenVars, actionVars>>
     \/ /\ kit = "actions" /\ ActionsNext
        /\ UNCHANGED <<planVars, screenVars, browserVars>>

PhoneSpec == PhoneInit /\ [][PhoneNext]_phoneVars

-----------------------------------------------------------------------------
(* Every variable of every kit has its type. *)
KitsTypeOK ==
  /\ PlanTypeOK
  /\ ScreenTypeOK
  /\ BrowserTypeOK
  /\ ActionsTypeOK
=============================================================================
