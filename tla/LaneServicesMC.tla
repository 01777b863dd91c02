--------------------------- MODULE LaneServicesMC ---------------------------
(***************************************************************************)
(* What sets the lane up, for TLC: the jobs that run it and the installer  *)
(* of the plugins.  They share no state, so a behaviour uses one of them.  *)
(***************************************************************************)
EXTENDS EyesJobs, OverlayInstall

VARIABLE service     \* the one that is used

serviceVars == <<service, jobVars, installVars>>

MCConfigs == {[scan |-> TRUE, max |-> 2], [scan |-> FALSE, max |-> 1]}

ServicesInit == service \in {"jobs", "install"} /\ JobsInit /\ InstallInit

ServicesNext ==
  /\ UNCHANGED service
  /\ \/ service = "jobs" /\ JobsNext /\ UNCHANGED installVars
     \/ service = "install" /\ InstallNext /\ UNCHANGED jobVars

ServicesSpec == ServicesInit /\ [][ServicesNext]_serviceVars /\ JobsFairness

-----------------------------------------------------------------------------
(* Every variable of both services has its type. *)
ServicesTypeOK == JobsTypeOK /\ InstallTypeOK
=============================================================================
