---------------------------- MODULE AppPlanning -----------------------------
(***************************************************************************)
(* The planning kits: app inventory, workflow feasibility, intent audit,   *)
(* UI capability audit, orchestration blueprint, app stack report and      *)
(* business workflow capture.  Each is a call that looks at every app of a *)
(* stack with one Android command at a time and then draws conclusions.    *)
(* The later kits call the earlier ones, and look again each time:         *)
(* a captured workflow holds five surveys of one stack, taken one after    *)
(* the other from a phone on which apps come, go and are archived.         *)
(*                                                                         *)
(* A command that fails or times out prints nothing, which every reader    *)
(* takes for "no such app" or "no handler".                                *)
(*                                                                         *)
(* Left out: the wording of notes and summaries, examples, templates, and  *)
(* the order of the items of a list beyond who is first.                   *)
(***************************************************************************)
EXTENDS Integers, Sequences, FiniteSets, SequencesExt

CONSTANTS
  Stack,        \* package_names, cleaned: a sequence without repetition
  AppStates,    \* what Android may answer about an app
  PlanTools,    \* the tools that are called
  MaxPlanChanges, \* BOUND: changes of the phone, failed commands included
  NoPlan

VARIABLES
  apps,         \* of each package: its AppStates record, the phone's truth
  ready,        \* which of the screen tools answer: {"dump", "input", ...}
  plan,         \* the call under way or just ended
  during,       \* history: of each package, its states since the call began
  planFiles,    \* outputs/: tool and kind of each file written
  planChanges

planVars == <<apps, ready, plan, during, planFiles, planChanges>>

Packages == Range(Stack)
ScreenTools == {"dump", "input", "screen"}

-----------------------------------------------------------------------------
(* The commands of a survey, in the order in which they are run. *)

ProfileReads == <<"installed", "thirdParty", "launcher", "url", "text">>
SurfaceReads == <<"asLauncher", "asUrl", "asText", "asImages">>
ReadinessReads == <<"dump", "input", "screen">>

SurveyReads == [assess  |-> ProfileReads,
                uiAudit |-> ReadinessReads \o ProfileReads,
                intents |-> ProfileReads \o SurfaceReads]

(* Which surveys a tool takes; the report and the capture take some       *)
(* through the tools they call.                                           *)
Surveys ==
  [feasibility |-> <<"assess">>,
   blueprint   |-> <<"assess">>,
   report      |-> <<"assess", "assess">>,
   capture     |-> <<"assess", "assess", "assess", "assess", "uiAudit">>,
   uiAudit     |-> <<"uiAudit">>,
   intents     |-> <<"intents">>]

(* The names are cleaned of repetitions, and there has to be one.          *)
ASSUME PlanningAssumption ==
  /\ Stack \in Seq(Range(Stack)) /\ Stack # <<>>
  /\ \A i, j \in DOMAIN Stack : Stack[i] = Stack[j] => i = j
  /\ PlanTools \subseteq DOMAIN Surveys
(* Android finds handlers of installed apps; of an archived one nothing is *)
(* left but a launcher that restores it.                                   *)
ASSUME HandlersAssumption ==
  /\ AppStates \subseteq
       [installed : BOOLEAN, thirdParty : BOOLEAN,
        launcher : {"none", "launch", "reactivate"},
        url : BOOLEAN, text : BOOLEAN, images : BOOLEAN]
  /\ \A s \in AppStates :
       s.url \/ s.text => s.installed /\ s.launcher # "reactivate"

Whole == "stack"   \* what a readiness check is about that is about no app

ReadsOf(n, survey) ==
  FlattenSeq([i \in DOMAIN Stack |->
                [j \in DOMAIN SurveyReads[survey] |->
                   <<n, Stack[i], SurveyReads[survey][j]>>]])
  \o (IF survey = "uiAudit"
        THEN [j \in DOMAIN ReadinessReads |-> <<n, Whole, ReadinessReads[j]>>]
        ELSE <<>>)

Reads == [t \in DOMAIN Surveys |->
            FlattenSeq([n \in DOMAIN Surveys[t] |-> ReadsOf(n, Surveys[t][n])])]

(* What the phone answers now.  Every screen tool needs adb, which is what *)
(* "screen" stands for: its doctor asks for nothing but a device.          *)
Look(p, what) ==
  CASE what \in ScreenTools            -> what \in ready /\ "screen" \in ready
    [] what \in {"launcher", "asLauncher"} -> apps[p].launcher
    [] what \in {"url", "asUrl"}       -> apps[p].url
    [] what \in {"text", "asText"}     -> apps[p].text
    [] what = "asImages"               -> apps[p].images
    [] what = "installed"              -> apps[p].installed
    [] what = "thirdParty"             -> apps[p].thirdParty

Nothing(what) == IF what \in {"launcher", "asLauncher"} THEN "none" ELSE FALSE

-----------------------------------------------------------------------------
(* What a kit concludes from survey n of a call, a function of plan.seen.  *)

Seen(n, p, what) == plan.seen[<<n, p, what>>]
Handles(n, p) == Seen(n, p, "url") \/ Seen(n, p, "text")

InteractionMode(n, p) ==
  CASE ~Seen(n, p, "installed")                -> "missing"
    [] Seen(n, p, "launcher") = "reactivate"   -> "reactivation_or_restore"
    [] Seen(n, p, "launcher") # "reactivate" /\ Handles(n, p)
                                               -> "direct_handoff"
    [] Seen(n, p, "launcher") = "launch" /\ ~Handles(n, p) -> "ui_steering"
    [] OTHER                                   -> "unknown"

Points(holds, n) == IF holds THEN n ELSE 0
Clamp(score) == IF score < 0 THEN 0 ELSE IF score > 100 THEN 100 ELSE score

ScoreOfDormant(n, p) ==   \* variant: an archived app loses nothing
  IF ~Seen(n, p, "installed") THEN 0
  ELSE Clamp(Points(Seen(n, p, "launcher") # "none", 40)
             + Points(Seen(n, p, "url"), 30) + Points(Seen(n, p, "text"), 20)
             + Points(Seen(n, p, "thirdParty"), 5))

ReadinessScore(n, p) ==
  IF ~Seen(n, p, "installed") THEN 0
  ELSE Clamp(Points(Seen(n, p, "launcher") # "none", 40)
             + Points(Seen(n, p, "url"), 30) + Points(Seen(n, p, "text"), 20)
             + Points(Seen(n, p, "thirdParty"), 5)
             - Points(Seen(n, p, "launcher") = "reactivate", 35))

Band(score) == IF score >= 70 THEN "high"
               ELSE IF score >= 40 THEN "medium" ELSE "low"

(* Of some apps: whether one comes before another in the stack, the first  *)
(* and the first k.                                                        *)
Before(p, q) ==
  \E i, j \in DOMAIN Stack : i < j /\ Stack[i] = p /\ Stack[j] = q
FirstOf(S) == CHOOSE p \in S : \A q \in S \ {p} : Before(p, q)
FirstFew(S, k) == {p \in S : Cardinality({q \in S : Before(q, p)}) < k}

Named(n, mode) == {p \in Packages : InteractionMode(n, p) = mode}
Usable(n) == Named(n, "direct_handoff") \cup Named(n, "ui_steering")

(* The average is compared, not rounded. *)
OverallReadiness(n) ==
  LET sum == FoldLeft(LAMBDA s, p : s + ReadinessScore(n, p), 0, Stack)
  IN  CASE sum >= 70 * Len(Stack) -> "high"
        [] sum < 70 * Len(Stack) /\ sum >= 40 * Len(Stack) -> "medium"
        [] sum < 40 * Len(Stack) -> "low"

(* sorted(..., reverse=True) is stable: equal scores stay in stack order. *)
Better(n, p, q) ==
  \/ ReadinessScore(n, p) > ReadinessScore(n, q)
  \/ ReadinessScore(n, p) = ReadinessScore(n, q) /\ Before(p, q)

Ranked(n) ==
  [k \in DOMAIN Stack |-> CHOOSE p \in Packages :
     Cardinality({q \in Packages : Better(n, q, p)}) = k - 1]

(* The first in that order that can be used, else the first.               *)
PreferredEntryApp(n) ==
  LET among == IF Usable(n) # {} THEN Usable(n) ELSE Packages
  IN  CHOOSE p \in among : \A q \in among \ {p} : Better(n, p, q)

Upto(s, k) == SubSeq(s, 1, IF Len(s) < k THEN Len(s) ELSE k)
Only(holds, s) == IF holds THEN s ELSE <<>>
About(kind, S) == {kind} \X S

PilotWorkflows(n) ==
  About("direct_handoff", FirstFew(Named(n, "direct_handoff"), 2))
  \cup About("ui_guided", FirstFew(Named(n, "ui_steering"), 2))
  \cup {<<"reactivation_repair_lane", Whole>> :
          p \in Named(n, "reactivation_or_restore")}
  \cup {<<"support_bundle_outbound", Whole>>}
  \cup (IF plan.goal THEN {<<"goal_validation_loop", Whole>>} ELSE {})

RiskRegister(n) ==
  LET risks == About("high", Named(n, "reactivation_or_restore"))
               \cup About("high", Named(n, "missing"))
               \cup About("medium", Named(n, "ui_steering"))
  IN  IF risks = {} THEN {<<"low", Whole>>} ELSE risks

RolloutPhases(n) ==
  <<"stack_audit", "pilot_direct_handoffs">>
  \o Only(Named(n, "ui_steering") # {}, <<"ui_guided_expansion">>)
  \o Only(Named(n, "reactivation_or_restore") # {},
          <<"repair_or_reinstall_lane">>)
  \o <<"support_and_recovery">>

RecommendedTools(n) ==
  {"feasibility_assess", "app_profile", "workflow_run", "bundle_collect",
   "share_wizard"}
  \cup (IF Named(n, "direct_handoff") = {} THEN {}
        ELSE {"handoff_url", "handoff_text", "intent_send"})
  \cup (IF Named(n, "ui_steering") = {} THEN {}
        ELSE {"dump_hierarchy", "dump_find", "tap_match"})

ExecutiveSummary(n) ==
  [overall |-> OverallReadiness(n),
   counts |-> [m \in {"direct_handoff", "ui_steering",
                      "reactivation_or_restore", "missing"} |->
              Cardinality(Named(n, m))],
   best |-> Upto(Ranked(n), 3)]

(* The blueprint's first phase is in every list: it is never empty. *)
PriorityActions(n) ==
  About("pilot", FirstFew(Named(n, "direct_handoff"), 3))
  \cup About("repair", FirstFew(Named(n, "reactivation_or_restore"), 3))
  \cup About("reserve", FirstFew(Named(n, "ui_steering"), 3))
  \cup {<<"baseline", Whole>>}

UiPattern(n, p) ==
  LET mode == InteractionMode(n, p)
      able == Seen(n, p, "dump") /\ Seen(n, p, "input")
  IN  CASE mode = "missing"                   -> "unavailable"
        [] mode = "reactivation_or_restore"   -> "repair_before_ui"
        [] mode = "ui_steering" /\ able       -> "launch_dump_tap"
        [] mode = "direct_handoff" /\ able    -> "direct_handoff_first_ui_fallback"
        [] mode = "unknown" /\ able           -> "unknown"
        [] OTHER                              -> "ui_tools_not_ready"

UiScore(n, p) ==
  IF ~Seen(n, p, "installed") THEN 0
  ELSE Clamp(Points(Seen(n, p, "launcher") # "none", 35)
             + Points(Seen(n, p, "dump"), 25) + Points(Seen(n, p, "input"), 20)
             + Points(Seen(n, p, "screen"), 10) + Points(Handles(n, p), 5)
             - Points(Seen(n, p, "launcher") = "reactivate", 35))

(* The intent audit asks for the surfaces of an app installed or not, and  *)
(* does not look for an archived app's launcher.                           *)
IntentPattern(n, p) ==
  LET text == Seen(n, p, "asText")
  IN  CASE Seen(n, p, "asUrl") /\ text                     -> "direct_handoff_first"
        [] ~Seen(n, p, "asUrl") /\ text                    -> "share_flow_first"
        [] ~text /\ Seen(n, p, "asImages")                 -> "share_flow_first"
        [] ~text /\ ~Seen(n, p, "asImages")
             /\ Seen(n, p, "asLauncher") # "none"          -> "launch_then_ui_steer"
        [] OTHER                                           -> "unknown_or_brittle"

-----------------------------------------------------------------------------
(* What the tools return. *)

Assessment(n) ==
  [overall |-> OverallReadiness(n),
   apps |-> [p \in Packages |-> [mode |-> InteractionMode(n, p),
                                 band |-> Band(ReadinessScore(n, p))]]]

Blueprint(n) ==
  [overall |-> OverallReadiness(n), entry |-> PreferredEntryApp(n),
   phases |-> RolloutPhases(n), pilots |-> PilotWorkflows(n),
   risks |-> RiskRegister(n), tools |-> RecommendedTools(n)]

StackReport(n) ==   \* survey n is its own, the next its blueprint's
  [summary |-> ExecutiveSummary(n), actions |-> PriorityActions(n),
   phases |-> RolloutPhases(n + 1)]

UiAudit(n) ==
  [p \in Packages |-> [pattern |-> UiPattern(n, p), band |-> Band(UiScore(n, p))]]

(* From the first survey and, for the environment, the audit. *)
Opportunities(audit) ==
  {kind \in {"direct_handoff", "ui_steering", "reactivation_or_restore"} :
     Named(1, kind) # {}}
  \cup {kind \in {"environment_readiness"} :
          \E p \in Packages : audit[p].pattern = "ui_tools_not_ready"}
  \cup {"pain_point_reduction"}

RecommendedPilot ==
  LET direct == Named(1, "direct_handoff")  ui == Named(1, "ui_steering")
  IN  IF direct # {} THEN <<"direct_handoff", FirstOf(direct)>>
      ELSE IF ui # {} THEN <<"ui_guided", FirstOf(ui)>>
      ELSE <<"support_first", Whole>>

WorkflowCapture ==
  [feasibility |-> Assessment(1), blueprint |-> Blueprint(2),
   report |-> StackReport(3), audit |-> UiAudit(5),
   opportunities |-> Opportunities(UiAudit(5)), pilot |-> RecommendedPilot]

Document ==
  CASE plan.tool = "feasibility" -> Assessment(1)
    [] plan.tool = "blueprint"   -> Blueprint(1)
    [] plan.tool = "report"      -> StackReport(1)
    [] plan.tool = "uiAudit"     -> UiAudit(1)
    [] plan.tool = "intents"     -> [p \in Packages |-> IntentPattern(1, p)]
    [] plan.tool = "capture"     -> WorkflowCapture

-----------------------------------------------------------------------------
(* The calls. *)

PlanOver == plan # NoPlan /\ plan.pc = "done"

(* A business_goal is required of a capture, which hands it on; of the     *)
(* other documents only the blueprint shows whether it was given.          *)
StartPlan(t) ==
  /\ plan = NoPlan
  /\ \E dry \in BOOLEAN, goal \in BOOLEAN :
       /\ t # "blueprint" => goal
       /\ plan' = [tool |-> t, dry |-> dry, goal |-> goal, pc |-> "reading",
                   at |-> 1, seen |-> <<>>, quiet |-> TRUE, doc |-> NoPlan]
  /\ during' = [p \in Packages |-> {apps[p]}]
  /\ UNCHANGED <<apps, ready, planFiles, planChanges>>

(* The next command.  A profile asks nothing more of an app that is not    *)
(* installed.                                                              *)
ReadNext(answer, quiet) ==
  LET read == Reads[plan.tool][plan.at]
  IN  plan' = [plan EXCEPT
        !.seen = [r \in DOMAIN @ \cup {read} |->
                    IF r = read THEN answer ELSE @[r]],
        !.at = @ + 1,
        !.quiet = @ /\ quiet,
        !.pc = IF plan.at < Len(Reads[plan.tool]) THEN "reading"
               ELSE "concluding"]

Skipped(read) ==
  /\ read[3] \in {"thirdParty", "launcher", "url", "text"}
  /\ ~Seen(read[1], read[2], "installed")

ReadPhone ==
  /\ plan # NoPlan /\ plan.pc = "reading"
  /\ LET read == Reads[plan.tool][plan.at]
     IN  ReadNext(IF Skipped(read) THEN Nothing(read[3])
                  ELSE Look(read[2], read[3]), TRUE)
  /\ UNCHANGED <<apps, ready, during, planFiles, planChanges>>

(* The command is not there, exits with an error or takes too long. *)
ReadFails ==
  /\ plan # NoPlan /\ plan.pc = "reading" /\ planChanges < MaxPlanChanges
  /\ ReadNext(Nothing(Reads[plan.tool][plan.at][3]), FALSE)
  /\ planChanges' = planChanges + 1
  /\ UNCHANGED <<apps, ready, during, planFiles>>

(* Assessment and audits return; the documents are written as well, unless *)
(* dry_run.                                                                *)
Conclude ==
  /\ plan # NoPlan /\ plan.pc = "concluding"
  /\ plan' = [plan EXCEPT
       !.doc = Document,
       !.pc = IF ~plan.dry /\ plan.tool \in {"blueprint", "report", "capture"}
              THEN "json" ELSE "done"]
  /\ UNCHANGED <<apps, ready, during, planFiles, planChanges>>

WritePlan(pc, kind, next) ==
  /\ plan # NoPlan /\ plan.pc = pc
  /\ planFiles' = planFiles \cup {<<plan.tool, kind>>}
  /\ plan' = [plan EXCEPT !.pc = next]
  /\ UNCHANGED <<apps, ready, during, planChanges>>

WriteJson == WritePlan("json", "json", "markdown")
WriteMarkdown == WritePlan("markdown", "md", "done")

(* Somebody installs, removes or archives an app, or updates what it       *)
(* handles; adb connects and disconnects.                                  *)
ChangeApp ==
  /\ plan # NoPlan /\ plan.pc = "reading" /\ planChanges < MaxPlanChanges
  /\ \E p \in Packages, s \in AppStates :
       /\ s # apps[p]
       /\ apps' = [apps EXCEPT ![p] = s]
       /\ during' = [during EXCEPT ![p] = @ \cup {s}]
  /\ plan' = [plan EXCEPT !.quiet = FALSE]
  /\ planChanges' = planChanges + 1
  /\ UNCHANGED <<ready, planFiles>>

ChangeReadiness ==
  /\ plan # NoPlan /\ plan.pc = "reading" /\ planChanges < MaxPlanChanges
  /\ ready' \in {ScreenTools, {"screen", "input"}, {}} \ {ready}
  /\ plan' = [plan EXCEPT !.quiet = FALSE]
  /\ planChanges' = planChanges + 1
  /\ UNCHANGED <<apps, during, planFiles>>

PlanInit ==
  /\ apps \in [Packages -> AppStates]
  /\ ready = ScreenTools
  /\ plan = NoPlan
  /\ during = [p \in Packages |-> {}]
  /\ planFiles = {}
  /\ planChanges = 0

PlanNext ==
  \/ \E t \in PlanTools : StartPlan(t)
  \/ ReadPhone \/ ReadFails
  \/ Conclude \/ WriteJson \/ WriteMarkdown
  \/ ChangeApp \/ ChangeReadiness

PlanSpec == PlanInit /\ [][PlanNext]_planVars

-----------------------------------------------------------------------------
(* Every answer is about what has been asked, and files are documents. *)
PlanTypeOK ==
  /\ apps \in [Packages -> AppStates]
  /\ ready \subseteq ScreenTools
  /\ plan # NoPlan =>
       /\ DOMAIN plan.seen = {Reads[plan.tool][i] : i \in 1..(plan.at - 1)}
       /\ plan.pc \in {"reading", "concluding", "json", "markdown", "done"}
  /\ planFiles \subseteq {"blueprint", "report", "capture"} \X {"json", "md"}

(* Whatever happened to the phone, an app that an answer wants to hand     *)
(* links or text to took them at some moment of the call.  If the phone    *)
(* stayed as it was, the parts of a captured workflow speak of the same    *)
(* apps although each looked for itself: its pilot is among the            *)
(* blueprint's pilots and can be used in the screen audit's opinion too,   *)
(* the entry app is the best of the report's candidates, and an app at     *)
(* high risk is in no pilot.                                               *)
PilotsReal ==
  \A n \in DOMAIN Surveys[plan.tool] : \A p \in Packages :
    InteractionMode(n, p) = "direct_handoff" =>
      \E s \in during[p] : s.installed /\ (s.url \/ s.text)

PartsAgree ==
  LET doc == plan.doc
      pilots == doc.blueprint.pilots
      usable == {p \in Packages : \E k \in {"direct_handoff", "ui_guided"} :
                                    <<k, p>> \in pilots}
  IN  /\ doc.pilot[2] # Whole =>
           /\ doc.pilot \in pilots
           /\ doc.audit[doc.pilot[2]].pattern \notin
                {"unavailable", "repair_before_ui", "unknown"}
      /\ usable # {} => doc.blueprint.entry = Head(doc.report.summary.best)
      /\ \A r \in doc.blueprint.risks :
           r[1] = "high" => r[2] \notin usable

PlansHold ==
  PlanOver =>
    /\ PilotsReal
    /\ plan.tool = "capture" /\ plan.quiet => PartsAgree
=============================================================================
