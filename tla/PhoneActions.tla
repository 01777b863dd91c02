---------------------------- MODULE PhoneActions ----------------------------
(***************************************************************************)
(* Asking the phone to do something, and telling others about it:          *)
(* android_intent_kit, android_utility_kit, android_handoff_kit,           *)
(* android_notification_kit, android_friendly_router, android_brave_bridge,*)
(* android_workflow_macro_kit, android_app_workflow_kit,                   *)
(* android_support_bundle_kit and android_support_share_wizard.            *)
(* These call one another, and pass dry_run on or not.  What reaches the   *)
(* phone is an am, termux-open or termux-notification command, which it    *)
(* accepts or refuses.  A support bundle is collected command by command   *)
(* and named by the second in which that began; the wizard reads the       *)
(* bundle it is told of, or the one written last.                          *)
(*                                                                         *)
(* Left out: what an intent carries, texts, and reports that only list     *)
(* what there is.                                                          *)
(***************************************************************************)
EXTENDS Integers, Sequences, FiniteSets, SequencesExt, FiniteSetsExt

CONSTANTS
  ActionCalls,
  ActionKit,        \* the tools that are called
  MaxSeconds,       \* BOUND: on the clock
  MaxActionUpsets,  \* BOUND: how often the device is lost or found
  Unset

Parts == {"logcat", "dumpsys", "screenshot"}
NoParts == [p \in Parts |-> "none"]

VARIABLES
  second,     \* of the clock
  device,     \* whether adb has one
  bundles,    \* the files outputs/*support_bundle*.json
  drafts,     \* the files outputs/*support_issue*.md
  pngs,       \* the files outputs/*.png: their number is all that matters
  acall,      \* of each call: arguments, where it is, what it has
  asked,      \* history: <<call, what it is about, whether it was accepted>>
  actionUpsets

actionVars == <<second, device, bundles, drafts, pngs, acall, asked, actionUpsets>>

Dormant == [tool |-> "none", pc |-> "idle"]

-----------------------------------------------------------------------------
(* What each tool asks of the phone, and whether it is asked in a dry run. *)

(* These ask even then: android_open hands dry_run to the browser only,    *)
(* and the share_repo macro hands it to nobody.                            *)
AskAnyway == {"open_settings", "open_app", "macro_share_repo"}

(* The tools of the kits that do something. *)
ActionTools == AskAnyway \cup
  {"open_url", "intent", "handoff_url", "handoff_text", "notify",
   "handoff_file", "wifi_and_wireless", "capture_screen", "collect",
   "collect_and_share", "issue_draft", "draft_and_share", "wizard"}

ASSUME ActionsAssumption == ActionKit \subseteq ActionTools /\ MaxSeconds \in Nat

ShareUnasked(dry) == <<"asking">>  \* variant: the fallback takes no dry_run
ShareFallback(dry) == IF dry THEN <<>> ELSE <<"asking">>   \* android_handoff_text
Intent(dry) == IF dry THEN <<>> ELSE <<"asking">>          \* android_intent_send

Collecting == <<"inspecting", "logcat", "dumpsys", "screenshot", "writing">>

ActionScript(tool, dry) ==
  CASE tool \in AskAnyway -> <<"asking">>
    [] tool \in {"open_url", "intent", "handoff_url"} -> Intent(dry)
    [] tool = "handoff_text" -> ShareFallback(dry)
    [] tool = "notify" -> ShareFallback(dry)
    [] tool = "handoff_file" -> <<"finding">> \o Intent(dry)
    [] tool = "wifi_and_wireless" -> Intent(dry) \o Intent(dry)
    [] tool = "capture_screen" -> IF dry THEN <<>> ELSE <<"screenshot">>
    [] tool = "collect" -> IF dry THEN <<>> ELSE Collecting
    [] tool = "collect_and_share" ->
         IF dry THEN <<>> ELSE Collecting \o <<"loading", "asking">>
    [] tool = "issue_draft" -> <<"loading", "drafting">>
    [] tool = "draft_and_share" -> <<"loading", "drafting">> \o ShareFallback(dry)
    [] tool = "wizard" -> <<"loading">> \o Intent(dry)       \* ~share_now

(* The tools whose success is what the phone answered; the others say      *)
(* success when they come to their end.                                    *)
Tell == {"open_url", "open_settings", "open_app", "intent", "handoff_file", "notify"}

Proceed(call) ==
  IF call.todo = <<>> THEN [call EXCEPT !.pc = "done"]
  ELSE [call EXCEPT !.pc = Head(call.todo), !.todo = Tail(@)]
GiveUp(call) == [call EXCEPT !.pc = "done", !.success = FALSE]
SetAction(c, call) == acall' = [acall EXCEPT ![c] = call]

(* A target that resolves to nothing, a browser that is not installed, no  *)
(* command to notify or to hand a file with: the tool says so at once.     *)
MayLackMeans == {"open_url", "open_app", "notify", "handoff_file"}

StartAction(c) ==
  /\ acall[c].pc = "idle"
  /\ \E tool \in ActionKit, dry \in BOOLEAN, lacking \in BOOLEAN,
        named \in BOOLEAN :
       /\ tool = "issue_draft" => ~dry
       /\ lacking => tool \in MayLackMeans
       /\ named => tool \in {"collect", "collect_and_share"} /\ ~dry
       /\ LET call == [tool |-> tool, dry |-> dry, stamp |-> second,
                       artifact |-> IF named THEN "given" ELSE tool,
                       found |-> Unset, parts |-> NoParts, linked |-> FALSE,
                       success |-> TRUE, todo |-> ActionScript(tool, dry),
                       pc |-> "start"]
          IN  SetAction(c, IF lacking THEN GiveUp(call) ELSE Proceed(call))
  /\ UNCHANGED <<second, device, bundles, drafts, pngs, asked, actionUpsets>>

(* _run_command of am, termux-open or termux-notification. *)
Ask(c) ==
  /\ acall[c].pc = "asking"
  /\ \E accepted \in BOOLEAN :
       /\ asked' = asked \cup {<<c, acall[c].found, accepted>>}
       /\ SetAction(c, Proceed([acall[c] EXCEPT
            !.success = @ /\ (accepted \/ acall[c].tool \notin Tell)]))
  /\ UNCHANGED <<second, device, bundles, drafts, pngs, actionUpsets>>

(* A file to hand over that is not there raises; the newest one is taken   *)
(* by the workflow latest_screenshot_share.                                *)
FindFile(c) ==
  /\ acall[c].pc = "finding"
  /\ SetAction(c, IF pngs = 0 THEN [acall[c] EXCEPT !.pc = "raised"]
                  ELSE Proceed(acall[c]))
  /\ UNCHANGED <<second, device, bundles, drafts, pngs, asked, actionUpsets>>

-----------------------------------------------------------------------------
(* android_support_bundle_collect: it counts the devices once, and takes   *)
(* no logs, services or picture without one.  Each part is tried under     *)
(* _safe: a part that fails is a section of the bundle all the same.       *)
Inspect(c) ==
  /\ acall[c].pc = "inspecting"
  /\ SetAction(c, Proceed([acall[c] EXCEPT !.linked = device]))
  /\ UNCHANGED <<second, device, bundles, drafts, pngs, asked, actionUpsets>>

TakePart(c) ==
  /\ acall[c].pc \in Parts
  /\ LET call == acall[c]
         part == call.pc
         tried == call.linked \/ call.tool = "capture_screen"
     IN  /\ SetAction(c, Proceed([call EXCEPT !.parts[part] =
                CASE ~tried -> "none" [] tried /\ device -> "taken"
                  [] OTHER -> "failed"]))
         /\ pngs' = IF tried /\ device /\ part = "screenshot" THEN 1 ELSE pngs
  /\ UNCHANGED <<second, device, bundles, drafts, asked, actionUpsets>>

(* outputs/<artifact_name>_<stamp>.json.  The two tools have default names *)
(* of their own, and take one the caller gives instead: two calls that     *)
(* have the same one in the same second have the same file.                *)
BundleName(call) == <<call.artifact, call.stamp>>
Newer(fs) == IF fs = {} THEN 1 ELSE 1 + Max({f.written : f \in fs})

WriteBundle(c) ==
  /\ acall[c].pc = "writing"
  /\ LET name == BundleName(acall[c])
         others == {f \in bundles : f.name # name}
     IN  bundles' = others \cup {[name |-> name, of |-> c,
                                  parts |-> acall[c].parts,
                                  written |-> Newer(bundles)]}
  /\ SetAction(c, Proceed(acall[c]))
  /\ UNCHANGED <<second, device, drafts, pngs, asked, actionUpsets>>

(* _load_bundle *)
Newest == {f \in bundles : \A g \in bundles : g.written <= f.written}
AnyPath(call) == Newest         \* variant: the path is not handed on
ToldPath(call) ==
  IF call.tool = "collect_and_share"
    THEN {f \in bundles : f.name = BundleName(call)} ELSE Newest

LoadBundle(c) ==
  /\ acall[c].pc = "loading"
  /\ SetAction(c, IF ToldPath(acall[c]) = {} THEN [acall[c] EXCEPT !.pc = "raised"]
                  ELSE Proceed([acall[c] EXCEPT
                         !.found = (CHOOSE f \in ToldPath(acall[c]) : TRUE).of]))
  /\ UNCHANGED <<second, device, bundles, drafts, pngs, asked, actionUpsets>>

(* android_support_issue_draft: written in a dry run of the workflow too. *)
WriteDraft(c) ==
  /\ acall[c].pc = "drafting"
  /\ drafts' = drafts \cup {<<c, acall[c].found>>}
  /\ SetAction(c, Proceed(acall[c]))
  /\ UNCHANGED <<second, device, bundles, pngs, asked, actionUpsets>>

-----------------------------------------------------------------------------
ClockTicks ==
  /\ second < MaxSeconds
  /\ second' = second + 1
  /\ UNCHANGED <<device, bundles, drafts, pngs, acall, asked, actionUpsets>>

DeviceComesOrGoes ==
  /\ actionUpsets < MaxActionUpsets
  /\ actionUpsets' = actionUpsets + 1
  /\ device' = ~device
  /\ UNCHANGED <<second, bundles, drafts, pngs, acall, asked>>

ActionsInit ==
  /\ second = 0
  /\ device = TRUE
  /\ bundles = {}
  /\ drafts = {}
  /\ pngs = 0
  /\ acall = [c \in ActionCalls |-> Dormant]
  /\ asked = {}
  /\ actionUpsets = 0

ActionsNext ==
  \/ \E c \in ActionCalls :
       \/ StartAction(c) \/ Ask(c) \/ FindFile(c) \/ Inspect(c) \/ TakePart(c)
       \/ WriteBundle(c) \/ LoadBundle(c) \/ WriteDraft(c)
  \/ ClockTicks \/ DeviceComesOrGoes

ActionsSpec == ActionsInit /\ [][ActionsNext]_actionVars

-----------------------------------------------------------------------------
ActionsTypeOK ==
  /\ second \in 0..MaxSeconds
  /\ device \in BOOLEAN
  /\ \A f \in bundles : f.of \in ActionCalls /\ f.parts \in
                          [Parts -> {"none", "taken", "failed"}]
  /\ pngs \in 0..1
  /\ \A c \in ActionCalls : acall[c].pc \in Parts \cup
       {"idle", "asking", "finding", "inspecting", "writing", "loading",
        "drafting", "done", "raised"}

(* A dry run reaches the phone through none of the layers, the three tools *)
(* that ask anyway excepted, and leaves no bundle behind.  And a tool that *)
(* tells what the phone answered says success exactly if it accepted.      *)
DryRunIsDry ==
  \A c \in ActionCalls : acall[c].pc \in {"done", "raised"} =>
    LET answers == {a \in asked : a[1] = c}
    IN  /\ acall[c].dry /\ acall[c].tool \notin AskAnyway =>
             answers = {} /\ ~\E f \in bundles : f.of = c
        /\ (answers # {} /\ acall[c].tool \in Tell) =>
             (acall[c].success <=> \E a \in answers : a[3])

(* What collect_and_share tells others about is the bundle it collected,   *)
(* and not one that another call wrote meanwhile (app_workflow_kit/        *)
(* tooling.py:164), unless that call was started in the same second with   *)
(* the same artifact_name, given or default, and so has the same file.     *)
SharesOwnBundle ==
  \A c \in ActionCalls :
    (/\ acall[c].tool = "collect_and_share"
     /\ acall[c].pc = "done"
     /\ ~acall[c].dry
     /\ \A d \in ActionCalls \ {c} :
          acall[d].pc # "idle" => BundleName(acall[d]) # BundleName(acall[c]))
    => \A a \in asked : a[1] = c => a[2] = c
=============================================================================
