----------------------------- MODULE PhoneScreen ----------------------------
(***************************************************************************)
(* Looking at the screen and touching it: android_ui_dump_kit,             *)
(* android_ui_action_kit, android_input_kit, android_screen_capture_kit.   *)
(* A call runs one adb command after the other.  uiautomator writes the    *)
(* screen to one file on the phone, which the next command reads; a tap    *)
(* goes to the coordinates a node had in that file, whatever is there by   *)
(* then; text and keys go to whatever has the focus.  Between any two      *)
(* commands the screen may move on, or another call may run one of its.    *)
(*                                                                         *)
(* A node is what its text is, where it is, and how it takes a tap.  Left  *)
(* out: the XML, the size of a dump that is returned, and swipes' paths.   *)
(***************************************************************************)
EXTENDS Integers, Sequences, FiniteSets, SequencesExt

CONSTANTS
  Layout,         \* of each screen: the sequence of its nodes
  ScreenCalls,
  ScreenKit,   \* the tools that are called
  Queries,        \* what is looked for
  MaxMoves,       \* BOUND: the screen moves on by itself
  MaxAdbFailures, \* BOUND: commands that fail
  Nowhere

Screens == DOMAIN Layout

(* A tap is taken by one thing: nodes at one place take it alike. *)
ASSUME LayoutAssumption ==
  /\ Screens # {}
  /\ \A s \in Screens : \A i, j \in DOMAIN Layout[s] :
       Layout[s][i].at = Layout[s][j].at => Layout[s][i].takes = Layout[s][j].takes
ASSUME ScreenMarkerAssumption == Nowhere \notin ScreenCalls
ASSUME ScreenToolsAssumption ==
  ScreenKit \subseteq {"find", "tap", "type", "swipe", "key", "shot", "record"}

Places == UNION {{Layout[s][i].at : i \in DOMAIN Layout[s]} : s \in Screens}

VARIABLES
  screen,        \* what is shown
  focus,         \* the place that takes text and keys
  dumpFile,      \* /sdcard/window_dump.xml: a screen
  scall,         \* of each call: tool, arguments, where it is, what it has
  touched,       \* history: <<call, screen, place>> of taps that reached one
  typed,         \* history: <<call, screen, place>> of texts, likewise
  recordings,    \* of each call: where its screenshot or recording is
  moves, adbFailures

screenVars == <<screen, focus, dumpFile, scall, touched, typed, recordings,
                moves, adbFailures>>

Rest == [tool |-> "none", pc |-> "idle"]
CallUnderWay(c) == scall[c].pc \notin {"idle", "done", "raised"}
NodeAt(s, place) == {Layout[s][i] : i \in {j \in DOMAIN Layout[s] :
                                            Layout[s][j].at = place}}

(* Somebody else does something that c may not know of. *)
Disturb(sc, c) ==
  [d \in ScreenCalls |-> IF d # c /\ CallUnderWay(d)
                         THEN [sc[d] EXCEPT !.calm = FALSE] ELSE sc[d]]
SetCall(c, call) == scall' = Disturb([scall EXCEPT ![c] = call], c)

FailsOnce == adbFailures < MaxAdbFailures /\ adbFailures' = adbFailures + 1

-----------------------------------------------------------------------------
(* The first command of each tool.  A dry run of the input kit returns the *)
(* command; a tool that aims looks at the screen first, dry run or not.    *)
FirstStep(tool, dry) ==
  CASE tool \in {"find", "tap", "type"} -> "dumping"
    [] tool \in {"swipe", "key"}        -> IF dry THEN "done" ELSE "sending"
    [] tool \in {"shot", "record"}      -> IF dry THEN "done" ELSE "capturing"

StartCall(c) ==
  /\ scall[c].pc = "idle"
  /\ \E tool \in ScreenKit, dry \in BOOLEAN, q \in Queries,
        only \in BOOLEAN, index \in 0..1, submit \in BOOLEAN :
       /\ tool \in {"tap", "type"} \/ (q = CHOOSE x \in Queries : TRUE)
       /\ tool \in {"tap", "type"} \/ (~only /\ index = 0)
       /\ tool = "type" \/ ~submit
       /\ scall' = [scall EXCEPT ![c] =
            [tool |-> tool, dry |-> dry, query |-> q, only |-> only,
             index |-> index, submit |-> submit, attempt |-> 1,
             node |-> Nowhere, on |-> Nowhere, tapped |-> FALSE,
             success |-> tool \in {"swipe", "key", "shot", "record"} /\ dry,
             calm |-> \A d \in ScreenCalls : ~CallUnderWay(d),
             pc |-> FirstStep(tool, dry)]]
  /\ UNCHANGED <<screen, focus, dumpFile, touched, typed, recordings, moves,
                 adbFailures>>

(* _dump_ui_xml: three attempts of two commands each. *)
DumpScreen(c) ==
  /\ scall[c].pc = "dumping"
  /\ dumpFile' = screen
  /\ SetCall(c, [scall[c] EXCEPT !.pc = "reading"])
  /\ UNCHANGED <<screen, focus, touched, typed, recordings, moves, adbFailures>>

DumpFails(c) ==
  /\ scall[c].pc \in {"dumping", "reading"}
  /\ FailsOnce
  /\ SetCall(c, [scall[c] EXCEPT !.attempt = @ + 1,
                   !.pc = IF scall[c].attempt < 3 THEN "dumping" ELSE "raised"])
  /\ UNCHANGED <<screen, focus, dumpFile, touched, typed, recordings, moves>>

(* android_ui_dump_find: the nodes that pass the filters. *)
Matches(s, call) ==
  {i \in DOMAIN Layout[s] :
     /\ Layout[s][i].clickable \/ ~call.only
     /\ Layout[s][i].text = call.query}

(* _pick_match: the one of that index in their order.  It raises if there  *)
(* is no match, or none of that index.                                     *)
Picked(call) ==
  LET matches == Matches(dumpFile, call)
  IN  {i \in matches : Cardinality({j \in matches : j < i}) = call.index}

ReadDump(c) ==
  /\ scall[c].pc = "reading"
  /\ LET call == scall[c]
     IN  \/ /\ call.tool = "find"
            /\ SetCall(c, [call EXCEPT !.pc = "done", !.success = TRUE])
         \/ /\ call.tool # "find" /\ Picked(call) = {}
            /\ SetCall(c, [call EXCEPT !.pc = "raised"])
         \/ /\ call.tool # "find"
            /\ \E i \in Picked(call) :
                 SetCall(c, [call EXCEPT
                   !.node = Layout[dumpFile][i], !.on = dumpFile,
                   !.tapped = call.dry, !.success = call.dry,
                   !.pc = IF call.dry THEN "done" ELSE "tapping"])
  /\ UNCHANGED <<screen, focus, dumpFile, touched, typed, recordings, moves,
                 adbFailures>>

(* android_input_tap_bounds: the centre of the bounds.  A field takes the  *)
(* focus, a button leads to a screen, and a label does nothing.            *)
AfterTap(call) == IF call.tool = "tap" THEN "done" ELSE "typing"

TapReaches(c) ==
  /\ scall[c].pc = "tapping"
  /\ LET place == scall[c].node.at
         there == NodeAt(screen, place)
     IN  /\ touched' = touched \cup {<<c, screen, place>>}
         /\ \/ \E n \in there : n.takes = "focus" /\ focus' = place
                                /\ screen' = screen
            \/ \E n \in there : n.takes = "press" /\ focus' = Nowhere
                                /\ screen' \in Screens
            \/ /\ \A n \in there : n.takes = "nothing"
               /\ UNCHANGED <<screen, focus>>
  /\ SetCall(c, [scall[c] EXCEPT !.tapped = TRUE,
                   !.success = scall[c].tool = "tap",
                   !.pc = AfterTap(scall[c])])
  /\ UNCHANGED <<dumpFile, typed, recordings, moves, adbFailures>>

(* The text is typed all the same. *)
TapFails(c) ==
  /\ scall[c].pc = "tapping"
  /\ FailsOnce
  /\ SetCall(c, [scall[c] EXCEPT !.pc = AfterTap(scall[c])])
  /\ UNCHANGED <<screen, focus, dumpFile, touched, typed, recordings, moves>>

(* success is that of the tap and of the text; the key's is not asked.     *)
SentSuccess(call, sent) == sent   \* variant: that of the text alone
TextSuccess(call, sent) == call.tapped /\ sent
AfterText(call) == IF call.submit THEN "sending" ELSE "done"

TypeText(c) ==
  /\ scall[c].pc = "typing"
  /\ \E sent \in BOOLEAN :
       /\ IF sent THEN UNCHANGED adbFailures ELSE FailsOnce
       /\ typed' = IF sent THEN typed \cup {<<c, screen, focus>>} ELSE typed
       /\ SetCall(c, [scall[c] EXCEPT !.success = TextSuccess(scall[c], sent),
                        !.pc = AfterText(scall[c])])
  /\ UNCHANGED <<screen, focus, dumpFile, touched, recordings, moves>>

(* A key or a swipe may lead anywhere from where the focus is. *)
SendKey(c) ==
  /\ scall[c].pc = "sending"
  /\ \E sent \in BOOLEAN :
       /\ IF sent THEN UNCHANGED adbFailures ELSE FailsOnce
       /\ screen' \in (IF sent THEN Screens ELSE {screen})
       /\ focus' = IF screen' = screen THEN focus ELSE Nowhere
       /\ SetCall(c, [scall[c] EXCEPT !.pc = "done",
            !.success = IF scall[c].tool = "type" THEN @ ELSE sent])
  /\ UNCHANGED <<dumpFile, touched, typed, recordings, moves>>

(* A screenshot is printed, and written here; a recording is made on the   *)
(* phone, pulled, and removed from the phone.                              *)
Capture(c) ==
  /\ scall[c].pc = "capturing"
  /\ \E made \in BOOLEAN :
       /\ IF made THEN UNCHANGED adbFailures ELSE FailsOnce
       /\ LET shot == scall[c].tool = "shot"
          IN  /\ recordings' = [recordings EXCEPT ![c] =
                   IF ~made THEN {} ELSE IF shot THEN {"local"} ELSE {"phone"}]
              /\ SetCall(c, [scall[c] EXCEPT
                   !.success = made /\ shot,
                   !.pc = IF made /\ ~shot THEN "pulling" ELSE "done"])
  /\ UNCHANGED <<screen, focus, dumpFile, touched, typed, moves>>

Pull(c) ==
  /\ scall[c].pc = "pulling"
  /\ \E pulled \in BOOLEAN :
       /\ IF pulled THEN UNCHANGED adbFailures ELSE FailsOnce
       /\ recordings' = [recordings EXCEPT ![c] =
            @ \cup (IF pulled THEN {"local"} ELSE {})]
       /\ SetCall(c, [scall[c] EXCEPT !.success = pulled, !.pc = "removing"])
  /\ UNCHANGED <<screen, focus, dumpFile, touched, typed, moves>>

RemoveRemote(c) ==   \* pulled or not
  /\ scall[c].pc = "removing"
  /\ \E removed \in BOOLEAN :
       /\ IF removed THEN UNCHANGED adbFailures ELSE FailsOnce
       /\ recordings' = [recordings EXCEPT ![c] =
            IF removed THEN @ \ {"phone"} ELSE @]
  /\ SetCall(c, [scall[c] EXCEPT !.pc = "done"])
  /\ UNCHANGED <<screen, focus, dumpFile, touched, typed, moves>>

ScreenMoves ==
  /\ moves < MaxMoves
  /\ \E c \in ScreenCalls : CallUnderWay(c)
  /\ screen' \in Screens \ {screen}
  /\ focus' = Nowhere
  /\ scall' = Disturb(scall, Nowhere)
  /\ moves' = moves + 1
  /\ UNCHANGED <<dumpFile, touched, typed, recordings, adbFailures>>

ScreenInit ==
  /\ screen = CHOOSE s \in Screens : TRUE
  /\ focus = Nowhere
  /\ dumpFile = screen
  /\ scall = [c \in ScreenCalls |-> Rest]
  /\ touched = {} /\ typed = {}
  /\ recordings = [c \in ScreenCalls |-> {}]
  /\ moves = 0 /\ adbFailures = 0

ScreenStep(c) ==
  \/ StartCall(c)
  \/ DumpScreen(c) \/ DumpFails(c) \/ ReadDump(c)
  \/ TapReaches(c) \/ TapFails(c) \/ TypeText(c) \/ SendKey(c)
  \/ Capture(c) \/ Pull(c) \/ RemoveRemote(c)

ScreenNext == (\E c \in ScreenCalls : ScreenStep(c)) \/ ScreenMoves

ScreenSpec == ScreenInit /\ [][ScreenNext]_screenVars

-----------------------------------------------------------------------------
(* The phone shows a screen it has, and a call is in one of its steps. *)
ScreenTypeOK ==
  /\ screen \in Screens /\ dumpFile \in Screens
  /\ focus \in Places \cup {Nowhere}
  /\ \A c \in ScreenCalls : scall[c].pc \in
       {"idle", "dumping", "reading", "tapping", "typing", "sending",
        "capturing", "pulling", "removing", "done", "raised"}
  /\ touched \cup typed \subseteq
       ScreenCalls \X Screens \X (Places \cup {Nowhere})
  /\ recordings \in [ScreenCalls -> SUBSET {"local", "phone"}]

(* A call that reports success has done what it was asked to, unless the   *)
(* screen moved or another call came in between: the tap met the node that *)
(* matched, the text went into it if it is a field, and the picture or     *)
(* recording is here.  A dry run has touched nothing.                      *)
DidWhatItSays(c) ==
  LET call == scall[c]
  IN  CASE call.tool = "tap" ->
             call.calm => <<c, call.on, call.node.at>> \in touched
        [] call.tool = "type" ->
             call.calm /\ call.node.takes = "focus" =>
               <<c, call.on, call.node.at>> \in typed
        [] call.tool \in {"shot", "record"} -> "local" \in recordings[c]
        [] OTHER -> TRUE

ScreenSuccessIsTrue ==
  \A c \in ScreenCalls : scall[c].pc = "done" /\ scall[c].success =>
    IF scall[c].dry
      THEN /\ recordings[c] = {}
           /\ \A t \in touched \cup typed : t[1] # c
      ELSE DidWhatItSays(c)
=============================================================================
