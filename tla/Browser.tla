------------------------------- MODULE Browser ------------------------------
(***************************************************************************)
(* Driving a browser of the phone: android_cdp_bridge, android_cdp_client, *)
(* android_browser_easy, android_browser_actions, android_edge_kit, and    *)
(* the tools that connect adb.  Every call first takes the one local port  *)
(* and forwards it to the first browser that answers, then asks what tabs  *)
(* there are, picks one, and opens a connection to it for each command.    *)
(* Nothing holds the port: another call may forward it elsewhere between   *)
(* any two of these steps, and the tabs change by themselves.              *)
(*                                                                         *)
(* A tab is its id and the page it shows; ids are the browser's, and two   *)
(* browsers may use the same.  Left out: frames of the web socket, the     *)
(* commands that only enable a domain (they fail as the next one does),    *)
(* the text of a page, waits.                                              *)
(***************************************************************************)
EXTENDS Integers, Sequences, FiniteSets, SequencesExt

CONSTANTS
  Sockets,          \* SOCKET_CANDIDATES: a sequence, in the order of the tries
  FirstAdb,         \* how adb may be found
  FirstTabs,        \* of each socket: the tabs a browser starts with
  Pages,
  WithElement,      \* the pages on which a selector or a text finds something
  Wanted,           \* the filters callers give: pages, or Nothere for none
  Urls,             \* the pages they send a tab to
  BrowserCalls,
  BrowserKit,       \* the tools that are called
  MaxBrowserUpsets, \* BOUND: on what else happens
  Nothere

SocketSet == Range(Sockets)
TabIds == UNION {{FirstTabs[s][i].id : i \in DOMAIN FirstTabs[s]} : s \in SocketSet}
BrowserTools ==
  {"probe", "list", "info", "read", "eval", "screenshot", "click", "fill",
   "navigate", "test_element", "reconnect_quick", "reconnect_full",
   "wireless_helper"}

ASSUME SocketsAssumption ==
  /\ Sockets \in Seq(SocketSet) /\ Sockets # <<>> /\ Nothere \notin SocketSet
  /\ FirstAdb \subseteq {"missing", "unpaired", "offline", "device"}
ASSUME TabsAssumption ==
  /\ FirstTabs \in
       [SocketSet -> Seq([id : TabIds, page : Pages, next : {Nothere}])]
  /\ Nothere \notin TabIds /\ Urls \subseteq Pages
ASSUME BrowserCallsAssumption ==
  BrowserKit \subseteq BrowserTools /\ MaxBrowserUpsets \in Nat

Tab(id, page) == [id |-> id, page |-> page, next |-> Nothere]

VARIABLES
  adb,            \* "missing", "unpaired", "offline" or "device"
  running,        \* the browsers that run
  port,           \* where tcp:9222 is forwarded to
  tabs,           \* of each browser: the sequence /json/list gives
  bcall,          \* of each call: arguments, where it is, what it has
  acts,           \* history: <<call, what>> of changes made in a page
  browserUpsets

browserVars == <<adb, running, port, tabs, bcall, acts, browserUpsets>>

AtRest == [tool |-> "none", pc |-> "idle"]
BrowserBusy(c) == bcall[c].pc \notin {"idle", "done", "raised"}
Upset == browserUpsets < MaxBrowserUpsets /\ browserUpsets' = browserUpsets + 1

-----------------------------------------------------------------------------
(* What each tool does, step by step.  A probe forwards the port and asks  *)
(* the browser's version; navigate looks at the page afterwards through a  *)
(* probe of its own, and the element test again.                           *)
Resolve == <<"removing", "listing">>
Read == Resolve \o <<"looking">>                  \* _eval_json: one command
Script(tool, url) ==
  CASE tool = "probe"                      -> <<"removing">>
    [] tool = "list"                       -> Resolve
    [] tool \in {"info", "read", "eval"}   -> Read
    [] tool = "screenshot"                 -> Resolve \o <<"capturing">>
    [] tool = "click"                      -> Resolve \o <<"acting", "looking">>
    [] tool = "fill"                       -> Resolve \o <<"acting">>
    [] tool = "navigate"                   -> Resolve \o <<"going">> \o Resolve
                                                \o <<"looking">>
    [] tool = "test_element"               -> IF url = Nothere
         THEN Read
         ELSE Resolve \o <<"going">> \o Resolve \o <<"looking">> \o Resolve
                \o <<"looking">>
    [] tool = "reconnect_quick"            -> <<"kicking", "connecting">>
    [] tool \in {"reconnect_full", "wireless_helper"}
                                           -> <<"pairing", "connecting">>

ConnectTools == {"reconnect_quick", "reconnect_full", "wireless_helper"}
NeedAdb(tool) == tool \in ConnectTools \cup {"probe"}

(* The next step of a call's script, or its end. *)
StepOn(call) ==
  IF call.todo = <<>> THEN [call EXCEPT !.pc = "done"]
  ELSE [call EXCEPT !.pc = Head(call.todo), !.todo = Tail(@), !.candidate = 1]

(* Somebody else's step: c may find things changed. *)
Unsettle(calls, c) ==
  [d \in BrowserCalls |-> IF d # c /\ BrowserBusy(d)
                          THEN [calls[d] EXCEPT !.calm = FALSE] ELSE calls[d]]
SetBrowserCall(c, call) == bcall' = Unsettle([bcall EXCEPT ![c] = call], c)
Raise(call) == [call EXCEPT !.pc = "raised"]

StartBrowserCall(c) ==
  /\ bcall[c].pc = "idle"
  /\ \E tool \in BrowserKit, want \in Wanted \cup {Nothere}, url \in Urls \cup {Nothere},
        dry \in BOOLEAN :
       /\ tool \in ConnectTools \/ ~dry
       /\ tool = "navigate" => url # Nothere
       /\ tool \notin {"navigate", "test_element"} => url = Nothere
       /\ IF NeedAdb(tool) \/ tool = "list" THEN want = Nothere ELSE want \in Wanted
       /\ LET noAdb == NeedAdb(tool) /\ adb = "missing"
              call == [tool |-> tool, want |-> want, url |-> url,
                       lock |-> Nothere, tab |-> Nothere, candidate |-> 1,
                       ok |-> TRUE, success |-> ~noAdb, visited |-> {},
                       calm |-> \A d \in BrowserCalls : ~BrowserBusy(d),
                       todo |-> IF noAdb \/ dry THEN <<>> ELSE Script(tool, url),
                       pc |-> "start"]
          IN  bcall' = [bcall EXCEPT ![c] = StepOn(call)]
  /\ UNCHANGED <<adb, running, port, tabs, acts, browserUpsets>>

-----------------------------------------------------------------------------
(* android_cdp_probe: each candidate in turn.  The client's calls leave    *)
(* the port forwarded, the probe tool does not.                            *)
Reached == IF adb = "device" /\ port \in running THEN {port} ELSE {}

TryNextToo(call) ==   \* variant: one candidate more than there are
  IF call.candidate <= Len(Sockets)
    THEN [call EXCEPT !.candidate = @ + 1, !.pc = "removing"]
  ELSE IF call.tool = "probe"
    THEN [call EXCEPT !.pc = "done", !.success = FALSE]
  ELSE Raise(call)

(* The next candidate, or no browser at all: the tool says so, a client's  *)
(* call raises CDPError.                                                   *)
TryNext(call) ==
  IF call.candidate < Len(Sockets)
    THEN [call EXCEPT !.candidate = @ + 1, !.pc = "removing"]
  ELSE IF call.tool = "probe"
    THEN [call EXCEPT !.pc = "done", !.success = FALSE]
  ELSE Raise(call)

RemoveForward(c) ==
  /\ bcall[c].pc = "removing"
  /\ port' = Nothere
  /\ SetBrowserCall(c, IF adb = "missing" THEN Raise(bcall[c])
                       ELSE [bcall[c] EXCEPT !.pc = "forwarding"])
  /\ UNCHANGED <<adb, running, tabs, acts, browserUpsets>>

AddForward(c) ==
  /\ bcall[c].pc = "forwarding"
  /\ port' = IF adb = "device" THEN Sockets[bcall[c].candidate] ELSE port
  /\ SetBrowserCall(c, [bcall[c] EXCEPT !.ok = adb = "device", !.pc = "asking"])
  /\ UNCHANGED <<adb, running, tabs, acts, browserUpsets>>

AskVersion(c) ==
  /\ bcall[c].pc = "asking"
  /\ LET call == bcall[c]
         answered == call.ok /\ Reached # {}
     IN  SetBrowserCall(c,
           IF call.tool = "probe"
             THEN [call EXCEPT !.ok = answered, !.pc = "cleaning"]
           ELSE IF answered THEN StepOn(call) ELSE TryNext(call))
  /\ UNCHANGED <<adb, running, port, tabs, acts, browserUpsets>>

CleanForward(c) ==
  /\ bcall[c].pc = "cleaning"
  /\ port' = Nothere
  /\ SetBrowserCall(c, IF bcall[c].ok THEN StepOn(bcall[c]) ELSE TryNext(bcall[c]))
  /\ UNCHANGED <<adb, running, tabs, acts, browserUpsets>>

-----------------------------------------------------------------------------
(* _pick_target: the tab of that id, or else the first that fits.          *)
Fits(call, tab) ==
  IF call.lock # Nothere THEN tab.id = call.lock
  ELSE call.want \in {Nothere, tab.page}
Fitting(call) ==
  IF Reached = {} THEN {}
  ELSE {i \in DOMAIN tabs[port] : Fits(call, tabs[port][i])}

ListTargets(c) ==
  /\ bcall[c].pc = "listing"
  /\ LET call == bcall[c]
     IN  \/ /\ IF call.tool = "list" THEN Reached = {} ELSE Fitting(call) = {}
            /\ SetBrowserCall(c, Raise(call))
         \/ /\ call.tool = "list" /\ Reached # {}
            /\ SetBrowserCall(c, StepOn(call))
         \/ /\ call.tool # "list"
            /\ \E i \in Fitting(call) :
                 /\ \A j \in Fitting(call) : i <= j
                 /\ SetBrowserCall(c, StepOn([call EXCEPT
                                                !.tab = tabs[port][i].id]))
  /\ UNCHANGED <<adb, running, port, tabs, acts, browserUpsets>>

(* _cdp_call: a connection to the tab's url on the shared port.  What it   *)
(* reaches is the tab of that id in the browser the port leads to.         *)
Positions(c) == IF Reached = {} THEN {}
                ELSE {i \in DOMAIN tabs[port] : tabs[port][i].id = bcall[c].tab}
Visit(call) == [call EXCEPT !.visited = @ \cup {<<port, call.tab>>}]
HasElement(i) == tabs[port][i].page \in WithElement
Leads(i, page) == tabs' = [tabs EXCEPT ![port][i].next = page]

ConnectionFails(c) ==
  /\ bcall[c].pc \in {"looking", "capturing", "acting", "going"}
  /\ Positions(c) = {}
  /\ SetBrowserCall(c, Raise(bcall[c]))
  /\ UNCHANGED <<adb, running, port, tabs, acts, browserUpsets>>

(* Runtime.evaluate of an expression that only reads.  A script that       *)
(* throws is success FALSE for the two tools that look at it.              *)
LookAt(c) ==
  /\ bcall[c].pc = "looking"
  /\ \E i \in Positions(c), threw \in BOOLEAN :
       /\ threw => bcall[c].tool \in {"eval", "test_element"}
                   /\ bcall[c].todo = <<>>
       /\ SetBrowserCall(c, StepOn([Visit(bcall[c]) EXCEPT
                                      !.success = @ /\ ~threw]))
  /\ UNCHANGED <<adb, running, port, tabs, acts, browserUpsets>>

Screenshot(c) ==
  /\ bcall[c].pc = "capturing"
  /\ Positions(c) # {}
  /\ acts' = acts \cup {<<c, "picture">>}
  /\ SetBrowserCall(c, StepOn(Visit(bcall[c])))
  /\ UNCHANGED <<adb, running, port, tabs, browserUpsets>>

(* Page.navigate returns before the page is there.  From here on the tab   *)
(* is found by its id.                                                     *)
FilteredAgain(call) == call  \* variant: every later look goes by the filter
LockedTo(call) == [call EXCEPT !.lock = call.tab]

Navigate(c) ==
  /\ bcall[c].pc = "going"
  /\ \E i \in Positions(c) : Leads(i, bcall[c].url)
  /\ SetBrowserCall(c, StepOn(LockedTo(Visit(bcall[c]))))
  /\ UNCHANGED <<adb, running, port, acts, browserUpsets>>

(* The expression of click and fill: it looks for the element and acts on  *)
(* it at once.  A click, or a submit, may lead to another page.            *)
Act(c) ==
  /\ bcall[c].pc = "acting"
  /\ \E i \in Positions(c) :
       \/ /\ HasElement(i)
          /\ acts' = acts \cup {<<c, bcall[c].tool>>}
          /\ \E p \in Pages \cup {tabs[port][i].next} : Leads(i, p)
       \/ ~HasElement(i) /\ UNCHANGED <<tabs, acts>>
  /\ SetBrowserCall(c, StepOn([Visit(bcall[c]) EXCEPT
                                 !.success = acts' # acts]))
  /\ UNCHANGED <<adb, running, port, browserUpsets>>

(* The command is carried out, and its answer is lost or late. *)
AnswerLost(c) ==
  /\ Upset
  /\ bcall[c].pc \in {"going", "acting"}
  /\ \E i \in Positions(c) :
       /\ bcall[c].pc = "acting" => HasElement(i)
       /\ Leads(i, IF bcall[c].pc = "going" THEN bcall[c].url
                   ELSE tabs[port][i].next)
       /\ acts' = IF bcall[c].pc = "acting"
                    THEN acts \cup {<<c, bcall[c].tool>>} ELSE acts
  /\ SetBrowserCall(c, Raise(Visit(bcall[c])))
  /\ UNCHANGED <<adb, running, port>>

-----------------------------------------------------------------------------
(* android_reconnect_quick and _full, android_adb_wireless_helper: the     *)
(* first two succeed whatever the commands return.                         *)
Ran(c, fine) ==
  SetBrowserCall(c, StepOn([bcall[c] EXCEPT
    !.success = @ /\ (fine \/ bcall[c].tool # "wireless_helper")]))

Pair(c) ==
  /\ bcall[c].pc = "pairing"
  /\ \E fine \in BOOLEAN :
       /\ adb' = IF fine /\ adb = "unpaired" THEN "offline" ELSE adb
       /\ Ran(c, fine)
  /\ UNCHANGED <<running, port, tabs, acts, browserUpsets>>

KickOffline(c) ==
  /\ bcall[c].pc = "kicking"
  /\ adb' \in {adb, IF adb = "offline" THEN "device" ELSE adb}
  /\ Ran(c, TRUE)
  /\ UNCHANGED <<running, port, tabs, acts, browserUpsets>>

Connect(c) ==
  /\ bcall[c].pc = "connecting"
  /\ \E fine \in BOOLEAN :
       /\ fine => adb # "unpaired"
       /\ adb' = IF fine THEN "device" ELSE adb
       /\ Ran(c, fine)
  /\ UNCHANGED <<running, port, tabs, acts, browserUpsets>>

-----------------------------------------------------------------------------
(* The phone and its user. *)
PageLoads ==
  /\ \E s \in running : \E i \in DOMAIN tabs[s] :
       /\ tabs[s][i].next # Nothere
       /\ tabs' = [tabs EXCEPT ![s][i] = Tab(@.id, @.next)]
  /\ UNCHANGED <<adb, running, port, bcall, acts, browserUpsets>>

UserClosesTab ==
  /\ Upset
  /\ \E s \in running : \E i \in DOMAIN tabs[s] :
       tabs' = [tabs EXCEPT ![s] = RemoveAt(@, i)]
  /\ UNCHANGED <<adb, running, port, bcall, acts>>

UserGoesTo ==
  /\ Upset
  /\ \E s \in running, p \in Pages : \E i \in DOMAIN tabs[s] :
       tabs' = [tabs EXCEPT ![s][i].next = p]
  /\ UNCHANGED <<adb, running, port, bcall, acts>>

(* A browser stops, or is started afresh. *)
BrowserSwitched ==
  /\ Upset
  /\ \E s \in SocketSet :
       /\ running' = IF s \in running THEN running \ {s} ELSE running \cup {s}
       /\ tabs' = [tabs EXCEPT ![s] = IF s \in running THEN <<>> ELSE FirstTabs[s]]
  /\ bcall' = [d \in BrowserCalls |-> IF BrowserBusy(d)
                                      THEN [bcall[d] EXCEPT !.calm = FALSE]
                                      ELSE bcall[d]]
  /\ UNCHANGED <<adb, port, acts>>

(* Wireless debugging drops: adb forgets the forward. *)
DeviceLost ==
  /\ Upset
  /\ adb = "device"
  /\ adb' = "offline"
  /\ port' = Nothere
  /\ UNCHANGED <<running, tabs, bcall, acts>>

-----------------------------------------------------------------------------
BrowserRests ==
  /\ running = SocketSet
  /\ port = Nothere
  /\ tabs = FirstTabs
  /\ bcall = [c \in BrowserCalls |-> AtRest]
  /\ acts = {}
  /\ browserUpsets = 0

BrowserInit == adb \in FirstAdb /\ BrowserRests

BrowserNext ==
  \/ \E c \in BrowserCalls :
       \/ StartBrowserCall(c) \/ RemoveForward(c) \/ AddForward(c)
       \/ AskVersion(c) \/ CleanForward(c) \/ ListTargets(c)
       \/ ConnectionFails(c) \/ LookAt(c) \/ Screenshot(c) \/ Navigate(c)
       \/ Act(c) \/ AnswerLost(c) \/ Pair(c) \/ KickOffline(c) \/ Connect(c)
  \/ PageLoads \/ UserClosesTab \/ UserGoesTo \/ BrowserSwitched \/ DeviceLost

BrowserSpec == BrowserInit /\ [][BrowserNext]_browserVars

-----------------------------------------------------------------------------
BrowserTypeOK ==
  /\ adb \in {"missing", "unpaired", "offline", "device"}
  /\ running \subseteq SocketSet
  /\ port \in SocketSet \cup {Nothere}
  /\ \A s \in SocketSet : \A i \in DOMAIN tabs[s] :
       /\ tabs[s][i].page \in Pages
       /\ tabs[s][i].next \in Pages \cup {Nothere}
  /\ \A c \in BrowserCalls : bcall[c].pc \in
       {"idle", "removing", "forwarding", "asking", "cleaning", "listing",
        "looking", "capturing", "acting", "going", "pairing", "kicking",
        "connecting", "done", "raised"}
  /\ \A c \in BrowserCalls : bcall[c].pc \in {"forwarding", "asking", "cleaning"} =>
       bcall[c].candidate \in DOMAIN Sockets
  /\ browserUpsets \in 0..MaxBrowserUpsets

(* A call stays with one tab: what is navigated is what is looked at and   *)
(* reported, even when the page that comes no longer fits the filter the   *)
(* tab was found by and another tab does (edge_kit/tooling.py:108).  All   *)
(* its commands go to one id, and to one browser too unless another call   *)
(* took the port or a browser came or went meanwhile.  And click and fill  *)
(* are a success exactly if something was clicked or filled.               *)
OneTabPerCall ==
  \A c \in BrowserCalls : bcall[c].pc \in {"done", "raised"} =>
    /\ Cardinality({v[2] : v \in bcall[c].visited}) <= 1
    /\ bcall[c].calm => Cardinality(bcall[c].visited) <= 1
    /\ (bcall[c].pc = "done" /\ bcall[c].tool \in {"click", "fill"}) =>
         (bcall[c].success <=> <<c, bcall[c].tool>> \in acts)
=============================================================================
