------------------------------ MODULE EyesJobs ------------------------------
(***************************************************************************)
(* Scheduling the lane: android_eyes_worker_kit and eyes_tick.py.  A job of *)
(* the Android scheduler runs a wrapper script, which runs eyes_tick: a    *)
(* scan, unless --skip-scan, then a batch of at most max_items.  The       *)
(* scheduler knows the path of the wrapper only.  The kit rewrites it in   *)
(* place before it asks the scheduler, and in a dry run as well, so that   *)
(* a job may fire in between, or find another call's arguments.            *)
(*                                                                         *)
(* The lane is reduced to the directories that hold a record of each       *)
(* dropped file: EyesInbox and EyesQueue have the file operations of a     *)
(* scan, a claim, a completion and a recovery, one step each here.  What a *)
(* tick has in hand is its own: the claim may be gone from the lane.       *)
(***************************************************************************)
EXTENDS Naturals, FiniteSets

CONSTANTS
  Jobs,          \* job ids
  Configs,       \* arguments of the tick: [scan, max]
  Drops,         \* files dropped in the inbox
  Ticks,         \* tick processes at a time
  MaxToolCalls,  \* BOUND: calls of the kit's tools but recover
  MaxRecoveries, \* BOUND: calls of recover
  MaxUpsets,     \* BOUND: kills and reboots
  Nil, Blank

ASSUME ConfigsAssumption == Configs \subseteq [scan : BOOLEAN, max : Nat]

VARIABLES
  wrapper,   \* eyes_tick_job_<id>.sh: absent, blank or its arguments
  runnable,  \* of each wrapper: chmod 0o755 was done
  scheduled, \* the scheduler's jobs: Nil, or if the job is persisted
  tool,      \* the kit's call under way
  tick,      \* of each tick: Nil or its job, max_items, step, item in hand
  lane,      \* of each drop: the directories it, or a record of it, is in
  asked,     \* history: of each job, what its latest schedule call asked for
  toolCalls, recoveries, upsets

jobVars == <<wrapper, runnable, scheduled, tool, tick, lane, asked,
             toolCalls, recoveries, upsets>>

Idle == [pc |-> "idle"]
Upset == upsets < MaxUpsets /\ upsets' = upsets + 1

-----------------------------------------------------------------------------
(* android_eyes_worker_schedule: write, chmod, ask the scheduler. *)

CallSchedule(j) ==
  /\ tool = Idle /\ toolCalls < MaxToolCalls
  /\ \E c \in Configs, dry \in BOOLEAN :
       tool' = [pc |-> "truncating", job |-> j, config |-> c, dry |-> dry]
  /\ asked' = [asked EXCEPT ![j] = Nil]
  /\ toolCalls' = toolCalls + 1
  /\ UNCHANGED <<wrapper, runnable, scheduled, tick, lane, recoveries, upsets>>

WrapperOf(j) == j   \* the job id is part of the file name

TruncateWrapper ==   \* write_text opens the file,
  /\ tool.pc = "truncating"
  /\ wrapper' = [wrapper EXCEPT ![WrapperOf(tool.job)] = Blank]
  /\ tool' = [tool EXCEPT !.pc = "filling"]
  /\ UNCHANGED <<runnable, scheduled, tick, lane, asked, toolCalls, recoveries,
                 upsets>>

FillWrapper ==       \* then has its content in it
  /\ tool.pc = "filling"
  /\ wrapper' = [wrapper EXCEPT ![WrapperOf(tool.job)] = tool.config]
  /\ tool' = [tool EXCEPT !.pc = "chmod"]
  /\ UNCHANGED <<runnable, scheduled, tick, lane, asked, toolCalls, recoveries,
                 upsets>>

ChmodWrapper ==
  /\ tool.pc = "chmod"
  /\ runnable' = [runnable EXCEPT ![WrapperOf(tool.job)] = TRUE]
  /\ tool' = IF tool.dry THEN Idle ELSE [tool EXCEPT !.pc = "asking"]
  /\ UNCHANGED <<wrapper, scheduled, tick, lane, asked, toolCalls, recoveries,
                 upsets>>

AskScheduler ==
  /\ tool.pc = "asking"
  /\ \/ /\ \E kind \in {"persisted", "volatile"} :   \* as the caller asked
             scheduled' = [scheduled EXCEPT ![tool.job] = kind]
        /\ asked' = [asked EXCEPT ![tool.job] = tool.config]
     \/ UNCHANGED <<scheduled, asked>>   \* exit code other than 0
  /\ tool' = Idle
  /\ UNCHANGED <<wrapper, runnable, tick, lane, toolCalls, recoveries,
                 upsets>>

CancelAndRemove(j) ==   \* variant: the wrapper goes, whatever the answer
  /\ tool = Idle /\ toolCalls < MaxToolCalls
  /\ \E dry \in BOOLEAN, accepted \in BOOLEAN :
       /\ scheduled' = IF ~dry /\ accepted THEN [scheduled EXCEPT ![j] = Nil]
                       ELSE scheduled
       /\ wrapper' = IF dry THEN wrapper
                     ELSE [wrapper EXCEPT ![WrapperOf(j)] = Nil]
  /\ toolCalls' = toolCalls + 1
  /\ UNCHANGED <<runnable, tool, tick, lane, asked, recoveries, upsets>>

(* android_eyes_worker_cancel_job leaves the wrapper where it is. *)
CancelJob(j) ==
  /\ tool = Idle /\ toolCalls < MaxToolCalls
  /\ \E dry \in BOOLEAN, accepted \in BOOLEAN :
       scheduled' = IF ~dry /\ accepted THEN [scheduled EXCEPT ![j] = Nil]
                    ELSE scheduled
  /\ toolCalls' = toolCalls + 1
  /\ UNCHANGED <<wrapper, runnable, tool, tick, lane, asked, recoveries, upsets>>

-----------------------------------------------------------------------------
(* A tick.  The scheduler runs what the wrapper holds by then; a blank one *)
(* does nothing, one that cannot be executed fails.  android_eyes_worker_  *)
(* run_once runs a tick, or without scan_first a batch, from the call.     *)

FreeTick(t) == tick[t] = Nil
StartTick(t, j, config) ==
  tick' = [tick EXCEPT ![t] =
    [job |-> j, left |-> config.max,
     pc |-> IF config.scan THEN "scanning" ELSE "listing"]]

FireJob(j, t) ==
  /\ scheduled[j] # Nil /\ FreeTick(t)
  /\ \A u \in Ticks : tick[u] # Nil => tick[u].job # j
  /\ wrapper[WrapperOf(j)] \in Configs /\ runnable[WrapperOf(j)]
  /\ StartTick(t, j, wrapper[WrapperOf(j)])
  /\ UNCHANGED <<wrapper, runnable, scheduled, tool, lane, asked,
                 toolCalls, recoveries,
                 upsets>>

RunOnce(t) ==
  /\ tool = Idle /\ toolCalls < MaxToolCalls /\ FreeTick(t)
  /\ \E c \in Configs : StartTick(t, Nil, c)
  /\ toolCalls' = toolCalls + 1
  /\ UNCHANGED <<wrapper, runnable, scheduled, tool, lane, asked, recoveries, upsets>>

Scan(t) ==
  /\ ~FreeTick(t) /\ tick[t].pc = "scanning"
  /\ lane' = [d \in Drops |-> IF "inbox" \in lane[d] THEN {"pending"} ELSE lane[d]]
  /\ tick' = [tick EXCEPT ![t].pc = "listing"]
  /\ UNCHANGED <<wrapper, runnable, scheduled, tool, asked, toolCalls, recoveries,
                 upsets>>

(* run_batch lists what is pending once, and takes max_items of it. *)
ListPending(t) ==
  /\ ~FreeTick(t) /\ tick[t].pc = "listing"
  /\ LET pending == {d \in Drops : "pending" \in lane[d]}
     IN  \E batch \in SUBSET pending :
           /\ Cardinality(batch) =
                IF Cardinality(pending) < tick[t].left
                  THEN Cardinality(pending) ELSE tick[t].left
           /\ tick' = [tick EXCEPT ![t] =
                IF batch = {} THEN Nil
                ELSE [job |-> tick[t].job, left |-> tick[t].left,
                      pc |-> "working", todo |-> batch, hand |-> Nil]]
  /\ UNCHANGED <<wrapper, runnable, scheduled, tool, lane, asked,
                 toolCalls, recoveries,
                 upsets>>

Moved(d, from, to) == (lane[d] \ {from}) \cup {to}

(* The claimed record is written, then the pending file unlinked: if       *)
(* another run has taken it meanwhile, the record stays and the batch ends *)
(* with an error.                                                          *)
Claim(t) ==
  /\ ~FreeTick(t) /\ tick[t].pc = "working" /\ tick[t].hand = Nil
  /\ \E d \in tick[t].todo :
       /\ lane' = [lane EXCEPT ![d] = Moved(d, "pending", "claimed")]
       /\ tick' = [tick EXCEPT ![t] =
            IF "pending" \in lane[d]
              THEN [tick[t] EXCEPT !.todo = @ \ {d}, !.hand = d] ELSE Nil]
  /\ UNCHANGED <<wrapper, runnable, scheduled, tool, asked, toolCalls, recoveries,
                 upsets>>

(* A completed or failed record is written, then the claimed file unlinked *)
(* if it is still there: if recovery, or the run that has claimed the item *)
(* after it, has removed it, the batch ends with an error.  So it does if  *)
(* the review raises, for then the claimed file is gone for _fail_item.    *)
SettleOne(t) ==
  /\ ~FreeTick(t) /\ tick[t].pc = "working" /\ tick[t].hand # Nil
  /\ LET d == tick[t].hand
     IN  /\ lane' = [lane EXCEPT ![d] = Moved(d, "claimed", "settled")]
         /\ \/ tick' = [tick EXCEPT ![t] = Nil]
            \/ /\ "claimed" \in lane[d] /\ tick[t].todo # {}
               /\ tick' = [tick EXCEPT ![t].hand = Nil]
  /\ UNCHANGED <<wrapper, runnable, scheduled, tool, asked, toolCalls, recoveries,
                 upsets>>

(* The phone's, or run_once after 60 seconds: the claim stays. *)
KillTick(t) ==
  /\ ~FreeTick(t) /\ Upset
  /\ tick' = [tick EXCEPT ![t] = Nil]
  /\ UNCHANGED <<wrapper, runnable, scheduled, tool, lane, asked, toolCalls,
                 recoveries>>

(* android_eyes_worker_recover goes by the age the caller asks for: it     *)
(* takes any claims, those of ticks that still work on them as well.  Of   *)
(* an item it either finds a result, or puts it back.                      *)
RecoverClaims ==
  /\ tool = Idle /\ recoveries < MaxRecoveries
  /\ \E taken \in SUBSET {d \in Drops : "claimed" \in lane[d]} :
       /\ taken # {}
       /\ \E done \in SUBSET taken :
            lane' = [d \in Drops |->
              IF d \in done THEN Moved(d, "claimed", "settled")
              ELSE IF d \in taken THEN Moved(d, "claimed", "pending")
              ELSE lane[d]]
  /\ recoveries' = recoveries + 1
  /\ UNCHANGED <<wrapper, runnable, scheduled, tool, tick, asked, toolCalls, upsets>>

DropFile(d) ==
  /\ lane[d] = {}
  /\ lane' = [lane EXCEPT ![d] = {"inbox"}]
  /\ UNCHANGED <<wrapper, runnable, scheduled, tool, tick, asked,
                 toolCalls, recoveries,
                 upsets>>

KillTool ==
  /\ tool # Idle /\ Upset
  /\ tool' = Idle
  /\ UNCHANGED <<wrapper, runnable, scheduled, tick, lane, asked, toolCalls,
                 recoveries>>

(* Jobs that are not persisted are gone, and with them all processes. *)
Reboot ==
  /\ Upset
  /\ scheduled' = [j \in Jobs |-> IF scheduled[j] = "persisted"
                                  THEN "persisted" ELSE Nil]
  /\ tool' = Idle
  /\ tick' = [t \in Ticks |-> Nil]
  /\ UNCHANGED <<wrapper, runnable, lane, asked, toolCalls,
                 recoveries>>

JobsInit ==
  /\ wrapper = [j \in Jobs |-> Nil]
  /\ runnable = [j \in Jobs |-> FALSE]
  /\ scheduled = [j \in Jobs |-> Nil]
  /\ tool = Idle
  /\ tick = [t \in Ticks |-> Nil]
  /\ lane = [d \in Drops |-> {}]
  /\ asked = [j \in Jobs |-> Nil]
  /\ toolCalls = 0 /\ recoveries = 0 /\ upsets = 0

ToolStep == TruncateWrapper \/ FillWrapper \/ ChmodWrapper \/ AskScheduler
TickStep(t) == Scan(t) \/ ListPending(t) \/ Claim(t) \/ SettleOne(t)

JobsNext ==
  \/ \E j \in Jobs : CallSchedule(j) \/ CancelJob(j)
  \/ ToolStep
  \/ \E t \in Ticks : \/ \E j \in Jobs : FireJob(j, t)
                      \/ RunOnce(t) \/ TickStep(t) \/ KillTick(t)
  \/ \E d \in Drops : DropFile(d)
  \/ RecoverClaims \/ KillTool \/ Reboot

(* The scheduler goes on firing a job, and a process that is not killed    *)
(* goes on.  Nobody is obliged to call a tool, recover least of all.       *)
JobsFairness ==
  /\ WF_jobVars(ToolStep)
  /\ \A t \in Ticks : WF_jobVars(TickStep(t))
  /\ \A j \in Jobs : SF_jobVars(\E t \in Ticks : FireJob(j, t))

-----------------------------------------------------------------------------
(* Wrappers hold arguments, ticks what the scheduler or the caller gave    *)
(* them; and the scheduler has no job whose wrapper is not there, ready to *)
(* be executed.                                                            *)
TickRecords ==
  [job : Jobs \cup {Nil}, left : Nat, pc : {"scanning", "listing"}]
  \cup [job : Jobs \cup {Nil}, left : Nat, pc : {"working"},
        todo : SUBSET Drops, hand : Drops \cup {Nil}]

JobsTypeOK ==
  /\ wrapper \in [Jobs -> Configs \cup {Blank, Nil}]
  /\ runnable \in [Jobs -> BOOLEAN]
  /\ scheduled \in [Jobs -> {"persisted", "volatile", Nil}]
  /\ tick \in [Ticks -> TickRecords \cup {Nil}]
  /\ lane \in [Drops -> SUBSET {"inbox", "pending", "claimed", "settled"}]
  /\ \A j \in Jobs : scheduled[j] # Nil =>
       wrapper[WrapperOf(j)] \in Configs \cup {Blank} /\ runnable[WrapperOf(j)]

(* A job that the scheduler has, whose latest schedule call succeeded and  *)
(* asked for a scan and at least one item, works off all that is dropped   *)
(* and all that recovery puts back: what other jobs are asked for, runs    *)
(* that come in between, recovery that takes the item of a running tick,   *)
(* and kills do not stop it.  What is left are claims no tick works on,    *)
(* which wait for a recover call.                                          *)
Serves(j) ==
  /\ scheduled[j] # Nil
  /\ asked[j] \in Configs /\ asked[j].scan /\ asked[j].max > 0

InHandOf(t, d) == ~FreeTick(t) /\ tick[t].pc = "working" /\ tick[t].hand = d
Abandoned(d) == "claimed" \in lane[d] /\ \A t \in Ticks : ~InHandOf(t, d)

=============================================================================
