-------------------------- MODULE OperationalWorld --------------------------
(***************************************************************************)
(* The operational world, code_puppy/plugins/droidpuppy_operational_world: *)
(* the tools of tooling.py, the engine of engine.py, the files of store.py *)
(* (world_state.json, replaced through a temporary file, and stream.jsonl, *)
(* appended to) and the replay of the stream.                              *)
(*                                                                         *)
(* Every tool call is a process that loads the state, works on its copy,   *)
(* appends events and saves; nothing locks the files.  The engine is       *)
(* deterministic, so that what a call will append and save is computed     *)
(* when it has read its inputs (Plan), then written one event at a time.   *)
(* The specification is the default one: a note, an action that sets a     *)
(* property, one that needs approval, and one consequence rule.            *)
(*                                                                         *)
(* Left out: dry runs and perceive, which write nothing, timestamps, and   *)
(* the window inside tmp.write_text between truncation and content.        *)
(***************************************************************************)
EXTENDS Naturals, Sequences, SequencesExt

CONSTANTS
  Submits, Ticks, Scans, Reconciles, Replays, \* calls of each tool
  Inits, Resets,       \* calls of world_init, without and with overwrite
  Kinds,               \* what an action may be
  MaxActions,          \* max_actions of a tick
  TailLimit,           \* how much of the stream a scan looks at
  Overlap,             \* TRUE: calls may be under way at the same time
  TornWrites,          \* TRUE: a kill may cut an appended line short
  MaxMishaps,          \* BOUND: kills in a behaviour
  NoFile, None

Calls == Submits \cup Ticks \cup Scans \cup Reconciles \cup Replays
           \cup Inits \cup Resets

ASSUME WorldAssumption ==
  /\ Kinds \subseteq {"note", "mark", "stray", "gated", "unknown"}
  /\ MaxActions \in Nat /\ TailLimit \in Nat \ {0}
  /\ Overlap \in BOOLEAN /\ TornWrites \in BOOLEAN /\ MaxMishaps \in Nat
  /\ None \notin Submits

ASSUME CallsAssumption ==         \* a call is of one tool
  /\ Submits \cap (Ticks \cup Scans \cup Reconciles \cup Replays
                     \cup Inits \cup Resets) = {}
  /\ Ticks \cap (Scans \cup Reconciles \cup Replays
                   \cup Inits \cup Resets) = {}
  /\ Scans \cap (Reconciles \cup Replays \cup Inits \cup Resets) = {}
  /\ Reconciles \cap (Replays \cup Inits \cup Resets) = {}
  /\ Replays \cap (Inits \cup Resets) = {}
  /\ Inits \cap Resets = {}

Actions == [id : Submits, kind : Kinds]
NoAction == [id |-> None, kind |-> "none"]
EventIds == Calls \X Nat

(* world_state.json: the property that "mark" actions set, the entities    *)
(* that approvals create and those that the Android reconciliation does.   *)
Blank ==
  [tick |-> 0, value |-> None, approvals |-> {}, android |-> FALSE,
   queued |-> <<>>, processed |-> <<>>, fired |-> {}]

VARIABLES
  state,      \* world_state.json
  tmp,        \* world_state.json.tmp, one name for all calls
  stream,     \* stream.jsonl, the lines that can be read
  ragged,     \* TRUE: the stream ends in a line cut short
  pc,
  mem,        \* the copy of the state a call works on
  out,        \* the events it has yet to append
  mishaps

vars == <<state, tmp, stream, ragged, pc, mem, out, mishaps>>

PCs == {"idle", "scanning", "writing", "replacing", "appending", "done",
        "error", "dead"}
World ==
  [tick : Nat, value : Submits \cup {None}, approvals : SUBSET Submits,
   android : BOOLEAN, queued : Seq(Actions), processed : Seq(Submits),
   fired : SUBSET EventIds]
ASSUME NoFileAssumption == NoFile \notin World   \* NoFile: there is no file
IsEvent(e) ==
  /\ e.id \in EventIds
  /\ e.action = NoAction \/ e.action \in Actions
  /\ e.type = "consequence.approval_gate" => e.arg \in EventIds
  /\ e.type # "consequence.approval_gate" => e.arg \in Nat

(* The state file and its temporary copy are worlds, the stream holds      *)
(* events.                                                                 *)
TypeOK ==
  /\ state \in World /\ tmp \in World \cup {NoFile}
  /\ \A e \in ToSet(stream) : IsEvent(e)
  /\ ragged \in BOOLEAN
  /\ pc \in [Calls -> PCs]
  /\ mem \in [Calls -> World]
  /\ \A c \in Calls : \A e \in ToSet(out[c]) : IsEvent(e)
  /\ mishaps \in Nat

-----------------------------------------------------------------------------
(* engine.py.  A call's work so far is a record of the world it has made   *)
(* and the events it will append; an event id is the call and a number.    *)

Emit(c, job, type, action, arg) ==
  [job EXCEPT !.out = Append(@, [id |-> <<c, Len(@) + 1>>, type |-> type,
                                 action |-> action, arg |-> arg])]

SettleWhole(job, a) ==            \* variant: the action, not its id
  [job EXCEPT !.world.processed = Append(@, a)]
Settle(job, a) == [job EXCEPT !.world.processed = Append(@, a.id)]

(* _apply_effect for the actions of the default specification.             *)
Effect(c, job, a) ==
  CASE a.kind = "mark"  -> Emit(c, [job EXCEPT !.world.value = a.id],
                                "entity.property_set", a, 0)
    [] a.kind = "stray" -> Emit(c, job, "effect.failed", a, 0)
    [] OTHER            -> Emit(c, job, "world.note", a, 0)

(* _process_action *)
ProcessAction(c, job, a) ==
  CASE a.kind = "unknown" -> Emit(c, job, "action.rejected", a, 0)
    [] a.kind = "gated"   ->
         Emit(c, [job EXCEPT !.world.approvals = @ \cup {a.id}],
              "approval.required", a, 0)
    [] OTHER -> Effect(c, Emit(c, job, "action.accepted", a, 0), a)

ScanForgetful(c, job, recent) ==  \* variant: fired keys are not looked at
  LET fire(j, e) ==
        IF e.type # "approval.required" THEN j
        ELSE Emit(c, [j EXCEPT !.world.fired = @ \cup {e.id}],
                  "consequence.approval_gate", NoAction, e.id)
  IN FoldLeft(fire, job, recent)

(* scan_consequences with the rule approval-gate-visible: once for every   *)
(* event that matches, as far as fired_consequence_keys remembers.         *)
ScanConsequences(c, job, recent) ==
  LET fire(j, e) ==
        IF e.type # "approval.required" \/ e.id \in j.world.fired THEN j
        ELSE Emit(c, [j EXCEPT !.world.fired = @ \cup {e.id}],
                  "consequence.approval_gate", NoAction, e.id)
  IN FoldLeft(fire, job, recent)

(* to_process and remaining *)
Taken(w) == SubSeq(w.queued, 1, IF MaxActions < Len(w.queued)
                                   THEN MaxActions ELSE Len(w.queued))
RestAll(w) == <<>>            \* variant: what was not taken is dropped
RestSame(w) == w.queued       \* variant: what was taken stays
Rest(w) == SubSeq(w.queued, Len(Taken(w)) + 1, Len(w.queued))

(* process_tick *)
ProcessTick(c, w) ==
  LET start == Emit(c, [world |-> [w EXCEPT !.tick = @ + 1,
                                            !.queued = Rest(w)],
                        out |-> <<>>],
                    "world.tick.started", NoAction, w.tick + 1)
      step(job, a) == Settle(ProcessAction(c, job, a), a)
      acted == FoldLeft(step, start, Taken(w))
  IN Emit(c, ScanConsequences(c, acted, acted.out),
          "world.tick.completed", NoAction, w.tick + 1)

-----------------------------------------------------------------------------
(* _replay_event *)
Without(queue, id) ==
  LET keep(kept, q) == IF q.id = id THEN kept ELSE Append(kept, q)
  IN FoldLeft(keep, <<>>, queue)

MarkProcessed(w, a) ==
  [w EXCEPT !.queued = Without(@, a.id),
            !.processed = IF Contains(@, a.id) THEN @ ELSE Append(@, a.id)]

ReplayKeepsQueue(w, e) ==         \* variant: a settled action stays queued
  CASE e.type = "action.queued" -> [w EXCEPT !.queued = Append(@, e.action)]
    [] e.type = "world.tick.completed" -> [w EXCEPT !.tick = e.arg]
    [] OTHER -> w

ReplayEvent(w, e) ==
  CASE e.type = "action.queued" -> [w EXCEPT !.queued = Append(@, e.action)]
    [] e.type \in {"action.accepted", "action.rejected"} ->
         MarkProcessed(w, e.action)
    [] e.type = "approval.required" ->
         [MarkProcessed(w, e.action) EXCEPT
            !.approvals = @ \cup {e.action.id}]
    [] e.type = "entity.property_set" -> [w EXCEPT !.value = e.action.id]
    [] e.type = "world.tick.completed" -> [w EXCEPT !.tick = e.arg]
    [] OTHER -> w

(* droidpuppy_world_replay *)
Replayed == FoldLeft(ReplayEvent, Blank, stream)

StreamTail ==
  SubSeq(stream, IF Len(stream) > TailLimit THEN Len(stream) - TailLimit + 1
                 ELSE 1, Len(stream))

-----------------------------------------------------------------------------
Live(c) == pc[c] \notin {"idle", "done", "error", "dead"}
MayStart(c) == Overlap \/ \A o \in Calls \ {c} : ~Live(o)
Goto(c, label) == pc' = [pc EXCEPT ![c] = label]

Init ==
  /\ state = Blank /\ tmp = NoFile
  /\ stream = <<>> /\ ragged = FALSE
  /\ pc = [c \in Calls |-> "idle"]
  /\ mem = [c \in Calls |-> Blank]
  /\ out = [c \in Calls |-> <<>>]
  /\ mishaps = 0

(* The tools that save before they append.                                 *)
SaveFirstAll == Calls             \* variant: ticks and scans too
SaveFirst == Submits \cup Inits \cup Resets

(* What each tool does between loading the state and its first write.  A   *)
(* scan and a replay read the stream here.                                 *)
Same(w) == [world |-> w, out |-> <<>>]

SubmitAction(c, kind, w) ==
  LET action == [id |-> c, kind |-> kind] IN
  Emit(c, [Same(w) EXCEPT !.world.queued = Append(@, action)],
       "action.queued", action, 0)

Initialize(c, w, overwrite) ==
  Emit(c, Same(IF overwrite THEN Blank ELSE w),
       "world.initialized", NoAction, 0)

Reconcile(c, w) ==
  Emit(c, [Same(w) EXCEPT !.world.android = TRUE],
       "android.reconciled", NoAction, 0)

Job(c, kind, w) ==
  CASE c \in Submits    -> SubmitAction(c, kind, w)
    [] c \in Ticks      -> ProcessTick(c, w)
    [] c \in Scans      -> ScanConsequences(c, Same(w), StreamTail)
    [] c \in Reconciles -> Reconcile(c, w)
    [] c \in Replays    -> Same(Replayed)
    [] c \in Inits      -> Initialize(c, w, FALSE)
    [] c \in Resets     -> Initialize(c, w, TRUE)

Plan(c, w) ==
  \E kind \in IF c \in Submits THEN Kinds ELSE {"none"} :
    LET job == Job(c, kind, w) IN
    /\ mem' = [mem EXCEPT ![c] = job.world]
    /\ out' = [out EXCEPT ![c] = job.out]
    /\ Goto(c, IF c \in SaveFirst \/ job.out = <<>> THEN "writing"
                                                   ELSE "appending")

(* load_state.  Every tool but the scan reads one file only before it      *)
(* writes, so that it reads and plans in a step.                           *)
Load(c) ==
  /\ pc[c] = "idle" /\ MayStart(c) /\ c \notin Scans
  /\ Plan(c, state)
  /\ UNCHANGED <<state, tmp, stream, ragged, mishaps>>

LoadForScan(c) ==
  /\ pc[c] = "idle" /\ MayStart(c) /\ c \in Scans
  /\ mem' = [mem EXCEPT ![c] = state]
  /\ Goto(c, "scanning")
  /\ UNCHANGED <<state, tmp, stream, ragged, out, mishaps>>

Scan(c) ==
  /\ pc[c] = "scanning"
  /\ Plan(c, mem[c])
  /\ UNCHANGED <<state, tmp, stream, ragged, mishaps>>

(* The call ends and its memory goes.                                      *)
Finish(c, label) ==
  /\ Goto(c, label)
  /\ mem' = [mem EXCEPT ![c] = Blank]
  /\ out' = [out EXCEPT ![c] = <<>>]

(* append_event: a line that follows one cut short cannot be read either.  *)
AppendEvent(c) ==
  /\ pc[c] = "appending"
  /\ stream' = IF ragged THEN stream ELSE Append(stream, Head(out[c]))
  /\ ragged' = FALSE
  /\ IF Len(out[c]) = 1 /\ c \in SaveFirst
       THEN Finish(c, "done")
       ELSE /\ out' = [out EXCEPT ![c] = Tail(@)]
            /\ Goto(c, IF Len(out[c]) > 1 THEN "appending" ELSE "writing")
            /\ UNCHANGED mem
  /\ UNCHANGED <<state, tmp, mishaps>>

(* write_json: the temporary file, then tmp.replace, which raises when     *)
(* another call has replaced it already.                                   *)
WriteTmp(c) ==
  /\ pc[c] = "writing"
  /\ tmp' = mem[c]
  /\ Goto(c, "replacing")
  /\ UNCHANGED <<state, stream, ragged, mem, out, mishaps>>

Replace(c) ==
  /\ pc[c] = "replacing" /\ tmp # NoFile
  /\ state' = tmp /\ tmp' = NoFile
  /\ IF out[c] = <<>>
       THEN Finish(c, "done")
       ELSE Goto(c, "appending") /\ UNCHANGED <<mem, out>>
  /\ UNCHANGED <<stream, ragged, mishaps>>

ReplaceRaises(c) ==
  /\ pc[c] = "replacing" /\ tmp = NoFile
  /\ Finish(c, "error")
  /\ UNCHANGED <<state, tmp, stream, ragged, mishaps>>

Mishap == mishaps < MaxMishaps /\ mishaps' = mishaps + 1

Kill(c) ==
  /\ Live(c) /\ Mishap
  /\ Finish(c, "dead")
  /\ UNCHANGED <<state, tmp, stream, ragged>>

KillMidAppend(c) ==
  /\ TornWrites /\ pc[c] = "appending" /\ Mishap
  /\ ragged' = TRUE
  /\ Finish(c, "dead")
  /\ UNCHANGED <<state, tmp, stream>>

Call(c) ==
  Load(c) \/ LoadForScan(c) \/ Scan(c) \/ AppendEvent(c) \/ WriteTmp(c)
    \/ Replace(c) \/ ReplaceRaises(c)

Next == \E c \in Calls : Call(c) \/ Kill(c) \/ KillMidAppend(c)

Spec == Init /\ [][Next]_vars

-----------------------------------------------------------------------------
Events(type) == {e \in ToSet(stream) : e.type = type}
Quiet == \A c \in Calls : ~Live(c)
Ids(actions) == {a.id : a \in ToSet(actions)}

(* Nothing is in the state that is not on the audit spine: the actions it  *)
(* has processed, the approvals it shows, the property it holds and its    *)
(* tick all have their event in the stream, whatever calls are killed, and *)
(* whatever calls overlap as long as no line is cut short.                 *)
StreamAhead ==
  /\ \A x \in ToSet(state.processed) :
       \E e \in Events("action.accepted") \cup Events("action.rejected")
                  \cup Events("approval.required") : e.action.id = x
  /\ \A x \in state.approvals :
       \E e \in Events("approval.required") : e.action.id = x
  /\ state.value # None =>
       \E e \in Events("entity.property_set") : e.action.id = state.value
  /\ state.tick > 0 =>
       \E e \in Events("world.tick.completed") : e.arg = state.tick

(* A consequence the state remembers as fired, and will not fire again, is *)
(* in the stream, whatever calls overlap as long as no line is cut short   *)
(* (the line after it, which may be the consequence, is lost with it).     *)
ConsequenceAhead ==
  \A k \in state.fired :
    \E e \in Events("consequence.approval_gate") : e.arg = k

(* An action is processed once, although ticks are killed and repeated.    *)
ProcessedOnce ==
  LET ids == state.processed \o [k \in DOMAIN state.queued |->
                                   state.queued[k].id]
  IN IsInjective(ids)

(* An action whose submission has succeeded is in the queue until it has   *)
(* been processed.                                                         *)
NoActionLost ==
  \A c \in Submits : pc[c] = "done" =>
    c \in ToSet(state.processed) \cup Ids(state.queued)

(* The stream is replayable: when no call was killed, replaying it gives   *)
(* the tick, the queue and the entities of the state file, in order.       *)
(* After kills the replay may know more than the state file, never less:   *)
(* it is at most one tick ahead and queues nothing that the state has not  *)
(* queued.                                                                 *)
ReplayAgrees ==
  Quiet =>
    LET replay == Replayed IN
    /\ mishaps = 0 =>
         [replay EXCEPT !.fired = state.fired,
                        !.android = state.android] = state
    /\ ToSet(state.processed) \subseteq ToSet(replay.processed)
    /\ replay.tick \in {state.tick, state.tick + 1}
    /\ Ids(replay.queued) \subseteq Ids(state.queued)

(* A consequence fires exactly once for each event that calls for it,      *)
(* whether a tick or a scan comes across it.                               *)
ConsequenceOnce ==
  Quiet /\ mishaps = 0 =>
    \A e \in Events("approval.required") :
      \E k \in DOMAIN stream : \A n \in DOMAIN stream :
        (stream[n].type = "consequence.approval_gate" /\ stream[n].arg = e.id)
          <=> n = k
=============================================================================
