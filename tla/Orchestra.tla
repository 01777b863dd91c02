----------------------------- MODULE Orchestra ------------------------------
(***************************************************************************)
(* The Orchestra Agent, orchestra/orchestra_agent.py, over the Kernel of   *)
(* orchestra/kernel.py: one intent, the tasks it is decomposed into, and   *)
(* the calls run, approve and deny that move it forward.                   *)
(*                                                                         *)
(* A call is a process.  It reads tasks from the Kernel into memory and    *)
(* saves them one at a time; each save is committed, so that a kill, or    *)
(* another call, may come between any two saves, and between the moment an *)
(* adapter does its work and the moment its outcome is saved.              *)
(*                                                                         *)
(* A plan is a set of steps, saved in order; the task of step s planned by *)
(* call c is <<c, s>>, as every decomposition makes new task ids.  Tasks   *)
(* that are ready are run in the order of their ids, which are random: in  *)
(* any order here.                                                         *)
(*                                                                         *)
(* Left out: observations, which are written and never read, schema checks *)
(* on what the agent builds itself, and inputs and outputs.                *)
(***************************************************************************)
EXTENDS Naturals, Sequences, FiniteSets

CONSTANTS
  Steps,         \* of the plan, numbered in its order
  Depends,       \* depends_on, of each step
  NeedsApproval, \* steps with requires_approval
  SafeToRetry,   \* steps whose side_effect_class is read or idempotent
  MayLack,       \* steps whose adapter a process may not have registered
  MaxAttempts,   \* retry_policy.max_attempts
  Runs, Approvals, Denials,  \* calls of run, approve and deny
  Overlap,       \* TRUE: calls may be under way at the same time
  MaxMishaps,    \* BOUND: kills in a behaviour
  NoTask, None

Calls == Runs \cup Approvals \cup Denials
TaskIds == Runs \X Steps
StepOf(t) == t[2]
DependsOn(t) == {<<t[1], s>> : s \in Depends[StepOf(t)]}

ASSUME OrchestraAssumption ==
  /\ Steps \subseteq Nat /\ IsFiniteSet(Steps) /\ Steps # {}
  /\ Depends \in [Steps -> SUBSET Steps]
  /\ \A s \in Steps : \A d \in Depends[s] : d < s
  /\ NeedsApproval \subseteq Steps /\ SafeToRetry \subseteq Steps
  /\ MayLack \subseteq Steps
  /\ MaxAttempts \in Nat /\ MaxMishaps \in Nat /\ Overlap \in BOOLEAN
  /\ None \notin TaskIds

Terminal == {"succeeded", "failed", "aborted"}
Statuses == {"pending", "ready", "running", "awaiting_approval"} \cup Terminal
Task == [status : Statuses, attempts : 0 .. MaxAttempts + 1,
         approved : BOOLEAN]
NewTask == [status |-> "pending", attempts |-> 0, approved |-> FALSE]
Blank == [t \in TaskIds |-> NoTask]

ASSUME TaskMarkerAssumption == NoTask \notin Task

WorkCap == MaxAttempts + 2   \* BOUND: on performed, which never reaches it

PCs == {"idle", "checking", "planning", "executing", "looping", "batch",
        "running", "recording", "aborting", "settling", "finishing",
        "closing", "approving", "denying", "done", "dead"}

VARIABLES
  intent,     \* the intent's status
  tasks,      \* the tasks table
  results,    \* the results table, in order
  performed,  \* how often an adapter has done the work of a task
  pc, mem,    \* of a call: the tasks as it has read them
  todo, cur,  \* its batch, the task it is about
  out,        \* the status that the adapter returned, or of its result
  mishaps

kernel == <<intent, tasks, results>>
local == <<mem, todo, cur, out>>
vars == <<kernel, performed, pc, local, mishaps>>

(* The tables of the Kernel keep to their schemas and no task is attempted *)
(* more often than its policy, and one more time, allows.                  *)
TypeOK ==
  /\ intent \in {"accepted", "planning", "executing", "done", "failed"}
  /\ tasks \in [TaskIds -> Task \cup {NoTask}]
  /\ results \in Seq({"success", "partial", "failed"})
  /\ performed \in [TaskIds -> 0 .. WorkCap - 1]
  /\ pc \in [Calls -> PCs]
  /\ mem \in [Calls -> [TaskIds -> Task \cup {NoTask}]]
  /\ todo \in [Calls -> SUBSET TaskIds]
  /\ cur \in [Calls -> TaskIds \cup {None}]
  /\ out \in [Calls -> {"none", "succeeded", "success", "partial", "failed"}]
  /\ mishaps \in Nat

-----------------------------------------------------------------------------
Live(c) == pc[c] \notin {"idle", "done", "dead"}
MayStart(c) == Overlap \/ \A o \in Calls \ {c} : ~Live(o)
Goto(c, label) == pc' = [pc EXCEPT ![c] = label]

Saved(table) == {t \in TaskIds : table[t] # NoTask}
In(table, statuses) == {t \in Saved(table) : table[t].status \in statuses}

(* The call ends, and its memory goes.                                     *)
Leave(c, label) ==
  /\ Goto(c, label)
  /\ mem' = [mem EXCEPT ![c] = Blank]
  /\ todo' = [todo EXCEPT ![c] = {}]
  /\ cur' = [cur EXCEPT ![c] = None]
  /\ out' = [out EXCEPT ![c] = "none"]

(* save_task: the copy in memory, as changed, replaces the row.            *)
Save(c, t, task) ==
  /\ mem' = [mem EXCEPT ![c][t] = task]
  /\ tasks' = [tasks EXCEPT ![t] = task]

Init ==
  /\ intent = "accepted" /\ tasks = Blank /\ results = <<>>
  /\ performed = [t \in TaskIds |-> 0]
  /\ pc = [c \in Calls |-> "idle"]
  /\ mem = [c \in Calls |-> Blank]
  /\ todo = [c \in Calls |-> {}]
  /\ cur = [c \in Calls |-> None]
  /\ out = [c \in Calls |-> "none"]
  /\ mishaps = 0

-----------------------------------------------------------------------------
(* run *)
Start(c) ==
  /\ c \in Runs /\ pc[c] = "idle" /\ MayStart(c)
  /\ Goto(c, "checking")
  /\ UNCHANGED <<kernel, performed, local, mishaps>>

Check(c) ==
  /\ pc[c] = "checking"
  /\ IF Saved(tasks) = {}
       THEN /\ intent' = "planning"
            /\ todo' = [todo EXCEPT ![c] = {<<c, s>> : s \in Steps}]
            /\ Goto(c, "planning")
       ELSE Goto(c, "executing") /\ UNCHANGED <<intent, todo>>
  /\ UNCHANGED <<tasks, results, performed, mem, cur, out, mishaps>>

SavePlanned(c) ==
  /\ pc[c] = "planning"
  /\ \E t \in todo[c] :
       /\ \A u \in todo[c] : StepOf(t) <= StepOf(u)
       /\ Save(c, t, NewTask)
       /\ todo' = [todo EXCEPT ![c] = @ \ {t}]
       /\ Goto(c, IF todo[c] = {t} THEN "executing" ELSE "planning")
  /\ UNCHANGED <<intent, results, performed, cur, out, mishaps>>

Execute(c) ==
  /\ pc[c] = "executing"
  /\ intent' = "executing"
  /\ Goto(c, "looping")
  /\ UNCHANGED <<tasks, results, performed, local, mishaps>>

ReadyAnyway(table) ==        \* variant: depends_on is not looked at
  In(table, {"pending", "ready"})
ReadyRedo(table) ==          \* variant: a resumed run starts over
  {t \in In(table, {"pending", "ready", "succeeded"}) :
     DependsOn(t) \subseteq In(table, {"succeeded"})}
Ready(table) ==
  {t \in In(table, {"pending", "ready"}) :
     DependsOn(t) \subseteq In(table, {"succeeded"})}

(* One turn of the loop: the tasks that are ready, or none; then what      *)
(* waits for a dependency that will not succeed is aborted.                *)
Loop(c) ==
  /\ pc[c] = "looping"
  /\ mem' = [mem EXCEPT ![c] = tasks]
  /\ LET stuck == IF Saved(tasks) = In(tasks, Terminal)
                       \/ In(tasks, {"awaiting_approval"}) # {}
                    THEN {} ELSE In(tasks, {"pending", "ready"})
         batch == Ready(tasks) IN
     /\ todo' = [todo EXCEPT ![c] = IF batch # {} THEN batch ELSE stuck]
     /\ Goto(c, IF batch # {} THEN "batch"
                ELSE IF stuck # {} THEN "aborting" ELSE "settling")
  /\ UNCHANGED <<kernel, performed, cur, out, mishaps>>

Abort(c) ==
  /\ pc[c] = "aborting"
  /\ \E t \in todo[c] :
       /\ Save(c, t, [mem[c][t] EXCEPT !.status = "aborted"])
       /\ todo' = [todo EXCEPT ![c] = @ \ {t}]
       /\ Goto(c, IF todo[c] = {t} THEN "settling" ELSE "aborting")
  /\ UNCHANGED <<intent, results, performed, cur, out, mishaps>>

-----------------------------------------------------------------------------
GateNone(t, task) == FALSE      \* variant: approval is not asked for
Gate(t, task) == StepOf(t) \in NeedsApproval /\ ~task.approved

NextTask(c, rest) == Goto(c, IF rest = {} THEN "looping" ELSE "batch")

(* The next task of the batch.                                             *)
Pick(c, t) ==
  /\ pc[c] = "batch" /\ t \in todo[c]
  /\ todo' = [todo EXCEPT ![c] = @ \ {t}]
  /\ UNCHANGED <<intent, results, performed, out, mishaps>>

(* _run_task: the human-authority gate.                                    *)
Suspend(c, t) ==
  /\ Pick(c, t) /\ Gate(t, mem[c][t])
  /\ Save(c, t, [mem[c][t] EXCEPT !.status = "awaiting_approval"])
  /\ NextTask(c, todo[c] \ {t}) /\ UNCHANGED cur

(* No adapter of that name.                                                *)
NoAdapter(c, t) ==
  /\ Pick(c, t) /\ ~Gate(t, mem[c][t]) /\ StepOf(t) \in MayLack
  /\ Save(c, t, [mem[c][t] EXCEPT !.status = "failed"])
  /\ NextTask(c, todo[c] \ {t}) /\ UNCHANGED cur

AttemptOnce(task) == 1          \* variant: attempts are not counted
Attempt(task) == task.attempts + 1

Route(c, t) ==
  /\ Pick(c, t) /\ ~Gate(t, mem[c][t])
  /\ Save(c, t, [mem[c][t] EXCEPT !.status = "running",
                                  !.attempts = Attempt(mem[c][t])])
  /\ cur' = [cur EXCEPT ![c] = t]
  /\ Goto(c, "running")

(* adapter.run: whatever it returns or raises, the work may be done.  What *)
(* it did is counted up to WorkCap, more than the retries allow.           *)
Perform(c) ==
  /\ pc[c] = "running"
  /\ performed' = [performed EXCEPT ![cur[c]] = IF @ < WorkCap THEN @ + 1
                                                               ELSE @]
  /\ \E status \in {"succeeded", "failed"} :
       out' = [out EXCEPT ![c] = status]
  /\ Goto(c, "recording")
  /\ UNCHANGED <<kernel, mem, todo, cur, mishaps>>

RetryAny(t, task) ==            \* variant: side_effect_class is ignored
  task.attempts <= MaxAttempts
RetryForever(t, task) ==        \* variant: no bound on attempts
  StepOf(t) \in SafeToRetry
Retry(t, task) ==
  StepOf(t) \in SafeToRetry /\ task.attempts <= MaxAttempts

Outcome(c, task) ==
  IF out[c] = "succeeded" THEN "succeeded"
  ELSE IF Retry(cur[c], task) THEN "ready" ELSE "failed"

RecordOutcome(c) ==
  /\ pc[c] = "recording"
  /\ LET t == cur[c] IN
     Save(c, t, [mem[c][t] EXCEPT !.status = Outcome(c, mem[c][t])])
  /\ NextTask(c, todo[c])
  /\ UNCHANGED <<intent, results, performed, todo, cur, out, mishaps>>

-----------------------------------------------------------------------------
(* After the loop: suspended, or concluded.                                *)
Settle(c) ==
  /\ pc[c] = "settling"
  /\ IF In(tasks, {"awaiting_approval"}) # {}
       THEN intent' = "executing" /\ Leave(c, "done")
       ELSE Goto(c, "finishing") /\ UNCHANGED <<intent, local>>
  /\ UNCHANGED <<tasks, results, performed, mishaps>>

ResultAny(table) ==            \* variant: one success is a success
  IF In(table, {"succeeded"}) # {} THEN "success" ELSE "failed"

(* _finish *)
ResultOf(table) ==
  IF Saved(table) # {} /\ Saved(table) = In(table, {"succeeded"})
    THEN "success"
  ELSE IF In(table, {"awaiting_approval", "succeeded"}) # {} THEN "partial"
  ELSE "failed"

Finish(c) ==
  /\ pc[c] = "finishing"
  /\ results' = Append(results, ResultOf(tasks))
  /\ out' = [out EXCEPT ![c] = ResultOf(tasks)]
  /\ Goto(c, "closing")
  /\ UNCHANGED <<intent, tasks, performed, mem, todo, cur, mishaps>>

Close(c) ==
  /\ pc[c] = "closing"
  /\ intent' = IF out[c] = "success" THEN "done" ELSE "failed"
  /\ Leave(c, "done")
  /\ UNCHANGED <<tasks, results, performed, mishaps>>

-----------------------------------------------------------------------------
(* approve and deny: _find_task reads the task, and a task that does not   *)
(* await approval is left alone.                                           *)
Find(c, t) ==
  /\ c \notin Runs /\ pc[c] = "idle" /\ MayStart(c)
  /\ t \in In(tasks, {"awaiting_approval"})
  /\ mem' = [mem EXCEPT ![c] = tasks]
  /\ cur' = [cur EXCEPT ![c] = t]
  /\ Goto(c, IF c \in Approvals THEN "approving" ELSE "denying")
  /\ UNCHANGED <<kernel, performed, todo, out, mishaps>>

Approve(c) ==
  /\ pc[c] = "approving"
  /\ LET t == cur[c] IN
     Save(c, t, [mem[c][t] EXCEPT !.status = "ready", !.approved = TRUE])
  /\ Goto(c, "checking")
  /\ UNCHANGED <<intent, results, performed, todo, cur, out, mishaps>>

Deny(c) ==
  /\ pc[c] = "denying"
  /\ LET t == cur[c] IN
     Save(c, t, [mem[c][t] EXCEPT !.status = "aborted"])
  /\ Goto(c, "finishing")
  /\ UNCHANGED <<intent, results, performed, todo, cur, out, mishaps>>

Kill(c) ==
  /\ Live(c) /\ mishaps < MaxMishaps /\ mishaps' = mishaps + 1
  /\ Leave(c, "dead")
  /\ UNCHANGED <<kernel, performed>>

Step(c) ==
  \/ Start(c) \/ Check(c) \/ SavePlanned(c) \/ Execute(c)
  \/ Loop(c) \/ Abort(c)
  \/ \E t \in TaskIds : Suspend(c, t) \/ NoAdapter(c, t) \/ Route(c, t)
  \/ Perform(c) \/ RecordOutcome(c)
  \/ Settle(c) \/ Finish(c) \/ Close(c)
  \/ \E t \in TaskIds : Find(c, t)
  \/ Approve(c) \/ Deny(c)

Next == \E c \in Calls : Step(c) \/ Kill(c)

Spec == Init /\ [][Next]_vars

(* A call that is under way keeps going unless it is killed.               *)
FairSpec == Spec /\ \A c \in Calls : WF_vars(Live(c) /\ Step(c))

-----------------------------------------------------------------------------
(* What is not safe to repeat is done at most once, through kills,         *)
(* repeated runs and approvals: the order is not placed twice.             *)
AtMostOnce ==
  \A s \in Steps \ SafeToRetry :
    Cardinality({t \in TaskIds : StepOf(t) = s /\ performed[t] > 0}) <= 1
      /\ \A t \in TaskIds : StepOf(t) = s => performed[t] <= 1

(* Money does not move without a yes: the work of a task that requires     *)
(* approval is done only if an approval of it has been saved before.       *)
ApprovedFirst ==
  \A t \in TaskIds : performed[t] > 0 /\ StepOf(t) \in NeedsApproval =>
    tasks[t] # NoTask /\ tasks[t].approved

(* Sequence is guaranteed: a task is worked on once all it depends on has  *)
(* succeeded, and that stays so.                                           *)
DependenciesFirst ==
  \A t \in TaskIds : performed[t] > 0 =>
    DependsOn(t) \subseteq In(tasks, {"succeeded"})

(* Running an intent again does not do again what is completed.            *)
CompletedNotRedone ==
  [][\A t \in In(tasks, {"succeeded"}) :
       t \in In(tasks', {"succeeded"}) /\ performed'[t] = performed[t]]_vars

(* A success is no overstatement: each task of the intent has been worked  *)
(* on and has succeeded, and stays so.                                     *)
SuccessIsTrue ==
  \A k \in DOMAIN results : results[k] = "success" =>
    \A t \in Saved(tasks) :
      tasks[t].status = "succeeded" /\ performed[t] > 0

(* Success means that all of the plan was carried out.                     *)
SuccessIsComplete ==
  \A k \in DOMAIN results : results[k] = "success" =>
    \A s \in Steps : \E t \in TaskIds : StepOf(t) = s /\ performed[t] > 0

(* A call ends, whatever the adapters return: retries run out.             *)
CallEnds == \A c \in Calls : Live(c) ~> ~Live(c)
=============================================================================
