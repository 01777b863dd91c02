-------------------------- MODULE OrchestraProofs ---------------------------
(***************************************************************************)
(* What the Orchestra Agent guarantees when one call is under way at a     *)
(* time (it is meant to be the sole coordinator), for any plan, any number *)
(* of runs, approvals, denials and kills: no step that is unsafe to repeat *)
(* is done twice, none without its yes or before what it depends on, and a *)
(* success is one.  A call then has in memory what is in the Kernel, which *)
(* is what makes the invariant below inductive.                            *)
(***************************************************************************)
EXTENDS Orchestra, FiniteSetTheorems, TLAPS

Unsafe(t) == StepOf(t) \notin SafeToRetry
Gated(t) == StepOf(t) \in NeedsApproval
Succeeded == In(tasks, {"succeeded"})
Waiting == {"pending", "ready", "awaiting_approval"}

(* What the row of a task tells of the work that has been done on it.      *)
TaskOK(t) ==
  /\ tasks[t] = NoTask => performed[t] = 0
  /\ tasks[t] # NoTask =>
       /\ performed[t] <= tasks[t].attempts
       /\ tasks[t].status \in Waiting =>
            /\ tasks[t].attempts <= MaxAttempts
            /\ Unsafe(t) => performed[t] = 0
       /\ tasks[t].status = "succeeded" => performed[t] > 0
  /\ performed[t] > 0 =>
       /\ Gated(t) => tasks[t].approved
       /\ DependsOn(t) \subseteq Succeeded
       /\ Unsafe(t) => performed[t] = 1

(* All tasks are of the plan of one run. *)
OnePlan == \A t, u \in Saved(tasks) : t[1] = u[1]

SuccessFinal ==
  \A k \in DOMAIN results : results[k] = "success" =>
    Saved(tasks) # {} /\ Saved(tasks) = Succeeded

Tables == (\A t \in TaskIds : TaskOK(t)) /\ OnePlan /\ SuccessFinal

(* What a call under way knows of the tables. *)
InSync(c) == mem[c] = tasks
ReadyNow(t) ==
  /\ t \in In(tasks, {"pending", "ready"})
  /\ DependsOn(t) \subseteq Succeeded
Cleared(t) ==
  /\ t \in In(tasks, {"running"})
  /\ DependsOn(t) \subseteq Succeeded
  /\ Gated(t) => tasks[t].approved

CallOK(c) ==
  /\ pc[c] = "checking" => c \in Runs \/ Saved(tasks) # {}
  /\ pc[c] = "planning" =>
       /\ c \in Runs /\ todo[c] \subseteq {c} \X Steps
       /\ Saved(tasks) \subseteq {c} \X Steps
       /\ todo[c] \cap Saved(tasks) = {}
       /\ \A k \in DOMAIN results : results[k] # "success"
  /\ pc[c] = "aborting" =>
       InSync(c) /\ todo[c] \subseteq In(tasks, {"pending", "ready"})
  /\ pc[c] \in {"batch", "running", "recording"} =>
       InSync(c) /\ \A t \in todo[c] : ReadyNow(t)
  /\ pc[c] \in {"running", "recording"} => Cleared(cur[c])
  /\ pc[c] = "running" =>
       /\ performed[cur[c]] < tasks[cur[c]].attempts
       /\ Unsafe(cur[c]) => performed[cur[c]] = 0
  /\ pc[c] = "recording" => performed[cur[c]] > 0
  /\ pc[c] \in {"approving", "denying"} =>
       InSync(c) /\ cur[c] \in In(tasks, {"awaiting_approval"})

Solo == \A c, d \in Calls : Live(c) /\ Live(d) => c = d

(* TypeOK, but for the bound on performed, which follows from Tables.      *)
Typed ==
  /\ intent \in {"accepted", "planning", "executing", "done", "failed"}
  /\ tasks \in [TaskIds -> Task \cup {NoTask}]
  /\ results \in Seq({"success", "partial", "failed"})
  /\ performed \in [TaskIds -> Nat]
  /\ pc \in [Calls -> PCs]
  /\ mem \in [Calls -> [TaskIds -> Task \cup {NoTask}]]
  /\ todo \in [Calls -> SUBSET TaskIds]
  /\ cur \in [Calls -> TaskIds \cup {None}]
  /\ out \in [Calls -> {"none", "succeeded", "success", "partial", "failed"}]
  /\ mishaps \in Nat

Inv == Typed /\ Tables /\ Solo /\ \A c \in Calls : CallOK(c)

-----------------------------------------------------------------------------
LEMMA StartsInOrder == Init => Inv
  <1> SUFFICES ASSUME Init PROVE Inv
    OBVIOUS
  <1>1. Typed
    BY DEF Init, Typed, Blank, PCs
  <1>2. Saved(tasks) = {}
    BY DEF Init, Saved, Blank
  <1>3. \A t \in TaskIds : TaskOK(t)
    BY DEF Init, TaskOK, Blank
  <1>4. OnePlan /\ SuccessFinal
    BY <1>2 DEF Init, OnePlan, SuccessFinal
  <1>5. Solo /\ \A c \in Calls : CallOK(c)
    BY DEF Init, Solo, Live, CallOK
  <1> QED BY <1>1, <1>3, <1>4, <1>5 DEF Inv, Tables

(* While one call moves, no other is under way, and what those know does   *)
(* not matter.                                                             *)
MovesAlone(c) ==
  /\ Live(c) \/ MayStart(c)
  /\ \E label \in PCs : Goto(c, label)

LEMMA OthersRest ==
  ASSUME Inv, Overlap = FALSE, NEW c \in Calls, MovesAlone(c)
  PROVE  Solo' /\ \A d \in Calls \ {c} : CallOK(d)'
  <1>1. PICK label \in PCs : pc' = [pc EXCEPT ![c] = label]
    BY DEF MovesAlone, Goto
  <1>2. \A d \in Calls \ {c} : ~Live(d)
    BY DEF Inv, Solo, MovesAlone, MayStart
  <1>3. \A d \in Calls \ {c} : pc'[d] \in {"idle", "done", "dead"}
    BY <1>1, <1>2 DEF Inv, Typed, Live
  <1>4. Solo'
    BY <1>3 DEF Solo, Live
  <1>5. \A d \in Calls \ {c} : CallOK(d)'
    BY <1>3 DEF CallOK
  <1> QED BY <1>4, <1>5

(* A save keeps the tables in order if it keeps what is recorded of a task *)
(* that has been worked on; one that has succeeded is not saved again.     *)
MaySave(t, k) ==
  /\ t \in Saved(tasks) /\ tasks[t].status # "succeeded"
  /\ k \in Task
  /\ tasks[t].approved => k.approved
  /\ performed[t] <= k.attempts
  /\ k.status = "succeeded" => performed[t] > 0
  /\ k.status \in Waiting =>
       k.attempts <= MaxAttempts /\ (Unsafe(t) => performed[t] = 0)

LEMMA SaveKeeps ==
  ASSUME Inv, NEW c \in Calls, NEW t, NEW k, MaySave(t, k), InSync(c),
         Save(c, t, k), UNCHANGED <<performed, results>>
  PROVE  /\ Tables' /\ Saved(tasks)' = Saved(tasks)
         /\ Succeeded \subseteq Succeeded'
         /\ InSync(c)'
         /\ tasks' \in [TaskIds -> Task \cup {NoTask}]
         /\ mem' \in [Calls -> [TaskIds -> Task \cup {NoTask}]]
         /\ tasks'[t] = k /\ \A u \in TaskIds \ {t} : tasks'[u] = tasks[u]
         /\ \A u \in TaskIds \ {t} : ReadyNow(u) => ReadyNow(u)'
  <1> USE DEF MaySave
  <1>1. t \in TaskIds /\ tasks[t] # NoTask /\ k # NoTask
    BY TaskMarkerAssumption DEF Saved
  <1>2. tasks'[t] = k /\ \A u \in TaskIds \ {t} : tasks'[u] = tasks[u]
    BY <1>1 DEF Inv, Typed, Save
  <1>3. Saved(tasks)' = Saved(tasks)
    BY <1>1, <1>2 DEF Saved
  <1>4. Succeeded \subseteq Succeeded'
    BY <1>1, <1>2 DEF Succeeded, In, Saved
  <1>5. \A u \in TaskIds : TaskOK(u)'
    <2> SUFFICES ASSUME NEW u \in TaskIds PROVE TaskOK(u)'
      OBVIOUS
    <2>1. TaskOK(u) /\ performed'[u] = performed[u]
      BY DEF Inv, Tables
    <2>2. DependsOn(u)' = DependsOn(u) /\ Unsafe(u)' = Unsafe(u)
          /\ Gated(u)' = Gated(u)
      BY DEF DependsOn, Unsafe, Gated, StepOf
    <2>3. CASE u = t
      BY <1>1, <1>2, <1>4, <2>1, <2>2, <2>3 DEF TaskOK
    <2>4. CASE u # t
      BY <1>2, <1>4, <2>1, <2>2, <2>4 DEF TaskOK
    <2> QED BY <2>3, <2>4
  <1>6. OnePlan'
    BY <1>3 DEF Inv, Tables, OnePlan
  <1>7. SuccessFinal'
    BY <1>1 DEF Inv, Tables, SuccessFinal, Succeeded, In
  <1>8. tasks' \in [TaskIds -> Task \cup {NoTask}] /\ InSync(c)'
        /\ mem' \in [Calls -> [TaskIds -> Task \cup {NoTask}]]
    BY <1>1 DEF Inv, Typed, Save, InSync
  <1>9. \A u \in TaskIds \ {t} : ReadyNow(u) => ReadyNow(u)'
    BY <1>2, <1>3, <1>4 DEF ReadyNow, In, DependsOn, StepOf
  <1> QED BY <1>2, <1>3, <1>4, <1>5, <1>6, <1>7, <1>8, <1>9 DEF Tables

(* A step that leaves tasks, work and results alone keeps the tables.      *)
LEMMA TablesRest ==
  Tables /\ UNCHANGED <<tasks, performed, results>> =>
    Tables' /\ Saved(tasks)' = Saved(tasks) /\ Succeeded' = Succeeded
  BY DEF Tables, TaskOK, OnePlan, SuccessFinal, Saved, Succeeded, In,
         DependsOn, Unsafe, Gated, StepOf

LEMMA CallMoves ==
  ASSUME Inv, Overlap = FALSE, NEW c \in Calls, MovesAlone(c),
         Typed', Tables', CallOK(c)'
  PROVE  Inv'
  BY OthersRest DEF Inv

-----------------------------------------------------------------------------
(* Steps that only read, or change the intent's status. *)
LEMMA StartKeeps ==
  ASSUME Inv, Overlap = FALSE, NEW c \in Calls, Start(c)
  PROVE  Inv'
  <1>1. MovesAlone(c)
    BY DEF Start, MovesAlone, PCs
  <1>2. Typed'
    BY DEF Start, Goto, Inv, Typed, PCs, kernel, local
  <1>3. Tables'
    BY TablesRest DEF Start, Inv, kernel
  <1>4. pc'[c] = "checking"
    BY DEF Start, Goto, Inv, Typed
  <1>5. CallOK(c)'
    BY <1>4 DEF Start, CallOK
  <1> QED BY <1>1, <1>2, <1>3, <1>5, CallMoves

LEMMA CheckKeeps ==
  ASSUME Inv, Overlap = FALSE, NEW c \in Calls, Check(c)
  PROVE  Inv'
  <1>1. MovesAlone(c)
    BY DEF Check, MovesAlone, Live, PCs
  <1>2. Typed'
    <2>1. c \in Runs => {<<c, s>> : s \in Steps} \in SUBSET TaskIds
      BY DEF TaskIds
    <2>2. c \in Runs \/ Saved(tasks) # {}
      BY DEF Check, Inv, CallOK
    <2> QED BY <2>1, <2>2 DEF Check, Goto, Inv, Typed, PCs
  <1>3. Tables' /\ Saved(tasks)' = Saved(tasks)
    BY TablesRest DEF Check, Inv
  <1>4. CASE Saved(tasks) = {}
    <2>1. pc'[c] = "planning" /\ todo'[c] = {<<c, s>> : s \in Steps}
      BY <1>4 DEF Check, Goto, Inv, Typed
    <2>2. c \in Runs
      BY <1>4 DEF Check, Inv, CallOK
    <2>3. \A k \in DOMAIN results' : results'[k] # "success"
      BY <1>4 DEF Check, Inv, Tables, SuccessFinal
    <2>4. CallOK(c)'
      BY <1>3, <1>4, <2>1, <2>2, <2>3 DEF CallOK
    <2> QED BY <1>1, <1>2, <1>3, <2>4, CallMoves
  <1>5. CASE Saved(tasks) # {}
    <2>1. pc'[c] = "executing"
      BY <1>5 DEF Check, Goto, Inv, Typed
    <2>2. CallOK(c)'
      BY <2>1 DEF CallOK
    <2> QED BY <1>1, <1>2, <1>3, <2>2, CallMoves
  <1> QED BY <1>4, <1>5

LEMMA ExecuteKeeps ==
  ASSUME Inv, Overlap = FALSE, NEW c \in Calls, Execute(c)
  PROVE  Inv'
  <1>1. MovesAlone(c)
    BY DEF Execute, MovesAlone, Live, PCs
  <1>2. Typed'
    BY DEF Execute, Goto, Inv, Typed, PCs, local
  <1>3. Tables'
    BY TablesRest DEF Execute, Inv
  <1>4. pc'[c] = "looping"
    BY DEF Execute, Goto, Inv, Typed
  <1>5. CallOK(c)'
    BY <1>4 DEF CallOK
  <1> QED BY <1>1, <1>2, <1>3, <1>5, CallMoves

LEMMA LoopKeeps ==
  ASSUME Inv, Overlap = FALSE, NEW c \in Calls, Loop(c)
  PROVE  Inv'
  <1> DEFINE stuck == IF Saved(tasks) = In(tasks, Terminal)
                           \/ In(tasks, {"awaiting_approval"}) # {}
                        THEN {} ELSE In(tasks, {"pending", "ready"})
             batch == Ready(tasks)
  <1>1. MovesAlone(c)
    BY DEF Loop, MovesAlone, Live, PCs
  <1>2. batch \in SUBSET TaskIds /\ stuck \in SUBSET TaskIds
    BY DEF Ready, In, Saved
  <1>3. /\ mem' = [mem EXCEPT ![c] = tasks]
        /\ todo' = [todo EXCEPT ![c] = IF batch # {} THEN batch ELSE stuck]
        /\ pc' = [pc EXCEPT ![c] = IF batch # {} THEN "batch"
                              ELSE IF stuck # {} THEN "aborting" ELSE "settling"]
        /\ UNCHANGED <<intent, tasks, results, performed, cur, out, mishaps>>
    BY DEF Loop, Goto, kernel
  <1>4. \A t \in batch : ReadyNow(t)
    BY DEF Ready, ReadyNow, Succeeded
  <1>5. stuck \subseteq In(tasks, {"pending", "ready"})
    OBVIOUS
  <1> HIDE DEF batch, stuck
  <1>6. Typed'
    BY <1>2, <1>3 DEF Inv, Typed, PCs
  <1>7. Tables'
    BY <1>3, TablesRest DEF Inv
  <1>8. /\ mem'[c] = tasks'
        /\ pc'[c] = "batch" => todo'[c] = batch
        /\ pc'[c] = "aborting" => todo'[c] = stuck
        /\ pc'[c] \in {"batch", "aborting", "settling"}
    BY <1>3 DEF Inv, Typed
  <1>9. \A t : ReadyNow(t) => ReadyNow(t)'
    BY <1>3 DEF ReadyNow, In, Saved, Succeeded, DependsOn, StepOf
  <1>10. In(tasks, {"pending", "ready"})' = In(tasks, {"pending", "ready"})
    BY <1>3 DEF In, Saved
  <1>11. CallOK(c)'
    BY <1>4, <1>5, <1>8, <1>9, <1>10 DEF CallOK, InSync
  <1> QED BY <1>1, <1>6, <1>7, <1>11, CallMoves

LEMMA FindKeeps ==
  ASSUME Inv, Overlap = FALSE, NEW c \in Calls, NEW t \in TaskIds, Find(c, t)
  PROVE  Inv'
  <1>1. MovesAlone(c)
    BY DEF Find, MovesAlone, PCs
  <1>2. Typed'
    BY DEF Find, Goto, Inv, Typed, PCs, kernel
  <1>3. Tables'
    BY TablesRest DEF Find, Inv, kernel
  <1>4. /\ pc'[c] \in {"approving", "denying"}
        /\ mem'[c] = tasks' /\ cur'[c] = t
        /\ t \in In(tasks, {"awaiting_approval"})'
    BY DEF Find, Goto, Inv, Typed, kernel, In, Saved
  <1>5. CallOK(c)'
    BY <1>4 DEF CallOK, InSync
  <1> QED BY <1>1, <1>2, <1>3, <1>5, CallMoves

(* The end of a call: concluded, suspended or killed. *)
LEMMA LeaveTypes ==
  ASSUME Typed, NEW c \in Calls, NEW label \in {"done", "dead"},
         Leave(c, label)
  PROVE  /\ pc' \in [Calls -> PCs] /\ pc'[c] = label
         /\ mem' \in [Calls -> [TaskIds -> Task \cup {NoTask}]]
         /\ todo' \in [Calls -> SUBSET TaskIds]
         /\ cur' \in [Calls -> TaskIds \cup {None}]
         /\ out' \in [Calls -> {"none", "succeeded", "success", "partial",
                                "failed"}]
  BY DEF Leave, Goto, Typed, PCs, Blank

LEMMA EndKeeps ==
  ASSUME Inv, Overlap = FALSE, NEW c \in Calls, Settle(c) \/ Close(c) \/ Kill(c)
  PROVE  Inv'
  <1>1. MovesAlone(c)
    BY DEF Settle, Close, Kill, Leave, Goto, MovesAlone, Live, PCs
  <1>2. UNCHANGED <<tasks, results, performed>>
    BY DEF Settle, Close, Kill, kernel
  <1>3. CASE Leave(c, "done") \/ Leave(c, "dead")
    <2>1. PICK label \in {"done", "dead"} : Leave(c, label)
      BY <1>3
    <2>2. Typed'
      BY <1>2, <2>1, LeaveTypes
      DEF Inv, Typed, Settle, Close, Kill, kernel
    <2>3. CallOK(c)'
      BY <2>1, LeaveTypes DEF Inv, CallOK
    <2> QED BY <1>1, <1>2, <2>2, <2>3, TablesRest, CallMoves DEF Inv
  <1>4. CASE Settle(c) /\ Goto(c, "finishing") /\ UNCHANGED <<intent, local>>
    <2>1. Typed' /\ pc'[c] = "finishing"
      BY <1>2, <1>4 DEF Settle, Goto, Inv, Typed, PCs, local
    <2>2. CallOK(c)'
      BY <2>1 DEF CallOK
    <2> QED BY <1>1, <1>2, <2>1, <2>2, TablesRest, CallMoves DEF Inv
  <1> QED BY <1>3, <1>4 DEF Settle, Close, Kill

(* A result called success is one, and a plan with a success has no task   *)
(* left to be saved.                                                       *)
LEMMA FinishKeeps ==
  ASSUME Inv, Overlap = FALSE, NEW c \in Calls, Finish(c)
  PROVE  Inv'
  <1> DEFINE verdict == ResultOf(tasks)
  <1>1. MovesAlone(c)
    BY DEF Finish, MovesAlone, Live, PCs
  <1>2. verdict \in {"success", "partial", "failed"}
    BY DEF ResultOf
  <1>3. verdict = "success" => Saved(tasks) # {} /\ Saved(tasks) = Succeeded
    BY DEF ResultOf, Succeeded
  <1>4. /\ results' = Append(results, verdict)
        /\ out' = [out EXCEPT ![c] = verdict]
        /\ pc' = [pc EXCEPT ![c] = "closing"]
        /\ UNCHANGED <<intent, tasks, performed, mem, todo, cur, mishaps>>
    BY DEF Finish, Goto
  <1> HIDE DEF verdict
  <1>5. Typed'
    BY <1>2, <1>4 DEF Inv, Typed, PCs
  <1>6. /\ Saved(tasks)' = Saved(tasks) /\ Succeeded' = Succeeded
        /\ \A t \in TaskIds : TaskOK(t)'
        /\ OnePlan'
    BY <1>4 DEF Inv, Tables, TaskOK, OnePlan, Saved, Succeeded, In,
                DependsOn, Unsafe, Gated, StepOf
  <1>7. SuccessFinal'
    <2> SUFFICES ASSUME NEW k \in DOMAIN results', results'[k] = "success"
                 PROVE  Saved(tasks) # {} /\ Saved(tasks) = Succeeded
      BY <1>6 DEF SuccessFinal
    <2>1. results \in Seq({"success", "partial", "failed"})
      BY DEF Inv, Typed
    <2>2. \/ k \in DOMAIN results /\ results'[k] = results[k]
          \/ results'[k] = verdict
      BY <1>2, <1>4, <2>1
    <2> QED BY <1>3, <2>2 DEF Inv, Tables, SuccessFinal
  <1>8. pc'[c] = "closing"
    BY <1>4 DEF Inv, Typed
  <1>9. CallOK(c)'
    BY <1>8 DEF CallOK
  <1> QED BY <1>1, <1>5, <1>6, <1>7, <1>9, CallMoves DEF Tables

-----------------------------------------------------------------------------
(* The adapter's work: what is cleared may be done, and is counted.        *)
LEMMA PerformKeeps ==
  ASSUME Inv, Overlap = FALSE, NEW c \in Calls, Perform(c)
  PROVE  Inv'
  <1>1. MovesAlone(c)
    BY DEF Perform, MovesAlone, Live, PCs
  <1>2. Cleared(cur[c])
    BY DEF Perform, Inv, CallOK
  <1>3. PICK t \in TaskIds : t = cur[c]
    BY <1>2 DEF Cleared, In, Saved
  <1>4. /\ Cleared(t) /\ InSync(c) /\ \A u \in todo[c] : ReadyNow(u)
        /\ performed[t] < tasks[t].attempts
        /\ Unsafe(t) => performed[t] = 0
    BY <1>2, <1>3 DEF Perform, Inv, CallOK
  <1>5. tasks[t] \in Task /\ tasks[t].status = "running"
    BY <1>4 DEF Cleared, In, Saved, Inv, Typed
  <1>6. performed[t] \in Nat /\ tasks[t].attempts \in 0 .. MaxAttempts + 1
    BY <1>3, <1>5 DEF Inv, Typed, Task
  <1>7. performed[t] < WorkCap
    BY <1>4, <1>6, OrchestraAssumption DEF WorkCap
  <1>8. performed' = [performed EXCEPT ![t] = performed[t] + 1]
    BY <1>3, <1>7 DEF Perform
  <1>9. /\ pc' = [pc EXCEPT ![c] = "recording"]
        /\ \E s \in {"succeeded", "failed"} : out' = [out EXCEPT ![c] = s]
        /\ UNCHANGED <<intent, tasks, results, mem, todo, cur, mishaps>>
    BY DEF Perform, Goto, kernel
  <1>10. Typed'
    BY <1>3, <1>6, <1>8, <1>9 DEF Inv, Typed, PCs
  <1>11. /\ Succeeded' = Succeeded /\ Saved(tasks)' = Saved(tasks)
         /\ \A u : ReadyNow(u) => ReadyNow(u)'
         /\ \A u : Cleared(u) => Cleared(u)'
    BY <1>9 DEF Succeeded, In, Saved, ReadyNow, Cleared, DependsOn, Gated,
                StepOf
  <1>12. \A u \in TaskIds : TaskOK(u)'
    <2> SUFFICES ASSUME NEW u \in TaskIds PROVE TaskOK(u)'
      OBVIOUS
    <2>1. TaskOK(u)
      BY DEF Inv, Tables
    <2>2. CASE u # t
      <3>1. performed'[u] = performed[u]
        BY <1>3, <1>8, <2>2 DEF Inv, Typed
      <3> QED BY <1>9, <1>11, <2>1, <3>1
           DEF TaskOK, DependsOn, Unsafe, Gated, StepOf
    <2>3. CASE u = t
      <3>1. performed'[t] = performed[t] + 1
        BY <1>3, <1>8 DEF Inv, Typed
      <3>2. tasks[t] # NoTask
        BY <1>5, TaskMarkerAssumption
      <3>3. (Gated(t) => tasks[t].approved) /\ DependsOn(t) \subseteq Succeeded
        BY <1>4 DEF Cleared
      <3> QED BY <1>4, <1>5, <1>6, <1>9, <1>11, <2>3, <3>1, <3>2, <3>3
           DEF TaskOK, Waiting, DependsOn, Unsafe, Gated, StepOf
    <2> QED BY <2>2, <2>3
  <1>13. OnePlan' /\ SuccessFinal'
    BY <1>9, <1>11 DEF Inv, Tables, OnePlan, SuccessFinal
  <1>14. pc'[c] = "recording" /\ cur'[c] = t /\ mem'[c] = mem[c]
         /\ todo'[c] = todo[c] /\ performed'[t] > 0
    BY <1>3, <1>6, <1>8, <1>9 DEF Inv, Typed
  <1>15. CallOK(c)'
    BY <1>4, <1>9, <1>11, <1>14 DEF CallOK, InSync
  <1> QED BY <1>1, <1>10, <1>12, <1>13, <1>15, CallMoves DEF Tables

-----------------------------------------------------------------------------
(* Steps that save a task. *)
LEMMA AbortKeeps ==
  ASSUME Inv, Overlap = FALSE, NEW c \in Calls, Abort(c)
  PROVE  Inv'
  <1>1. MovesAlone(c)
    BY DEF Abort, MovesAlone, Live, PCs
  <1>2. InSync(c) /\ todo[c] \subseteq In(tasks, {"pending", "ready"})
    BY DEF Abort, Inv, CallOK
  <1>3. PICK t \in todo[c] :
          /\ Save(c, t, [mem[c][t] EXCEPT !.status = "aborted"])
          /\ todo' = [todo EXCEPT ![c] = @ \ {t}]
          /\ Goto(c, IF todo[c] = {t} THEN "settling" ELSE "aborting")
    BY DEF Abort
  <1>K. PICK k : k = [tasks[t] EXCEPT !.status = "aborted"]
    OBVIOUS
  <1>4. t \in TaskIds /\ t \in Saved(tasks) /\ tasks[t] \in Task
        /\ tasks[t].status \in {"pending", "ready"} /\ TaskOK(t)
    BY <1>2 DEF In, Saved, Inv, Typed, Tables
  <1>5. Save(c, t, k)
    BY <1>2, <1>3, <1>K DEF InSync
  <1>6. MaySave(t, k)
    <2>1. /\ k \in Task /\ k.status = "aborted"
          /\ k.attempts = tasks[t].attempts /\ k.approved = tasks[t].approved
      BY <1>4, <1>K DEF Task, Statuses, Terminal
    <2>2. performed[t] <= tasks[t].attempts
      BY <1>4 DEF TaskOK, Saved
    <2> QED BY <1>4, <2>1, <2>2 DEF MaySave, Waiting
  <1>7. UNCHANGED <<intent, performed, results, cur, out, mishaps>>
    BY DEF Abort
  <1>8. /\ pc'[c] \in {"settling", "aborting"} /\ pc' \in [Calls -> PCs]
        /\ todo'[c] = todo[c] \ {t} /\ todo' \in [Calls -> SUBSET TaskIds]
    BY <1>3 DEF Inv, Typed, Goto, PCs
  <1>9. Typed'
    BY <1>2, <1>5, <1>6, <1>7, <1>8, SaveKeeps DEF Inv, Typed
  <1>10. Tables' /\ InSync(c)' /\ Saved(tasks)' = Saved(tasks)
         /\ \A u \in TaskIds \ {t} : tasks'[u] = tasks[u]
    BY <1>2, <1>5, <1>6, <1>7, SaveKeeps
  <1>11. todo'[c] \subseteq In(tasks, {"pending", "ready"})'
    BY <1>2, <1>8, <1>10 DEF In, Saved
  <1>12. CallOK(c)'
    BY <1>8, <1>10, <1>11 DEF CallOK
  <1> QED BY <1>1, <1>9, <1>10, <1>12, CallMoves

(* Where a batch is left with a task settled, the rest of it is still      *)
(* ready.                                                                  *)
LEMMA BatchGoesOn ==
  ASSUME Inv, Overlap = FALSE, NEW c \in Calls, NEW t \in TaskIds,
         NEW k \in Task,
         pc[c] \in {"batch", "recording"}, MaySave(t, k), Save(c, t, k),
         NextTask(c, todo[c] \ {t}), todo' = [todo EXCEPT ![c] = @ \ {t}],
         UNCHANGED <<intent, results, performed, cur, out, mishaps>>
  PROVE  Inv'
  <1>1. MovesAlone(c)
    BY DEF NextTask, MovesAlone, Live, PCs
  <1>2. InSync(c) /\ \A u \in todo[c] : ReadyNow(u)
    BY DEF Inv, CallOK
  <1>3. /\ pc'[c] \in {"looping", "batch"} /\ pc' \in [Calls -> PCs]
        /\ todo'[c] = todo[c] \ {t} /\ todo' \in [Calls -> SUBSET TaskIds]
    BY DEF NextTask, Goto, Inv, Typed, PCs
  <1>4. Typed'
    BY <1>2, <1>3, SaveKeeps DEF Inv, Typed
  <1>5. Tables' /\ InSync(c)'
        /\ \A u \in TaskIds \ {t} : ReadyNow(u) => ReadyNow(u)'
    BY <1>2, SaveKeeps
  <1>6. \A u \in todo'[c] : ReadyNow(u)'
    BY <1>2, <1>3, <1>5 DEF Inv, Typed
  <1>7. CallOK(c)'
    BY <1>3, <1>5, <1>6 DEF CallOK
  <1> QED BY <1>1, <1>4, <1>5, <1>7, CallMoves

LEMMA SetAsideKeeps ==
  ASSUME Inv, Overlap = FALSE, NEW c \in Calls, NEW t \in TaskIds,
         Suspend(c, t) \/ NoAdapter(c, t)
  PROVE  Inv'
  <1>1. pc[c] = "batch" /\ t \in todo[c]
    BY DEF Suspend, NoAdapter, Pick
  <1>2. InSync(c) /\ ReadyNow(t)
    BY <1>1 DEF Inv, CallOK
  <1>3. t \in Saved(tasks) /\ tasks[t] \in Task /\ tasks[t] # NoTask
        /\ tasks[t].status \in {"pending", "ready"} /\ TaskOK(t)
    BY <1>2 DEF ReadyNow, In, Saved, Inv, Typed, Tables
  <1>4. PICK status \in {"awaiting_approval", "failed"} :
          Save(c, t, [tasks[t] EXCEPT !.status = status])
    BY <1>2 DEF Suspend, NoAdapter, InSync
  <1>K. PICK k : k = [tasks[t] EXCEPT !.status = status]
    OBVIOUS
  <1>5. /\ k \in Task /\ k.status = status
        /\ k.attempts = tasks[t].attempts /\ k.approved = tasks[t].approved
    BY <1>3, <1>K DEF Task, Statuses, Terminal
  <1>6. Save(c, t, k)
    BY <1>4, <1>K
  <1>7. MaySave(t, k)
    BY <1>3, <1>5 DEF MaySave, Waiting, TaskOK
  <1>8. /\ NextTask(c, todo[c] \ {t}) /\ todo' = [todo EXCEPT ![c] = @ \ {t}]
        /\ UNCHANGED <<intent, results, performed, cur, out, mishaps>>
    BY DEF Suspend, NoAdapter, Pick
  <1>9. UNCHANGED <<intent, results, performed, cur, out, mishaps>>
        /\ pc[c] \in {"batch", "recording"}
    BY <1>1, <1>8
  <1> QED BY <1>5, <1>6, <1>7, <1>8, <1>9, BatchGoesOn

LEMMA RouteKeeps ==
  ASSUME Inv, Overlap = FALSE, NEW c \in Calls, NEW t \in TaskIds, Route(c, t)
  PROVE  Inv'
  <1>1. pc[c] = "batch" /\ t \in todo[c] /\ ~Gate(t, mem[c][t])
        /\ todo' = [todo EXCEPT ![c] = @ \ {t}]
        /\ UNCHANGED <<intent, results, performed, out, mishaps>>
        /\ cur' = [cur EXCEPT ![c] = t] /\ pc' = [pc EXCEPT ![c] = "running"]
    BY DEF Route, Pick, Goto
  <1>2. MovesAlone(c)
    BY <1>1 DEF Route, MovesAlone, Live, PCs
  <1>3. InSync(c) /\ ReadyNow(t) /\ \A u \in todo[c] : ReadyNow(u)
    BY <1>1 DEF Inv, CallOK
  <1>4. t \in Saved(tasks) /\ tasks[t] \in Task /\ tasks[t] # NoTask
        /\ tasks[t].status \in {"pending", "ready"} /\ TaskOK(t)
    BY <1>3 DEF ReadyNow, In, Saved, Inv, Typed, Tables
  <1>5. /\ performed[t] <= tasks[t].attempts
        /\ tasks[t].attempts <= MaxAttempts
        /\ Unsafe(t) => performed[t] = 0
    BY <1>4 DEF TaskOK, Waiting
  <1>6. PICK k : k = [tasks[t] EXCEPT !.status = "running",
                                      !.attempts = tasks[t].attempts + 1]
    OBVIOUS
  <1>7. /\ tasks[t].attempts \in Nat /\ performed[t] \in Nat
        /\ MaxAttempts \in Nat
    BY <1>4, OrchestraAssumption DEF Task, Inv, Typed
  <1>8. /\ k \in Task /\ k.status = "running"
        /\ k.attempts = tasks[t].attempts + 1 /\ k.approved = tasks[t].approved
    <2>1. tasks[t].attempts + 1 \in 0 .. MaxAttempts + 1
      BY <1>5, <1>7
    <2>2. k \in Task
      BY <1>4, <1>6, <2>1 DEF Task, Statuses, Terminal
    <2> QED BY <1>4, <1>6, <2>2 DEF Task
  <1>9. Save(c, t, k)
    BY <1>3, <1>6 DEF Route, Attempt, InSync
  <1>10. MaySave(t, k)
    BY <1>4, <1>5, <1>7, <1>8 DEF MaySave, Waiting
  <1>11. /\ pc'[c] = "running" /\ pc' \in [Calls -> PCs]
         /\ cur'[c] = t /\ cur' \in [Calls -> TaskIds \cup {None}]
         /\ todo'[c] = todo[c] \ {t} /\ todo' \in [Calls -> SUBSET TaskIds]
    BY <1>1 DEF Inv, Typed, PCs
  <1>12. Typed'
    BY <1>1, <1>3, <1>9, <1>10, <1>11, SaveKeeps DEF Inv, Typed
  <1>13. Tables' /\ InSync(c)' /\ Saved(tasks)' = Saved(tasks)
         /\ Succeeded \subseteq Succeeded' /\ tasks'[t] = k
         /\ \A u \in TaskIds \ {t} : ReadyNow(u) => ReadyNow(u)'
    BY <1>1, <1>3, <1>9, <1>10, SaveKeeps
  <1>14. \A u \in todo'[c] : ReadyNow(u)'
    BY <1>3, <1>11, <1>13 DEF Inv, Typed
  <1>15. t \in In(tasks, {"running"})'
    BY <1>4, <1>8, <1>13 DEF In
  <1>16. DependsOn(t) \subseteq Succeeded'
    BY <1>3, <1>13 DEF ReadyNow
  <1>17. Gated(t) => tasks'[t].approved
    BY <1>1, <1>3, <1>8, <1>13 DEF Gate, Gated, InSync
  <1>18. performed'[t] < tasks'[t].attempts
    BY <1>1, <1>5, <1>7, <1>8, <1>13
  <1>19. Unsafe(t) => performed'[t] = 0
    BY <1>1, <1>5
  <1>20. Cleared(cur[c])'
    BY <1>11, <1>15, <1>16, <1>17 DEF Cleared, DependsOn, Gated, StepOf
  <1>21. CallOK(c)'
    BY <1>11, <1>13, <1>14, <1>18, <1>19, <1>20 DEF CallOK, Unsafe, StepOf
  <1> QED BY <1>2, <1>12, <1>13, <1>21, CallMoves

LEMMA RecordKeeps ==
  ASSUME Inv, Overlap = FALSE, NEW c \in Calls, RecordOutcome(c)
  PROVE  Inv'
  <1>1. Cleared(cur[c]) /\ pc[c] = "recording"
    BY DEF RecordOutcome, Inv, CallOK
  <1>2. PICK t \in TaskIds : t = cur[c]
    BY <1>1 DEF Cleared, In, Saved
  <1>3. /\ Cleared(t) /\ InSync(c) /\ \A u \in todo[c] : ReadyNow(u)
        /\ performed[t] > 0
    BY <1>1, <1>2 DEF Inv, CallOK
  <1>4. t \in Saved(tasks) /\ tasks[t] \in Task /\ tasks[t] # NoTask
        /\ tasks[t].status = "running" /\ TaskOK(t)
    BY <1>3 DEF Cleared, In, Saved, Inv, Typed, Tables
  <1>5. PICK status : status = Outcome(c, tasks[t])
    OBVIOUS
  <1>6. PICK k : k = [tasks[t] EXCEPT !.status = status]
    OBVIOUS
  <1>7. Save(c, t, k)
    BY <1>2, <1>3, <1>5, <1>6 DEF RecordOutcome, InSync
  <1>8. /\ status \in {"succeeded", "ready", "failed"}
        /\ status = "ready" => ~Unsafe(t) /\ tasks[t].attempts <= MaxAttempts
    BY <1>2, <1>5 DEF Outcome, Retry, Unsafe
  <1>9. /\ k \in Task /\ k.status = status
        /\ k.attempts = tasks[t].attempts /\ k.approved = tasks[t].approved
    BY <1>4, <1>6, <1>8 DEF Task, Statuses, Terminal
  <1>10. MaySave(t, k)
    BY <1>3, <1>4, <1>8, <1>9 DEF MaySave, Waiting, TaskOK
  <1>11. t \notin todo[c]
    BY <1>3, <1>4 DEF ReadyNow, In
  <1>12. todo[c] \ {t} = todo[c]
    BY <1>11
  <1>13. todo' = [todo EXCEPT ![c] = @ \ {t}]
    BY <1>12 DEF RecordOutcome, Inv, Typed
  <1>14. /\ NextTask(c, todo[c] \ {t}) /\ pc[c] \in {"batch", "recording"}
         /\ UNCHANGED <<intent, results, performed, cur, out, mishaps>>
    BY <1>1, <1>12 DEF RecordOutcome
  <1> QED BY <1>7, <1>9, <1>10, <1>13, <1>14, BatchGoesOn

LEMMA AnswerKeeps ==
  ASSUME Inv, Overlap = FALSE, NEW c \in Calls, Approve(c) \/ Deny(c)
  PROVE  Inv'
  <1>1. MovesAlone(c)
    BY DEF Approve, Deny, MovesAlone, Live, PCs
  <1>2. InSync(c) /\ cur[c] \in In(tasks, {"awaiting_approval"})
    BY DEF Approve, Deny, Inv, CallOK
  <1>3. PICK t \in TaskIds : t = cur[c]
    BY <1>2 DEF In, Saved
  <1>4. t \in Saved(tasks) /\ tasks[t] \in Task /\ tasks[t] # NoTask
        /\ tasks[t].status = "awaiting_approval" /\ TaskOK(t)
    BY <1>2, <1>3 DEF In, Saved, Inv, Typed, Tables
  <1>5. PICK k \in Task : Save(c, t, k) /\ k.status \in {"ready", "aborted"}
               /\ k.attempts = tasks[t].attempts
               /\ (tasks[t].approved => k.approved)
    <2>1. CASE Approve(c)
      <3>1. PICK k : k = [tasks[t] EXCEPT !.status = "ready", !.approved = TRUE]
        OBVIOUS
      <3>2. Save(c, t, k)
        BY <1>2, <1>3, <2>1, <3>1 DEF Approve, InSync
      <3>3. /\ k \in Task /\ k.status = "ready" /\ k.approved
            /\ k.attempts = tasks[t].attempts
        BY <1>4, <3>1 DEF Task, Statuses, Terminal
      <3> QED BY <3>2, <3>3
    <2>2. CASE Deny(c)
      <3>1. PICK k : k = [tasks[t] EXCEPT !.status = "aborted"]
        OBVIOUS
      <3>2. Save(c, t, k)
        BY <1>2, <1>3, <2>2, <3>1 DEF Deny, InSync
      <3>3. /\ k \in Task /\ k.status = "aborted"
            /\ k.approved = tasks[t].approved
            /\ k.attempts = tasks[t].attempts
        BY <1>4, <3>1 DEF Task, Statuses, Terminal
      <3> QED BY <3>2, <3>3
    <2> QED BY <2>1, <2>2
  <1>6. MaySave(t, k)
    BY <1>4, <1>5 DEF MaySave, Waiting, TaskOK
  <1>7. /\ pc'[c] \in {"checking", "finishing"} /\ pc' \in [Calls -> PCs]
        /\ UNCHANGED <<intent, results, performed, todo, cur, out, mishaps>>
    BY DEF Approve, Deny, Goto, Inv, Typed, PCs
  <1>8. Typed'
    BY <1>2, <1>5, <1>6, <1>7, SaveKeeps DEF Inv, Typed
  <1>9. Tables' /\ Saved(tasks)' # {}
    BY <1>2, <1>4, <1>5, <1>6, <1>7, SaveKeeps
  <1>10. CallOK(c)'
    BY <1>7, <1>9 DEF CallOK
  <1> QED BY <1>1, <1>8, <1>9, <1>10, CallMoves

(* A task of the plan is saved for the first time.  There is no success    *)
(* yet that it could make untrue.                                          *)
LEMMA SavePlannedKeeps ==
  ASSUME Inv, Overlap = FALSE, NEW c \in Calls, SavePlanned(c)
  PROVE  Inv'
  <1>1. MovesAlone(c)
    BY DEF SavePlanned, MovesAlone, Live, PCs
  <1>2. /\ c \in Runs /\ todo[c] \subseteq {c} \X Steps
        /\ Saved(tasks) \subseteq {c} \X Steps
        /\ todo[c] \cap Saved(tasks) = {}
        /\ \A k \in DOMAIN results : results[k] # "success"
    BY DEF SavePlanned, Inv, CallOK
  <1>3. PICK t \in todo[c] :
          /\ Save(c, t, NewTask)
          /\ todo' = [todo EXCEPT ![c] = @ \ {t}]
          /\ Goto(c, IF todo[c] = {t} THEN "executing" ELSE "planning")
    BY DEF SavePlanned
  <1>4. UNCHANGED <<intent, results, performed, cur, out, mishaps>>
    BY DEF SavePlanned
  <1>5. t \in TaskIds /\ tasks[t] = NoTask /\ t[1] = c
    BY <1>2 DEF Saved, TaskIds
  <1>6. NewTask \in Task /\ NewTask # NoTask
        /\ NewTask.status = "pending" /\ NewTask.attempts = 0
    <2>1. 0 \in 0 .. MaxAttempts + 1
      BY OrchestraAssumption
    <2>2. NewTask \in Task
      BY <2>1 DEF NewTask, Task, Statuses, Terminal
    <2> QED BY <2>2, TaskMarkerAssumption DEF NewTask
  <1>7. tasks'[t] = NewTask /\ \A u \in TaskIds \ {t} : tasks'[u] = tasks[u]
    BY <1>3, <1>5 DEF Save, Inv, Typed
  <1>8. /\ pc'[c] \in {"executing", "planning"} /\ pc' \in [Calls -> PCs]
        /\ todo'[c] = todo[c] \ {t} /\ todo' \in [Calls -> SUBSET TaskIds]
    BY <1>3 DEF Inv, Typed, Goto, PCs
  <1>9. Typed'
    BY <1>3, <1>4, <1>5, <1>6, <1>8 DEF Inv, Typed, Save
  <1>10. Saved(tasks)' = Saved(tasks) \cup {t}
    BY <1>5, <1>6, <1>7 DEF Saved
  <1>11. Succeeded \subseteq Succeeded'
    BY <1>5, <1>7, <1>10 DEF Succeeded, In, Saved
  <1>12. \A u \in TaskIds : TaskOK(u)'
    <2> SUFFICES ASSUME NEW u \in TaskIds PROVE TaskOK(u)'
      OBVIOUS
    <2>1. TaskOK(u) /\ performed'[u] = performed[u]
      BY <1>4 DEF Inv, Tables
    <2>2. DependsOn(u)' = DependsOn(u) /\ Unsafe(u)' = Unsafe(u)
          /\ Gated(u)' = Gated(u)
      BY DEF DependsOn, Unsafe, Gated, StepOf
    <2>3. CASE u = t
      <3>1. performed[t] = 0
        BY <1>5, <2>1, <2>3 DEF TaskOK
      <3> QED BY <1>5, <1>6, <1>7, <2>1, <2>3, <3>1, OrchestraAssumption
           DEF TaskOK
    <2>4. CASE u # t
      BY <1>7, <1>11, <2>1, <2>2, <2>4 DEF TaskOK
    <2> QED BY <2>3, <2>4
  <1>13. Saved(tasks)' \subseteq {c} \X Steps
    BY <1>2, <1>10
  <1>14. OnePlan'
    BY <1>13 DEF OnePlan
  <1>15. SuccessFinal'
    BY <1>2, <1>4 DEF SuccessFinal
  <1>16. todo'[c] \cap Saved(tasks)' = {} /\ todo'[c] \subseteq {c} \X Steps
    BY <1>2, <1>8, <1>10
  <1>17. CallOK(c)'
    BY <1>2, <1>4, <1>8, <1>13, <1>16 DEF CallOK
  <1> QED BY <1>1, <1>9, <1>12, <1>14, <1>15, <1>17, CallMoves DEF Tables

-----------------------------------------------------------------------------
LEMMA StepKeeps ==
  ASSUME Inv, Overlap = FALSE, [Next]_vars
  PROVE  Inv'
  <1>1. CASE UNCHANGED vars
    <2>1. /\ UNCHANGED <<intent, tasks, results, performed, pc, mem, todo, cur>>
          /\ UNCHANGED <<out, mishaps>>
      BY <1>1 DEF vars, kernel, local
    <2>2. Typed' /\ Solo'
      BY <2>1 DEF Inv, Typed, Solo, Live
    <2>3. Tables'
      BY <2>1, TablesRest DEF Inv
    <2>4. \A c \in Calls : CallOK(c)'
      BY <2>1 DEF Inv, CallOK, InSync, ReadyNow, Cleared, In, Saved, Succeeded,
                  DependsOn, Unsafe, Gated, StepOf
    <2> QED BY <2>2, <2>3, <2>4 DEF Inv
  <1>2. CASE Next
    <2>1. PICK c \in Calls : Step(c) \/ Kill(c)
      BY <1>2 DEF Next
    <2> QED BY <2>1, StartKeeps, CheckKeeps, SavePlannedKeeps, ExecuteKeeps,
               LoopKeeps, AbortKeeps, SetAsideKeeps, RouteKeeps, PerformKeeps,
               RecordKeeps, EndKeeps, FinishKeeps, FindKeeps, AnswerKeeps
        DEF Step
  <1> QED BY <1>1, <1>2

(* The invariant says what is promised: two tasks of the same step, of one *)
(* plan, are the same task.                                                *)
LEMMA InvPromises ==
  ASSUME Inv
  PROVE  TypeOK /\ AtMostOnce /\ ApprovedFirst /\ DependenciesFirst
           /\ SuccessIsTrue
  <1>1. \A t \in TaskIds : performed[t] \in Nat /\ TaskOK(t)
    BY DEF Inv, Typed, Tables
  <1>2. \A t \in TaskIds : performed[t] > 0 => tasks[t] # NoTask
    BY <1>1 DEF TaskOK
  <1>3. TypeOK
    <2> SUFFICES ASSUME NEW t \in TaskIds PROVE performed[t] \in 0 .. WorkCap - 1
      BY DEF Inv, Typed, TypeOK
    <2>1. MaxAttempts \in Nat /\ WorkCap - 1 = MaxAttempts + 1
      BY OrchestraAssumption DEF WorkCap
    <2>2. CASE tasks[t] = NoTask
      BY <1>1, <2>1, <2>2 DEF TaskOK
    <2>3. CASE tasks[t] # NoTask
      <3>1. tasks[t] \in Task
        BY <2>3 DEF Inv, Typed
      <3>2. tasks[t].attempts \in 0 .. MaxAttempts + 1
        BY <3>1 DEF Task
      <3>3. performed[t] <= tasks[t].attempts
        BY <1>1, <2>3 DEF TaskOK
      <3> QED BY <1>1, <2>1, <3>2, <3>3
    <2> QED BY <2>2, <2>3
  <1>4. AtMostOnce
    <2> SUFFICES ASSUME NEW s \in Steps \ SafeToRetry
                 PROVE  /\ Cardinality({t \in TaskIds : StepOf(t) = s
                                                       /\ performed[t] > 0}) <= 1
                        /\ \A t \in TaskIds : StepOf(t) = s => performed[t] <= 1
      BY DEF AtMostOnce
    <2> DEFINE done == {t \in TaskIds : StepOf(t) = s /\ performed[t] > 0}
    <2>1. \A t, u \in done : t = u
      BY <1>2 DEF Inv, Tables, OnePlan, Saved, StepOf, TaskIds
    <2>2. Cardinality(done) <= 1
      <3>1. CASE done = {}
        BY <3>1, FS_EmptySet
      <3>2. CASE done # {}
        <4>1. PICK t \in done : TRUE
          BY <3>2
        <4>2. done = {t}
          BY <2>1, <4>1
        <4>3. Cardinality({t}) = 1
          BY FS_Singleton
        <4> HIDE DEF done
        <4> QED BY <4>2, <4>3
      <3> QED BY <3>1, <3>2
    <2>3. \A t \in TaskIds : StepOf(t) = s => performed[t] <= 1
      BY <1>1 DEF TaskOK, Unsafe
    <2> QED BY <2>2, <2>3
  <1>5. ApprovedFirst /\ DependenciesFirst
    BY <1>1, <1>2 DEF ApprovedFirst, DependenciesFirst, TaskOK, Gated, Succeeded
  <1>6. SuccessIsTrue
    <2> SUFFICES ASSUME NEW k \in DOMAIN results, results[k] = "success",
                        NEW t \in Saved(tasks)
                 PROVE  tasks[t].status = "succeeded" /\ performed[t] > 0
      BY DEF SuccessIsTrue
    <2>1. t \in Succeeded
      BY DEF Inv, Tables, SuccessFinal
    <2>2. t \in TaskIds /\ tasks[t] # NoTask /\ tasks[t].status = "succeeded"
      BY <2>1 DEF Succeeded, In, Saved
    <2> QED BY <1>1, <2>2 DEF TaskOK
  <1> QED BY <1>3, <1>4, <1>5, <1>6

LEMMA AlwaysInv ==
  ASSUME Overlap = FALSE
  PROVE  Spec => []Inv
  <1>1. Inv /\ [Next]_vars => Inv'
    BY StepKeeps
  <1> QED BY <1>1, StartsInOrder, PTL DEF Spec

(* Neither what is saved nor what is worked on has succeeded before.       *)
LEMMA SucceededStays ==
  ASSUME Inv, [Next]_vars, NEW t \in Succeeded
  PROVE  t \in Succeeded' /\ performed'[t] = performed[t]
  <1>1. t \in TaskIds /\ tasks[t] # NoTask /\ tasks[t].status = "succeeded"
        /\ performed[t] \in Nat
    BY DEF Succeeded, In, Saved, Inv, Typed
  <1>2. SUFFICES tasks'[t] = tasks[t] /\ performed'[t] = performed[t]
    BY <1>1 DEF Succeeded, In, Saved
  <1>3. CASE UNCHANGED <<tasks, performed>>
    BY <1>3
  <1>4. ASSUME NEW c \in Calls, NEW u, NEW k, Save(c, u, k), u # t,
               UNCHANGED performed
        PROVE  tasks'[t] = tasks[t] /\ performed'[t] = performed[t]
    BY <1>1, <1>4 DEF Save, Inv, Typed
  <1>5. ASSUME NEW c \in Calls, SavePlanned(c)
        PROVE  tasks'[t] = tasks[t] /\ performed'[t] = performed[t]
    <2>1. PICK u \in todo[c] : Save(c, u, NewTask)
      BY <1>5 DEF SavePlanned
    <2>2. u # t /\ UNCHANGED performed
      BY <1>1, <1>5 DEF SavePlanned, Inv, CallOK, Saved
    <2> QED BY <1>4, <2>1, <2>2
  <1>6. ASSUME NEW c \in Calls, Abort(c)
        PROVE  tasks'[t] = tasks[t] /\ performed'[t] = performed[t]
    <2>1. PICK u \in todo[c] :
            Save(c, u, [mem[c][u] EXCEPT !.status = "aborted"])
      BY <1>6 DEF Abort
    <2>2. u # t /\ UNCHANGED performed
      BY <1>1, <1>6 DEF Abort, Inv, CallOK, In
    <2> QED BY <1>4, <2>1, <2>2
  <1>7. ASSUME NEW c \in Calls, NEW u \in TaskIds,
               Suspend(c, u) \/ NoAdapter(c, u) \/ Route(c, u)
        PROVE  tasks'[t] = tasks[t] /\ performed'[t] = performed[t]
    <2>1. \E k : Save(c, u, k)
      BY <1>7 DEF Suspend, NoAdapter, Route
    <2>2. u # t /\ UNCHANGED performed
      BY <1>1, <1>7 DEF Suspend, NoAdapter, Route, Pick, Inv, CallOK, ReadyNow,
                        In
    <2> QED BY <1>4, <2>1, <2>2
  <1>8. ASSUME NEW c \in Calls, Perform(c)
        PROVE  tasks'[t] = tasks[t] /\ performed'[t] = performed[t]
    <2>1. cur[c] # t
      BY <1>1, <1>8 DEF Perform, Inv, CallOK, Cleared, In
    <2> QED BY <1>1, <1>8, <2>1 DEF Perform, kernel, Inv, Typed
  <1>9. ASSUME NEW c \in Calls, RecordOutcome(c) \/ Approve(c) \/ Deny(c)
        PROVE  tasks'[t] = tasks[t] /\ performed'[t] = performed[t]
    <2>1. \E k : Save(c, cur[c], k)
      BY <1>9 DEF RecordOutcome, Approve, Deny
    <2>2. cur[c] # t /\ UNCHANGED performed
      BY <1>1, <1>9 DEF RecordOutcome, Approve, Deny, Inv, CallOK, Cleared, In
    <2> QED BY <1>4, <2>1, <2>2
  <1>10. CASE Next
    <2>1. PICK c \in Calls : Step(c) \/ Kill(c)
      BY <1>10 DEF Next
    <2>2. CASE Start(c) \/ Check(c) \/ Execute(c) \/ Loop(c) \/ Settle(c)
               \/ Finish(c) \/ Close(c) \/ (\E u \in TaskIds : Find(c, u))
               \/ Kill(c)
      BY <1>3, <2>2 DEF Start, Check, Execute, Loop, Settle, Finish, Close,
                        Find, Kill, kernel
    <2> QED BY <1>5, <1>6, <1>7, <1>8, <1>9, <2>1, <2>2 DEF Step
  <1> QED BY <1>3, <1>10 DEF vars, kernel

(* The tables keep to their schemas, and no task is worked on more often   *)
(* than its policy, and one more time, allows (_run_task, resume).         *)
THEOREM OrchestraTyped == Overlap = FALSE => (Spec => []TypeOK)
  <1> SUFFICES ASSUME Overlap = FALSE PROVE Spec => []TypeOK
    OBVIOUS
  <1> QED BY AlwaysInv, InvPromises, PTL

(* A step whose side effect must not be repeated is done at most once      *)
(* through runs, resumptions, approvals and kills: run does not plan again *)
(* what has a plan, and what was interrupted at work is not taken up.      *)
THEOREM NothingTwice == Overlap = FALSE => (Spec => []AtMostOnce)
  <1> SUFFICES ASSUME Overlap = FALSE PROVE Spec => []AtMostOnce
    OBVIOUS
  <1> QED BY AlwaysInv, InvPromises, PTL

(* The human-authority gate of _run_task holds however calls are killed.   *)
THEOREM GateHolds == Overlap = FALSE => (Spec => []ApprovedFirst)
  <1> SUFFICES ASSUME Overlap = FALSE PROVE Spec => []ApprovedFirst
    OBVIOUS
  <1> QED BY AlwaysInv, InvPromises, PTL

(* _ready_tasks lets a task be worked on once its dependencies are done.   *)
THEOREM InSequence == Overlap = FALSE => (Spec => []DependenciesFirst)
  <1> SUFFICES ASSUME Overlap = FALSE PROVE Spec => []DependenciesFirst
    OBVIOUS
  <1> QED BY AlwaysInv, InvPromises, PTL

(* _finish calls a success only what is, now and later.                    *)
THEOREM SuccessHolds == Overlap = FALSE => (Spec => []SuccessIsTrue)
  <1> SUFFICES ASSUME Overlap = FALSE PROVE Spec => []SuccessIsTrue
    OBVIOUS
  <1> QED BY AlwaysInv, InvPromises, PTL

(* What has succeeded is not saved again and not done again, whoever runs, *)
(* approves or denies.                                                     *)
THEOREM CompletedStays == Overlap = FALSE => (Spec => CompletedNotRedone)
  <1> SUFFICES ASSUME Overlap = FALSE PROVE Spec => CompletedNotRedone
    OBVIOUS
  <1>1. Inv /\ [Next]_vars =>
          [\A t \in In(tasks, {"succeeded"}) :
             t \in In(tasks', {"succeeded"}) /\ performed'[t] = performed[t]]_vars
    BY SucceededStays DEF Succeeded, In, Saved
  <1> QED BY <1>1, AlwaysInv, PTL DEF Spec, CompletedNotRedone
=============================================================================
