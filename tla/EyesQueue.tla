----------------------------- MODULE EyesQueue -----------------------------
(***************************************************************************)
(* The Eyes work queue: scripts/eyes_queue_worker.py (run_batch),          *)
(* scripts/eyes_worker_runtime.py (the run checkpoint) and                 *)
(* scripts/eyes_worker_recovery.py (recover_stale_claims).                 *)
(*                                                                         *)
(* The queue is four directories of JSON files; an item moves by a write   *)
(* to one directory and an unlink from another.  Nothing locks it.  Each   *)
(* file operation is an action, so a kill, or another process, may come    *)
(* between any two of them.  Worker runs and recovery passes are           *)
(* processes; pc names the operation a process is about to perform.        *)
(*                                                                         *)
(* Journal events (append_event), latest.json, attempts, timestamps and    *)
(* last_error are written and never read back by these handlers: they are  *)
(* left out.                                                               *)
(***************************************************************************)
EXTENDS Naturals, FiniteSets

CONSTANTS
  Items,        \* queue items, numbered in the order of _queue_sort_key
  Runs,         \* run ids; begin_run makes a new one for every batch
  Recoverers,   \* processes that run the recover command
  NeedsReview,  \* items whose result has requires_human_review
  BadManifest,  \* items whose manifest cannot be read or is not valid
  MaxItems,     \* --max-items
  Overlap,      \* TRUE: two processes may be alive at once
  TornWrites,   \* TRUE: a kill may leave a half-written file (write_text)
  Faults,       \* operations of the try block that may raise (storage full)
  MaxMishaps,   \* BOUND: kills and faults in a behaviour
  NoFile, Torn, None

ASSUME ItemsAssumption ==
  /\ Items \subseteq Nat
  /\ IsFiniteSet(Items)
  /\ NeedsReview \subseteq Items
  /\ BadManifest \subseteq Items
  /\ MaxItems \in Nat \ {0}
ASSUME ProcessAssumption ==
  /\ Runs \cap Recoverers = {}
  /\ Overlap \in BOOLEAN
  /\ TornWrites \in BOOLEAN
  /\ MaxMishaps \in Nat

Procs == Runs \cup Recoverers
Results == Runs \X Items                 \* <<run, item>>: one result file
Present == "present"                     \* a readable record without links
Done == [result : Results, review : Nat] \* a completed record; review 0: null
Checkpoint ==
  [item : Items \cup {None}, result : Results \cup {None}, review : Nat]
Blank == [item |-> None, result |-> None, review |-> 0]

ASSUME MarkerAssumption ==
  /\ NoFile # Torn /\ NoFile # Present /\ Torn # Present
  /\ {NoFile, Torn} \cap (Runs \cup Done \cup Checkpoint) = {}
  /\ None \notin (Runs \cup Items \cup Results)

VARIABLES
  pending, claimed, completed, failed, \* queue/<dir>/<item>.json
  results,                             \* results/*.json
  reviews,                             \* reviews emitted for each result
  active, archived,                    \* journal/runs/active, other dirs
  ck,                                  \* RunHandle.checkpoint, in memory
  bad,                                 \* failed > 0 in run_batch
  pc, todo, cur,                       \* control, rest of the snapshot, item
  rv,                                  \* review_ref in memory; 0: none
  res,                                 \* recovery's result_ref
  seen,                                \* recovery's snapshot: run_id of a claim
  mishaps

queue   == <<pending, claimed, completed, failed>>
gate    == <<results, reviews>>
journal == <<active, archived, ck, bad>>
local   == <<todo, cur, rv, res, seen>>
vars    == <<queue, gate, journal, pc, local, mishaps>>

TryPCs == {"working", "resulted", "completing", "unclaiming", "emitting",
           "attaching", "flagging", "recording"}
RunPCs == {"idle", "scanning", "next", "claiming", "claimed", "failing",
           "abandoning", "marking", "archiving", "done", "dead"} \cup TryPCs
RecPCs == {"idle", "take", "reemit", "recomplete", "requeue", "release",
           "retire"}

ASSUME FaultAssumption == Faults \subseteq TryPCs

(* What each directory, checkpoint and process variable may hold.          *)
TypeOK ==
  /\ pending \in [Items -> {NoFile, Torn, Present}]
  /\ failed \in [Items -> {NoFile, Torn, Present}]
  /\ claimed \in [Items -> Runs \cup {NoFile, Torn}]
  /\ completed \in [Items -> Done \cup {NoFile, Torn}]
  /\ results \subseteq Results
  /\ reviews \in [Results -> Nat]
  /\ active \in [Runs -> Checkpoint \cup {NoFile, Torn}]
  /\ archived \in [Runs -> SUBSET {"completed", "failed", "recovered"}]
  /\ ck \in [Runs -> Checkpoint]
  /\ bad \in [Runs -> BOOLEAN]
  /\ pc \in [Procs -> RunPCs \cup RecPCs]
  /\ \A r \in Runs : pc[r] \in RunPCs
  /\ \A c \in Recoverers : pc[c] \in RecPCs
  /\ todo \in [Procs -> SUBSET Items]
  /\ cur \in [Procs -> Items \cup {None}]
  /\ rv \in [Procs -> Nat]
  /\ res \in [Recoverers -> Results \cup {None}]
  /\ seen \in [Recoverers -> [Items -> Runs \cup {None}]]
  /\ mishaps \in Nat

-----------------------------------------------------------------------------
Live(p) == pc[p] \notin {"idle", "done", "dead"}

(* Wakeups one at a time is how the job scheduler is meant to drive the    *)
(* lane; the scripts themselves do not enforce it.                         *)
MayStart(p) == Overlap \/ \A q \in Procs \ {p} : ~Live(q)

Goto(p, label) == pc' = [pc EXCEPT ![p] = label]

(* An exception that nothing catches ends the process.                     *)
Die(p) == Goto(p, IF p \in Runs THEN "dead" ELSE "idle")

(* _pending_items(paths)[:max_items]: the first MaxItems readable names.   *)
Batch(S) == {i \in S : Cardinality({j \in S : j < i}) < MaxItems}

Firsts(S) == {i \in S : \A j \in S : i <= j}   \* the next one, if any

(* _persist: the checkpoint goes to runs/active/<run>.json whatever became *)
(* of that file meanwhile.                                                 *)
Persist(r, checkpoint) ==
  /\ ck' = [ck EXCEPT ![r] = checkpoint]
  /\ active' = [active EXCEPT ![r] = checkpoint]
  /\ UNCHANGED <<archived, bad>>

Init ==
  /\ pending = [i \in Items |-> Present]
  /\ failed = [i \in Items |-> NoFile]
  /\ claimed = [i \in Items |-> NoFile]
  /\ completed = [i \in Items |-> NoFile]
  /\ results = {}
  /\ reviews = [x \in Results |-> 0]
  /\ active = [r \in Runs |-> NoFile]
  /\ archived = [r \in Runs |-> {}]
  /\ ck = [r \in Runs |-> Blank]
  /\ bad = [r \in Runs |-> FALSE]
  /\ pc = [p \in Procs |-> "idle"]
  /\ todo = [p \in Procs |-> {}]
  /\ cur = [p \in Procs |-> None]
  /\ rv = [p \in Procs |-> 0]
  /\ res = [c \in Recoverers |-> None]
  /\ seen = [c \in Recoverers |-> [i \in Items |-> None]]
  /\ mishaps = 0

-----------------------------------------------------------------------------
(* run_batch, one action per file operation.                               *)

BeginUnjournaled(r) ==       \* variant: the first checkpoint is not written
  /\ pc[r] = "idle" /\ MayStart(r)
  /\ \E i \in Items : pending[i] # NoFile
  /\ Goto(r, "scanning")
  /\ UNCHANGED <<queue, gate, journal, local, mishaps>>

(* begin_run.  BOUND: a wakeup that finds queue/pending empty is left out; *)
(* it would only write and archive a blank checkpoint.                     *)
Begin(r) ==
  /\ pc[r] = "idle" /\ MayStart(r)
  /\ \E i \in Items : pending[i] # NoFile
  /\ Persist(r, Blank)
  /\ Goto(r, "scanning")
  /\ UNCHANGED <<queue, gate, local, mishaps>>

(* _pending_items reads every pending file; one that does not parse raises *)
(* outside the try block.                                                  *)
Snapshot(r) ==
  /\ pc[r] = "scanning"
  /\ IF \E i \in Items : pending[i] = Torn
       THEN Die(r) /\ UNCHANGED todo
       ELSE /\ todo' = [todo EXCEPT
                          ![r] = Batch({i \in Items : pending[i] = Present})]
            /\ Goto(r, "next")
  /\ UNCHANGED <<queue, gate, journal, cur, rv, res, seen, mishaps>>

ClaimByUnlinkFirst(r) ==     \* variant: unlink the pending file, then write
  /\ pc[r] = "next"
  /\ \E i \in Firsts(todo[r]) :
       /\ cur' = [cur EXCEPT ![r] = i]
       /\ todo' = [todo EXCEPT ![r] = @ \ {i}]
       /\ pending' = [pending EXCEPT ![i] = NoFile]
  /\ Goto(r, "claiming")
  /\ UNCHANGED <<claimed, completed, failed, gate, journal, rv, res, seen,
                 mishaps>>

(* _claim_item: the claimed file is written first ...                      *)
ClaimWrite(r) ==
  /\ pc[r] = "next"
  /\ \E i \in Firsts(todo[r]) :
       /\ cur' = [cur EXCEPT ![r] = i]
       /\ todo' = [todo EXCEPT ![r] = @ \ {i}]
       /\ claimed' = [claimed EXCEPT ![i] = r]
  /\ rv' = [rv EXCEPT ![r] = 0]
  /\ Goto(r, "claiming")
  /\ UNCHANGED <<pending, completed, failed, gate, journal, res, seen, mishaps>>

ClaimUnlinkMissingOk(r) ==   \* variant: unlink(missing_ok=True)
  /\ pc[r] = "claiming"
  /\ pending' = [pending EXCEPT ![cur[r]] = NoFile]
  /\ Goto(r, "claimed")
  /\ UNCHANGED <<claimed, completed, failed, gate, journal, local, mishaps>>

ClaimWithoutUnlink(r) ==     \* variant: the pending file stays
  /\ pc[r] = "claiming"
  /\ Goto(r, "claimed")
  /\ UNCHANGED <<queue, gate, journal, local, mishaps>>

(* ... then the pending file is unlinked; if another process has taken it, *)
(* unlink raises outside the try block.                                    *)
ClaimUnlink(r) ==
  /\ pc[r] = "claiming"
  /\ IF pending[cur[r]] = NoFile
       THEN Die(r) /\ UNCHANGED pending
       ELSE /\ pending' = [pending EXCEPT ![cur[r]] = NoFile]
            /\ Goto(r, "claimed")
  /\ UNCHANGED <<claimed, completed, failed, gate, journal, local, mishaps>>

RecordClaim(r) ==
  /\ pc[r] = "claimed"
  /\ Persist(r, [item |-> cur[r], result |-> None, review |-> 0])
  /\ Goto(r, "working")
  /\ UNCHANGED <<queue, gate, local, mishaps>>

(* _read_json and _validate of the manifest raise: to the except clause.   *)
RejectManifest(r) ==
  /\ pc[r] = "working" /\ cur[r] \in BadManifest
  /\ Goto(r, "failing")
  /\ UNCHANGED <<queue, gate, journal, local, mishaps>>

WriteResult(r) ==
  /\ pc[r] = "working" /\ cur[r] \notin BadManifest
  /\ results' = results \cup {<<r, cur[r]>>}
  /\ Goto(r, "resulted")
  /\ UNCHANGED <<queue, reviews, journal, local, mishaps>>

RecordResultInMemory(r) ==   \* variant: the checkpoint is not persisted
  /\ pc[r] = "resulted"
  /\ ck' = [ck EXCEPT ![r].result = <<r, cur[r]>>]
  /\ Goto(r, "completing")
  /\ UNCHANGED <<queue, gate, active, archived, bad, local, mishaps>>

RecordResult(r) ==
  /\ pc[r] = "resulted"
  /\ Persist(r, [ck[r] EXCEPT !.result = <<r, cur[r]>>])
  /\ Goto(r, "completing")
  /\ UNCHANGED <<queue, gate, local, mishaps>>

(* _complete_item: write queue/completed, then unlink queue/claimed.       *)
CompleteWrite(r) ==
  /\ pc[r] = "completing"
  /\ completed' = [completed EXCEPT
                     ![cur[r]] = [result |-> <<r, cur[r]>>, review |-> 0]]
  /\ Goto(r, "unclaiming")
  /\ UNCHANGED <<pending, claimed, failed, gate, journal, local, mishaps>>

CompleteUnlink(r) ==
  /\ pc[r] = "unclaiming"
  /\ IF claimed[cur[r]] = NoFile
       THEN Goto(r, "failing") /\ UNCHANGED claimed
       ELSE /\ claimed' = [claimed EXCEPT ![cur[r]] = NoFile]
            /\ Goto(r, IF cur[r] \in NeedsReview THEN "emitting"
                                                 ELSE "recording")
  /\ UNCHANGED <<pending, completed, failed, gate, journal, local, mishaps>>

EmitReview(r) ==
  /\ pc[r] = "emitting"
  /\ reviews' = [reviews EXCEPT ![<<r, cur[r]>>] = @ + 1]
  /\ rv' = [rv EXCEPT ![r] = reviews[<<r, cur[r]>>] + 1]
  /\ Goto(r, "attaching")
  /\ UNCHANGED <<queue, results, journal, todo, cur, res, seen, mishaps>>

AttachReviewRef(r) ==
  /\ pc[r] = "attaching"
  /\ completed' = [completed EXCEPT
                     ![cur[r]] = [result |-> <<r, cur[r]>>, review |-> rv[r]]]
  /\ Goto(r, "flagging")
  /\ UNCHANGED <<pending, claimed, failed, gate, journal, local, mishaps>>

RecordReview(r) ==
  /\ pc[r] = "flagging"
  /\ Persist(r, [ck[r] EXCEPT !.review = rv[r]])
  /\ Goto(r, "recording")
  /\ UNCHANGED <<queue, gate, local, mishaps>>

RecordCompletedKeepsLinks(r) == \* variant: current_result_ref is not cleared
  /\ pc[r] = "recording"
  /\ Persist(r, [ck[r] EXCEPT !.item = None])
  /\ Goto(r, "next")
  /\ cur' = [cur EXCEPT ![r] = None]
  /\ UNCHANGED <<queue, gate, todo, rv, res, seen, mishaps>>

RecordItemCompleted(r) ==
  /\ pc[r] = "recording"
  /\ Persist(r, Blank)
  /\ Goto(r, "next")
  /\ cur' = [cur EXCEPT ![r] = None]
  /\ UNCHANGED <<queue, gate, todo, rv, res, seen, mishaps>>

(* The except clause: _fail_item writes queue/failed, then unlinks         *)
(* queue/claimed; a second exception, now outside the try, ends the run.   *)
FailWrite(r) ==
  /\ pc[r] = "failing"
  /\ failed' = [failed EXCEPT ![cur[r]] = Present]
  /\ Goto(r, "abandoning")
  /\ UNCHANGED <<pending, claimed, completed, gate, journal, local, mishaps>>

FailKeepsClaim(r) ==         \* variant: the claimed file stays
  /\ pc[r] = "abandoning"
  /\ Goto(r, "marking")
  /\ UNCHANGED <<queue, gate, journal, local, mishaps>>

FailUnlink(r) ==
  /\ pc[r] = "abandoning"
  /\ IF claimed[cur[r]] = NoFile
       THEN Die(r) /\ UNCHANGED claimed
       ELSE /\ claimed' = [claimed EXCEPT ![cur[r]] = NoFile]
            /\ Goto(r, "marking")
  /\ UNCHANGED <<pending, completed, failed, gate, journal, local, mishaps>>

(* record_item_failed keeps current_queue_item_id and current_result_ref.  *)
RecordItemFailed(r) ==
  /\ pc[r] = "marking"
  /\ active' = [active EXCEPT ![r] = ck[r]]
  /\ bad' = [bad EXCEPT ![r] = TRUE]
  /\ Goto(r, "next")
  /\ cur' = [cur EXCEPT ![r] = None]
  /\ UNCHANGED <<queue, gate, archived, ck, todo, rv, res, seen, mishaps>>

(* finalize_run: persist, then move the checkpoint out of runs/active.     *)
Finalize(r) ==
  /\ pc[r] = "next" /\ todo[r] = {}
  /\ Persist(r, Blank)
  /\ Goto(r, "archiving")
  /\ UNCHANGED <<queue, gate, local, mishaps>>

Archive(r) ==
  /\ pc[r] = "archiving"
  /\ IF active[r] = NoFile
       THEN Die(r) /\ UNCHANGED <<active, archived>>
       ELSE /\ active' = [active EXCEPT ![r] = NoFile]
            /\ archived' = [archived EXCEPT
                    ![r] = @ \cup {IF bad[r] THEN "failed" ELSE "completed"}]
            /\ Goto(r, "done")
  /\ UNCHANGED <<queue, gate, ck, bad, local, mishaps>>

-----------------------------------------------------------------------------
(* recover_stale_claims.  A claim is stale by its age alone, so while      *)
(* processes overlap it may belong to a live but suspended worker.  BOUND: *)
(* a pass that would find nothing stale, or raise on a torn claim,         *)
(* changes nothing and is left out.                                        *)
RecScan(c) ==
  /\ pc[c] = "idle" /\ MayStart(c)
  /\ \A i \in Items : claimed[i] # Torn
  /\ \E stale \in SUBSET {i \in Items : claimed[i] \in Runs} :
       /\ stale # {}
       /\ todo' = [todo EXCEPT ![c] = stale]
       /\ seen' = [seen EXCEPT ![c] =
                     [i \in Items |-> IF i \in stale THEN claimed[i] ELSE None]]
  /\ Goto(c, "take")
  /\ UNCHANGED <<queue, gate, journal, cur, rv, res, mishaps>>

(* The checkpoint of the claim's run supplies result_ref and review_ref    *)
(* (the claimed record itself never has them: pending records carry no     *)
(* result_ref and _claim_item clears review_ref).                          *)
Known(run) == IF active[run] = NoFile THEN Blank ELSE active[run]

RecBranchTrusting(known) == "recomplete"  \* variant: no look at the result
RecBranchRequeue(known) == "requeue"      \* variant: always requeue

RecBranch(known) ==
  IF known.result \notin results THEN "requeue"
  ELSE IF known.result[2] \in NeedsReview /\ known.review = 0 THEN "reemit"
  ELSE "recomplete"

RecTake(c) ==
  /\ pc[c] = "take"
  /\ \E i \in todo[c] :
       /\ cur' = [cur EXCEPT ![c] = i]
       /\ todo' = [todo EXCEPT ![c] = @ \ {i}]
       /\ IF active[seen[c][i]] = Torn      \* json.loads raises
            THEN Die(c) /\ UNCHANGED <<res, rv>>
            ELSE LET known == Known(seen[c][i]) IN
                 /\ res' = [res EXCEPT ![c] = known.result]
                 /\ rv' = [rv EXCEPT ![c] = known.review]
                 /\ Goto(c, RecBranch(known))
  /\ UNCHANGED <<queue, gate, journal, seen, mishaps>>

RecEmit(c) ==
  /\ pc[c] = "reemit"
  /\ reviews' = [reviews EXCEPT ![res[c]] = @ + 1]
  /\ rv' = [rv EXCEPT ![c] = reviews[res[c]] + 1]
  /\ Goto(c, "recomplete")
  /\ UNCHANGED <<queue, results, journal, todo, cur, res, seen, mishaps>>

RecComplete(c) ==
  /\ pc[c] = "recomplete"
  /\ completed' = [completed EXCEPT
                     ![cur[c]] = [result |-> res[c], review |-> rv[c]]]
  /\ Goto(c, "release")
  /\ UNCHANGED <<pending, claimed, failed, gate, journal, local, mishaps>>

RecRequeueUnlinkFirst(c) ==  \* variant: unlink the claim, then write pending
  /\ pc[c] = "requeue"
  /\ IF claimed[cur[c]] # NoFile
       THEN /\ claimed' = [claimed EXCEPT ![cur[c]] = NoFile]
            /\ UNCHANGED <<pending, pc>>
       ELSE /\ pending' = [pending EXCEPT ![cur[c]] = Present]
            /\ Goto(c, "retire")
            /\ UNCHANGED claimed
  /\ UNCHANGED <<completed, failed, gate, journal, local, mishaps>>

RecRequeue(c) ==
  /\ pc[c] = "requeue"
  /\ pending' = [pending EXCEPT ![cur[c]] = Present]
  /\ Goto(c, "release")
  /\ UNCHANGED <<claimed, completed, failed, gate, journal, local, mishaps>>

RecRelease(c) ==
  /\ pc[c] = "release"
  /\ IF claimed[cur[c]] = NoFile
       THEN Die(c) /\ UNCHANGED claimed
       ELSE /\ claimed' = [claimed EXCEPT ![cur[c]] = NoFile]
            /\ Goto(c, "retire")
  /\ UNCHANGED <<pending, completed, failed, gate, journal, local, mishaps>>

(* archive_recovered_run: the run's checkpoint moves to runs/recovered.    *)
RecRetire(c) ==
  /\ pc[c] = "retire"
  /\ LET run == seen[c][cur[c]] IN
     CASE active[run] = NoFile ->
            Goto(c, "take") /\ UNCHANGED <<active, archived>>
       [] active[run] = Torn ->
            Die(c) /\ UNCHANGED <<active, archived>>
       [] OTHER ->
            /\ active' = [active EXCEPT ![run] = NoFile]
            /\ archived' = [archived EXCEPT ![run] = @ \cup {"recovered"}]
            /\ Goto(c, "take")
  /\ UNCHANGED <<queue, gate, ck, bad, local, mishaps>>

RecEnd(c) ==
  /\ pc[c] = "take" /\ todo[c] = {}
  /\ Goto(c, "idle")
  /\ cur' = [cur EXCEPT ![c] = None]
  /\ res' = [res EXCEPT ![c] = None]
  /\ rv' = [rv EXCEPT ![c] = 0]
  /\ seen' = [seen EXCEPT ![c] = [i \in Items |-> None]]
  /\ UNCHANGED <<queue, gate, journal, todo, mishaps>>

-----------------------------------------------------------------------------
(* Mishaps.  BOUND: MaxMishaps of them.                                    *)

Mishap == mishaps < MaxMishaps /\ mishaps' = mishaps + 1

(* Android kills the process (out of memory, phantom process limit).       *)
Kill(p) ==
  /\ Live(p) /\ Mishap
  /\ Die(p)
  /\ UNCHANGED <<queue, gate, journal, local>>

(* The kill comes inside write_text: the file has been truncated.  A torn  *)
(* result or review file is referred to by nothing yet and is left out.    *)
Tear(f, k) == f' = [f EXCEPT ![k] = Torn]

KillMidWrite(p) ==
  /\ TornWrites /\ Live(p) /\ Mishap
  /\ Die(p)
  /\ \/ /\ pc[p] = "next"
        /\ \E i \in Firsts(todo[p]) : Tear(claimed, i)
        /\ UNCHANGED <<pending, completed, failed, active>>
     \/ /\ \/ pc[p] \in {"claimed", "resulted", "flagging", "recording",
                         "marking"}
           \/ pc[p] = "next" /\ todo[p] = {}
        /\ Tear(active, p)
        /\ UNCHANGED queue
     \/ /\ pc[p] \in {"completing", "attaching", "recomplete"}
        /\ Tear(completed, cur[p])
        /\ UNCHANGED <<pending, claimed, failed, active>>
     \/ /\ pc[p] = "failing"
        /\ Tear(failed, cur[p])
        /\ UNCHANGED <<pending, claimed, completed, active>>
     \/ /\ pc[p] = "requeue"
        /\ Tear(pending, cur[p])
        /\ UNCHANGED <<claimed, completed, failed, active>>
     \/ /\ pc[p] = "retire" /\ active[seen[p][cur[p]]] # NoFile
        /\ Tear(active, seen[p][cur[p]])
        /\ UNCHANGED queue
  /\ UNCHANGED <<gate, archived, ck, bad, local>>

(* An operation of the try block raises before its file is touched.        *)
Raise(r) ==
  /\ pc[r] \in Faults /\ Mishap
  /\ Goto(r, "failing")
  /\ UNCHANGED <<queue, gate, journal, local>>

-----------------------------------------------------------------------------
WorkItem(r) ==
  \/ ClaimWrite(r) \/ ClaimUnlink(r) \/ RecordClaim(r)
  \/ RejectManifest(r) \/ WriteResult(r) \/ RecordResult(r)
  \/ CompleteWrite(r) \/ CompleteUnlink(r)
  \/ EmitReview(r) \/ AttachReviewRef(r) \/ RecordReview(r)
  \/ RecordItemCompleted(r)
  \/ FailWrite(r) \/ FailUnlink(r) \/ RecordItemFailed(r)

RunStep(r) ==
  Begin(r) \/ Snapshot(r) \/ WorkItem(r) \/ Finalize(r) \/ Archive(r)

RecStep(c) ==
  \/ RecScan(c) \/ RecTake(c) \/ RecEmit(c) \/ RecComplete(c)
  \/ RecRequeue(c) \/ RecRelease(c) \/ RecRetire(c) \/ RecEnd(c)

Next ==
  \/ \E r \in Runs : RunStep(r) \/ Raise(r)
  \/ \E c \in Recoverers : RecStep(c)
  \/ \E p \in Procs : Kill(p) \/ KillMidWrite(p)

Spec == Init /\ [][Next]_vars

(* Every process keeps going unless it is killed, and both commands are    *)
(* issued again and again: the scheduler wakes the worker, the operator    *)
(* runs recover (nothing in the code schedules it).                        *)
Fairness ==
  /\ \A r \in Runs : WF_vars(RunStep(r))
  /\ \A c \in Recoverers : WF_vars(RecStep(c))

FairSpec == Spec /\ Fairness

-----------------------------------------------------------------------------
Readable(file) == file \notin {NoFile, Torn}

(* An item is never lost: whatever is killed and whenever, some directory  *)
(* of the queue holds an intact record of it.                              *)
ItemRetained ==
  \A i \in Items : \/ Readable(pending[i]) \/ Readable(claimed[i])
                   \/ Readable(completed[i]) \/ Readable(failed[i])

(* Completion is final: an item with a completed record is neither queued  *)
(* again nor recorded as failed, even after recovery has worked on it, as  *)
(* long as one process is alive at a time and no operation raises: an      *)
(* exception after _complete_item (eyes_queue_worker.py:417-451) writes    *)
(* queue/failed for an item that is completed.                             *)
CompletedIsFinal ==
  \A i \in Items : Readable(completed[i]) =>
    pending[i] = NoFile /\ failed[i] = NoFile

(* A completed record points at a result that exists and that was computed *)
(* for this very item, although recovery copies the pointer from the run's *)
(* checkpoint and not from the item.                                       *)
ResultIsOwn ==
  \A i \in Items : Readable(completed[i]) =>
    completed[i].result \in results /\ completed[i].result[2] = i

(* A claim can be reconciled: the checkpoint of the run that holds it is   *)
(* there and can be read, for as long as the claim exists.                 *)
ClaimTraceable ==
  \A i \in Items : Readable(claimed[i]) => Readable(active[claimed[i]])

(* A killed worker leaves no doubt about what had been done: if a claim's  *)
(* run wrote the completed record, its checkpoint names the result.        *)
CheckpointAhead ==
  \A i \in Items : Readable(claimed[i]) /\ Readable(completed[i]) =>
    active[claimed[i]].result = completed[i].result

(* Two workers never process one item: unlink of the pending file lets     *)
(* only one of the runs that claimed it get past _claim_item.              *)
OwnerPCs == {"claimed", "working", "resulted", "completing", "unclaiming"}
Owns(r, i) == pc[r] \in OwnerPCs /\ cur[r] = i
ClaimExclusive ==
  \A r, s \in Runs, i \in Items : Owns(r, i) /\ Owns(s, i) => r = s

(* ... so that an item gets one result, however many runs overlap.         *)
OneResultPerItem == \A x, y \in results : x[2] = y[2] => x = y

(* Once the lane is at rest a completed item that needs a human has asked  *)
(* for one.                                                                *)
ReviewRequested ==
  (\A p \in Procs : ~Live(p)) =>
    \A i \in NeedsReview : Readable(completed[i]) /\ claimed[i] = NoFile =>
      reviews[completed[i].result] > 0

(* A result is put before the operator once.                               *)
OneReviewPerResult == \A x \in Results : reviews[x] <= 1

(* Every item ends in queue/completed or queue/failed and stays there, as  *)
(* long as run ids last: kills are outnumbered by wakeups.                 *)
Settled(i) ==
  /\ pending[i] = NoFile /\ claimed[i] = NoFile
  /\ Readable(completed[i]) \/ Readable(failed[i])
EveryItemSettles == <>[](\A i \in Items : Settled(i))

-----------------------------------------------------------------------------
(* The files implement the item's life of EyesItem: the directories are    *)
(* read in the order that the handlers write them.                         *)
PhaseOf(i) ==
  IF Readable(completed[i]) THEN "completed"
  ELSE IF Readable(failed[i]) THEN "failed"
  ELSE IF Readable(claimed[i]) THEN "claimed"
  ELSE "waiting"

OutcomeOf(i) == IF Readable(completed[i]) THEN completed[i].result ELSE None

ResultsFor(i) == Runs \X {i}

Item == INSTANCE EyesItem WITH
  ResultsOf <- ResultsFor, NoResult <- None,
  phase <- [i \in Items |-> PhaseOf(i)],
  outcome <- [i \in Items |-> OutcomeOf(i)]

(* Whenever a process is killed and whatever recovery does, an item only   *)
(* ever moves as EyesItem lets it: its end is final, its result its own.   *)
ImplementsItem == Item!Spec

=============================================================================
