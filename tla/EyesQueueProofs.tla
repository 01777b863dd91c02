-------------------------- MODULE EyesQueueProofs --------------------------
(***************************************************************************)
(* Proofs about EyesQueue, for any items, runs, recoverers and bounds:     *)
(* what holds of overlapping wakeups, that no item is lost when they do    *)
(* not overlap, and that the directories implement the life of an item     *)
(* that EyesItem describes.                                                *)
(***************************************************************************)
EXTENDS EyesQueue, TLAPS

BusyPCs == TryPCs \cup {"claiming", "claimed", "failing", "abandoning",
                        "marking"}
RecBusyPCs == {"reemit", "recomplete", "requeue", "release", "retire"}

(* What the typing of the files needs to know of the control state.        *)
ControlOK ==
  /\ \A r \in Runs : pc[r] \in BusyPCs => cur[r] \in Items
  /\ \A c \in Recoverers :
       /\ pc[c] # "idle" => \A i \in todo[c] : seen[c][i] \in Runs
       /\ pc[c] \in RecBusyPCs =>
            cur[c] \in Items /\ seen[c][cur[c]] \in Runs
       /\ pc[c] \in {"reemit", "recomplete"} => res[c] \in Results

Typed == TypeOK /\ ControlOK

(* The types, and what a program counter says of cur, hold at the start.   *)
LEMMA TypedInit == Init => Typed
  <1> SUFFICES ASSUME Init PROVE Typed
    OBVIOUS
  <1>1. TypeOK
    BY ProcessAssumption
    DEF Init, TypeOK, Procs, RunPCs, RecPCs, TryPCs, Checkpoint, Blank
  <1>2. ControlOK
    BY DEF Init, ControlOK, Procs, BusyPCs, RecBusyPCs, TryPCs
  <1> QED
    BY <1>1, <1>2 DEF Typed

(* Setting a field of a checkpoint gives a checkpoint.                     *)
LEMMA CheckpointUpdate ==
  ASSUME NEW k \in Checkpoint
  PROVE  /\ \A x \in Results : [k EXCEPT !.result = x] \in Checkpoint
         /\ \A n \in Nat : [k EXCEPT !.review = n] \in Checkpoint
  BY DEF Checkpoint

(* Every step of a worker run, of recovery and every mishap keeps the      *)
(* types.                                                                  *)
LEMMA TypedStep == Typed /\ [Next]_vars => Typed'
  <1> SUFFICES ASSUME Typed, [Next]_vars PROVE Typed'
    OBVIOUS
  <1> USE ProcessAssumption, FaultAssumption
      DEF Typed, TypeOK, ControlOK, Procs, Goto, Persist, RunPCs, RecPCs,
          TryPCs, BusyPCs, RecBusyPCs, queue, gate, journal, local,
          Checkpoint, Blank, Done, Results
  <1>0. /\ \A r \in Runs : Die(r) => pc' = [pc EXCEPT ![r] = "dead"]
        /\ \A c \in Recoverers : Die(c) => pc' = [pc EXCEPT ![c] = "idle"]
    BY DEF Die
  <1>1. ASSUME NEW r \in Runs, Begin(r) PROVE Typed'
    BY <1>1, MarkerAssumption DEF Begin
  <1>2. ASSUME NEW r \in Runs, Snapshot(r) PROVE Typed'
    <2>1. CASE \E i \in Items : pending[i] = Torn
      <3>1. /\ pc' = [pc EXCEPT ![r] = "dead"]
            /\ UNCHANGED todo
        BY <1>2, <1>0, <2>1, MarkerAssumption DEF Snapshot
      <3>2. TypeOK'
        BY <1>2, <3>1 DEF Snapshot
      <3>3. ControlOK'
        BY <1>2, <3>1 DEF Snapshot
      <3> QED
        BY <3>2, <3>3
    <2>2. CASE ~(\E i \in Items : pending[i] = Torn)
      <3>1. /\ todo' = [todo EXCEPT
                       ![r] = Batch({i \in Items : pending[i] = Present})]
            /\ pc' = [pc EXCEPT ![r] = "next"]
        BY <1>2, <1>0, <2>2, MarkerAssumption DEF Snapshot
      <3>2. TypeOK'
        BY <1>2, <3>1 DEF Snapshot, Batch
      <3>3. ControlOK'
        BY <1>2, <3>1 DEF Snapshot, Batch
      <3> QED
        BY <3>2, <3>3
    <2> QED
      BY <2>1, <2>2
  <1>3. ASSUME NEW r \in Runs, ClaimWrite(r) PROVE Typed'
    <2> PICK i \in Firsts(todo[r]) :
            /\ cur' = [cur EXCEPT ![r] = i]
            /\ todo' = [todo EXCEPT ![r] = @ \ {i}]
            /\ claimed' = [claimed EXCEPT ![i] = r]
      BY <1>3 DEF ClaimWrite
    <2>1. i \in Items
      BY DEF Firsts
    <2> QED
      BY <1>3, <2>1 DEF ClaimWrite
  <1>4. ASSUME NEW r \in Runs, ClaimUnlink(r) PROVE Typed'
    <2>1. CASE pending[cur[r]] = NoFile
      <3>1. /\ pc' = [pc EXCEPT ![r] = "dead"]
            /\ UNCHANGED pending
        BY <1>4, <1>0, <2>1, MarkerAssumption DEF ClaimUnlink
      <3>2. TypeOK'
        BY <1>4, <3>1 DEF ClaimUnlink
      <3>3. ControlOK'
        BY <1>4, <3>1 DEF ClaimUnlink
      <3> QED
        BY <3>2, <3>3
    <2>2. CASE pending[cur[r]] # NoFile
      <3>1. /\ pending' = [pending EXCEPT ![cur[r]] = NoFile]
            /\ pc' = [pc EXCEPT ![r] = "claimed"]
        BY <1>4, <1>0, <2>2, MarkerAssumption DEF ClaimUnlink
      <3>2. TypeOK'
        BY <1>4, <3>1 DEF ClaimUnlink
      <3>3. ControlOK'
        BY <1>4, <3>1 DEF ClaimUnlink
      <3> QED
        BY <3>2, <3>3
    <2> QED
      BY <2>1, <2>2
  <1>5. ASSUME NEW r \in Runs, RecordClaim(r) PROVE Typed'
    BY <1>5, MarkerAssumption DEF RecordClaim
  <1>6. ASSUME NEW r \in Runs, RejectManifest(r) PROVE Typed'
    BY <1>6, MarkerAssumption DEF RejectManifest
  <1>7. ASSUME NEW r \in Runs, WriteResult(r) PROVE Typed'
    BY <1>7, MarkerAssumption DEF WriteResult
  <1>8. ASSUME NEW r \in Runs, RecordResult(r) PROVE Typed'
    BY <1>8, CheckpointUpdate, MarkerAssumption DEF RecordResult
  <1>9. ASSUME NEW r \in Runs, CompleteWrite(r) PROVE Typed'
    BY <1>9, MarkerAssumption DEF CompleteWrite
  <1>10. ASSUME NEW r \in Runs, CompleteUnlink(r) PROVE Typed'
    <2>1. CASE claimed[cur[r]] = NoFile
      <3>1. /\ UNCHANGED claimed
            /\ pc' = [pc EXCEPT ![r] = "failing"]
        BY <1>10, <1>0, <2>1, MarkerAssumption DEF CompleteUnlink
      <3>2. TypeOK'
        BY <1>10, <3>1 DEF CompleteUnlink
      <3>3. ControlOK'
        BY <1>10, <3>1 DEF CompleteUnlink
      <3> QED
        BY <3>2, <3>3
    <2>2. CASE claimed[cur[r]] # NoFile
      <3>1. /\ claimed' = [claimed EXCEPT ![cur[r]] = NoFile]
            /\ \E l \in {"emitting", "recording"} : pc' = [pc EXCEPT ![r] = l]
        BY <1>10, <1>0, <2>2, MarkerAssumption DEF CompleteUnlink
      <3>2. TypeOK'
        BY <1>10, <3>1 DEF CompleteUnlink
      <3>3. ControlOK'
        BY <1>10, <3>1 DEF CompleteUnlink
      <3> QED
        BY <3>2, <3>3
    <2> QED
      BY <2>1, <2>2
  <1>11. ASSUME NEW r \in Runs, EmitReview(r) PROVE Typed'
    BY <1>11, MarkerAssumption DEF EmitReview
  <1>12. ASSUME NEW r \in Runs, AttachReviewRef(r) PROVE Typed'
    BY <1>12, MarkerAssumption DEF AttachReviewRef
  <1>13. ASSUME NEW r \in Runs, RecordReview(r) PROVE Typed'
    BY <1>13, CheckpointUpdate, MarkerAssumption DEF RecordReview
  <1>14. ASSUME NEW r \in Runs, RecordItemCompleted(r) PROVE Typed'
    BY <1>14, MarkerAssumption DEF RecordItemCompleted
  <1>15. ASSUME NEW r \in Runs, FailWrite(r) PROVE Typed'
    BY <1>15, MarkerAssumption DEF FailWrite
  <1>16. ASSUME NEW r \in Runs, FailUnlink(r) PROVE Typed'
    <2>1. CASE claimed[cur[r]] = NoFile
      <3>1. /\ pc' = [pc EXCEPT ![r] = "dead"]
            /\ UNCHANGED claimed
        BY <1>16, <1>0, <2>1, MarkerAssumption DEF FailUnlink
      <3>2. TypeOK'
        BY <1>16, <3>1 DEF FailUnlink
      <3>3. ControlOK'
        BY <1>16, <3>1 DEF FailUnlink
      <3> QED
        BY <3>2, <3>3
    <2>2. CASE claimed[cur[r]] # NoFile
      <3>1. /\ claimed' = [claimed EXCEPT ![cur[r]] = NoFile]
            /\ pc' = [pc EXCEPT ![r] = "marking"]
        BY <1>16, <1>0, <2>2, MarkerAssumption DEF FailUnlink
      <3>2. TypeOK'
        BY <1>16, <3>1 DEF FailUnlink
      <3>3. ControlOK'
        BY <1>16, <3>1 DEF FailUnlink
      <3> QED
        BY <3>2, <3>3
    <2> QED
      BY <2>1, <2>2
  <1>17. ASSUME NEW r \in Runs, RecordItemFailed(r) PROVE Typed'
    BY <1>17, MarkerAssumption DEF RecordItemFailed
  <1>18. ASSUME NEW r \in Runs, Finalize(r) PROVE Typed'
    BY <1>18, MarkerAssumption DEF Finalize
  <1>19. ASSUME NEW r \in Runs, Archive(r) PROVE Typed'
    <2>1. CASE active[r] = NoFile
      <3>1. /\ pc' = [pc EXCEPT ![r] = "dead"]
            /\ UNCHANGED <<active, archived>>
        BY <1>19, <1>0, <2>1, MarkerAssumption DEF Archive
      <3>2. TypeOK'
        BY <1>19, <3>1 DEF Archive
      <3>3. ControlOK'
        BY <1>19, <3>1 DEF Archive
      <3> QED
        BY <3>2, <3>3
    <2>2. CASE active[r] # NoFile
      <3>1. /\ active' = [active EXCEPT ![r] = NoFile]
            /\ \E d \in {"failed", "completed"} :
                 archived' = [archived EXCEPT ![r] = @ \cup {d}]
            /\ pc' = [pc EXCEPT ![r] = "done"]
        BY <1>19, <1>0, <2>2, MarkerAssumption DEF Archive
      <3>2. TypeOK'
        BY <1>19, <3>1 DEF Archive
      <3>3. ControlOK'
        BY <1>19, <3>1 DEF Archive
      <3> QED
        BY <3>2, <3>3
    <2> QED
      BY <2>1, <2>2
  <1>20. ASSUME NEW r \in Runs, Raise(r) PROVE Typed'
    BY <1>20, MarkerAssumption DEF Raise, Mishap
  <1>21. ASSUME NEW c \in Recoverers, RecScan(c) PROVE Typed'
    BY <1>21, MarkerAssumption DEF RecScan
  <1>22. ASSUME NEW c \in Recoverers, RecTake(c) PROVE Typed'
    <2> PICK i \in todo[c] :
            /\ cur' = [cur EXCEPT ![c] = i]
            /\ todo' = [todo EXCEPT ![c] = @ \ {i}]
            /\ IF active[seen[c][i]] = Torn
                 THEN Die(c) /\ UNCHANGED <<res, rv>>
                 ELSE LET known == Known(seen[c][i]) IN
                      /\ res' = [res EXCEPT ![c] = known.result]
                      /\ rv' = [rv EXCEPT ![c] = known.review]
                      /\ Goto(c, RecBranch(known))
      BY <1>22 DEF RecTake
    <2>1. CASE active[seen[c][i]] = Torn
      <3>1. UNCHANGED <<res, rv>> /\ pc' = [pc EXCEPT ![c] = "idle"]
        BY <1>0, <2>1
      <3>2. TypeOK'
        BY <1>22, <3>1 DEF RecTake
      <3>3. ControlOK'
        BY <1>22, <3>1 DEF RecTake
      <3> QED
        BY <3>2, <3>3
    <2>2. CASE active[seen[c][i]] # Torn
      <3> DEFINE known == Known(seen[c][i])
      <3>1. /\ res' = [res EXCEPT ![c] = known.result]
            /\ rv' = [rv EXCEPT ![c] = known.review]
            /\ pc' = [pc EXCEPT ![c] = RecBranch(known)]
        BY <2>2
      <3>0. seen[c][i] \in Runs
        BY <1>22 DEF RecTake
      <3>2. known \in Checkpoint
        BY <2>2, <3>0 DEF Known
      <3>3. /\ RecBranch(known) \in {"requeue", "reemit", "recomplete"}
            /\ RecBranch(known) # "requeue" => known.result \in Results
        BY DEF RecBranch
      <3> HIDE DEF known
      <3>4. TypeOK'
        BY <1>22, <3>1, <3>2, <3>3 DEF RecTake
      <3>5. ControlOK'
        BY <1>22, <3>1, <3>2, <3>3 DEF RecTake
      <3> QED
        BY <3>4, <3>5
    <2> QED
      BY <2>1, <2>2
  <1>23. ASSUME NEW c \in Recoverers, RecEmit(c) PROVE Typed'
    BY <1>23, MarkerAssumption DEF RecEmit
  <1>24. ASSUME NEW c \in Recoverers, RecComplete(c) PROVE Typed'
    BY <1>24, MarkerAssumption DEF RecComplete
  <1>25. ASSUME NEW c \in Recoverers, RecRequeue(c) PROVE Typed'
    BY <1>25, MarkerAssumption DEF RecRequeue
  <1>26. ASSUME NEW c \in Recoverers, RecRelease(c) PROVE Typed'
    <2>1. CASE claimed[cur[c]] = NoFile
      <3>1. /\ pc' = [pc EXCEPT ![c] = "idle"]
            /\ UNCHANGED claimed
        BY <1>26, <1>0, <2>1, MarkerAssumption DEF RecRelease
      <3>2. TypeOK'
        BY <1>26, <3>1 DEF RecRelease
      <3>3. ControlOK'
        BY <1>26, <3>1 DEF RecRelease
      <3> QED
        BY <3>2, <3>3
    <2>2. CASE claimed[cur[c]] # NoFile
      <3>1. /\ claimed' = [claimed EXCEPT ![cur[c]] = NoFile]
            /\ pc' = [pc EXCEPT ![c] = "retire"]
        BY <1>26, <1>0, <2>2, MarkerAssumption DEF RecRelease
      <3>2. TypeOK'
        BY <1>26, <3>1 DEF RecRelease
      <3>3. ControlOK'
        BY <1>26, <3>1 DEF RecRelease
      <3> QED
        BY <3>2, <3>3
    <2> QED
      BY <2>1, <2>2
  <1>27. ASSUME NEW c \in Recoverers, RecRetire(c) PROVE Typed'
    <2> DEFINE run == seen[c][cur[c]]
    <2>1. CASE active[run] = NoFile
      <3>1. /\ UNCHANGED <<active, archived>>
            /\ pc' = [pc EXCEPT ![c] = "take"]
        BY <1>27, <1>0, <2>1, MarkerAssumption DEF RecRetire
      <3>2. TypeOK'
        BY <1>27, <3>1 DEF RecRetire
      <3>3. ControlOK'
        BY <1>27, <3>1 DEF RecRetire
      <3> QED
        BY <3>2, <3>3
    <2>2. CASE active[run] = Torn
      <3>1. /\ UNCHANGED <<active, archived>>
            /\ pc' = [pc EXCEPT ![c] = "idle"]
        BY <1>27, <1>0, <2>2, MarkerAssumption DEF RecRetire
      <3>2. TypeOK'
        BY <1>27, <3>1 DEF RecRetire
      <3>3. ControlOK'
        BY <1>27, <3>1 DEF RecRetire
      <3> QED
        BY <3>2, <3>3
    <2>3. CASE active[run] \notin {NoFile, Torn}
      <3>1. /\ active' = [active EXCEPT ![run] = NoFile]
            /\ archived' = [archived EXCEPT ![run] = @ \cup {"recovered"}]
            /\ pc' = [pc EXCEPT ![c] = "take"]
        BY <1>27, <1>0, <2>3, MarkerAssumption DEF RecRetire
      <3>2. TypeOK'
        BY <1>27, <3>1 DEF RecRetire
      <3>3. ControlOK'
        BY <1>27, <3>1 DEF RecRetire
      <3> QED
        BY <3>2, <3>3
    <2> QED
      BY <2>1, <2>2, <2>3
  <1>28. ASSUME NEW c \in Recoverers, RecEnd(c) PROVE Typed'
    BY <1>28, MarkerAssumption DEF RecEnd
  <1>29. ASSUME NEW p \in Procs, Kill(p) PROVE Typed'
    <2>1. p \in Runs \/ p \in Recoverers
      OBVIOUS
    <2>2. \E l \in {"dead", "idle"} :
            /\ pc' = [pc EXCEPT ![p] = l]
            /\ l = "dead" <=> p \in Runs
      BY <1>29 DEF Kill, Die
    <2>3. TypeOK'
      BY <1>29, <2>1, <2>2 DEF Kill, Mishap
    <2>4. ControlOK'
      BY <1>29, <2>1, <2>2 DEF Kill, Mishap
    <2> QED
      BY <2>3, <2>4
  <1>30. ASSUME NEW p \in Procs, KillMidWrite(p) PROVE Typed'
    <2>1. p \in Runs \/ p \in Recoverers
      OBVIOUS
    <2>2. \E l \in {"dead", "idle"} :
            /\ pc' = [pc EXCEPT ![p] = l]
            /\ l = "dead" <=> p \in Runs
      BY <1>30 DEF KillMidWrite, Die
    <2>3. \/ /\ \E i : Tear(claimed, i)
             /\ UNCHANGED <<pending, completed, failed, active>>
          \/ /\ \E r : Tear(active, r)
             /\ UNCHANGED <<pending, claimed, completed, failed>>
          \/ /\ \E i : Tear(completed, i)
             /\ UNCHANGED <<pending, claimed, failed, active>>
          \/ /\ \E i : Tear(failed, i)
             /\ UNCHANGED <<pending, claimed, completed, active>>
          \/ /\ \E i : Tear(pending, i)
             /\ UNCHANGED <<claimed, completed, failed, active>>
      BY <1>30 DEF KillMidWrite
    <2> DEFINE FilesOK ==
          /\ pending \in [Items -> {NoFile, Torn, Present}]
          /\ failed \in [Items -> {NoFile, Torn, Present}]
          /\ claimed \in [Items -> Runs \cup {NoFile, Torn}]
          /\ completed \in [Items -> Done \cup {NoFile, Torn}]
          /\ active \in [Runs -> Checkpoint \cup {NoFile, Torn}]
    <2>4. FilesOK'
      <3>1. CASE (\E k : Tear(claimed, k)) /\ UNCHANGED <<pending, completed, failed, active>>
        <4>1. PICK k : claimed' = [claimed EXCEPT ![k] = Torn]
          BY <3>1 DEF Tear
        <4> QED
          BY <3>1, <4>1
      <3>2. CASE (\E k : Tear(active, k)) /\ UNCHANGED <<pending, claimed, completed, failed>>
        <4>1. PICK k : active' = [active EXCEPT ![k] = Torn]
          BY <3>2 DEF Tear
        <4> QED
          BY <3>2, <4>1
      <3>3. CASE (\E k : Tear(completed, k)) /\ UNCHANGED <<pending, claimed, failed, active>>
        <4>1. PICK k : completed' = [completed EXCEPT ![k] = Torn]
          BY <3>3 DEF Tear
        <4> QED
          BY <3>3, <4>1
      <3>4. CASE (\E k : Tear(failed, k)) /\ UNCHANGED <<pending, claimed, completed, active>>
        <4>1. PICK k : failed' = [failed EXCEPT ![k] = Torn]
          BY <3>4 DEF Tear
        <4> QED
          BY <3>4, <4>1
      <3>5. CASE (\E k : Tear(pending, k)) /\ UNCHANGED <<claimed, completed, failed, active>>
        <4>1. PICK k : pending' = [pending EXCEPT ![k] = Torn]
          BY <3>5 DEF Tear
        <4> QED
          BY <3>5, <4>1
      <3> QED
        BY <2>3, <3>1, <3>2, <3>3, <3>4, <3>5
    <2>5. mishaps' \in Nat /\ UNCHANGED <<gate, archived, ck, bad, local>>
      BY <1>30 DEF KillMidWrite, Mishap
    <2>6. TypeOK'
      BY <2>1, <2>2, <2>4, <2>5
    <2>7. ControlOK'
      BY <2>1, <2>2, <2>5
    <2> QED
      BY <2>6, <2>7
  <1>31. CASE UNCHANGED vars
    BY <1>31 DEF vars
  <1> QED
    BY <1>1, <1>2, <1>3, <1>4, <1>5, <1>6, <1>7, <1>8, <1>9, <1>10, <1>11, <1>12, <1>13, <1>14, <1>15, <1>16, <1>17, <1>18, <1>19, <1>20, <1>21, <1>22, <1>23, <1>24, <1>25, <1>26, <1>27, <1>28, <1>29, <1>30, <1>31
    DEF Next, RunStep, RecStep, WorkItem

(* Type correctness, for any number of overlapping runs and recoveries.    *)
THEOREM TypeCorrect == Spec => []TypeOK
  <1>1. Spec => []Typed
    BY TypedInit, TypedStep, PTL DEF Spec
  <1>2. Typed => TypeOK
    BY DEF Typed
  <1> QED
    BY <1>1, <1>2, PTL

-----------------------------------------------------------------------------
(* Without recovery a pending file is never written again, so that its     *)
(* unlink is the token of the item: the one run that unlinks it takes the  *)
(* item, and only that run can own it or write its result.                 *)
Taken ==
  /\ \A i \in Items : pending[i] # NoFile =>
       /\ \A r \in Runs : ~Owns(r, i)
       /\ \A x \in results : x[2] # i
  /\ \A x \in results : \A r \in Runs : Owns(r, x[2]) => r = x[1]
  /\ ClaimExclusive
  /\ OneResultPerItem

(* A step that neither takes an item nor writes a result.                  *)
Quiet ==
  /\ \A r \in Runs, i \in Items : Owns(r, i)' => Owns(r, i)
  /\ \A i \in Items : pending'[i] # NoFile => pending[i] # NoFile
  /\ results' = results

(* A step that takes nothing into hand, queues nothing and adds no result  *)
(* keeps Taken.                                                            *)
LEMMA QuietStep == Typed /\ Taken /\ Quiet => Taken'
  BY DEF Typed, TypeOK, Taken, Quiet, ClaimExclusive, OneResultPerItem, Results

(* Without recovery every step keeps Taken: the unlink of the pending file *)
(* is what lets a single run past the claim.                               *)
LEMMA TakenStep ==
  ASSUME Recoverers = {}, Typed, Taken, [Next]_vars
  PROVE  Taken'
  <1> USE DEF Typed, TypeOK, Procs, Goto, Persist, Owns, OwnerPCs, queue, gate,
              journal, local
  <1>1. ASSUME NEW r \in Runs, Begin(r) PROVE Taken'
    <2>1. Quiet
      BY <1>1 DEF Begin, Quiet
    <2> QED
      BY <2>1, QuietStep
  <1>2. ASSUME NEW r \in Runs, Snapshot(r) PROVE Taken'
    <2>1. PICK label : pc' = [pc EXCEPT ![r] = label] /\ label \notin OwnerPCs
      BY <1>2 DEF Snapshot, Die
    <2>2. Quiet
      BY <1>2, <2>1 DEF Snapshot, Quiet
    <2> QED
      BY <2>2, QuietStep
  <1>3. ASSUME NEW r \in Runs, ClaimWrite(r) PROVE Taken'
    <2>1. Quiet
      BY <1>3 DEF ClaimWrite, Quiet
    <2> QED
      BY <2>1, QuietStep
  <1>4. ASSUME NEW r \in Runs, RecordClaim(r) PROVE Taken'
    <2>1. Quiet
      BY <1>4 DEF RecordClaim, Quiet
    <2> QED
      BY <2>1, QuietStep
  <1>5. ASSUME NEW r \in Runs, RejectManifest(r) PROVE Taken'
    <2>1. Quiet
      BY <1>5 DEF RejectManifest, Quiet
    <2> QED
      BY <2>1, QuietStep
  <1>6. ASSUME NEW r \in Runs, RecordResult(r) PROVE Taken'
    <2>1. Quiet
      BY <1>6 DEF RecordResult, Quiet
    <2> QED
      BY <2>1, QuietStep
  <1>7. ASSUME NEW r \in Runs, CompleteWrite(r) PROVE Taken'
    <2>1. Quiet
      BY <1>7 DEF CompleteWrite, Quiet
    <2> QED
      BY <2>1, QuietStep
  <1>8. ASSUME NEW r \in Runs, CompleteUnlink(r) PROVE Taken'
    <2>1. PICK label : pc' = [pc EXCEPT ![r] = label] /\ label \notin OwnerPCs
      BY <1>8 DEF CompleteUnlink
    <2>2. Quiet
      BY <1>8, <2>1 DEF CompleteUnlink, Quiet
    <2> QED
      BY <2>2, QuietStep
  <1>9. ASSUME NEW r \in Runs, EmitReview(r) PROVE Taken'
    <2>1. Quiet
      BY <1>9 DEF EmitReview, Quiet
    <2> QED
      BY <2>1, QuietStep
  <1>10. ASSUME NEW r \in Runs, AttachReviewRef(r) PROVE Taken'
    <2>1. Quiet
      BY <1>10 DEF AttachReviewRef, Quiet
    <2> QED
      BY <2>1, QuietStep
  <1>11. ASSUME NEW r \in Runs, RecordReview(r) PROVE Taken'
    <2>1. Quiet
      BY <1>11 DEF RecordReview, Quiet
    <2> QED
      BY <2>1, QuietStep
  <1>12. ASSUME NEW r \in Runs, RecordItemCompleted(r) PROVE Taken'
    <2>1. Quiet
      BY <1>12 DEF RecordItemCompleted, Quiet
    <2> QED
      BY <2>1, QuietStep
  <1>13. ASSUME NEW r \in Runs, FailWrite(r) PROVE Taken'
    <2>1. Quiet
      BY <1>13 DEF FailWrite, Quiet
    <2> QED
      BY <2>1, QuietStep
  <1>14. ASSUME NEW r \in Runs, FailUnlink(r) PROVE Taken'
    <2>1. PICK label : pc' = [pc EXCEPT ![r] = label] /\ label \notin OwnerPCs
      BY <1>14 DEF FailUnlink, Die
    <2>2. Quiet
      BY <1>14, <2>1 DEF FailUnlink, Quiet
    <2> QED
      BY <2>2, QuietStep
  <1>15. ASSUME NEW r \in Runs, RecordItemFailed(r) PROVE Taken'
    <2>1. Quiet
      BY <1>15 DEF RecordItemFailed, Quiet
    <2> QED
      BY <2>1, QuietStep
  <1>16. ASSUME NEW r \in Runs, Finalize(r) PROVE Taken'
    <2>1. Quiet
      BY <1>16 DEF Finalize, Quiet
    <2> QED
      BY <2>1, QuietStep
  <1>17. ASSUME NEW r \in Runs, Archive(r) PROVE Taken'
    <2>1. PICK label : pc' = [pc EXCEPT ![r] = label] /\ label \notin OwnerPCs
      BY <1>17 DEF Archive, Die
    <2>2. Quiet
      BY <1>17, <2>1 DEF Archive, Quiet
    <2> QED
      BY <2>2, QuietStep
  <1>18. ASSUME NEW r \in Runs, Raise(r) PROVE Taken'
    <2>1. Quiet
      BY <1>18, FaultAssumption DEF Raise, Quiet, Mishap, TryPCs
    <2> QED
      BY <2>1, QuietStep
  <1>19. ASSUME NEW r \in Runs, ClaimUnlink(r) PROVE Taken'
    <2>1. CASE pending[cur[r]] = NoFile
      <3>1. pc' = [pc EXCEPT ![r] = "dead"] /\ UNCHANGED pending
        BY <1>19, <2>1 DEF ClaimUnlink, Die
      <3>2. Quiet
        BY <1>19, <3>1 DEF ClaimUnlink, Quiet
      <3> QED
        BY <3>2, QuietStep
    <2>2. CASE pending[cur[r]] # NoFile
      <3> DEFINE i == cur[r]
      <3>1. i \in Items
        BY <1>19 DEF ClaimUnlink, ControlOK, BusyPCs
      <3>2. /\ pending' = [pending EXCEPT ![i] = NoFile]
            /\ pc' = [pc EXCEPT ![r] = "claimed"]
            /\ UNCHANGED <<results, cur>>
        BY <1>19, <2>2 DEF ClaimUnlink
      <3>3. /\ \A q \in Runs : ~Owns(q, i)
            /\ \A x \in results : x[2] # i
        BY <2>2, <3>1 DEF Taken
      <3>4. \A q \in Runs, j \in Items :
              Owns(q, j)' <=> Owns(q, j) \/ (q = r /\ j = i)
        BY <1>19, <3>1, <3>2 DEF ClaimUnlink
      <3>5. \A j \in Items : pending'[j] # NoFile => j # i /\ pending[j] # NoFile
        BY <3>1, <3>2
      <3>6. \A x \in results : x[2] \in Items
        BY DEF Results
      <3> HIDE DEF i
      <3> QED
        BY <3>1, <3>2, <3>3, <3>4, <3>5, <3>6
        DEF Taken, ClaimExclusive, OneResultPerItem
    <2> QED
      BY <2>1, <2>2
  <1>20. ASSUME NEW r \in Runs, WriteResult(r) PROVE Taken'
    <2> DEFINE i == cur[r]
    <2>1. i \in Items /\ Owns(r, i)
      BY <1>20 DEF WriteResult, ControlOK, BusyPCs, TryPCs
    <2>2. results' = results \cup {<<r, i>>} /\ UNCHANGED pending
      BY <1>20 DEF WriteResult
    <2>3. \A q \in Runs, j \in Items : Owns(q, j)' <=> Owns(q, j)
      BY <1>20, <2>1 DEF WriteResult
    <2>4. pending[i] = NoFile
      BY <2>1 DEF Taken
    <2>5. \A x \in results : x[2] = i => x = <<r, i>>
      BY <2>1 DEF Taken, Results
    <2>6. \A x \in results' : x \in results \/ x = <<r, i>>
      BY <2>2
    <2>7. \A q \in Runs : Owns(q, i) => q = r
      BY <2>1 DEF Taken, ClaimExclusive
    <2> HIDE DEF i
    <2>8. \A j \in Items : pending'[j] # NoFile =>
            /\ \A q \in Runs : ~Owns(q, j)'
            /\ \A x \in results' : x[2] # j
      BY <2>2, <2>3, <2>4, <2>6 DEF Taken
    <2>9. \A x \in results' : \A q \in Runs : Owns(q, x[2])' => q = x[1]
      <3> SUFFICES ASSUME NEW x \in results', NEW q \in Runs, Owns(q, x[2])'
                   PROVE  q = x[1]
        OBVIOUS
      <3>1. CASE x = <<r, i>>
        BY <2>1, <2>3, <2>7, <3>1
      <3>2. CASE x \in results
        BY <2>3, <3>2 DEF Taken, Results
      <3> QED
        BY <2>6, <3>1, <3>2
    <2>10. ClaimExclusive'
      BY <2>3 DEF Taken, ClaimExclusive
    <2>11. OneResultPerItem'
      <3> SUFFICES ASSUME NEW x \in results', NEW y \in results', x[2] = y[2]
                   PROVE  x = y
        BY DEF OneResultPerItem
      <3>1. CASE x \in results /\ y \in results
        BY <3>1 DEF Taken, OneResultPerItem
      <3>2. CASE x = <<r, i>>
        BY <2>5, <2>6, <3>2
      <3>3. CASE y = <<r, i>>
        BY <2>5, <2>6, <3>3
      <3> QED
        BY <2>6, <3>1, <3>2, <3>3
    <2> QED
      BY <2>8, <2>9, <2>10, <2>11 DEF Taken
  <1>21. ASSUME NEW p \in Procs, Kill(p) PROVE Taken'
    <2>1. pc' = [pc EXCEPT ![p] = "dead"] /\ p \in Runs
      BY <1>21 DEF Kill, Die
    <2>2. UNCHANGED <<pending, results, cur>>
      BY <1>21, <2>1 DEF Kill, RunPCs, TryPCs
    <2>3. Quiet
      BY <2>1, <2>2 DEF Quiet
    <2> QED
      BY <2>3, QuietStep
  <1>22. ASSUME NEW p \in Procs, KillMidWrite(p) PROVE Taken'
    <2>1. pc' = [pc EXCEPT ![p] = "dead"] /\ p \in Runs
      BY <1>22 DEF KillMidWrite, Die
    <2>2. UNCHANGED <<pending, results, cur>>
      BY <1>22, <2>1 DEF KillMidWrite, RunPCs, TryPCs
    <2>3. Quiet
      BY <2>1, <2>2 DEF Quiet
    <2> QED
      BY <2>3, QuietStep
  <1>23. CASE UNCHANGED vars
    <2>1. Quiet
      BY <1>23 DEF Quiet, vars
    <2> QED
      BY <2>1, QuietStep
  <1> QED
    BY <1>1, <1>2, <1>3, <1>4, <1>5, <1>6, <1>7, <1>8, <1>9, <1>10, <1>11, <1>12, <1>13, <1>14, <1>15, <1>16, <1>17, <1>18, <1>19, <1>20, <1>21, <1>22, <1>23
    DEF Next, RunStep, WorkItem

(* At the start no item is taken and there is no result.                   *)
LEMMA TakenInit == Init => Taken
  BY DEF Init, Taken, Owns, OwnerPCs, ClaimExclusive, OneResultPerItem, Procs

(* Overlapping worker runs never process one item together.                *)
THEOREM ClaimsExclude ==
  ASSUME Recoverers = {}
  PROVE  Spec => []ClaimExclusive
  <1>1. Spec => [](Typed /\ Taken)
    BY TypedInit, TypedStep, TakenInit, TakenStep, PTL DEF Spec
  <1>2. Taken => ClaimExclusive
    BY DEF Taken
  <1> QED
    BY <1>1, <1>2, PTL

(* ... and never give one item two results.                                *)
THEOREM ResultsUnique ==
  ASSUME Recoverers = {}
  PROVE  Spec => []OneResultPerItem
  <1>1. Spec => [](Typed /\ Taken)
    BY TypedInit, TypedStep, TakenInit, TakenStep, PTL DEF Spec
  <1>2. Taken => OneResultPerItem
    BY DEF Taken
  <1> QED
    BY <1>1, <1>2, PTL

-----------------------------------------------------------------------------
(* No kill and no torn file makes the Eyes queue lose an item, if wakeups  *)
(* do not overlap.  A half-written file is harmless because another file   *)
(* of the item is intact until the write is over; the one exception is the *)
(* completed record that _attach_review_ref rewrites in place.             *)

(* At most one process is alive.                                           *)
Solo == \A p, q \in Procs : Live(p) /\ Live(q) => p = q

(* What a live worker knows of the files of the items in its hands: the    *)
(* record it is about to replace has an intact companion.                  *)
RunHolds(r) ==
  /\ pc[r] \notin {"idle", "scanning", "done", "dead"} =>
       \A i \in todo[r] : Readable(pending[i])
  /\ pc[r] \in BusyPCs => cur[r] \notin todo[r]
  /\ pc[r] \in OwnerPCs \cup {"claiming"} => Readable(claimed[cur[r]])
  /\ pc[r] \in {"failing", "abandoning"} =>
       Readable(claimed[cur[r]]) \/ Readable(completed[cur[r]])
  /\ pc[r] \in {"unclaiming", "emitting", "attaching", "flagging",
                 "recording"} => Readable(completed[cur[r]])
  /\ pc[r] = "abandoning" => Readable(failed[cur[r]])
  /\ pc[r] \in {"emitting", "attaching", "flagging"} => cur[r] \in NeedsReview

(* ... and a live recovery pass.                                           *)
RecHolds(c) ==
  /\ pc[c] # "idle" => \A i \in todo[c] : Readable(claimed[i])
  /\ pc[c] \in RecBusyPCs => cur[c] \notin todo[c]
  /\ pc[c] \in {"reemit", "recomplete", "requeue", "release"} =>
       Readable(claimed[cur[c]])
  /\ pc[c] = "release" =>
       Readable(pending[cur[c]]) \/ Readable(completed[cur[c]])

Kept ==
  /\ Solo
  /\ \A r \in Runs : RunHolds(r)
  /\ \A c \in Recoverers : RecHolds(c)
  /\ ItemRetained

(* A step of process p alone.                                              *)
StepOf(p) ==
  /\ Live(p) \/ MayStart(p)
  /\ \E l : pc' = [pc EXCEPT ![p] = l]

(* At the start every item has a readable pending file and nobody holds    *)
(* one.                                                                    *)
LEMMA KeptInit == Init => Kept
  BY MarkerAssumption
  DEF Init, Kept, Solo, Live, RunHolds, RecHolds, ItemRetained, Readable,
      BusyPCs, RecBusyPCs, TryPCs, OwnerPCs, Procs

(* While p moves, nobody else is alive, so only what p holds is at stake.  *)
LEMMA OthersRest ==
  ASSUME Typed, Kept, Overlap = FALSE, NEW p \in Procs, StepOf(p)
  PROVE  /\ Solo'
         /\ \A r \in Runs \ {p} : RunHolds(r)'
         /\ \A c \in Recoverers \ {p} : RecHolds(c)'
  <1>1. PICK l : pc' = [pc EXCEPT ![p] = l]
    BY DEF StepOf
  <1>2. \A q \in Procs \ {p} : ~Live(q)
    BY DEF StepOf, MayStart, Kept, Solo
  <1>3. \A q \in Procs \ {p} : pc'[q] = pc[q]
    BY <1>1 DEF Typed, TypeOK
  <1>4. \A q \in Procs \ {p} : ~Live(q)'
    BY <1>2, <1>3 DEF Live
  <1>5. Solo'
    BY <1>4 DEF Solo
  <1>6. \A r \in Runs \ {p} : RunHolds(r)'
    BY <1>4 DEF Live, RunHolds, BusyPCs, TryPCs, OwnerPCs, Procs
  <1>7. \A c \in Recoverers \ {p} : RecHolds(c)'
    <2> SUFFICES ASSUME NEW c \in Recoverers \ {p} PROVE RecHolds(c)'
      OBVIOUS
    <2>1. pc'[c] = "idle"
      BY <1>2, <1>3 DEF Live, Procs, Typed, TypeOK, RecPCs
    <2> QED
      BY <2>1 DEF RecHolds, RecBusyPCs
  <1> QED
    BY <1>5, <1>6, <1>7

(* While one process is alive at a time, a step of a worker run keeps Kept *)
(* if it keeps what holds of the files and of that run.                    *)
LEMMA RunKeeps ==
  ASSUME Typed, Kept, Overlap = FALSE, NEW r \in Runs,
         StepOf(r), RunHolds(r)', ItemRetained'
  PROVE  Kept'
  BY OthersRest, ProcessAssumption DEF Kept, Procs

(* The same for a step of a recovery.                                      *)
LEMMA RecKeeps ==
  ASSUME Typed, Kept, Overlap = FALSE, NEW c \in Recoverers,
         StepOf(c), RecHolds(c)', ItemRetained'
  PROVE  Kept'
  BY OthersRest, ProcessAssumption DEF Kept, Procs

(* Every step keeps Kept, kills in the middle of a write among them.       *)
LEMMA KeptStep ==
  ASSUME Overlap = FALSE, TornWrites => NeedsReview = {},
         Typed, Kept, [Next]_vars
  PROVE  Kept'
  <1> USE MarkerAssumption, ProcessAssumption
      DEF Goto, Persist, queue, gate, journal, local, Typed, TypeOK, ControlOK,
          Readable, BusyPCs, RecBusyPCs, TryPCs, OwnerPCs, Procs
  <1>1. ASSUME NEW r \in Runs, Begin(r) PROVE Kept'
    <2>1. StepOf(r)
      BY <1>1 DEF Begin, StepOf, Live
    <2>2. RunHolds(r)'
      BY <1>1 DEF Begin, RunHolds, Kept
    <2>3. ItemRetained'
      BY <1>1 DEF Begin, RunHolds, Kept, ItemRetained
    <2> QED
      BY <2>1, <2>2, <2>3, RunKeeps
  <1>2. ASSUME NEW r \in Runs, Snapshot(r) PROVE Kept'
    <2>1. StepOf(r)
      BY <1>2 DEF Snapshot, StepOf, Live, Die
    <2>2. RunHolds(r)'
      <3>1. CASE pc'[r] = "dead"
        BY <3>1 DEF RunHolds
      <3>2. CASE pc'[r] = "next"
        <4>1. /\ todo'[r] = Batch({i \in Items : pending[i] = Present})
              /\ UNCHANGED pending
          BY <1>2, <3>2 DEF Snapshot, Die
        <4>2. \A i \in todo'[r] : Readable(pending'[i])
          BY <4>1 DEF Batch
        <4> QED
          BY <3>2, <4>2 DEF RunHolds
      <3> QED
        BY <1>2, <3>1, <3>2 DEF Snapshot, Die
    <2>3. ItemRetained'
      BY <1>2 DEF Snapshot, RunHolds, Kept, ItemRetained, Die
    <2> QED
      BY <2>1, <2>2, <2>3, RunKeeps
  <1>3. ASSUME NEW r \in Runs, ClaimWrite(r) PROVE Kept'
    <2>1. StepOf(r)
      BY <1>3 DEF ClaimWrite, StepOf, Live
    <2>2. RunHolds(r)'
      <3> PICK i \in Firsts(todo[r]) :
            /\ cur' = [cur EXCEPT ![r] = i]
            /\ todo' = [todo EXCEPT ![r] = @ \ {i}]
            /\ claimed' = [claimed EXCEPT ![i] = r]
        BY <1>3 DEF ClaimWrite
      <3>1. i \in todo[r] /\ i \in Items
        BY DEF Firsts
      <3>2. /\ cur'[r] = i /\ todo'[r] = todo[r] \ {i}
            /\ claimed'[i] = r /\ pc'[r] = "claiming" /\ pending' = pending
        BY <1>3, <3>1 DEF ClaimWrite
      <3>3. \A j \in todo[r] : Readable(pending[j])
        BY <1>3 DEF ClaimWrite, Kept, RunHolds
      <3> QED
        BY <3>2, <3>3 DEF RunHolds
    <2>3. ItemRetained'
      BY <1>3 DEF ClaimWrite, RunHolds, Kept, ItemRetained
    <2> QED
      BY <2>1, <2>2, <2>3, RunKeeps
  <1>4. ASSUME NEW r \in Runs, ClaimUnlink(r) PROVE Kept'
    <2>1. StepOf(r)
      BY <1>4 DEF ClaimUnlink, StepOf, Live, Die
    <2>2. RunHolds(r)'
      BY <1>4 DEF ClaimUnlink, RunHolds, Kept, Die
    <2>3. ItemRetained'
      BY <1>4 DEF ClaimUnlink, RunHolds, Kept, ItemRetained, Die
    <2> QED
      BY <2>1, <2>2, <2>3, RunKeeps
  <1>5. ASSUME NEW r \in Runs, RecordClaim(r) PROVE Kept'
    <2>1. StepOf(r)
      BY <1>5 DEF RecordClaim, StepOf, Live
    <2>2. RunHolds(r)'
      BY <1>5 DEF RecordClaim, RunHolds, Kept
    <2>3. ItemRetained'
      BY <1>5 DEF RecordClaim, RunHolds, Kept, ItemRetained
    <2> QED
      BY <2>1, <2>2, <2>3, RunKeeps
  <1>6. ASSUME NEW r \in Runs, RejectManifest(r) PROVE Kept'
    <2>1. StepOf(r)
      BY <1>6 DEF RejectManifest, StepOf, Live
    <2>2. RunHolds(r)'
      BY <1>6 DEF RejectManifest, RunHolds, Kept
    <2>3. ItemRetained'
      BY <1>6 DEF RejectManifest, RunHolds, Kept, ItemRetained
    <2> QED
      BY <2>1, <2>2, <2>3, RunKeeps
  <1>7. ASSUME NEW r \in Runs, WriteResult(r) PROVE Kept'
    <2>1. StepOf(r)
      BY <1>7 DEF WriteResult, StepOf, Live
    <2>2. RunHolds(r)'
      BY <1>7 DEF WriteResult, RunHolds, Kept
    <2>3. ItemRetained'
      BY <1>7 DEF WriteResult, RunHolds, Kept, ItemRetained
    <2> QED
      BY <2>1, <2>2, <2>3, RunKeeps
  <1>8. ASSUME NEW r \in Runs, RecordResult(r) PROVE Kept'
    <2>1. StepOf(r)
      BY <1>8 DEF RecordResult, StepOf, Live
    <2>2. RunHolds(r)'
      BY <1>8 DEF RecordResult, RunHolds, Kept
    <2>3. ItemRetained'
      BY <1>8 DEF RecordResult, RunHolds, Kept, ItemRetained
    <2> QED
      BY <2>1, <2>2, <2>3, RunKeeps
  <1>9. ASSUME NEW r \in Runs, CompleteWrite(r) PROVE Kept'
    <2>1. StepOf(r)
      BY <1>9 DEF CompleteWrite, StepOf, Live
    <2>0. Readable(completed'[cur[r]])
      <3>1. cur[r] \in Items
        BY <1>9 DEF CompleteWrite, BusyPCs, TryPCs
      <3>2. completed'[cur[r]] = [result |-> <<r, cur[r]>>, review |-> 0]
        BY <1>9, <3>1 DEF CompleteWrite
      <3>3. completed'[cur[r]] \in Done
        BY <3>1, <3>2 DEF Done, Results
      <3> QED
        BY <3>3
    <2>2. RunHolds(r)'
      BY <1>9, <2>0 DEF CompleteWrite, RunHolds, Kept
    <2>3. ItemRetained'
      BY <1>9, <2>0 DEF CompleteWrite, RunHolds, Kept, ItemRetained
    <2> QED
      BY <2>1, <2>2, <2>3, RunKeeps
  <1>10. ASSUME NEW r \in Runs, CompleteUnlink(r) PROVE Kept'
    <2>1. StepOf(r)
      BY <1>10 DEF CompleteUnlink, StepOf, Live
    <2>2. RunHolds(r)'
      BY <1>10 DEF CompleteUnlink, RunHolds, Kept
    <2>3. ItemRetained'
      BY <1>10 DEF CompleteUnlink, RunHolds, Kept, ItemRetained
    <2> QED
      BY <2>1, <2>2, <2>3, RunKeeps
  <1>11. ASSUME NEW r \in Runs, EmitReview(r) PROVE Kept'
    <2>1. StepOf(r)
      BY <1>11 DEF EmitReview, StepOf, Live
    <2>2. RunHolds(r)'
      BY <1>11 DEF EmitReview, RunHolds, Kept
    <2>3. ItemRetained'
      BY <1>11 DEF EmitReview, RunHolds, Kept, ItemRetained
    <2> QED
      BY <2>1, <2>2, <2>3, RunKeeps
  <1>12. ASSUME NEW r \in Runs, AttachReviewRef(r) PROVE Kept'
    <2>1. StepOf(r)
      BY <1>12 DEF AttachReviewRef, StepOf, Live
    <2>0. Readable(completed'[cur[r]])
      BY <1>12 DEF AttachReviewRef, Done, Results
    <2>2. RunHolds(r)'
      BY <1>12, <2>0 DEF AttachReviewRef, RunHolds, Kept
    <2>3. ItemRetained'
      BY <1>12, <2>0 DEF AttachReviewRef, RunHolds, Kept, ItemRetained
    <2> QED
      BY <2>1, <2>2, <2>3, RunKeeps
  <1>13. ASSUME NEW r \in Runs, RecordReview(r) PROVE Kept'
    <2>1. StepOf(r)
      BY <1>13 DEF RecordReview, StepOf, Live
    <2>2. RunHolds(r)'
      BY <1>13 DEF RecordReview, RunHolds, Kept
    <2>3. ItemRetained'
      BY <1>13 DEF RecordReview, RunHolds, Kept, ItemRetained
    <2> QED
      BY <2>1, <2>2, <2>3, RunKeeps
  <1>14. ASSUME NEW r \in Runs, RecordItemCompleted(r) PROVE Kept'
    <2>1. StepOf(r)
      BY <1>14 DEF RecordItemCompleted, StepOf, Live
    <2>2. RunHolds(r)'
      BY <1>14 DEF RecordItemCompleted, RunHolds, Kept
    <2>3. ItemRetained'
      BY <1>14 DEF RecordItemCompleted, RunHolds, Kept, ItemRetained
    <2> QED
      BY <2>1, <2>2, <2>3, RunKeeps
  <1>15. ASSUME NEW r \in Runs, FailWrite(r) PROVE Kept'
    <2>1. StepOf(r)
      BY <1>15 DEF FailWrite, StepOf, Live
    <2>2. RunHolds(r)'
      BY <1>15 DEF FailWrite, RunHolds, Kept
    <2>3. ItemRetained'
      BY <1>15 DEF FailWrite, RunHolds, Kept, ItemRetained
    <2> QED
      BY <2>1, <2>2, <2>3, RunKeeps
  <1>16. ASSUME NEW r \in Runs, FailUnlink(r) PROVE Kept'
    <2>1. StepOf(r)
      BY <1>16 DEF FailUnlink, StepOf, Live, Die
    <2>2. RunHolds(r)'
      BY <1>16 DEF FailUnlink, RunHolds, Kept, Die
    <2>3. ItemRetained'
      BY <1>16 DEF FailUnlink, RunHolds, Kept, ItemRetained, Die
    <2> QED
      BY <2>1, <2>2, <2>3, RunKeeps
  <1>17. ASSUME NEW r \in Runs, RecordItemFailed(r) PROVE Kept'
    <2>1. StepOf(r)
      BY <1>17 DEF RecordItemFailed, StepOf, Live
    <2>2. RunHolds(r)'
      BY <1>17 DEF RecordItemFailed, RunHolds, Kept
    <2>3. ItemRetained'
      BY <1>17 DEF RecordItemFailed, RunHolds, Kept, ItemRetained
    <2> QED
      BY <2>1, <2>2, <2>3, RunKeeps
  <1>18. ASSUME NEW r \in Runs, Finalize(r) PROVE Kept'
    <2>1. StepOf(r)
      BY <1>18 DEF Finalize, StepOf, Live
    <2>2. RunHolds(r)'
      BY <1>18 DEF Finalize, RunHolds, Kept
    <2>3. ItemRetained'
      BY <1>18 DEF Finalize, RunHolds, Kept, ItemRetained
    <2> QED
      BY <2>1, <2>2, <2>3, RunKeeps
  <1>19. ASSUME NEW r \in Runs, Archive(r) PROVE Kept'
    <2>1. StepOf(r)
      BY <1>19 DEF Archive, StepOf, Live, Die
    <2>2. RunHolds(r)'
      BY <1>19 DEF Archive, RunHolds, Kept, Die
    <2>3. ItemRetained'
      BY <1>19 DEF Archive, RunHolds, Kept, ItemRetained, Die
    <2> QED
      BY <2>1, <2>2, <2>3, RunKeeps
  <1>20. ASSUME NEW r \in Runs, Raise(r) PROVE Kept'
    <2>1. StepOf(r)
      BY <1>20, FaultAssumption DEF Raise, StepOf, Live, Mishap
    <2>2. RunHolds(r)'
      BY <1>20, FaultAssumption DEF Raise, RunHolds, Kept
    <2>3. ItemRetained'
      BY <1>20, FaultAssumption DEF Raise, RunHolds, Kept, ItemRetained
    <2> QED
      BY <2>1, <2>2, <2>3, RunKeeps
  <1>21. ASSUME NEW c \in Recoverers, RecScan(c) PROVE Kept'
    <2>1. StepOf(c)
      BY <1>21 DEF RecScan, StepOf, Live
    <2>2. RecHolds(c)'
      BY <1>21 DEF RecScan, RecHolds, Kept
    <2>3. ItemRetained'
      BY <1>21 DEF RecScan, RecHolds, Kept, ItemRetained
    <2> QED
      BY <2>1, <2>2, <2>3, RecKeeps
  <1>22. ASSUME NEW c \in Recoverers, RecTake(c) PROVE Kept'
    <2>1. StepOf(c)
      BY <1>22 DEF RecTake, StepOf, Live, Die
    <2>2. RecHolds(c)'
      <3> PICK i \in todo[c] :
            /\ cur' = [cur EXCEPT ![c] = i]
            /\ todo' = [todo EXCEPT ![c] = @ \ {i}]
        BY <1>22 DEF RecTake
      <3>1. \A j \in todo[c] : Readable(claimed[j])
        BY <1>22 DEF RecTake, Kept, RecHolds
      <3>2. pc'[c] \in {"idle", "requeue", "reemit", "recomplete"}
        BY <1>22 DEF RecTake, Die, RecBranch
      <3>3. cur'[c] = i /\ todo'[c] = todo[c] \ {i} /\ claimed' = claimed
        BY <1>22 DEF RecTake
      <3> QED
        BY <3>1, <3>2, <3>3 DEF RecHolds
    <2>3. ItemRetained'
      BY <1>22 DEF RecTake, RecHolds, Kept, ItemRetained, Die
    <2> QED
      BY <2>1, <2>2, <2>3, RecKeeps
  <1>23. ASSUME NEW c \in Recoverers, RecEmit(c) PROVE Kept'
    <2>1. StepOf(c)
      BY <1>23 DEF RecEmit, StepOf, Live
    <2>2. RecHolds(c)'
      BY <1>23 DEF RecEmit, RecHolds, Kept
    <2>3. ItemRetained'
      BY <1>23 DEF RecEmit, RecHolds, Kept, ItemRetained
    <2> QED
      BY <2>1, <2>2, <2>3, RecKeeps
  <1>24. ASSUME NEW c \in Recoverers, RecComplete(c) PROVE Kept'
    <2>1. StepOf(c)
      BY <1>24 DEF RecComplete, StepOf, Live
    <2>0. Readable(completed'[cur[c]])
      BY <1>24 DEF RecComplete, Done, Results
    <2>2. RecHolds(c)'
      BY <1>24, <2>0 DEF RecComplete, RecHolds, Kept
    <2>3. ItemRetained'
      BY <1>24, <2>0 DEF RecComplete, RecHolds, Kept, ItemRetained
    <2> QED
      BY <2>1, <2>2, <2>3, RecKeeps
  <1>25. ASSUME NEW c \in Recoverers, RecRequeue(c) PROVE Kept'
    <2>1. StepOf(c)
      BY <1>25 DEF RecRequeue, StepOf, Live
    <2>2. RecHolds(c)'
      BY <1>25 DEF RecRequeue, RecHolds, Kept
    <2>3. ItemRetained'
      BY <1>25 DEF RecRequeue, RecHolds, Kept, ItemRetained
    <2> QED
      BY <2>1, <2>2, <2>3, RecKeeps
  <1>26. ASSUME NEW c \in Recoverers, RecRelease(c) PROVE Kept'
    <2>1. StepOf(c)
      BY <1>26 DEF RecRelease, StepOf, Live, Die
    <2>2. RecHolds(c)'
      <3>1. CASE pc'[c] = "idle"
        BY <3>1 DEF RecHolds
      <3>2. CASE pc'[c] = "retire"
        <4>1. claimed' = [claimed EXCEPT ![cur[c]] = NoFile]
          BY <1>26, <3>2 DEF RecRelease, Die
        <4>2. /\ \A i \in todo[c] : Readable(claimed[i])
              /\ cur[c] \notin todo[c]
          BY <1>26 DEF RecRelease, Kept, RecHolds
        <4>3. UNCHANGED <<todo, cur>>
          BY <1>26 DEF RecRelease
        <4> QED
          BY <3>2, <4>1, <4>2, <4>3 DEF RecHolds
      <3> QED
        BY <1>26, <3>1, <3>2 DEF RecRelease, Die
    <2>3. ItemRetained'
      BY <1>26 DEF RecRelease, RecHolds, Kept, ItemRetained, Die
    <2> QED
      BY <2>1, <2>2, <2>3, RecKeeps
  <1>27. ASSUME NEW c \in Recoverers, RecRetire(c) PROVE Kept'
    <2>1. StepOf(c)
      BY <1>27 DEF RecRetire, StepOf, Live, Die
    <2>2. RecHolds(c)'
      <3>1. pc'[c] \in {"take", "idle"} /\ UNCHANGED <<todo, cur, claimed>>
        BY <1>27 DEF RecRetire, Die
      <3>2. \A i \in todo[c] : Readable(claimed[i])
        BY <1>27 DEF RecRetire, RecHolds, Kept
      <3> QED
        BY <3>1, <3>2 DEF RecHolds
    <2>3. ItemRetained'
      BY <1>27 DEF RecRetire, RecHolds, Kept, ItemRetained, Die
    <2> QED
      BY <2>1, <2>2, <2>3, RecKeeps
  <1>28. ASSUME NEW c \in Recoverers, RecEnd(c) PROVE Kept'
    <2>1. StepOf(c)
      BY <1>28 DEF RecEnd, StepOf, Live
    <2>2. RecHolds(c)'
      BY <1>28 DEF RecEnd, RecHolds, Kept
    <2>3. ItemRetained'
      BY <1>28 DEF RecEnd, RecHolds, Kept, ItemRetained
    <2> QED
      BY <2>1, <2>2, <2>3, RecKeeps
  <1>29. ASSUME NEW p \in Procs, Kill(p) PROVE Kept'
    <2>1. StepOf(p)
      BY <1>29 DEF Kill, StepOf, Die
    <2>2. ~Live(p)'
      BY <1>29 DEF Kill, Die, Live, Typed, TypeOK
    <2>3. ItemRetained'
      BY <1>29 DEF Kill, Kept, ItemRetained
    <2>4. ASSUME p \in Runs PROVE RunHolds(p)'
      BY <2>2, <2>4 DEF Live, RunHolds, BusyPCs, TryPCs, OwnerPCs
    <2>5. ASSUME p \in Recoverers PROVE RecHolds(p)'
      BY <1>29, <2>5 DEF Kill, Die, RecHolds, RecBusyPCs, Typed, TypeOK, Procs
    <2> QED
      BY <2>1, <2>3, <2>4, <2>5, RunKeeps, RecKeeps DEF Procs
  <1>30. ASSUME NEW p \in Procs, KillMidWrite(p) PROVE Kept'
    <2>1. StepOf(p)
      BY <1>30 DEF KillMidWrite, StepOf, Die
    <2>2. ~Live(p)'
      BY <1>30 DEF KillMidWrite, Die, Live, Typed, TypeOK
    <2>3. ItemRetained'
      <3>1. CASE pc[p] = "next" /\ \E i \in Firsts(todo[p]) : Tear(claimed, i)
        <4>1. PICK i \in todo[p] : claimed' = [claimed EXCEPT ![i] = Torn]
          BY <3>1 DEF Firsts, Tear
        <4>2. UNCHANGED <<pending, completed, failed>>
          BY <1>30, <3>1 DEF KillMidWrite
        <4>3. p \in Runs
          BY <3>1 DEF RecPCs
        <4>4. Readable(pending[i])
          BY <3>1, <4>3 DEF Kept, RunHolds
        <4> QED
          BY <4>1, <4>2, <4>4 DEF Kept, ItemRetained
      <3>2. CASE UNCHANGED queue
        BY <3>2 DEF Kept, ItemRetained
      <3>3. CASE /\ pc[p] \in {"completing", "attaching", "recomplete"}
                 /\ Tear(completed, cur[p])
                 /\ UNCHANGED <<pending, claimed, failed>>
        <4>1. pc[p] # "attaching"
          <5>1. pc[p] = "attaching" => p \in Runs
            BY DEF RecPCs
          <5>2. NeedsReview = {}
            BY <1>30 DEF KillMidWrite
          <5> QED
            BY <5>1, <5>2 DEF Kept, RunHolds
        <4>2. pc[p] = "completing" => Readable(claimed[cur[p]])
          BY DEF Kept, RunHolds, RecPCs
        <4>3. pc[p] = "recomplete" => Readable(claimed[cur[p]])
          BY DEF Kept, RecHolds, RunPCs
        <4> QED
          BY <3>3, <4>1, <4>2, <4>3 DEF Tear, Kept, ItemRetained
      <3>4. CASE /\ pc[p] = "failing" /\ Tear(failed, cur[p])
                 /\ UNCHANGED <<pending, claimed, completed>>
        <4>1. Readable(claimed[cur[p]]) \/ Readable(completed[cur[p]])
          BY <3>4 DEF Kept, RunHolds, RecPCs
        <4> QED
          BY <3>4, <4>1 DEF Tear, Kept, ItemRetained
      <3>5. CASE /\ pc[p] = "requeue" /\ Tear(pending, cur[p])
                 /\ UNCHANGED <<claimed, completed, failed>>
        <4>1. Readable(claimed[cur[p]])
          BY <3>5 DEF Kept, RecHolds, RunPCs
        <4> QED
          BY <3>5, <4>1 DEF Tear, Kept, ItemRetained
      <3> QED
        BY <1>30, <3>1, <3>2, <3>3, <3>4, <3>5 DEF KillMidWrite
    <2>4. ASSUME p \in Runs PROVE RunHolds(p)'
      BY <2>2, <2>4 DEF Live, RunHolds, BusyPCs, TryPCs, OwnerPCs
    <2>5. ASSUME p \in Recoverers PROVE RecHolds(p)'
      BY <1>30, <2>5 DEF KillMidWrite, Die, RecHolds, RecBusyPCs, Typed, TypeOK, Procs
    <2> QED
      BY <2>1, <2>3, <2>4, <2>5, RunKeeps, RecKeeps DEF Procs
  <1>31. CASE UNCHANGED vars
    BY <1>31 DEF vars, Kept, Solo, Live, RunHolds, RecHolds, ItemRetained
  <1> QED
    BY <1>1, <1>2, <1>3, <1>4, <1>5, <1>6, <1>7, <1>8, <1>9, <1>10, <1>11, <1>12, <1>13, <1>14, <1>15, <1>16, <1>17, <1>18, <1>19, <1>20, <1>21, <1>22, <1>23, <1>24, <1>25, <1>26, <1>27, <1>28, <1>29, <1>30, <1>31
    DEF Next, RunStep, RecStep, WorkItem

(* No item is lost, whatever is killed and whenever.                       *)
THEOREM ItemsRetained ==
  ASSUME Overlap = FALSE, TornWrites => NeedsReview = {}
  PROVE  Spec => []ItemRetained
  <1>1. Spec => [](Typed /\ Kept)
    BY TypedInit, TypedStep, KeptInit, KeptStep, PTL DEF Spec
  <1>2. Kept => ItemRetained
    BY DEF Kept
  <1> QED
    BY <1>1, <1>2, PTL

-----------------------------------------------------------------------------
(* The directories of the Eyes queue implement the life of an item that    *)
(* EyesItem describes, if wakeups do not overlap and nothing raises but    *)
(* what a manifest deserves: whatever is killed and however often recovery *)
(* steps in, an item only moves as it may, a completed one stays so with   *)
(* its own result, and a claim leads to the checkpoint that explains it.   *)

HoldingPCs == {"claiming", "claimed", "working", "resulted", "completing",
               "unclaiming", "failing", "abandoning"}
LinkedPCs == {"completing", "unclaiming", "emitting", "attaching", "flagging",
              "recording"}

(* The claim of run r on item i can be reconciled.  Its checkpoint is      *)
(* there, and names a result only if it is that of i, which is then no     *)
(* longer pending; it names the result before i is completed.              *)
ClaimOK(r, i) ==
  /\ active[r] # NoFile
  /\ ~TornWrites => active[r] # Torn
  /\ active[r] # Torn => active[r].result \in {None, <<r, i>>}
  /\ active[r] # Torn /\ active[r].result = <<r, i>> =>
       <<r, i>> \in results /\ pending[i] = NoFile
  /\ completed[i] # NoFile => active[r] # Torn /\ active[r].result = <<r, i>>
  /\ Readable(completed[i]) => completed[i].result = <<r, i>>

(* Only an item whose manifest is bad is failed, and no other completed.   *)
EndOK(i) ==
  /\ failed[i] # NoFile => i \in BadManifest
  /\ completed[i] # NoFile => pending[i] = NoFile
  /\ Readable(completed[i]) =>
       completed[i].result \in results /\ completed[i].result[2] = i

FilesOK ==
  /\ \A x \in results : x[2] \notin BadManifest
  /\ \A i \in Items : EndOK(i)
  /\ \A i \in Items : completed[i] # NoFile => i \notin BadManifest
  /\ \A i \in Items, r \in Runs : claimed[i] = r => ClaimOK(r, i)
  /\ \A i, j \in Items : claimed[i] \in Runs /\ claimed[i] = claimed[j] => i = j

(* A live run knows its checkpoint, and holds one claim at most.           *)
RunLinked(r) ==
  /\ Live(r) => active[r] = ck[r]
  /\ Live(r) => ck[r].result = IF pc[r] \in LinkedPCs THEN <<r, cur[r]>>
                                                      ELSE None
  /\ pc[r] \in HoldingPCs => claimed[cur[r]] = r
  /\ pc[r] \notin HoldingPCs \cup {"dead"} => \A i \in Items : claimed[i] # r
  /\ pc[r] \in BusyPCs \ {"claiming"} => pending[cur[r]] = NoFile
  /\ pc[r] \in LinkedPCs \cup {"resulted"} => <<r, cur[r]>> \in results
  /\ pc[r] \in LinkedPCs \ {"completing"} =>
       Readable(completed[cur[r]]) /\ completed[cur[r]].result = <<r, cur[r]>>
  /\ pc[r] \in {"failing", "abandoning"} => cur[r] \in BadManifest

(* A live recovery knows whose claims it has in hand, and what it is to do *)
(* with them.                                                              *)
RecLinked(c) ==
  /\ pc[c] # "idle" => \A i \in todo[c] : claimed[i] = seen[c][i]
  /\ pc[c] \in {"reemit", "recomplete", "requeue", "release"} =>
       claimed[cur[c]] = seen[c][cur[c]]
  /\ pc[c] \in {"reemit", "recomplete"} =>
       /\ active[seen[c][cur[c]]] # Torn
       /\ res[c] = <<seen[c][cur[c]], cur[c]>>
       /\ active[seen[c][cur[c]]].result = res[c]
  /\ pc[c] = "requeue" =>
       /\ active[seen[c][cur[c]]] # Torn
       /\ active[seen[c][cur[c]]].result = None
  /\ pc[c] = "retire" => \A i \in Items : claimed[i] # seen[c][cur[c]]

Linked ==
  /\ FilesOK
  /\ \A r \in Runs : RunLinked(r)
  /\ \A c \in Recoverers : RecLinked(c)

(* A step that takes a claim only as run p, if at all.                     *)
Claims(p) == \A i \in Items : claimed'[i] \in Runs \ {p} =>
               claimed'[i] = claimed[i]

(* At the start nothing is claimed, and nobody has done anything.          *)
LEMMA LinkedInit == Init => Linked
  BY MarkerAssumption, ProcessAssumption, ItemsAssumption
  DEF Init, Linked, FilesOK, EndOK, ClaimOK, RunLinked, RecLinked, Live,
      Readable, HoldingPCs, LinkedPCs, BusyPCs, TryPCs, Procs

(* While run r moves nobody else is alive, so only the files and what r    *)
(* knows are at stake.                                                     *)
LEMMA RunLinks ==
  ASSUME Typed, Kept, Linked, Overlap = FALSE, NEW r \in Runs,
         StepOf(r), Claims(r), FilesOK', RunLinked(r)'
  PROVE  Linked'
  <1>1. PICK l : pc' = [pc EXCEPT ![r] = l]
    BY DEF StepOf
  <1>2. \A q \in Procs \ {r} : ~Live(q)
    BY DEF StepOf, MayStart, Kept, Solo, Procs
  <1>5. \A q \in Procs \ {r} : pc'[q] = pc[q]
    BY <1>1 DEF Typed, TypeOK
  <1>3. \A q \in Runs \ {r} : RunLinked(q)'
    <2> SUFFICES ASSUME NEW q \in Runs \ {r} PROVE RunLinked(q)'
      OBVIOUS
    <2>1. pc'[q] = pc[q] /\ pc[q] \in {"idle", "done", "dead"}
      BY <1>2, <1>5 DEF Live, Procs
    <2>3. RunLinked(q)
      BY DEF Linked
    <2>2. pc[q] # "dead" => \A i \in Items : claimed'[i] # q
      BY <2>1, <2>3 DEF RunLinked, Claims, HoldingPCs
    <2> QED
      BY <2>1, <2>2 DEF RunLinked, Live, HoldingPCs, LinkedPCs, BusyPCs, TryPCs
  <1>4. \A c \in Recoverers : RecLinked(c)'
    <2> SUFFICES ASSUME NEW c \in Recoverers PROVE RecLinked(c)'
      OBVIOUS
    <2>1. pc'[c] = "idle"
      BY <1>2, <1>5, ProcessAssumption DEF Live, Procs, Typed, TypeOK, RecPCs
    <2> QED
      BY <2>1 DEF RecLinked
  <1> QED
    BY <1>3, <1>4 DEF Linked

(* The same while a recovery moves.                                        *)
LEMMA RecLinks ==
  ASSUME Typed, Kept, Linked, Overlap = FALSE, NEW c \in Recoverers,
         StepOf(c), Claims(c), FilesOK', RecLinked(c)'
  PROVE  Linked'
  <1>1. PICK l : pc' = [pc EXCEPT ![c] = l]
    BY DEF StepOf
  <1>2. \A q \in Procs \ {c} : ~Live(q)
    BY DEF StepOf, MayStart, Kept, Solo, Procs
  <1>5. \A q \in Procs \ {c} : pc'[q] = pc[q]
    BY <1>1 DEF Typed, TypeOK
  <1>3. \A q \in Runs : RunLinked(q)'
    <2> SUFFICES ASSUME NEW q \in Runs PROVE RunLinked(q)'
      OBVIOUS
    <2>1. pc'[q] = pc[q] /\ pc[q] \in {"idle", "done", "dead"}
      BY <1>2, <1>5, ProcessAssumption DEF Live, Procs
    <2>3. RunLinked(q) /\ q # c
      BY ProcessAssumption DEF Linked
    <2>2. pc[q] # "dead" => \A i \in Items : claimed'[i] # q
      BY <2>1, <2>3 DEF RunLinked, Claims, HoldingPCs
    <2> QED
      BY <2>1, <2>2 DEF RunLinked, Live, HoldingPCs, LinkedPCs, BusyPCs, TryPCs
  <1>4. \A d \in Recoverers \ {c} : RecLinked(d)'
    <2> SUFFICES ASSUME NEW d \in Recoverers \ {c} PROVE RecLinked(d)'
      OBVIOUS
    <2>1. pc'[d] = "idle"
      BY <1>2, <1>5 DEF Live, Procs, Typed, TypeOK, RecPCs
    <2> QED
      BY <2>1 DEF RecLinked
  <1> QED
    BY <1>3, <1>4 DEF Linked

(* The same when a process is killed: a dead run and an idle recovery know *)
(* nothing.                                                                *)
LEMMA QuitLinks ==
  ASSUME Typed, Kept, Linked, Overlap = FALSE, NEW p \in Procs,
         Live(p), Die(p), Claims(p), FilesOK'
  PROVE  Linked'
  <1>1. StepOf(p)
    BY DEF StepOf, Die, Goto
  <1>2. CASE p \in Runs
    <2>1. pc'[p] = "dead"
      BY <1>2 DEF Die, Goto, Typed, TypeOK
    <2>2. RunLinked(p)'
      BY <2>1 DEF RunLinked, Live, HoldingPCs, LinkedPCs, BusyPCs, TryPCs
    <2> QED
      BY <1>1, <1>2, <2>2, RunLinks
  <1>3. CASE p \in Recoverers
    <2>1. pc'[p] = "idle"
      BY <1>3, ProcessAssumption DEF Die, Goto, Typed, TypeOK
    <2>2. RecLinked(p)'
      BY <2>1 DEF RecLinked
    <2> QED
      BY <1>1, <1>3, <2>2, RecLinks
  <1> QED
    BY <1>2, <1>3 DEF Procs

(* The checkpoint of a run that holds no claim is nobody's business.       *)
LEMMA FreeCheckpoint ==
  ASSUME FilesOK, UNCHANGED <<queue, results>>,
         \A q \in Runs, i \in Items : claimed[i] = q => active'[q] = active[q]
  PROVE  FilesOK'
  <1>1. UNCHANGED <<pending, claimed, completed, failed, results>>
    BY DEF queue
  <1>2. \A q \in Runs, i \in Items : claimed'[i] = q => ClaimOK(q, i)'
    BY <1>1 DEF FilesOK, ClaimOK, Readable
  <1> QED
    BY <1>1, <1>2 DEF FilesOK, EndOK, Readable

(* A checkpoint that fits the one claim of its run leaves the files linked. *)
LEMMA ClaimCheckpoint ==
  ASSUME Typed, FilesOK, UNCHANGED <<queue, results>>, NEW r \in Runs,
         NEW i \in Items, claimed[i] = r, ClaimOK(r, i)',
         \A q \in Runs \ {r} : active'[q] = active[q]
  PROVE  FilesOK'
  <1>1. UNCHANGED <<pending, claimed, completed, failed, results>>
    BY DEF queue
  <1>2. ASSUME NEW q \in Runs, NEW j \in Items, claimed'[j] = q
        PROVE  ClaimOK(q, j)'
    <2>1. CASE q = r
      BY <1>1, <1>2, <2>1 DEF FilesOK
    <2>2. CASE q # r
      BY <1>1, <1>2, <2>2 DEF FilesOK, ClaimOK, Readable
    <2> QED
      BY <2>1, <2>2
  <1> QED
    BY <1>1, <1>2 DEF FilesOK, EndOK, Readable

(* So does giving up a claim, or tearing its file.                         *)
LEMMA Unclaimed ==
  ASSUME Typed, FilesOK, NEW i \in Items, NEW f \in {NoFile, Torn},
         claimed' = [claimed EXCEPT ![i] = f],
         UNCHANGED <<pending, completed, failed, results, active>>
  PROVE  FilesOK'
  <1>1. \A j \in Items : claimed'[j] \in Runs => claimed'[j] = claimed[j]
    BY MarkerAssumption DEF Typed, TypeOK
  <1>2. \A q \in Runs, j \in Items : claimed'[j] = q => ClaimOK(q, j)'
    BY <1>1 DEF FilesOK, ClaimOK, Readable
  <1> QED
    BY <1>1, <1>2 DEF FilesOK, EndOK, Readable

(* The completed record, or a torn one, of an item whose claim's           *)
(* checkpoint names the result.                                            *)
LEMMA CompletedFiles ==
  ASSUME Typed, FilesOK, NEW r \in Runs, NEW i \in Items,
         NEW d \in Done \cup {Torn}, claimed[i] = r,
         Readable(d) => d.result = <<r, i>>,
         active[r] # Torn, active[r].result = <<r, i>>,
         completed' = [completed EXCEPT ![i] = d],
         UNCHANGED <<pending, claimed, failed, results, active>>
  PROVE  FilesOK'
  <1>1. /\ completed'[i] = d
        /\ \A j \in Items \ {i} : completed'[j] = completed[j]
    BY DEF Typed, TypeOK
  <1>2. ClaimOK(r, i) /\ <<r, i>> \in results /\ pending[i] = NoFile
    BY DEF FilesOK, ClaimOK
  <1>3. ClaimOK(r, i)'
    BY <1>1, <1>2 DEF ClaimOK
  <1>4. EndOK(i)'
    BY <1>1, <1>2 DEF FilesOK, EndOK
  <1>5. i \notin BadManifest
    BY <1>2 DEF FilesOK
  <1>6. \A j \in Items \ {i} : EndOK(j)'
    BY <1>1 DEF FilesOK, EndOK, Readable
  <1>7. ASSUME NEW q \in Runs, NEW j \in Items \ {i}, claimed'[j] = q
        PROVE  ClaimOK(q, j)'
    BY <1>1, <1>7 DEF FilesOK, ClaimOK, Readable
  <1> QED
    BY <1>1, <1>3, <1>4, <1>5, <1>6, <1>7 DEF FilesOK

(* Only an item with a bad manifest may be recorded as failed.             *)
LEMMA FailedFiles ==
  ASSUME Typed, FilesOK, NEW i \in Items, i \in BadManifest, NEW f,
         failed' = [failed EXCEPT ![i] = f],
         UNCHANGED <<pending, claimed, completed, results, active>>
  PROVE  FilesOK'
  <1>1. \A j \in Items : EndOK(j)'
    BY DEF Typed, TypeOK, FilesOK, EndOK, Readable
  <1>2. \A j \in Items, q \in Runs : claimed'[j] = q => ClaimOK(q, j)'
    BY DEF FilesOK, ClaimOK, Readable
  <1> QED
    BY <1>1, <1>2 DEF FilesOK

(* The checkpoint of a claim without a result excludes any completion.     *)
LEMMA NotCompleted ==
  ASSUME FilesOK, NEW r \in Runs, NEW i \in Items, claimed[i] = r,
         active[r].result = None
  PROVE  completed[i] = NoFile
  <1>1. <<r, i>> # None
    BY MarkerAssumption DEF Results
  <1>2. ClaimOK(r, i)
    BY DEF FilesOK
  <1> QED
    BY <1>1, <1>2 DEF ClaimOK

(* An item whose claim's checkpoint names no result may be queued again,   *)
(* or its pending file be torn.                                            *)
LEMMA RequeuedFiles ==
  ASSUME Typed, FilesOK, NEW r \in Runs, NEW i \in Items, NEW f,
         claimed[i] = r, active[r] # Torn, active[r].result = None,
         pending' = [pending EXCEPT ![i] = f],
         UNCHANGED <<claimed, completed, failed, results, active>>
  PROVE  FilesOK'
  <1>1. completed[i] = NoFile
    BY NotCompleted
  <1>2. \A j \in Items \ {i} : pending'[j] = pending[j]
    BY DEF Typed, TypeOK
  <1>3. \A j \in Items : EndOK(j)'
    BY <1>1, <1>2, MarkerAssumption DEF FilesOK, EndOK, Readable
  <1>4. ClaimOK(r, i)'
    BY <1>1, MarkerAssumption DEF FilesOK, ClaimOK, Readable, Results
  <1>5. ASSUME NEW q \in Runs, NEW j \in Items, claimed'[j] = q
        PROVE  ClaimOK(q, j)'
    BY <1>2, <1>4, <1>5 DEF FilesOK, ClaimOK, Readable
  <1> QED
    BY <1>3, <1>5 DEF FilesOK

(* Every step keeps Linked.                                                *)
LEMMA LinkedStep ==
  ASSUME Overlap = FALSE, Faults = {}, TornWrites => NeedsReview = {},
         Typed, Kept, Linked, [Next]_vars
  PROVE  Linked'
  <1> USE MarkerAssumption, ProcessAssumption, ItemsAssumption
      DEF Goto, Persist, queue, gate, journal, local, Typed, TypeOK, ControlOK,
          Readable, BusyPCs, RecBusyPCs, TryPCs, OwnerPCs, HoldingPCs,
          LinkedPCs, Procs
  <1>1. ASSUME NEW r \in Runs, Begin(r) PROVE Linked'
    <2>1. StepOf(r) /\ Claims(r)
      BY <1>1 DEF Begin, StepOf, Claims, Live, Die
    <2>2. \A i \in Items : claimed[i] # r
      BY <1>1 DEF Begin, Linked, RunLinked
    <2>3. FilesOK'
      BY <1>1, <2>2, FreeCheckpoint DEF Begin, Linked
    <2>4. RunLinked(r)'
      BY <1>1, <2>2 DEF Begin, RunLinked, Live, Blank
    <2> QED
      BY <2>1, <2>3, <2>4, RunLinks
  <1>2. ASSUME NEW r \in Runs, Snapshot(r) PROVE Linked'
    <2>1. StepOf(r) /\ Claims(r)
      BY <1>2 DEF Snapshot, StepOf, Claims, Live, Die
    <2>2. FilesOK'
      BY <1>2
      DEF Snapshot, Linked, FilesOK, EndOK, ClaimOK, RunLinked, Kept,
          RunHolds, Live
    <2>3. RunLinked(r)'
      BY <1>2
      DEF Snapshot, Linked, FilesOK, EndOK, ClaimOK, RunLinked, Kept,
          RunHolds, Live, Die
    <2> QED
      BY <2>1, <2>2, <2>3, RunLinks
  <1>3. ASSUME NEW r \in Runs, ClaimWrite(r) PROVE Linked'
    <2>1. StepOf(r) /\ Claims(r)
      BY <1>3 DEF ClaimWrite, StepOf, Claims, Live, Die
    <2> PICK i \in Firsts(todo[r]) :
          /\ cur' = [cur EXCEPT ![r] = i]
          /\ todo' = [todo EXCEPT ![r] = @ \ {i}]
          /\ claimed' = [claimed EXCEPT ![i] = r]
      BY <1>3 DEF ClaimWrite
    <2>2. i \in Items /\ Readable(pending[i])
      BY <1>3 DEF ClaimWrite, Firsts, Kept, RunHolds
    <2>3. /\ pc[r] = "next" /\ pc'[r] = "claiming" /\ cur'[r] = i
          /\ claimed'[i] = r
          /\ \A j \in Items \ {i} : claimed'[j] = claimed[j]
          /\ UNCHANGED <<pending, completed, failed, results, active, ck>>
      BY <1>3, <2>2 DEF ClaimWrite
    <2>4. /\ \A j \in Items : claimed[j] # r
          /\ active[r] = ck[r] /\ ck[r].result = None
      BY <2>3 DEF Linked, RunLinked, Live
    <2>5. completed[i] = NoFile
      BY <2>2 DEF Linked, FilesOK, EndOK
    <2>6. FilesOK'
      <3>1. ClaimOK(r, i)'
        BY <2>2, <2>3, <2>4, <2>5 DEF ClaimOK, Checkpoint, Results
      <3>2. ASSUME NEW q \in Runs, NEW j \in Items, claimed'[j] = q
            PROVE  ClaimOK(q, j)'
        <4>1. CASE j = i
          BY <2>3, <3>1, <3>2, <4>1
        <4>2. CASE j # i
          <5>1. ClaimOK(q, j)
            BY <2>3, <3>2, <4>2 DEF Linked, FilesOK
          <5> QED
            BY <2>3, <5>1 DEF ClaimOK
        <4> QED
          BY <4>1, <4>2
      <3> QED
        BY <2>2, <2>3, <2>4, <3>2 DEF Linked, FilesOK, EndOK
    <2>7. RunLinked(r)'
      BY <2>3, <2>4 DEF RunLinked, Live
    <2> QED
      BY <2>1, <2>6, <2>7, RunLinks
  <1>4. ASSUME NEW r \in Runs, ClaimUnlink(r) PROVE Linked'
    <2>1. StepOf(r) /\ Claims(r)
      BY <1>4 DEF ClaimUnlink, StepOf, Claims, Live, Die
    <2>2. FilesOK'
      BY <1>4
      DEF ClaimUnlink, Linked, FilesOK, EndOK, ClaimOK, RunLinked, Kept,
          RunHolds, Live
    <2>3. RunLinked(r)'
      BY <1>4
      DEF ClaimUnlink, Linked, FilesOK, EndOK, ClaimOK, RunLinked, Kept,
          RunHolds, Live, Die
    <2> QED
      BY <2>1, <2>2, <2>3, RunLinks
  <1>5. ASSUME NEW r \in Runs, RecordClaim(r) PROVE Linked'
    <2>1. StepOf(r) /\ Claims(r)
      BY <1>5 DEF RecordClaim, StepOf, Claims, Live, Die
    <2>2. /\ cur[r] \in Items /\ claimed[cur[r]] = r /\ pc[r] = "claimed"
          /\ active[r] = ck[r] /\ ck[r].result = None
          /\ pending[cur[r]] = NoFile
      BY <1>5 DEF RecordClaim, Linked, RunLinked, Live
    <2> PICK k \in Checkpoint : k = [item |-> cur[r], result |-> None, review |-> 0]
      BY <2>2 DEF Checkpoint
    <2>3. /\ active' = [active EXCEPT ![r] = k] /\ ck' = [ck EXCEPT ![r] = k]
          /\ pc'[r] = "working"
          /\ UNCHANGED <<pending, claimed, completed, failed, results, cur>>
      BY <1>5 DEF RecordClaim
    <2>4. k \notin {NoFile, Torn} /\ k.result = None
      OBVIOUS
    <2>5. completed[cur[r]] = NoFile
      BY <2>2, NotCompleted DEF Linked
    <2>6. FilesOK'
      <3>1. ClaimOK(r, cur[r])'
        BY <2>2, <2>3, <2>4, <2>5 DEF ClaimOK, Results
      <3> QED
        BY <2>2, <2>3, <3>1, ClaimCheckpoint DEF Linked
    <2>7. RunLinked(r)'
      BY <2>2, <2>3, <2>4 DEF RunLinked, Live
    <2> QED
      BY <2>1, <2>6, <2>7, RunLinks
  <1>6. ASSUME NEW r \in Runs, RejectManifest(r) PROVE Linked'
    <2>1. StepOf(r) /\ Claims(r)
      BY <1>6 DEF RejectManifest, StepOf, Claims, Live, Die
    <2>2. FilesOK'
      BY <1>6
      DEF RejectManifest, Linked, FilesOK, EndOK, ClaimOK, RunLinked, Kept,
          RunHolds, Live
    <2>3. RunLinked(r)'
      BY <1>6
      DEF RejectManifest, Linked, FilesOK, EndOK, ClaimOK, RunLinked, Kept,
          RunHolds, Live, Die
    <2> QED
      BY <2>1, <2>2, <2>3, RunLinks
  <1>7. ASSUME NEW r \in Runs, WriteResult(r) PROVE Linked'
    <2>1. StepOf(r) /\ Claims(r)
      BY <1>7 DEF WriteResult, StepOf, Claims, Live, Die
    <2>2. FilesOK'
      BY <1>7
      DEF WriteResult, Linked, FilesOK, EndOK, ClaimOK, RunLinked, Kept,
          RunHolds, Live
    <2>3. RunLinked(r)'
      BY <1>7
      DEF WriteResult, Linked, FilesOK, EndOK, ClaimOK, RunLinked, Kept,
          RunHolds, Live, Die
    <2> QED
      BY <2>1, <2>2, <2>3, RunLinks
  <1>8. ASSUME NEW r \in Runs, RecordResult(r) PROVE Linked'
    <2>1. StepOf(r) /\ Claims(r)
      BY <1>8 DEF RecordResult, StepOf, Claims, Live, Die
    <2>2. /\ cur[r] \in Items /\ claimed[cur[r]] = r /\ pc[r] = "resulted"
          /\ active[r] = ck[r] /\ ck[r].result = None
          /\ pending[cur[r]] = NoFile /\ <<r, cur[r]>> \in results
      BY <1>8 DEF RecordResult, Linked, RunLinked, Live
    <2> PICK k : k = [ck[r] EXCEPT !.result = <<r, cur[r]>>]
      OBVIOUS
    <2>3. k \in Checkpoint /\ k.result = <<r, cur[r]>>
      <3>1. ck[r] \in Checkpoint /\ <<r, cur[r]>> \in Results
        BY <2>2 DEF Results
      <3> QED
        BY <3>1, CheckpointUpdate DEF Checkpoint
    <2>4. /\ active' = [active EXCEPT ![r] = k] /\ ck' = [ck EXCEPT ![r] = k]
          /\ pc'[r] = "completing"
          /\ UNCHANGED <<pending, claimed, completed, failed, results, cur>>
      BY <1>8 DEF RecordResult
    <2>5. completed[cur[r]] = NoFile
      BY <2>2, NotCompleted DEF Linked
    <2>6. FilesOK'
      <3>1. ClaimOK(r, cur[r])'
        BY <2>2, <2>3, <2>4, <2>5 DEF ClaimOK
      <3> QED
        BY <2>2, <2>4, <3>1, ClaimCheckpoint DEF Linked
    <2>7. RunLinked(r)'
      BY <2>2, <2>3, <2>4 DEF RunLinked, Live
    <2> QED
      BY <2>1, <2>6, <2>7, RunLinks
  <1>9. ASSUME NEW r \in Runs, CompleteWrite(r) PROVE Linked'
    <2>1. StepOf(r) /\ Claims(r)
      BY <1>9 DEF CompleteWrite, StepOf, Claims, Live, Die
    <2>2. /\ cur[r] \in Items /\ claimed[cur[r]] = r /\ pc[r] = "completing"
          /\ active[r] = ck[r] /\ ck[r].result = <<r, cur[r]>>
          /\ pending[cur[r]] = NoFile /\ <<r, cur[r]>> \in results
      BY <1>9 DEF CompleteWrite, Linked, RunLinked, Live
    <2> PICK d : d = [result |-> <<r, cur[r]>>, review |-> 0]
      OBVIOUS
    <2>3. d \in Done /\ d.result = <<r, cur[r]>>
      BY <2>2 DEF Done, Results
    <2>4. /\ completed' = [completed EXCEPT ![cur[r]] = d]
          /\ pc'[r] = "unclaiming"
          /\ UNCHANGED <<pending, claimed, failed, results, active, ck, cur>>
      BY <1>9 DEF CompleteWrite
    <2>5. FilesOK'
      <3>1. active[r] # Torn /\ active[r].result = <<r, cur[r]>>
        BY <2>2
      <3>2. /\ FilesOK /\ d \in Done \cup {Torn}
            /\ UNCHANGED <<pending, claimed, failed, results, active>>
        BY <2>3, <2>4 DEF Linked
      <3> QED
        BY <2>2, <2>3, <2>4, <3>1, <3>2, CompletedFiles
    <2>6. RunLinked(r)'
      BY <2>2, <2>3, <2>4 DEF RunLinked, Live
    <2> QED
      BY <2>1, <2>5, <2>6, RunLinks
  <1>10. ASSUME NEW r \in Runs, CompleteUnlink(r) PROVE Linked'
    <2>1. StepOf(r) /\ Claims(r)
      BY <1>10 DEF CompleteUnlink, StepOf, Claims, Live, Die
    <2>2. /\ cur[r] \in Items /\ claimed[cur[r]] = r /\ pc[r] = "unclaiming"
      BY <1>10 DEF CompleteUnlink, Linked, RunLinked
    <2>3. /\ claimed' = [claimed EXCEPT ![cur[r]] = NoFile]
          /\ pc'[r] \in {"emitting", "recording"}
          /\ UNCHANGED <<pending, completed, failed, results, active, ck, cur>>
      BY <1>10, <2>2 DEF CompleteUnlink
    <2>4. FilesOK'
      BY <2>2, <2>3, Unclaimed DEF Linked
    <2>7. \A i \in Items : claimed[i] = r => i = cur[r]
      BY <2>2 DEF Linked, FilesOK
    <2>5. \A i \in Items : claimed'[i] # r
      BY <2>2, <2>3, <2>7
    <2>6. RunLinked(r)'
      BY <2>2, <2>3, <2>5 DEF Linked, RunLinked, Live
    <2> QED
      BY <2>1, <2>4, <2>6, RunLinks
  <1>11. ASSUME NEW r \in Runs, EmitReview(r) PROVE Linked'
    <2>1. StepOf(r) /\ Claims(r)
      BY <1>11 DEF EmitReview, StepOf, Claims, Live, Die
    <2>2. FilesOK'
      BY <1>11
      DEF EmitReview, Linked, FilesOK, EndOK, ClaimOK, RunLinked, Kept,
          RunHolds, Live
    <2>3. RunLinked(r)'
      BY <1>11
      DEF EmitReview, Linked, FilesOK, EndOK, ClaimOK, RunLinked, Kept,
          RunHolds, Live, Die
    <2> QED
      BY <2>1, <2>2, <2>3, RunLinks
  <1>12. ASSUME NEW r \in Runs, AttachReviewRef(r) PROVE Linked'
    <2>1. StepOf(r) /\ Claims(r)
      BY <1>12 DEF AttachReviewRef, StepOf, Claims, Live, Die
    <2>2. /\ cur[r] \in Items /\ pc[r] = "attaching" /\ pc'[r] = "flagging"
          /\ UNCHANGED <<pending, claimed, results, active, ck, cur>>
      BY <1>12 DEF AttachReviewRef
    <2>3. FilesOK'
      BY <1>12
      DEF AttachReviewRef, Linked, FilesOK, EndOK, ClaimOK, RunLinked, Kept,
          RunHolds, Live, Blank
    <2> PICK d : d = [result |-> <<r, cur[r]>>, review |-> rv[r]]
      OBVIOUS
    <2>4. /\ d \in Done /\ d.result = <<r, cur[r]>>
          /\ completed' = [completed EXCEPT ![cur[r]] = d]
      BY <1>12, <2>2 DEF AttachReviewRef, Done, Results
    <2>6. RunLinked(r)
      BY DEF Linked
    <2>7. completed'[cur[r]] = d
      BY <2>2, <2>4
    <2>5. RunLinked(r)'
      BY <2>2, <2>4, <2>6, <2>7 DEF RunLinked, Live
    <2> QED
      BY <2>1, <2>3, <2>5, RunLinks
  <1>13. ASSUME NEW r \in Runs, RecordReview(r) PROVE Linked'
    <2>1. StepOf(r) /\ Claims(r)
      BY <1>13 DEF RecordReview, StepOf, Claims, Live, Die
    <2>2. \A i \in Items : claimed[i] # r
      BY <1>13 DEF RecordReview, Linked, RunLinked
    <2>3. FilesOK'
      BY <1>13, <2>2, FreeCheckpoint DEF RecordReview, Linked
    <2>5. /\ pc[r] = "flagging" /\ pc'[r] = "recording"
          /\ active'[r] = ck'[r] /\ ck'[r].result = ck[r].result
          /\ UNCHANGED <<pending, claimed, completed, results, cur>>
      <3>1. ck[r] \in Checkpoint
        OBVIOUS
      <3> QED
        BY <1>13, <3>1 DEF RecordReview, Checkpoint
    <2>6. RunLinked(r)
      BY DEF Linked
    <2>4. RunLinked(r)'
      BY <2>2, <2>5, <2>6 DEF RunLinked, Live
    <2> QED
      BY <2>1, <2>3, <2>4, RunLinks
  <1>14. ASSUME NEW r \in Runs, RecordItemCompleted(r) PROVE Linked'
    <2>1. StepOf(r) /\ Claims(r)
      BY <1>14 DEF RecordItemCompleted, StepOf, Claims, Live, Die
    <2>2. \A i \in Items : claimed[i] # r
      BY <1>14 DEF RecordItemCompleted, Linked, RunLinked
    <2>3. FilesOK'
      BY <1>14, <2>2, FreeCheckpoint DEF RecordItemCompleted, Linked
    <2>4. RunLinked(r)'
      BY <1>14, <2>2 DEF RecordItemCompleted, Linked, RunLinked, Live, Blank
    <2> QED
      BY <2>1, <2>3, <2>4, RunLinks
  <1>15. ASSUME NEW r \in Runs, FailWrite(r) PROVE Linked'
    <2>1. StepOf(r) /\ Claims(r)
      BY <1>15 DEF FailWrite, StepOf, Claims, Live, Die
    <2>2. /\ cur[r] \in Items /\ cur[r] \in BadManifest
          /\ failed' = [failed EXCEPT ![cur[r]] = Present]
          /\ UNCHANGED <<pending, claimed, completed, results, active>>
      BY <1>15 DEF FailWrite, Linked, RunLinked
    <2>3. FilesOK'
      BY <2>2, FailedFiles DEF Linked
    <2>4. RunLinked(r)'
      BY <1>15 DEF FailWrite, Linked, RunLinked, Live
    <2> QED
      BY <2>1, <2>3, <2>4, RunLinks
  <1>16. ASSUME NEW r \in Runs, FailUnlink(r) PROVE Linked'
    <2>1. StepOf(r) /\ Claims(r)
      BY <1>16 DEF FailUnlink, StepOf, Claims, Live, Die
    <2>2. /\ cur[r] \in Items /\ claimed[cur[r]] = r /\ pc[r] = "abandoning"
      BY <1>16 DEF FailUnlink, Linked, RunLinked
    <2>3. /\ claimed' = [claimed EXCEPT ![cur[r]] = NoFile]
          /\ pc'[r] = "marking"
          /\ UNCHANGED <<pending, completed, failed, results, active, ck, cur>>
      BY <1>16, <2>2 DEF FailUnlink
    <2>4. FilesOK'
      BY <2>2, <2>3, Unclaimed DEF Linked
    <2>7. \A i \in Items : claimed[i] = r => i = cur[r]
      BY <2>2 DEF Linked, FilesOK
    <2>5. \A i \in Items : claimed'[i] # r
      BY <2>2, <2>3, <2>7
    <2>6. RunLinked(r)'
      BY <2>2, <2>3, <2>5 DEF Linked, RunLinked, Live
    <2> QED
      BY <2>1, <2>4, <2>6, RunLinks
  <1>17. ASSUME NEW r \in Runs, RecordItemFailed(r) PROVE Linked'
    <2>1. StepOf(r) /\ Claims(r)
      BY <1>17 DEF RecordItemFailed, StepOf, Claims, Live, Die
    <2>2. \A i \in Items : claimed[i] # r
      BY <1>17 DEF RecordItemFailed, Linked, RunLinked
    <2>3. FilesOK'
      BY <1>17, <2>2, FreeCheckpoint DEF RecordItemFailed, Linked
    <2>5. /\ pc[r] = "marking" /\ pc'[r] = "next"
          /\ active'[r] = ck[r] /\ UNCHANGED <<ck, claimed>>
      BY <1>17 DEF RecordItemFailed
    <2>6. ck[r].result = None
      BY <2>5 DEF Linked, RunLinked, Live
    <2>4. RunLinked(r)'
      BY <2>2, <2>5, <2>6 DEF RunLinked, Live
    <2> QED
      BY <2>1, <2>3, <2>4, RunLinks
  <1>18. ASSUME NEW r \in Runs, Finalize(r) PROVE Linked'
    <2>1. StepOf(r) /\ Claims(r)
      BY <1>18 DEF Finalize, StepOf, Claims, Live, Die
    <2>2. \A i \in Items : claimed[i] # r
      BY <1>18 DEF Finalize, Linked, RunLinked
    <2>3. FilesOK'
      BY <1>18, <2>2, FreeCheckpoint DEF Finalize, Linked
    <2>4. RunLinked(r)'
      BY <1>18, <2>2 DEF Finalize, Linked, RunLinked, Live, Blank
    <2> QED
      BY <2>1, <2>3, <2>4, RunLinks
  <1>19. ASSUME NEW r \in Runs, Archive(r) PROVE Linked'
    <2>1. StepOf(r) /\ Claims(r)
      BY <1>19 DEF Archive, StepOf, Claims, Live, Die
    <2>2. \A i \in Items : claimed[i] # r
      BY <1>19 DEF Archive, Linked, RunLinked
    <2>3. FilesOK'
      BY <1>19, <2>2, FreeCheckpoint DEF Archive, Linked, Die
    <2>4. RunLinked(r)'
      BY <1>19, <2>2 DEF Archive, Linked, RunLinked, Live, Blank, Die
    <2> QED
      BY <2>1, <2>3, <2>4, RunLinks
  <1>20. ASSUME NEW c \in Recoverers, RecScan(c) PROVE Linked'
    <2>1. StepOf(c) /\ Claims(c)
      BY <1>20 DEF RecScan, StepOf, Claims, Live, Die
    <2>2. FilesOK'
      BY <1>20
      DEF RecScan, Linked, FilesOK, EndOK, ClaimOK, RecLinked, Kept, RecHolds,
          Live
    <2>3. RecLinked(c)'
      BY <1>20
      DEF RecScan, Linked, FilesOK, EndOK, ClaimOK, RecLinked, Kept, RecHolds,
          Live, Die
    <2> QED
      BY <2>1, <2>2, <2>3, RecLinks
  <1>21. ASSUME NEW c \in Recoverers, RecTake(c) PROVE Linked'
    <2>1. StepOf(c) /\ Claims(c)
      BY <1>21 DEF RecTake, StepOf, Claims, Live, Die
    <2>2. FilesOK'
      BY <1>21, FreeCheckpoint DEF RecTake, Linked
    <2> PICK i \in todo[c] :
          /\ cur' = [cur EXCEPT ![c] = i]
          /\ todo' = [todo EXCEPT ![c] = @ \ {i}]
          /\ IF active[seen[c][i]] = Torn
               THEN Die(c) /\ UNCHANGED <<res, rv>>
               ELSE LET known == Known(seen[c][i]) IN
                    /\ res' = [res EXCEPT ![c] = known.result]
                    /\ rv' = [rv EXCEPT ![c] = known.review]
                    /\ Goto(c, RecBranch(known))
      BY <1>21 DEF RecTake
    <2>3. /\ pc[c] = "take" /\ i \in Items /\ seen[c][i] \in Runs
          /\ UNCHANGED <<claimed, active, seen>>
      BY <1>21 DEF RecTake
    <2> PICK run \in Runs : run = seen[c][i]
      BY <2>3
    <2>4. /\ \A j \in todo[c] : claimed[j] = seen[c][j]
          /\ claimed[i] = run /\ ClaimOK(run, i)
      BY <2>3 DEF Linked, RecLinked, FilesOK
    <2>5. ASSUME active[run] = Torn PROVE RecLinked(c)'
      <3>1. pc' = [pc EXCEPT ![c] = "idle"]
        BY <2>5 DEF Die
      <3>2. pc'[c] = "idle"
        BY <3>1
      <3> QED
        BY <3>2 DEF RecLinked
    <2>6. ASSUME active[run] # Torn PROVE RecLinked(c)'
      <3>1. Known(run) = active[run]
        BY <2>4 DEF Known, ClaimOK
      <3>2. /\ res'[c] = active[run].result
            /\ pc'[c] = RecBranch(active[run])
            /\ cur'[c] = i /\ todo'[c] = todo[c] \ {i}
        BY <2>3, <2>6, <3>1
      <3>3. active[run].result \in {None, <<run, i>>}
        BY <2>4, <2>6 DEF ClaimOK
      <3>4. None \notin results
        BY DEF Results
      <3>6. active[run].result = <<run, i>> => <<run, i>> \in results
        BY <2>4, <2>6 DEF ClaimOK
      <3>5. /\ pc'[c] \in {"requeue", "reemit", "recomplete"}
            /\ pc'[c] = "requeue" => active[run].result = None
            /\ pc'[c] # "requeue" => active[run].result = <<run, i>>
        <4> PICK k : k = active[run]
          OBVIOUS
        <4>1. RecBranch(k) \in {"requeue", "reemit", "recomplete"}
          BY DEF RecBranch
        <4>2. RecBranch(k) = "requeue" <=> k.result \notin results
          BY DEF RecBranch
        <4> QED
          BY <3>2, <3>3, <3>4, <3>6, <4>1, <4>2
      <3> QED
        <4>1. /\ claimed'[i] = run /\ active'[run] # Torn
              /\ seen'[c][i] = run /\ active'[run] = active[run]
              /\ \A j \in todo'[c] : claimed'[j] = seen'[c][j]
          BY <2>3, <2>4, <2>6, <3>2
        <4>2. cur'[c] = i /\ res'[c] = active[run].result
          BY <3>2
        <4> QED
          BY <3>5, <4>1, <4>2 DEF RecLinked
    <2>7. RecLinked(c)'
      BY <2>5, <2>6
    <2> QED
      BY <2>1, <2>2, <2>7, RecLinks
  <1>22. ASSUME NEW c \in Recoverers, RecEmit(c) PROVE Linked'
    <2>1. StepOf(c) /\ Claims(c)
      BY <1>22 DEF RecEmit, StepOf, Claims, Live, Die
    <2>2. FilesOK'
      BY <1>22
      DEF RecEmit, Linked, FilesOK, EndOK, ClaimOK, RecLinked, Kept, RecHolds,
          Live
    <2>3. RecLinked(c)'
      BY <1>22
      DEF RecEmit, Linked, FilesOK, EndOK, ClaimOK, RecLinked, Kept, RecHolds,
          Live, Die
    <2> QED
      BY <2>1, <2>2, <2>3, RecLinks
  <1>23. ASSUME NEW c \in Recoverers, RecComplete(c) PROVE Linked'
    <2>1. StepOf(c) /\ Claims(c)
      BY <1>23 DEF RecComplete, StepOf, Claims, Live, Die
    <2> PICK run \in Runs : run = seen[c][cur[c]]
      BY <1>23 DEF RecComplete
    <2>2. /\ cur[c] \in Items /\ claimed[cur[c]] = run
          /\ active[run] # Torn /\ active[run].result = res[c]
          /\ res[c] = <<run, cur[c]>>
      BY <1>23 DEF RecComplete, Linked, RecLinked
    <2> PICK d : d = [result |-> res[c], review |-> rv[c]]
      OBVIOUS
    <2>3. d \in Done /\ d.result = <<run, cur[c]>>
      BY <2>2 DEF Done, Results
    <2>4. completed' = [completed EXCEPT ![cur[c]] = d]
      BY <1>23 DEF RecComplete
    <2>5. FilesOK'
      <3>1. UNCHANGED <<pending, claimed, failed, results, active>>
        BY <1>23 DEF RecComplete
      <3> QED
        BY <2>2, <2>3, <2>4, <3>1, CompletedFiles DEF Linked
    <2>6. RecLinked(c)'
      <3>1. /\ pc[c] = "recomplete" /\ pc'[c] = "release"
            /\ UNCHANGED <<todo, claimed, seen, cur>>
        BY <1>23 DEF RecComplete
      <3>2. RecLinked(c)
        BY DEF Linked
      <3> QED
        BY <3>1, <3>2 DEF RecLinked
    <2> QED
      BY <2>1, <2>5, <2>6, RecLinks
  <1>24. ASSUME NEW c \in Recoverers, RecRequeue(c) PROVE Linked'
    <2>1. StepOf(c) /\ Claims(c)
      BY <1>24 DEF RecRequeue, StepOf, Claims, Live, Die
    <2> PICK run \in Runs : run = seen[c][cur[c]]
      BY <1>24 DEF RecRequeue
    <2>2. /\ cur[c] \in Items /\ claimed[cur[c]] = run
          /\ active[run] # Torn /\ active[run].result = None
      BY <1>24 DEF RecRequeue, Linked, RecLinked
    <2>3. completed[cur[c]] = NoFile
      BY <2>2, NotCompleted DEF Linked
    <2>4. /\ pending' = [pending EXCEPT ![cur[c]] = Present]
          /\ UNCHANGED <<claimed, completed, failed, results, active>>
      BY <1>24 DEF RecRequeue
    <2>5. FilesOK'
      BY <2>2, <2>3, <2>4, RequeuedFiles DEF Linked
    <2>6. RecLinked(c)'
      BY <1>24 DEF RecRequeue, Linked, RecLinked
    <2> QED
      BY <2>1, <2>5, <2>6, RecLinks
  <1>25. ASSUME NEW c \in Recoverers, RecRelease(c) PROVE Linked'
    <2>1. StepOf(c) /\ Claims(c)
      BY <1>25 DEF RecRelease, StepOf, Claims, Live, Die
    <2> PICK run \in Runs : run = seen[c][cur[c]]
      BY <1>25 DEF RecRelease
    <2>2. cur[c] \in Items /\ claimed[cur[c]] = run
      BY <1>25 DEF RecRelease, Linked, RecLinked
    <2>3. /\ claimed' = [claimed EXCEPT ![cur[c]] = NoFile]
          /\ pc'[c] = "retire"
          /\ UNCHANGED <<pending, completed, failed, results, active, todo, cur, seen>>
      BY <1>25, <2>2 DEF RecRelease
    <2>4. FilesOK'
      BY <2>2, <2>3, Unclaimed DEF Linked
    <2>5. /\ \A i \in Items : claimed'[i] # run
          /\ \A i \in todo[c] : i # cur[c] /\ claimed'[i] = claimed[i]
          /\ \A i \in todo[c] : claimed[i] = seen[c][i]
      BY <1>25, <2>2, <2>3
      DEF RecRelease, Linked, FilesOK, RecLinked, Kept, RecHolds
    <2>6. RecLinked(c)'
      BY <2>3, <2>5 DEF RecLinked
    <2> QED
      BY <2>1, <2>4, <2>6, RecLinks
  <1>26. ASSUME NEW c \in Recoverers, RecRetire(c) PROVE Linked'
    <2>1. StepOf(c) /\ Claims(c)
      BY <1>26 DEF RecRetire, StepOf, Claims, Live, Die
    <2> PICK run \in Runs : run = seen[c][cur[c]]
      BY <1>26 DEF RecRetire
    <2>2. \A i \in Items : claimed[i] # run
      BY <1>26 DEF RecRetire, Linked, RecLinked
    <2>3. /\ \A q \in Runs \ {run} : active'[q] = active[q]
          /\ pc'[c] \in {"take", "idle"}
          /\ UNCHANGED <<queue, results, todo, seen>>
      BY <1>26 DEF RecRetire, Die
    <2>4. FilesOK'
      BY <2>2, <2>3, FreeCheckpoint DEF Linked
    <2>5. \A i \in todo[c] : claimed[i] = seen[c][i]
      BY <1>26 DEF RecRetire, Linked, RecLinked
    <2>6. RecLinked(c)'
      BY <2>3, <2>5 DEF RecLinked
    <2> QED
      BY <2>1, <2>4, <2>6, RecLinks
  <1>27. ASSUME NEW c \in Recoverers, RecEnd(c) PROVE Linked'
    <2>1. StepOf(c) /\ Claims(c)
      BY <1>27 DEF RecEnd, StepOf, Claims, Live, Die
    <2>2. FilesOK'
      BY <1>27
      DEF RecEnd, Linked, FilesOK, EndOK, ClaimOK, RecLinked, Kept, RecHolds,
          Live
    <2>3. RecLinked(c)'
      BY <1>27
      DEF RecEnd, Linked, FilesOK, EndOK, ClaimOK, RecLinked, Kept, RecHolds,
          Live, Die
    <2> QED
      BY <2>1, <2>2, <2>3, RecLinks
  <1>28. ASSUME NEW p \in Procs, Kill(p) PROVE Linked'
    <2>1. Live(p) /\ Die(p) /\ Claims(p)
      BY <1>28 DEF Kill, Claims
    <2>2. UNCHANGED <<queue, results, active>>
      BY <1>28 DEF Kill
    <2>3. FilesOK'
      BY <2>2, FreeCheckpoint DEF Linked
    <2> QED
      BY <2>1, <2>3, QuitLinks
  <1>29. ASSUME NEW p \in Procs, KillMidWrite(p) PROVE Linked'
    <2>1. Live(p) /\ Die(p) /\ UNCHANGED results /\ TornWrites
      BY <1>29 DEF KillMidWrite
    <2>2. CASE /\ pc[p] = "next" /\ \E i \in Firsts(todo[p]) : Tear(claimed, i)
               /\ UNCHANGED <<pending, completed, failed, active>>
      <3>1. PICK i \in todo[p] : claimed' = [claimed EXCEPT ![i] = Torn]
        BY <2>2 DEF Firsts, Tear
      <3>2. i \in Items /\ Claims(p)
        BY <3>1 DEF Claims
      <3>3. FilesOK'
        BY <2>1, <2>2, <3>1, <3>2, Unclaimed DEF Linked
      <3> QED
        BY <2>1, <3>2, <3>3, QuitLinks
    <2>3. CASE /\ \/ pc[p] \in {"claimed", "resulted", "flagging", "recording",
                                "marking"}
                  \/ pc[p] = "next" /\ todo[p] = {}
               /\ Tear(active, p) /\ UNCHANGED queue
      <3>1. p \in Runs
        BY <2>3 DEF RecPCs
      <3>2. /\ active' = [active EXCEPT ![p] = Torn] /\ Claims(p)
            /\ UNCHANGED <<pending, claimed, completed, failed>>
        BY <2>3 DEF Tear, Claims
      <3>3. CASE pc[p] \in {"claimed", "resulted"}
        <4>1. /\ cur[p] \in Items /\ claimed[cur[p]] = p
              /\ active[p].result = None
          BY <2>1, <3>1, <3>3 DEF Linked, RunLinked
        <4>2. completed[cur[p]] = NoFile
          BY <3>1, <4>1, NotCompleted DEF Linked
        <4>3. ClaimOK(p, cur[p])'
          <5>1. active'[p] = Torn /\ completed'[cur[p]] = NoFile
            BY <3>1, <3>2, <4>2
          <5>2. cur'[p] = cur[p]
            BY <1>29 DEF KillMidWrite
          <5> QED
            BY <2>1, <5>1, <5>2 DEF ClaimOK
        <4>5. PICK i \in Items : i = cur[p]
          BY <4>1
        <4>6. cur'[p] = cur[p]
          BY <1>29 DEF KillMidWrite
        <4>7. \A q \in Runs \ {p} : active'[q] = active[q]
          BY <3>1, <3>2
        <4>4. FilesOK'
          BY <2>1, <2>3, <3>1, <4>1, <4>3, <4>5, <4>6, <4>7, ClaimCheckpoint
          DEF Linked
        <4> QED
          BY <2>1, <3>2, <4>4, QuitLinks
      <3>4. CASE pc[p] \notin {"claimed", "resulted"}
        <4>1. \A i \in Items : claimed[i] # p
          BY <2>3, <3>1, <3>4 DEF Linked, RunLinked
        <4>2. FilesOK'
          BY <2>1, <2>3, <3>2, <4>1, FreeCheckpoint DEF Linked
        <4> QED
          BY <2>1, <3>2, <4>2, QuitLinks
      <3> QED
        BY <3>3, <3>4
    <2>4. CASE /\ pc[p] \in {"completing", "attaching", "recomplete"}
               /\ Tear(completed, cur[p])
               /\ UNCHANGED <<pending, claimed, failed, active>>
      <3>1. pc[p] # "attaching"
        <4>1. pc[p] = "attaching" => p \in Runs
          BY DEF RecPCs
        <4> QED
          BY <2>1, <4>1 DEF Kept, RunHolds
      <3>2. PICK run \in Runs :
              /\ cur[p] \in Items /\ claimed[cur[p]] = run
              /\ active[run] # Torn /\ active[run].result = <<run, cur[p]>>
        <4>1. CASE pc[p] = "completing"
          <5>1. p \in Runs
            BY <4>1 DEF RecPCs
          <5>2. /\ claimed[cur[p]] = p /\ active[p] = ck[p]
                /\ ck[p].result = <<p, cur[p]>> /\ cur[p] \in Items
            BY <2>1, <4>1, <5>1 DEF Linked, RunLinked
          <5>3. active[p] # Torn
            BY <5>1, <5>2
          <5> QED
            BY <5>1, <5>2, <5>3
        <4>2. CASE pc[p] = "recomplete"
          <5>1. p \in Recoverers
            BY <4>2 DEF RunPCs
          <5>2. PICK run \in Runs : run = seen[p][cur[p]]
            BY <4>2, <5>1
          <5> QED
            BY <4>2, <5>1, <5>2 DEF Linked, RecLinked
        <4> QED
          BY <2>4, <3>1, <4>1, <4>2
      <3>3. completed' = [completed EXCEPT ![cur[p]] = Torn] /\ Claims(p)
        BY <2>4 DEF Tear, Claims
      <3>4. FilesOK'
        BY <2>1, <2>4, <3>2, <3>3, CompletedFiles DEF Linked
      <3> QED
        BY <2>1, <3>3, <3>4, QuitLinks
    <2>5. CASE /\ pc[p] = "failing" /\ Tear(failed, cur[p])
               /\ UNCHANGED <<pending, claimed, completed, active>>
      <3>1. p \in Runs
        BY <2>5 DEF RecPCs
      <3>2. cur[p] \in Items /\ cur[p] \in BadManifest
        BY <2>5, <3>1 DEF Linked, RunLinked
      <3>3. failed' = [failed EXCEPT ![cur[p]] = Torn] /\ Claims(p)
        BY <2>5 DEF Tear, Claims
      <3>4. FilesOK'
        BY <2>1, <2>5, <3>2, <3>3, FailedFiles DEF Linked
      <3> QED
        BY <2>1, <3>3, <3>4, QuitLinks
    <2>6. CASE /\ pc[p] = "requeue" /\ Tear(pending, cur[p])
               /\ UNCHANGED <<claimed, completed, failed, active>>
      <3>1. p \in Recoverers
        BY <2>6 DEF RunPCs
      <3>2. PICK run \in Runs : run = seen[p][cur[p]]
        BY <2>6, <3>1
      <3>3. /\ cur[p] \in Items /\ claimed[cur[p]] = run
            /\ active[run] # Torn /\ active[run].result = None
        BY <2>6, <3>1, <3>2 DEF Linked, RecLinked
      <3>4. pending' = [pending EXCEPT ![cur[p]] = Torn] /\ Claims(p)
        BY <2>6 DEF Tear, Claims
      <3>5. FilesOK'
        BY <2>1, <2>6, <3>3, <3>4, RequeuedFiles DEF Linked
      <3> QED
        BY <2>1, <3>4, <3>5, QuitLinks
    <2>7. CASE /\ pc[p] = "retire" /\ Tear(active, seen[p][cur[p]])
               /\ UNCHANGED queue
      <3>1. p \in Recoverers
        BY <2>7 DEF RunPCs
      <3>2. PICK run \in Runs : run = seen[p][cur[p]]
        BY <2>7, <3>1
      <3>3. \A i \in Items : claimed[i] # run
        BY <2>7, <3>1, <3>2 DEF Linked, RecLinked
      <3>4. /\ \A q \in Runs \ {run} : active'[q] = active[q]
            /\ Claims(p)
        BY <2>7, <3>2 DEF Tear, Claims
      <3>5. FilesOK'
        BY <2>1, <2>7, <3>3, <3>4, FreeCheckpoint DEF Linked
      <3> QED
        BY <2>1, <3>4, <3>5, QuitLinks
    <2> QED
      BY <1>29, <2>2, <2>3, <2>4, <2>5, <2>6, <2>7 DEF KillMidWrite
  <1>30. CASE UNCHANGED vars
    <2>1. FilesOK'
      BY <1>30, FreeCheckpoint DEF vars, Linked
    <2> QED
      BY <1>30, <2>1 DEF vars, Linked, RunLinked, RecLinked, Live
  <1> QED
    BY FaultAssumption, <1>1, <1>2, <1>3, <1>4, <1>5, <1>6, <1>7, <1>8, <1>9,
       <1>10, <1>11, <1>12, <1>13, <1>14, <1>15, <1>16, <1>17, <1>18, <1>19,
       <1>20, <1>21, <1>22, <1>23, <1>24, <1>25, <1>26, <1>27, <1>28, <1>29,
       <1>30
    DEF Next, RunStep, RecStep, WorkItem, Raise, RunStep, RecStep, WorkItem

(* Typed, Kept and Linked hold throughout.                                 *)
LEMMA LinkedAlways ==
  ASSUME Overlap = FALSE, Faults = {}, TornWrites => NeedsReview = {}
  PROVE  Spec => [](Typed /\ Kept /\ Linked)
  BY TypedInit, TypedStep, KeptInit, KeptStep, LinkedInit, LinkedStep, PTL
  DEF Spec

(* An item with a completed record is neither queued again nor failed,     *)
(* whatever is killed in the middle of whichever write, if processes take  *)
(* turns and no operation raises: the except clause of run_batch would     *)
(* record a completed item as failed (eyes_queue_worker.py:417-451).       *)
THEOREM CompletionFinal ==
  ASSUME Overlap = FALSE, Faults = {}, TornWrites => NeedsReview = {}
  PROVE  Spec => []CompletedIsFinal
  <1>1. Linked => CompletedIsFinal
    BY DEF Linked, FilesOK, EndOK, CompletedIsFinal, Readable
  <1> QED
    BY LinkedAlways, <1>1, PTL

(* A completed record points at an existing result computed for this very  *)
(* item, although recovery copies the pointer from a run's checkpoint.     *)
THEOREM ResultsOwn ==
  ASSUME Overlap = FALSE, Faults = {}, TornWrites => NeedsReview = {}
  PROVE  Spec => []ResultIsOwn
  <1>1. Linked => ResultIsOwn
    BY DEF Linked, FilesOK, EndOK, ResultIsOwn
  <1> QED
    BY LinkedAlways, <1>1, PTL

(* If the run that holds a claim wrote the completed record, its checkpoint *)
(* names the result: recovery need not guess.                              *)
THEOREM CheckpointsAhead ==
  ASSUME Overlap = FALSE, Faults = {}, TornWrites => NeedsReview = {}
  PROVE  Spec => []CheckpointAhead
  <1>1. Typed /\ Linked => CheckpointAhead
    BY DEF Typed, TypeOK, Linked, FilesOK, ClaimOK, CheckpointAhead, Readable
  <1> QED
    BY LinkedAlways, <1>1, PTL

(* Whoever holds a claim has a readable checkpoint, if no write is torn.   *)
THEOREM ClaimsTraceable ==
  ASSUME Overlap = FALSE, Faults = {}, TornWrites = FALSE
  PROVE  Spec => []ClaimTraceable
  <1>1. Typed /\ Linked => ClaimTraceable
    BY DEF Typed, TypeOK, Linked, FilesOK, ClaimOK, ClaimTraceable, Readable
  <1>2. Spec => [](Typed /\ Kept /\ Linked)
    BY LinkedAlways
  <1> QED
    BY <1>1, <1>2, PTL

-----------------------------------------------------------------------------
(* How one item may move while the others rest.                            *)
Rests(i) == PhaseOf(i)' = PhaseOf(i) /\ OutcomeOf(i)' = OutcomeOf(i)
Moves(i) ==
  \/ Rests(i)
  \/ /\ OutcomeOf(i)' = OutcomeOf(i)
     /\ \/ PhaseOf(i) = "waiting" /\ PhaseOf(i)' = "claimed"
        \/ PhaseOf(i) = "claimed" /\ PhaseOf(i)' = "waiting"
        \/ PhaseOf(i) = "claimed" /\ PhaseOf(i)' = "failed"
  \/ /\ PhaseOf(i) = "claimed" /\ PhaseOf(i)' = "completed"
     /\ OutcomeOf(i)' \in ResultsFor(i)

(* The phase of an item depends on its own three files.                    *)
LEMMA FilesRest ==
  ASSUME NEW i \in Items, claimed'[i] = claimed[i],
         completed'[i] = completed[i], failed'[i] = failed[i]
  PROVE  Rests(i)
  BY DEF Rests, PhaseOf, OutcomeOf, Readable

(* A step in which one item moves and the others rest is a step of         *)
(* EyesItem, or none at all.                                               *)
LEMMA OneItemMoves ==
  ASSUME NEW i \in Items, Moves(i), \A j \in Items \ {i} : Rests(j)
  PROVE  [Item!Next]_(Item!vars)
  <1>1. CASE Rests(i)
    BY <1>1 DEF Rests, Item!vars
  <1>2. CASE OutcomeOf(i)' = OutcomeOf(i) /\ PhaseOf(i) = "waiting"
             /\ PhaseOf(i)' = "claimed"
    <2>1. Item!Claim(i)
      BY <1>2 DEF Rests, Item!Claim, Item!Move
    <2> QED
      BY <2>1 DEF Item!Next
  <1>3. CASE OutcomeOf(i)' = OutcomeOf(i) /\ PhaseOf(i) = "claimed"
             /\ PhaseOf(i)' = "waiting"
    <2>1. Item!Requeue(i)
      BY <1>3 DEF Rests, Item!Requeue, Item!Move
    <2> QED
      BY <2>1 DEF Item!Next
  <1>4. CASE OutcomeOf(i)' = OutcomeOf(i) /\ PhaseOf(i) = "claimed"
             /\ PhaseOf(i)' = "failed"
    <2>1. Item!Fail(i)
      BY <1>4 DEF Rests, Item!Fail, Item!Move
    <2> QED
      BY <2>1 DEF Item!Next
  <1>5. CASE PhaseOf(i) = "claimed" /\ PhaseOf(i)' = "completed"
             /\ OutcomeOf(i)' \in ResultsFor(i)
    <2>1. Item!Complete(i)
      BY <1>5 DEF Rests, Item!Complete, Item!Move
    <2> QED
      BY <2>1 DEF Item!Next
  <1> QED
    BY <1>1, <1>2, <1>3, <1>4, <1>5 DEF Moves

(* Initially every item waits.                                             *)
LEMMA ItemInit == Init => Item!Init
  BY MarkerAssumption DEF Init, Item!Init, PhaseOf, OutcomeOf, Readable

(* Every step on the files is a step of one item at most.                  *)
LEMMA ItemStep ==
  ASSUME Overlap = FALSE, Faults = {}, TornWrites = FALSE,
         Typed, Kept, Linked, [Next]_vars
  PROVE  [Item!Next]_(Item!vars)
  <1> USE MarkerAssumption, ProcessAssumption, ItemsAssumption
      DEF Goto, queue, Typed, TypeOK, ControlOK, BusyPCs, RecBusyPCs, TryPCs,
          HoldingPCs, LinkedPCs
  <1>0. ASSUME UNCHANGED <<claimed, completed, failed>>
        PROVE  UNCHANGED Item!vars
    BY <1>0 DEF Item!vars, PhaseOf, OutcomeOf, Readable
  <1>1. ASSUME NEW r \in Runs, ClaimWrite(r) PROVE [Item!Next]_(Item!vars)
    <2> PICK i \in Firsts(todo[r]) : claimed' = [claimed EXCEPT ![i] = r]
      BY <1>1 DEF ClaimWrite
    <2>1. i \in Items /\ pending[i] # NoFile
      BY <1>1 DEF ClaimWrite, Firsts, Kept, RunHolds, Readable, Procs
    <2>2. UNCHANGED <<completed, failed>>
      BY <1>1 DEF ClaimWrite
    <2>3. \A j \in Items \ {i} : Rests(j)
      BY <2>1, <2>2, FilesRest
    <2>4. completed[i] = NoFile
      BY <2>1 DEF Linked, FilesOK, EndOK
    <2>5. Moves(i)
      BY <2>1, <2>2, <2>4 DEF Moves, Rests, PhaseOf, OutcomeOf, Readable
    <2> QED
      BY <2>1, <2>3, <2>5, OneItemMoves
  <1>2. ASSUME NEW r \in Runs, CompleteWrite(r) PROVE [Item!Next]_(Item!vars)
    <2> PICK i \in Items : i = cur[r]
      BY <1>2 DEF CompleteWrite
    <2> PICK d : d = [result |-> <<r, i>>, review |-> 0]
      OBVIOUS
    <2>1. completed' = [completed EXCEPT ![i] = d]
      BY <1>2 DEF CompleteWrite
    <2>2. UNCHANGED <<claimed, failed>>
      BY <1>2 DEF CompleteWrite
    <2>3. d \in Done /\ d.result = <<r, i>>
      BY DEF Done, Results
    <2>4. /\ claimed[i] = r /\ <<r, i>> \in results
      BY <1>2 DEF CompleteWrite, Linked, RunLinked
    <2>5. /\ failed[i] = NoFile
          /\ Readable(completed[i]) => completed[i].result = <<r, i>>
      BY <2>4 DEF Linked, FilesOK, EndOK, ClaimOK
    <2>8. \A j \in Items \ {i} : Rests(j)
      BY <2>1, <2>2, FilesRest
    <2>9. Moves(i)
      BY <2>1, <2>2, <2>3, <2>4, <2>5
      DEF Moves, Rests, PhaseOf, OutcomeOf, Readable, ResultsFor
    <2> QED
      BY <2>8, <2>9, OneItemMoves
  <1>3. ASSUME NEW r \in Runs, CompleteUnlink(r) PROVE [Item!Next]_(Item!vars)
    <2> PICK i \in Items : i = cur[r]
      BY <1>3 DEF CompleteUnlink
    <2>1. claimed' = [claimed EXCEPT ![i] = NoFile] \/ UNCHANGED claimed
      BY <1>3 DEF CompleteUnlink
    <2>2. UNCHANGED <<completed, failed>>
      BY <1>3 DEF CompleteUnlink
    <2>3. Readable(completed[i])
      BY <1>3 DEF CompleteUnlink, Linked, RunLinked
    <2>8. \A j \in Items \ {i} : Rests(j)
      BY <2>1, <2>2, FilesRest
    <2>9. Moves(i)
      BY <2>1, <2>2, <2>3
      DEF Moves, Rests, PhaseOf, OutcomeOf, Readable, ResultsFor
    <2> QED
      BY <2>8, <2>9, OneItemMoves
  <1>4. ASSUME NEW r \in Runs, AttachReviewRef(r) PROVE [Item!Next]_(Item!vars)
    <2> PICK i \in Items : i = cur[r]
      BY <1>4 DEF AttachReviewRef
    <2> PICK d : d = [result |-> <<r, i>>, review |-> rv[r]]
      OBVIOUS
    <2>1. completed' = [completed EXCEPT ![i] = d]
      BY <1>4 DEF AttachReviewRef
    <2>2. UNCHANGED <<claimed, failed>>
      BY <1>4 DEF AttachReviewRef
    <2>3. d \in Done /\ d.result = <<r, i>>
      BY DEF Done, Results, Procs
    <2>4. Readable(completed[i]) /\ completed[i].result = <<r, i>>
      BY <1>4 DEF AttachReviewRef, Linked, RunLinked
    <2>8. \A j \in Items \ {i} : Rests(j)
      BY <2>1, <2>2, FilesRest
    <2>9. Moves(i)
      BY <2>1, <2>2, <2>3, <2>4
      DEF Moves, Rests, PhaseOf, OutcomeOf, Readable, ResultsFor
    <2> QED
      BY <2>8, <2>9, OneItemMoves
  <1>5. ASSUME NEW r \in Runs, FailWrite(r) PROVE [Item!Next]_(Item!vars)
    <2> PICK i \in Items : i = cur[r]
      BY <1>5 DEF FailWrite
    <2>1. failed' = [failed EXCEPT ![i] = Present]
      BY <1>5 DEF FailWrite
    <2>2. UNCHANGED <<claimed, completed>>
      BY <1>5 DEF FailWrite
    <2>3. claimed[i] = r /\ i \in BadManifest
      BY <1>5 DEF FailWrite, Linked, RunLinked
    <2>4. completed[i] = NoFile
      BY <2>3 DEF Linked, FilesOK
    <2>8. \A j \in Items \ {i} : Rests(j)
      BY <2>1, <2>2, FilesRest
    <2>9. Moves(i)
      BY <2>1, <2>2, <2>3, <2>4
      DEF Moves, Rests, PhaseOf, OutcomeOf, Readable, ResultsFor
    <2> QED
      BY <2>8, <2>9, OneItemMoves
  <1>6. ASSUME NEW r \in Runs, FailUnlink(r) PROVE [Item!Next]_(Item!vars)
    <2> PICK i \in Items : i = cur[r]
      BY <1>6 DEF FailUnlink
    <2>1. claimed' = [claimed EXCEPT ![i] = NoFile] \/ UNCHANGED claimed
      BY <1>6 DEF FailUnlink
    <2>2. UNCHANGED <<completed, failed>>
      BY <1>6 DEF FailUnlink
    <2>3. Readable(failed[i])
      BY <1>6 DEF FailUnlink, Kept, RunHolds
    <2>8. \A j \in Items \ {i} : Rests(j)
      BY <2>1, <2>2, FilesRest
    <2>9. Moves(i)
      BY <2>1, <2>2, <2>3
      DEF Moves, Rests, PhaseOf, OutcomeOf, Readable, ResultsFor
    <2> QED
      BY <2>8, <2>9, OneItemMoves
  <1>7. ASSUME NEW c \in Recoverers, RecComplete(c) PROVE [Item!Next]_(Item!vars)
    <2> PICK i \in Items : i = cur[c]
      BY <1>7 DEF RecComplete
    <2> PICK run \in Runs : run = seen[c][i]
      BY <1>7 DEF RecComplete
    <2> PICK d : d = [result |-> res[c], review |-> rv[c]]
      OBVIOUS
    <2>1. completed' = [completed EXCEPT ![i] = d]
      BY <1>7 DEF RecComplete
    <2>2. UNCHANGED <<claimed, failed>>
      BY <1>7 DEF RecComplete
    <2>4. /\ claimed[i] = run /\ res[c] = <<run, i>>
          /\ active[run] # Torn /\ active[run].result = <<run, i>>
      BY <1>7 DEF RecComplete, Linked, RecLinked
    <2>3. d \in Done /\ d.result = <<run, i>>
      BY <2>4 DEF Done, Results, Procs
    <2>7. ClaimOK(run, i)
      BY <2>4 DEF Linked, FilesOK
    <2>6. <<run, i>> \in results
      BY <2>4, <2>7 DEF ClaimOK
    <2>5. /\ failed[i] = NoFile
          /\ Readable(completed[i]) => completed[i].result = <<run, i>>
      BY <2>6, <2>7 DEF Linked, FilesOK, EndOK, ClaimOK
    <2>8. \A j \in Items \ {i} : Rests(j)
      BY <2>1, <2>2, FilesRest
    <2>9. Moves(i)
      <3>1. completed'[i] = d /\ Readable(d)
        BY <2>1, <2>3 DEF Readable
      <3>2. PhaseOf(i)' = "completed" /\ OutcomeOf(i)' = <<run, i>>
        BY <2>3, <3>1 DEF PhaseOf, OutcomeOf
      <3>3. Readable(claimed[i])
        BY <2>4 DEF Readable
      <3>4. \/ PhaseOf(i) = "claimed"
            \/ PhaseOf(i) = "completed" /\ OutcomeOf(i) = <<run, i>>
        BY <2>5, <3>3 DEF PhaseOf, OutcomeOf, Readable
      <3>5. <<run, i>> \in ResultsFor(i)
        BY DEF ResultsFor
      <3> QED
        BY <3>2, <3>4, <3>5 DEF Moves, Rests
    <2> QED
      BY <2>8, <2>9, OneItemMoves
  <1>8. ASSUME NEW c \in Recoverers, RecRelease(c) PROVE [Item!Next]_(Item!vars)
    <2> PICK i \in Items : i = cur[c]
      BY <1>8 DEF RecRelease
    <2>1. claimed' = [claimed EXCEPT ![i] = NoFile] \/ UNCHANGED claimed
      BY <1>8 DEF RecRelease
    <2>2. UNCHANGED <<completed, failed>>
      BY <1>8 DEF RecRelease
    <2>3. Readable(claimed[i])
      BY <1>8 DEF RecRelease, Kept, RecHolds
    <2>8. \A j \in Items \ {i} : Rests(j)
      BY <2>1, <2>2, FilesRest
    <2>9. Moves(i)
      BY <2>1, <2>2, <2>3
      DEF Moves, Rests, PhaseOf, OutcomeOf, Readable, ResultsFor
    <2> QED
      BY <2>8, <2>9, OneItemMoves
  <1>9. ASSUME NEW r \in Runs,
               \/ Begin(r) \/ Snapshot(r) \/ ClaimUnlink(r) \/ RecordClaim(r)
               \/ RejectManifest(r) \/ WriteResult(r) \/ RecordResult(r)
               \/ EmitReview(r) \/ RecordReview(r) \/ RecordItemCompleted(r)
               \/ RecordItemFailed(r) \/ Finalize(r) \/ Archive(r)
        PROVE  UNCHANGED Item!vars
    BY <1>0, <1>9
    DEF Begin, Snapshot, ClaimUnlink, RecordClaim, RejectManifest, WriteResult,
        RecordResult, EmitReview, RecordReview, RecordItemCompleted,
        RecordItemFailed, Finalize, Archive
  <1>10. ASSUME NEW c \in Recoverers,
                \/ RecScan(c) \/ RecTake(c) \/ RecEmit(c) \/ RecRequeue(c)
                \/ RecRetire(c) \/ RecEnd(c)
         PROVE  UNCHANGED Item!vars
    BY <1>0, <1>10
    DEF RecScan, RecTake, RecEmit, RecRequeue, RecRetire, RecEnd
  <1>11. ASSUME NEW p \in Procs, Kill(p) \/ KillMidWrite(p)
         PROVE  UNCHANGED Item!vars
    BY <1>0, <1>11 DEF Kill, KillMidWrite
  <1>12. CASE UNCHANGED vars
    BY <1>0, <1>12 DEF vars
  <1> QED
    BY <1>1, <1>2, <1>3, <1>4, <1>5, <1>6, <1>7, <1>8, <1>9, <1>10, <1>11,
       <1>12
    DEF Next, RunStep, RecStep, WorkItem, Raise

(* The queue implements the life of each item: killed and recovered as it  *)
(* may be, an item waits, is claimed, may be given back, and ends once,    *)
(* completed with a result of its own or failed.                           *)
THEOREM QueueImplementsItem ==
  ASSUME Overlap = FALSE, Faults = {}, TornWrites = FALSE
  PROVE  Spec => ImplementsItem
  <1>1. Spec => [](Typed /\ Kept /\ Linked)
    BY LinkedAlways
  <1>2. Typed /\ Kept /\ Linked /\ [Next]_vars => [Item!Next]_(Item!vars)
    BY ItemStep
  <1> QED
    BY ItemInit, <1>1, <1>2, PTL DEF Spec, ImplementsItem, Item!Spec
=============================================================================
