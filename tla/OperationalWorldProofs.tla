----------------------- MODULE OperationalWorldProofs -----------------------
(***************************************************************************)
(* Proofs about OperationalWorld, for any calls, any bound on the actions  *)
(* of a tick and any number of kills and cut lines, and about the two      *)
(* modes that OperationalWorldMC checks.                                   *)
(***************************************************************************)
EXTENDS OperationalWorldEngine

-----------------------------------------------------------------------------
(* Types.                                                                  *)

Typed ==
  /\ state \in World /\ tmp \in World \cup {NoFile}
  /\ stream \in Seq(Event) /\ ragged \in BOOLEAN
  /\ pc \in [Calls -> PCs] /\ mem \in [Calls -> World]
  /\ out \in [Calls -> Seq(Event)] /\ mishaps \in Nat

(* What a call still holds at each of its labels.                          *)
Phase(c) ==
  /\ pc[c] = "appending" => out[c] # <<>>
  /\ pc[c] \in {"writing", "replacing"} /\ c \notin SaveFirst => out[c] = <<>>
  /\ ~Live(c) \/ pc[c] = "scanning" => out[c] = <<>>
  /\ pc[c] = "scanning" => c \in Scans
  /\ ~Live(c) => mem[c] = Blank
  /\ c \in SaveFirst => Len(out[c]) <= 1

Phased == \A c \in Calls : Phase(c)

(* A call has read its inputs, and this is what it will write.             *)
Planned(c, job) ==
  /\ mem' = [mem EXCEPT ![c] = job.world]
  /\ out' = [out EXCEPT ![c] = job.out]
  /\ Goto(c, IF c \in SaveFirst \/ job.out = <<>> THEN "writing"
                                                 ELSE "appending")

(* A call that plans does so from the job of some kind of action.          *)
LEMMA PlanStep ==
  ASSUME stream \in Seq(Event), NEW c \in Calls, NEW w \in World, Plan(c, w)
  PROVE  \E kind \in IF c \in Submits THEN Kinds ELSE {"none"} :
           /\ Planned(c, Job(c, kind, w)) /\ Job(c, kind, w) \in JobSet
           /\ c \in SaveFirst => Len(Job(c, kind, w).out) = 1
<1>1. PICK kind \in IF c \in Submits THEN Kinds ELSE {"none"} :
        Planned(c, Job(c, kind, w))
  BY DEF Plan, Planned
<1>2. Job(c, kind, w) \in JobSet
  BY JobTyped
<1>3. c \in SaveFirst => Len(Job(c, kind, w).out) = 1
  BY SaveFirstJob
<1> QED
  BY <1>1, <1>2, <1>3

(* Types and phases hold at the start.                                     *)
LEMMA TypedInit == Init => Typed /\ Phased
<1> SUFFICES ASSUME Init PROVE Typed /\ Phased
  OBVIOUS
<1>1. <<>> \in Seq(Event) /\ Len(<<>>) <= 1
  OBVIOUS
<1>2. Typed
  BY <1>1, BlankTyped DEF Init, Typed, PCs
<1>3. ASSUME NEW c \in Calls PROVE Phase(c)
  <2>1. pc[c] = "idle" /\ out[c] = <<>> /\ mem[c] = Blank
    BY DEF Init
  <2> QED
    BY <1>1, <2>1 DEF Phase, Live
<1> QED
  BY <1>2, <1>3 DEF Phased

(* ... are kept when a call plans its writes,                              *)
LEMMA PlannedTyped ==
  ASSUME Typed, Phased, NEW c \in Calls, NEW job \in JobSet, Planned(c, job),
         c \in SaveFirst => Len(job.out) = 1,
         UNCHANGED <<state, tmp, stream, ragged, mishaps>>
  PROVE  Typed' /\ Phased'
<1>1. job.world \in World /\ job.out \in Seq(Event)
  BY DEF JobSet
<1>2. Typed'
  BY <1>1 DEF Typed, Planned, Goto, PCs
<1>3. ASSUME NEW d \in Calls PROVE Phase(d)'
  <2>1. CASE d = c
    <3>1. /\ out'[d] = job.out
          /\ pc'[d] = IF c \in SaveFirst \/ job.out = <<>> THEN "writing"
                                                        ELSE "appending"
      BY <2>1 DEF Typed, Planned, Goto
    <3>2. c \in SaveFirst => Len(job.out) <= 1
      <4>1. \A n \in {1} : n <= 1
        OBVIOUS
      <4> QED
        BY <4>1
    <3> QED
      BY <2>1, <3>1, <3>2 DEF Phase, Live
  <2>2. CASE d # c
    BY <2>2 DEF Typed, Phased, Planned, Goto, Phase, Live
  <2> QED
    BY <2>1, <2>2
<1> QED
  BY <1>2, <1>3 DEF Phased

(* ... when a call ends,                                                   *)
LEMMA FinishPhase ==
  ASSUME Typed, Phased, NEW c \in Calls, NEW label \in {"done", "error", "dead"},
         Finish(c, label)
  PROVE  /\ Phased'
         /\ pc' \in [Calls -> PCs] /\ mem' \in [Calls -> World]
         /\ out' \in [Calls -> Seq(Event)]
<1>1. <<>> \in Seq(Event) /\ Len(<<>>) = 0
  OBVIOUS
<1>2. /\ pc' \in [Calls -> PCs] /\ mem' \in [Calls -> World]
      /\ out' \in [Calls -> Seq(Event)]
  BY <1>1, BlankTyped DEF Typed, Finish, Goto, PCs
<1>3. ASSUME NEW d \in Calls PROVE Phase(d)'
  BY <1>1 DEF Typed, Phased, Phase, Finish, Goto, Live
<1> QED
  BY <1>2, <1>3 DEF Phased

(* What is left to append splits into a first event and the rest.          *)
LEMMA AppendParts ==
  ASSUME Typed, Phased, NEW c \in Calls, AppendEvent(c)
  PROVE  /\ out[c] \in Seq(Event) /\ out[c] # <<>> /\ Head(out[c]) \in Event
         /\ Tail(out[c]) \in Seq(Event)
         /\ Len(Tail(out[c])) = Len(out[c]) - 1
         /\ Len(out[c]) \in Nat /\ Len(out[c]) >= 1
         /\ Len(out[c]) = 1 => Tail(out[c]) = <<>>
         /\ Len(out[c]) > 1 => Tail(out[c]) # <<>>
         /\ Append(stream, Head(out[c])) \in Seq(Event)
         /\ c \in SaveFirst => Len(out[c]) = 1
<1>1. /\ out[c] \in Seq(Event) /\ out[c] # <<>> /\ stream \in Seq(Event)
      /\ c \in SaveFirst => Len(out[c]) <= 1
  BY DEF Typed, Phased, Phase, AppendEvent
<1> DEFINE o == out[c]
<1>2. o \in Seq(Event) /\ o # <<>> /\ (c \in SaveFirst => Len(o) <= 1)
  BY <1>1
<1> HIDE DEF o
<1>3. /\ Head(o) \in Event /\ Tail(o) \in Seq(Event)
      /\ Len(Tail(o)) = Len(o) - 1 /\ Len(o) \in Nat /\ Len(o) >= 1
      /\ Len(o) = 1 => Tail(o) = <<>>
      /\ Len(o) > 1 => Tail(o) # <<>>
  <2>1. Len(o) \in Nat /\ Len(o) >= 1
    BY <1>2
  <2>2. Head(o) \in Event /\ Tail(o) \in Seq(Event) /\ Len(Tail(o)) = Len(o) - 1
    BY <1>2
  <2> QED
    BY <2>1, <2>2
<1>4. Append(stream, Head(o)) \in Seq(Event)
  BY <1>1, <1>3
<1>5. c \in SaveFirst => Len(o) = 1
  BY <1>2, <1>3
<1> QED
  BY <1>1, <1>3, <1>4, <1>5 DEF o

(* Every step keeps the types and the phases.                              *)
LEMMA TypedNext ==
  ASSUME Typed, Phased, [Next]_vars
  PROVE  Typed' /\ Phased'
<1>1. CASE UNCHANGED vars
  BY <1>1 DEF vars, Typed, Phased, Phase, Live
<1>2. ASSUME NEW c \in Calls, Load(c) PROVE Typed' /\ Phased'
  <2>1. /\ stream \in Seq(Event) /\ state \in World /\ Plan(c, state)
        /\ UNCHANGED <<state, tmp, stream, ragged, mishaps>>
    BY <1>2 DEF Typed, Load
  <2> QED
    BY <2>1, PlanStep, PlannedTyped
<1>3. ASSUME NEW c \in Calls, LoadForScan(c) PROVE Typed' /\ Phased'
  <2>1. Typed'
    BY <1>3 DEF Typed, LoadForScan, Goto, PCs
  <2>2. ASSUME NEW d \in Calls PROVE Phase(d)'
    BY <1>3, CallsAssumption
       DEF Typed, Phased, Phase, LoadForScan, Goto, Live
  <2> QED
    BY <2>1, <2>2 DEF Phased
<1>4. ASSUME NEW c \in Calls, Scan(c) PROVE Typed' /\ Phased'
  <2>1. /\ stream \in Seq(Event) /\ mem[c] \in World /\ Plan(c, mem[c])
        /\ UNCHANGED <<state, tmp, stream, ragged, mishaps>>
    BY <1>4 DEF Typed, Scan
  <2> QED
    BY <2>1, PlanStep, PlannedTyped
<1>5. ASSUME NEW c \in Calls, AppendEvent(c) PROVE Typed' /\ Phased'
  <2>1. /\ out[c] \in Seq(Event) /\ out[c] # <<>> /\ Head(out[c]) \in Event
        /\ Tail(out[c]) \in Seq(Event)
        /\ Len(Tail(out[c])) = Len(out[c]) - 1
        /\ Len(out[c]) \in Nat /\ Len(out[c]) >= 1
        /\ Len(out[c]) = 1 => Tail(out[c]) = <<>>
        /\ Len(out[c]) > 1 => Tail(out[c]) # <<>>
        /\ Append(stream, Head(out[c])) \in Seq(Event)
        /\ c \in SaveFirst => Len(out[c]) = 1
    BY <1>5, AppendParts
  <2>2. /\ stream' \in Seq(Event) /\ ragged' \in BOOLEAN
        /\ state' = state /\ tmp' = tmp /\ mishaps' = mishaps
    BY <1>5, <2>1 DEF Typed, AppendEvent
  <2>3. CASE Len(out[c]) = 1 /\ c \in SaveFirst
    <3>1. Finish(c, "done")
      BY <1>5, <2>3 DEF AppendEvent
    <3>2. /\ Phased' /\ pc' \in [Calls -> PCs] /\ mem' \in [Calls -> World]
          /\ out' \in [Calls -> Seq(Event)]
      BY <3>1, FinishPhase
    <3> QED
      BY <2>2, <3>2 DEF Typed
  <2>4. CASE ~(Len(out[c]) = 1 /\ c \in SaveFirst)
    <3>1. /\ out' = [out EXCEPT ![c] = Tail(@)] /\ mem' = mem
          /\ Goto(c, IF Len(out[c]) > 1 THEN "appending" ELSE "writing")
      BY <1>5, <2>4 DEF AppendEvent
    <3>2. Typed'
      BY <2>1, <2>2, <3>1 DEF Typed, Goto, PCs
    <3>3. ASSUME NEW d \in Calls PROVE Phase(d)'
      <4>1. CASE d = c
        <5>1. /\ Len(out[c]) > 1 => Tail(out[c]) # <<>>
              /\ ~(Len(out[c]) > 1) => Tail(out[c]) = <<>>
          BY <2>1
        <5>2. c \notin SaveFirst
          BY <2>1, <2>4
        <5> QED
          BY <3>1, <4>1, <5>1, <5>2 DEF Typed, Phased, Phase, Goto, Live
      <4>2. CASE d # c
        BY <3>1, <4>2 DEF Typed, Phased, Phase, Goto, Live
      <4> QED
        BY <4>1, <4>2
    <3> QED
      BY <3>2, <3>3 DEF Phased
  <2> QED
    BY <2>3, <2>4
<1>6. ASSUME NEW c \in Calls, WriteTmp(c) PROVE Typed' /\ Phased'
  <2>1. Typed'
    BY <1>6 DEF Typed, WriteTmp, Goto, PCs
  <2>2. ASSUME NEW d \in Calls PROVE Phase(d)'
    BY <1>6 DEF Typed, Phased, Phase, WriteTmp, Goto, Live
  <2> QED
    BY <2>1, <2>2 DEF Phased
<1>7. ASSUME NEW c \in Calls, Replace(c) PROVE Typed' /\ Phased'
  <2>1. /\ state' \in World /\ tmp' \in World \cup {NoFile}
        /\ UNCHANGED <<stream, ragged, mishaps>>
    BY <1>7 DEF Typed, Replace
  <2>2. CASE out[c] = <<>>
    <3>1. Finish(c, "done")
      BY <1>7, <2>2 DEF Replace
    <3>2. /\ Phased' /\ pc' \in [Calls -> PCs] /\ mem' \in [Calls -> World]
          /\ out' \in [Calls -> Seq(Event)]
      BY <3>1, FinishPhase
    <3> QED
      BY <2>1, <3>2 DEF Typed
  <2>3. CASE out[c] # <<>>
    <3>1. Goto(c, "appending") /\ UNCHANGED <<mem, out>>
      BY <1>7, <2>3 DEF Replace
    <3>2. Typed'
      BY <2>1, <3>1 DEF Typed, Goto, PCs
    <3>3. ASSUME NEW d \in Calls PROVE Phase(d)'
      BY <2>3, <3>1 DEF Typed, Phased, Phase, Goto, Live
    <3> QED
      BY <3>2, <3>3 DEF Phased
  <2> QED
    BY <2>2, <2>3
<1>8. ASSUME NEW c \in Calls,
             ReplaceRaises(c) \/ Kill(c) \/ KillMidAppend(c)
      PROVE  Typed' /\ Phased'
  <2>1. \E label \in {"done", "error", "dead"} : Finish(c, label)
    BY <1>8 DEF ReplaceRaises, Kill, KillMidAppend
  <2>2. /\ Phased' /\ pc' \in [Calls -> PCs] /\ mem' \in [Calls -> World]
        /\ out' \in [Calls -> Seq(Event)]
    BY <2>1, FinishPhase
  <2>3. /\ UNCHANGED <<state, tmp, stream>> /\ ragged' \in BOOLEAN
        /\ mishaps' = mishaps \/ mishaps' = mishaps + 1
    BY <1>8 DEF Typed, ReplaceRaises, Kill, KillMidAppend, Mishap
  <2> QED
    BY <2>2, <2>3 DEF Typed
<1> QED
  BY <1>1, <1>2, <1>3, <1>4, <1>5, <1>6, <1>7, <1>8 DEF Next, Call

(* Types and phases hold in every state.                                   *)
LEMMA TypedAlways == Spec => [](Typed /\ Phased)
BY TypedInit, TypedNext, PTL DEF Spec

(* The types of the proof imply the type invariant.                        *)
LEMMA TypedEnough == Typed => TypeOK
<1>2. ASSUME NEW s \in Seq(Event), NEW e \in ToSet(s) PROVE IsEvent(e)
  <2>1. e \in Event
    BY DEF ToSet
  <2> QED
    BY <2>1 DEF Event, IsEvent
<1> QED
  BY <1>2 DEF Typed, TypeOK

(* The state, the temporary file and the stream keep their types: what     *)
(* store.py reads back is what some call wrote, whole.                     *)
THEOREM TypeCorrect == Spec => []TypeOK
BY TypedAlways, TypedEnough, PTL

-----------------------------------------------------------------------------
(* Who moves.                                                              *)

StepOf(c) == Call(c) \/ Kill(c) \/ KillMidAppend(c)

(* A step of one call touches its own control state only, and takes a      *)
(* call that is alive or may start.                                        *)
LEMMA Moves ==
  ASSUME Typed, NEW c \in Calls, StepOf(c)
  PROVE  /\ \A d \in Calls \ {c} :
              pc'[d] = pc[d] /\ mem'[d] = mem[d] /\ out'[d] = out[d]
         /\ Live(c) \/ (MayStart(c) /\ pc[c] = "idle")
<1>1. ASSUME NEW w, Plan(c, w)
      PROVE  \A d \in Calls \ {c} :
               pc'[d] = pc[d] /\ mem'[d] = mem[d] /\ out'[d] = out[d]
  BY <1>1 DEF Plan, Goto, Typed
<1>2. ASSUME NEW label, Finish(c, label)
      PROVE  \A d \in Calls \ {c} :
               pc'[d] = pc[d] /\ mem'[d] = mem[d] /\ out'[d] = out[d]
  BY <1>2 DEF Finish, Goto, Typed
<1>3. CASE Load(c)
  BY <1>1, <1>3 DEF Load
<1>4. CASE LoadForScan(c)
  BY <1>4 DEF LoadForScan, Goto, Typed
<1>5. CASE Scan(c)
  BY <1>1, <1>5 DEF Scan, Live
<1>6. CASE AppendEvent(c)
  <2>1. Live(c)
    BY <1>6 DEF AppendEvent, Live
  <2>2. CASE Len(out[c]) = 1 /\ c \in SaveFirst
    BY <1>2, <1>6, <2>1, <2>2 DEF AppendEvent
  <2>3. CASE ~(Len(out[c]) = 1 /\ c \in SaveFirst)
    BY <1>6, <2>1, <2>3 DEF AppendEvent, Goto, Typed
  <2> QED
    BY <2>2, <2>3
<1>7. CASE WriteTmp(c)
  BY <1>7 DEF WriteTmp, Goto, Typed, Live
<1>8. CASE Replace(c)
  <2>1. Live(c)
    BY <1>8 DEF Replace, Live
  <2>2. CASE out[c] = <<>>
    BY <1>2, <1>8, <2>1, <2>2 DEF Replace
  <2>3. CASE out[c] # <<>>
    BY <1>8, <2>1, <2>3 DEF Replace, Goto, Typed
  <2> QED
    BY <2>2, <2>3
<1>9. CASE ReplaceRaises(c)
  BY <1>2, <1>9 DEF ReplaceRaises, Live
<1>10. CASE Kill(c)
  BY <1>2, <1>10 DEF Kill
<1>11. CASE KillMidAppend(c)
  BY <1>2, <1>11 DEF KillMidAppend, Live
<1> QED
  BY <1>3, <1>4, <1>5, <1>6, <1>7, <1>8, <1>9, <1>10, <1>11 DEF StepOf, Call

(* Every step is a step of some call.                                      *)
LEMMA NextMoves == [Next]_vars => UNCHANGED vars \/ \E c \in Calls : StepOf(c)
BY DEF Next, StepOf

(* Without overlap one call is under way.                                  *)
LEMMA SoloInit == Init => Solo
BY DEF Init, Solo, Live

(* A call starts when no other is alive, if calls do not overlap.          *)
LEMMA SoloNext ==
  ASSUME ~Overlap, Typed, Solo, [Next]_vars
  PROVE  Solo'
<1>1. CASE UNCHANGED vars
  BY <1>1 DEF vars, Solo, Live
<1>2. ASSUME NEW c \in Calls, StepOf(c) PROVE Solo'
  <2>1. /\ \A d \in Calls \ {c} : pc'[d] = pc[d]
        /\ Live(c) \/ MayStart(c)
    BY <1>2, Moves
  <2>2. \A d \in Calls \ {c} : Live(d)' => Live(d)
    BY <2>1 DEF Live
  <2>3. \A d \in Calls \ {c} : ~Live(d)
    BY <2>1 DEF MayStart, Solo
  <2> QED
    BY <2>2, <2>3 DEF Solo
<1> QED
  BY <1>1, <1>2, NextMoves

(* One call at a time, if calls do not overlap.                            *)
LEMMA SoloAlways == ASSUME ~Overlap PROVE Spec => []Solo
BY SoloInit, SoloNext, TypedAlways, PTL DEF Spec

-----------------------------------------------------------------------------
(* The stream is ahead of the state.                                       *)

(* A kill may have cut a line short.                                       *)
Torn == TornWrites /\ mishaps > 0

(* The stream accounts for both files, and together with what a call has   *)
(* yet to append for the call's copy.  A line that is about to be lost is  *)
(* the first of its call, and accounts for nothing.                        *)
Spine ==
  /\ Ahead(Torn, ToSet(stream), state)
  /\ tmp # NoFile => Ahead(Torn, ToSet(stream), tmp)
  /\ \A c \in Calls : Ahead(Torn, Counted(c, ToSet(stream), out[c]), mem[c])
  /\ ragged => Torn
  /\ \A c \in Calls :
       ragged /\ pc[c] = "appending" /\ c \notin SaveFirst =>
         Head(out[c]).type \notin SpineTypes

(* The stream is ahead at the start.                                       *)
LEMMA SpineInit == Init => Spine
<1> SUFFICES ASSUME Init PROVE Spine
  OBVIOUS
<1>1. /\ state = Blank /\ tmp = NoFile /\ ragged = FALSE
      /\ \A c \in Calls : mem[c] = Blank
  BY DEF Init
<1> QED
  BY <1>1, BlankAhead DEF Spine

(* The stream stays ahead when a call plans its writes,                    *)
LEMMA PlannedSpine ==
  ASSUME Typed, Phased, Spine, NEW c \in Calls, NEW w \in World,
         Ahead(Torn, ToSet(stream), w), Plan(c, w),
         UNCHANGED <<state, tmp, stream, ragged, mishaps>>
  PROVE  Spine'
<1>1. PICK kind \in IF c \in Submits THEN Kinds ELSE {"none"} :
        Planned(c, Job(c, kind, w)) /\ Job(c, kind, w) \in JobSet
  BY PlanStep DEF Typed
<1> DEFINE job == Job(c, kind, w)
<1>2. /\ Ahead(Torn, Counted(c, ToSet(stream), job.out), job.world)
      /\ c \notin SaveFirst /\ job.out # <<>> =>
           \E type : type \notin SpineTypes /\ Begins(job.out, type)
  BY JobAhead DEF Typed
<1>3. Planned(c, job) /\ job.out \in Seq(Event)
  BY <1>1 DEF JobSet
<1> HIDE DEF job
<1>4. /\ mem'[c] = job.world /\ out'[c] = job.out
      /\ pc'[c] = "appending" => c \notin SaveFirst /\ job.out # <<>>
      /\ \A d \in Calls \ {c} :
           pc'[d] = pc[d] /\ mem'[d] = mem[d] /\ out'[d] = out[d]
  BY <1>3 DEF Planned, Goto, Typed
<1>5. job.out # <<>> => Head(job.out) = job.out[1]
  BY <1>3
<1>6. pc'[c] = "appending" => Head(job.out).type \notin SpineTypes
  BY <1>2, <1>4, <1>5 DEF Begins
<1>7. \A d \in Calls : Ahead(Torn, Counted(d, ToSet(stream), out'[d]), mem'[d])
  BY <1>2, <1>4 DEF Spine
<1> QED
  BY <1>4, <1>6, <1>7 DEF Spine, Torn

(* ... and when it ends: what it would have saved is forgotten.            *)
LEMMA FinishSpine ==
  ASSUME Typed, NEW c \in Calls, NEW label \in {"done", "error", "dead"},
         Finish(c, label), NEW S, NEW torn
  PROVE  /\ Ahead(torn, Counted(c, S, out'[c]), mem'[c]) /\ pc'[c] # "appending"
         /\ \A d \in Calls \ {c} :
              pc'[d] = pc[d] /\ mem'[d] = mem[d] /\ out'[d] = out[d]
<1>1. /\ mem'[c] = Blank /\ pc'[c] = label
      /\ \A d \in Calls \ {c} :
           pc'[d] = pc[d] /\ mem'[d] = mem[d] /\ out'[d] = out[d]
  BY DEF Finish, Goto, Typed
<1> QED
  BY <1>1, BlankAhead

(* Every step keeps the stream ahead, unless a torn line comes while       *)
(* other calls are alive.                                                  *)
LEMMA SpineNext ==
  ASSUME Typed, Phased, Spine, [Next]_vars,
         Solo \/ ~TornWrites \/ mishaps' = mishaps
  PROVE  Spine'
<1>1. CASE UNCHANGED vars
  BY <1>1 DEF vars, Spine, Torn
<1>2. ASSUME NEW c \in Calls, Load(c) PROVE Spine'
  BY <1>2, PlannedSpine DEF Load, Typed, Spine
<1>3. ASSUME NEW c \in Calls, LoadForScan(c) PROVE Spine'
  <2>1. /\ mem'[c] = state /\ pc'[c] = "scanning"
        /\ \A d \in Calls \ {c} : mem'[d] = mem[d] /\ pc'[d] = pc[d]
        /\ UNCHANGED <<state, tmp, stream, ragged, out, mishaps>>
    BY <1>3 DEF LoadForScan, Goto, Typed
  <2>2. Ahead(Torn, Counted(c, ToSet(stream), out[c]), state)
    BY AheadMore DEF Counted, Spine
  <2> QED
    BY <2>1, <2>2 DEF Spine, Torn
<1>4. ASSUME NEW c \in Calls, Scan(c) PROVE Spine'
  <2>1. /\ out[c] = <<>> /\ mem[c] \in World /\ Plan(c, mem[c])
        /\ UNCHANGED <<state, tmp, stream, ragged, mishaps>>
    BY <1>4 DEF Scan, Typed, Phased, Phase
  <2>2. ToSet(out[c]) = {}
    BY <2>1 DEF ToSet
  <2>3. Ahead(Torn, ToSet(stream), mem[c])
    BY <2>2 DEF Spine, Counted
  <2> QED
    BY <2>1, <2>3, PlannedSpine
<1>5. ASSUME NEW c \in Calls, AppendEvent(c) PROVE Spine'
  <2> DEFINE o == out[c]
             e == Head(o)
             S == ToSet(stream)
             T == ToSet(stream')
  <2>1. /\ o \in Seq(Event) /\ o # <<>> /\ e \in Event /\ Len(o) >= 1
        /\ c \in SaveFirst => Len(o) = 1
    BY <1>5, AppendParts
  <2>2. /\ pc[c] = "appending" /\ state' = state /\ tmp' = tmp
        /\ mishaps' = mishaps
        /\ ragged' = FALSE
        /\ stream' = IF ragged THEN stream ELSE Append(stream, e)
    BY <1>5 DEF AppendEvent
  <2>3. T = IF ragged THEN S ELSE S \cup {e}
    <3>1. stream \in Seq(Event)
      BY DEF Typed
    <3> HIDE DEF e
    <3>2. ToSet(Append(stream, e)) = S \cup {e}
      BY <2>1, <3>1, ToSetAppend
    <3> QED
      BY <2>2, <3>2
  <2>4. S \subseteq T
    BY <2>3
  <2>5. /\ Ahead(Torn, T, state') /\ (tmp' # NoFile => Ahead(Torn, T, tmp'))
        /\ \A d \in Calls : Ahead(Torn, Counted(d, T, out[d]), mem[d])
    BY <2>2, <2>4, AheadMore, CountedMore DEF Spine
  <2>6. /\ Ahead(Torn, Counted(c, T, out'[c]), mem'[c])
        /\ \A d \in Calls \ {c} : mem'[d] = mem[d] /\ out'[d] = out[d]
    <3>1. CASE Len(o) = 1 /\ c \in SaveFirst
      <4>1. Finish(c, "done")
        BY <1>5, <3>1 DEF AppendEvent
      <4> HIDE DEF T
      <4> QED
        BY <4>1, FinishSpine
    <3>2. CASE ~(Len(o) = 1 /\ c \in SaveFirst)
      <4>1. c \notin SaveFirst
        BY <2>1, <3>2
      <4>2. /\ mem'[c] = mem[c] /\ out'[c] = Tail(o)
            /\ \A d \in Calls \ {c} : mem'[d] = mem[d] /\ out'[d] = out[d]
        BY <1>5, <3>2 DEF AppendEvent, Typed
      <4>3. ToSet(o) = {e} \cup ToSet(Tail(o))
        BY <2>1, ToSetHeadTail
      <4>4. Ahead(Torn, S \cup ToSet(o), mem[c])
        BY <4>1 DEF Spine, Counted
      <4>5. Ahead(Torn, T \cup ToSet(Tail(o)), mem[c])
        <5>1. CASE ragged
          <6>1. e.type \notin SpineTypes /\ Torn
            BY <2>2, <4>1, <5>1 DEF Spine
          <6>2. Ahead(Torn, (S \cup ToSet(Tail(o))) \cup {e}, mem[c])
            <7>1. S \cup ToSet(o) = (S \cup ToSet(Tail(o))) \cup {e}
              BY <4>3
            <7> HIDE DEF S, o, e
            <7> QED
              BY <4>4, <7>1
          <6>3. Ahead(Torn, S \cup ToSet(Tail(o)), mem[c])
            BY <6>1, <6>2, AheadLess
          <6> QED
            BY <2>3, <5>1, <6>3
        <5>2. CASE ~ragged
          <6>1. S \cup ToSet(o) = T \cup ToSet(Tail(o))
            BY <2>3, <4>3, <5>2
          <6> HIDE DEF S, o, T
          <6> QED
            BY <4>4, <6>1
        <5> QED
          BY <5>1, <5>2
      <4> QED
        BY <4>1, <4>2, <4>5 DEF Counted
    <3> QED
      BY <3>1, <3>2
  <2> HIDE DEF T
  <2>7. \A d \in Calls : Ahead(Torn, Counted(d, T, out'[d]), mem'[d])
    BY <2>5, <2>6
  <2> QED
    BY <2>2, <2>5, <2>7 DEF Spine, Torn, T
<1>6. ASSUME NEW c \in Calls, WriteTmp(c) PROVE Spine'
  <2>1. /\ tmp' = mem[c] /\ pc[c] = "writing" /\ pc'[c] = "replacing"
        /\ \A d \in Calls \ {c} : pc'[d] = pc[d]
        /\ UNCHANGED <<state, stream, ragged, mem, out, mishaps>>
    BY <1>6 DEF WriteTmp, Goto, Typed
  <2>2. c \in SaveFirst \/ ToSet(out[c]) = {}
    BY <2>1 DEF Phased, Phase, ToSet
  <2>3. Ahead(Torn, ToSet(stream), mem[c])
    BY <2>2 DEF Spine, Counted
  <2> QED
    BY <2>1, <2>3 DEF Spine, Torn
<1>7. ASSUME NEW c \in Calls, Replace(c) PROVE Spine'
  <2>1. /\ state' = tmp /\ tmp # NoFile /\ tmp' = NoFile
        /\ UNCHANGED <<stream, ragged, mishaps>> /\ pc[c] = "replacing"
    BY <1>7 DEF Replace
  <2>2. CASE out[c] = <<>>
    <3>1. Finish(c, "done")
      BY <1>7, <2>2 DEF Replace
    <3>2. /\ Ahead(Torn, Counted(c, ToSet(stream), out'[c]), mem'[c])
          /\ pc'[c] # "appending"
          /\ \A d \in Calls \ {c} :
               pc'[d] = pc[d] /\ mem'[d] = mem[d] /\ out'[d] = out[d]
      BY <3>1, FinishSpine
    <3> QED
      BY <2>1, <3>2 DEF Spine, Torn
  <2>3. CASE out[c] # <<>>
    <3>1. /\ UNCHANGED <<mem, out>> /\ c \in SaveFirst
          /\ \A d \in Calls \ {c} : pc'[d] = pc[d]
      BY <1>7, <2>1, <2>3 DEF Replace, Goto, Typed, Phased, Phase
    <3> QED
      BY <2>1, <3>1 DEF Spine, Torn
  <2> QED
    BY <2>2, <2>3
<1>8. ASSUME NEW c \in Calls,
             ReplaceRaises(c) \/ Kill(c) \/ KillMidAppend(c)
      PROVE  Spine'
  <2>1. PICK label \in {"done", "error", "dead"} : Finish(c, label)
    BY <1>8 DEF ReplaceRaises, Kill, KillMidAppend
  <2> DEFINE then == Torn'
  <2>2. /\ Ahead(then, Counted(c, ToSet(stream), out'[c]), mem'[c])
        /\ pc'[c] # "appending"
        /\ \A d \in Calls \ {c} :
             pc'[d] = pc[d] /\ mem'[d] = mem[d] /\ out'[d] = out[d]
    BY <2>1, FinishSpine
  <2>3. UNCHANGED <<state, tmp, stream>> /\ (Torn => then)
    BY <1>8 DEF ReplaceRaises, Kill, KillMidAppend, Mishap, Torn, Typed
  <2>4. /\ Ahead(then, ToSet(stream), state)
        /\ tmp # NoFile => Ahead(then, ToSet(stream), tmp)
        /\ \A d \in Calls : Ahead(then, Counted(d, ToSet(stream), out[d]), mem[d])
    BY <2>3, AheadWeaker DEF Spine
  <2>5. /\ ragged' => then
        /\ \A d \in Calls :
             ragged' /\ pc'[d] = "appending" /\ d \notin SaveFirst =>
               Head(out'[d]).type \notin SpineTypes
    <3>1. CASE ragged' = ragged
      BY <2>2, <2>3, <3>1 DEF Spine
    <3>2. CASE KillMidAppend(c)
      <4>1. TornWrites /\ Live(c) /\ mishaps' = mishaps + 1 /\ mishaps \in Nat
        BY <3>2 DEF KillMidAppend, Mishap, Live, Typed
      <4>2. mishaps' > 0 /\ mishaps' # mishaps
        BY <4>1
      <4>3. \A d \in Calls \ {c} : pc'[d] # "appending"
        BY <2>2, <4>1, <4>2 DEF Solo, Live
      <4> QED
        BY <2>2, <4>1, <4>2, <4>3 DEF Torn
    <3> QED
      BY <1>8, <3>1, <3>2 DEF ReplaceRaises, Kill
  <2>6. \A d \in Calls : Ahead(then, Counted(d, ToSet(stream), out'[d]), mem'[d])
    BY <2>2, <2>4
  <2> QED
    BY <2>3, <2>4, <2>5, <2>6 DEF Spine
<1> QED
  BY <1>1, <1>2, <1>3, <1>4, <1>5, <1>6, <1>7, <1>8 DEF Next, Call

(* The stream is ahead in every state.                                     *)
LEMMA SpineAlways ==
  ASSUME ~Overlap \/ ~TornWrites
  PROVE  Spec => []Spine
<1>1. CASE ~Overlap
  <2>1. Typed /\ Phased /\ Solo /\ Spine /\ [Next]_vars => Spine'
    BY SpineNext
  <2>2. Spec => []Solo
    BY <1>1, SoloAlways
  <2> QED
    BY <2>1, <2>2, SpineInit, TypedAlways, PTL DEF Spec
<1>2. CASE ~TornWrites
  <2>1. Typed /\ Phased /\ Spine /\ [Next]_vars => Spine'
    BY <1>2, SpineNext
  <2> QED
    BY <2>1, SpineInit, TypedAlways, PTL DEF Spec
<1> QED
  BY <1>1, <1>2

(* What the runs check of it.                                              *)
LEMMA SpineEnough == ASSUME Typed, Spine PROVE StreamAhead
<1>1. ActsAhead(Torn, ToSet(stream), state) /\ TickAhead(ToSet(stream), state)
  BY DEF Spine, Ahead
<1> QED
  BY <1>1 DEF ActsAhead, TickAhead, StreamAhead, Events, Answers

(* The stream is ahead of the state file, whatever calls are killed and    *)
(* whatever calls overlap, as long as no line is cut short while they do.  *)
THEOREM StreamIsAhead ==
  ASSUME ~Overlap \/ ~TornWrites
  PROVE  Spec => []StreamAhead
BY SpineEnough, TypedAlways, SpineAlways, PTL

(* A consequence that the state remembers is in the stream.                *)
THEOREM ConsequenceIsAhead ==
  ASSUME ~TornWrites
  PROVE  Spec => []ConsequenceAhead
<1>1. Spine => ConsequenceAhead
  BY DEF Spine, Torn, Ahead, ActsAhead, ConsequenceAhead, Events
<1> QED
  BY <1>1, SpineAlways, PTL

-----------------------------------------------------------------------------
(* An action is processed once.                                            *)

Begun == {c \in Submits : pc[c] # "idle"}

(* No id comes twice in a world, and none that was not submitted; a call   *)
(* queues its own action, and the stream does not know it yet.             *)
Once ==
  /\ Fresh(stream) /\ AboutIds(ToSet(stream)) \subseteq Begun
  /\ Neat(Begun, state)
  /\ tmp # NoFile => Neat(Begun, tmp)
  /\ \A c \in Calls : Neat(Begun, mem[c]) /\ Says(c, Begun, out[c])
  /\ \A c \in Submits : Live(c) => c \notin AboutIds(ToSet(stream))

(* No action has begun at the start.                                       *)
LEMMA OnceInit == Init => Once
<1> SUFFICES ASSUME Init PROVE Once
  OBVIOUS
<1>1. /\ state = Blank /\ tmp = NoFile /\ stream = <<>>
      /\ \A c \in Calls : mem[c] = Blank /\ out[c] = <<>> /\ pc[c] = "idle"
  BY DEF Init
<1>2. \A B : Neat(B, Blank)
  BY BlankNeat DEF Neat
<1>3. Fresh(stream) /\ AboutIds(ToSet(stream)) = {}
  BY <1>1 DEF Fresh, AboutIds, ToSet
<1>4. \A c \in Submits : ~Live(c)
  BY <1>1 DEF Live, Calls
<1> QED
  BY <1>1, <1>2, <1>3, <1>4, SaysNothing DEF Once

(* A step of one call while no other is under way.                         *)
LEMMA Alone ==
  ASSUME Typed, Solo, Solo', NEW c \in Calls, StepOf(c), Live(c) \/ Live(c)'
  PROVE  \A d \in Calls \ {c} :
           /\ ~Live(d) /\ ~Live(d)'
           /\ pc'[d] = pc[d] /\ mem'[d] = mem[d] /\ out'[d] = out[d]
<1>1. \A d \in Calls \ {c} :
        pc'[d] = pc[d] /\ mem'[d] = mem[d] /\ out'[d] = out[d]
  BY Moves
<1>2. \A d \in Calls \ {c} : Live(d)' <=> Live(d)
  BY <1>1 DEF Live
<1> QED
  BY <1>1, <1>2 DEF Solo

(* A call that ends leaves the others as they are.                         *)
LEMMA FinishOnce ==
  ASSUME Typed, NEW c \in Calls, NEW label \in {"done", "error", "dead"},
         Finish(c, label), Live(c), NEW B
  PROVE  /\ Neat(B, mem'[c]) /\ Says(c, B, out'[c])
         /\ ~Live(c)' /\ Begun' = Begun
         /\ \A d \in Calls \ {c} :
              pc'[d] = pc[d] /\ mem'[d] = mem[d] /\ out'[d] = out[d]
<1>1. /\ mem'[c] = Blank /\ out'[c] = <<>> /\ pc'[c] = label
      /\ \A d \in Calls \ {c} :
           pc'[d] = pc[d] /\ mem'[d] = mem[d] /\ out'[d] = out[d]
  BY DEF Finish, Goto, Typed
<1>2. Neat(B, Blank) /\ Says(c, B, <<>>)
  BY BlankNeat, SaysNothing DEF Neat
<1>3. pc[c] # "idle" /\ pc'[c] # "idle"
  BY <1>1 DEF Live
<1>4. Begun' = Begun
  BY <1>1, <1>3 DEF Begun, Calls
<1> QED
  BY <1>1, <1>2, <1>4 DEF Live

(* No action twice: when a call plans its writes,                          *)
LEMMA PlannedOnce ==
  ASSUME Typed, Once, NEW c \in Calls, NEW w \in World, Neat(Begun, w),
         Plan(c, w), c \in Submits => pc[c] = "idle",
         \A d \in Calls \ {c} : ~Live(d),
         UNCHANGED <<state, tmp, stream, ragged, mishaps>>
  PROVE  Once'
<1>1. PICK kind \in IF c \in Submits THEN Kinds ELSE {"none"} :
        Planned(c, Job(c, kind, w))
  BY DEF Plan, Planned
<1> DEFINE job == Job(c, kind, w)
           C == Begun \cup ({c} \cap Submits)
<1>2. c \in Submits => c \notin Begun
  BY DEF Begun
<1>3. Neat(C, job.world) /\ Says(c, C, job.out)
  <2>1. Fresh(stream) /\ AboutIds(ToSet(stream)) \subseteq Begun
    BY DEF Once
  <2> QED
    BY <1>2, <2>1, JobNeat DEF Typed
<1>4. Planned(c, job)
  BY <1>1
<1> HIDE DEF job
<1>5. /\ mem'[c] = job.world /\ out'[c] = job.out
      /\ pc'[c] \in {"writing", "appending"}
      /\ \A d \in Calls \ {c} :
           pc'[d] = pc[d] /\ mem'[d] = mem[d] /\ out'[d] = out[d]
  BY <1>4 DEF Planned, Goto, Typed
<1>6. Begun' = C
  BY <1>5 DEF Begun, Calls
<1> HIDE DEF C
<1>7. Begun \subseteq C
  BY DEF C
<1>8. \A d \in Calls : Neat(C, mem'[d]) /\ Says(d, C, out'[d])
  BY <1>3, <1>5, <1>7, NeatMore, SaysMore DEF Once
<1>9. \A d \in Submits : Live(d)' => d \notin AboutIds(ToSet(stream))
  <2>1. ASSUME NEW d \in Submits, Live(d)' PROVE d \notin AboutIds(ToSet(stream))
    <3>1. d = c
      BY <1>5, <2>1 DEF Live, Calls
    <3> QED
      BY <1>2, <3>1 DEF Once
  <2> QED
    BY <2>1
<1>10. Neat(C, state) /\ (tmp # NoFile => Neat(C, tmp))
  BY <1>7, NeatMore DEF Once
<1>11. Fresh(stream) /\ AboutIds(ToSet(stream)) \subseteq C
  BY <1>7 DEF Once
<1> QED
  BY <1>6, <1>8, <1>9, <1>10, <1>11 DEF Once

(* ... and at every step of a call that is alone.                          *)
LEMMA OnceNext ==
  ASSUME Typed, Phased, Solo, Solo', Once, [Next]_vars
  PROVE  Once'
<1>1. CASE UNCHANGED vars
  <2>1. \A c \in Calls : Live(c)' <=> Live(c)
    BY <1>1 DEF vars, Live
  <2>2. Begun' = Begun
    BY <1>1 DEF vars, Begun
  <2> QED
    BY <1>1, <2>1, <2>2 DEF vars, Once, Calls
<1>2. ASSUME NEW c \in Calls, Load(c) PROVE Once'
  <2>1. /\ Plan(c, state) /\ pc[c] = "idle"
        /\ UNCHANGED <<state, tmp, stream, ragged, mishaps>>
    BY <1>2 DEF Load
  <2>2. Live(c)'
    BY <2>1 DEF Plan, Goto, Typed, Live
  <2>3. \A d \in Calls \ {c} : ~Live(d)
    BY <1>2, <2>2, Alone DEF StepOf, Call
  <2>4. Neat(Begun, state) /\ state \in World
    BY DEF Once, Typed
  <2> QED
    BY <2>1, <2>3, <2>4, PlannedOnce
<1>3. ASSUME NEW c \in Calls, LoadForScan(c) PROVE Once'
  <2>1. /\ mem'[c] = state /\ pc'[c] = "scanning" /\ c \in Scans
        /\ pc[c] = "idle"
        /\ \A d \in Calls \ {c} : mem'[d] = mem[d] /\ pc'[d] = pc[d]
        /\ UNCHANGED <<state, tmp, stream, ragged, out, mishaps>>
    BY <1>3 DEF LoadForScan, Goto, Typed
  <2>2. c \notin Submits
    BY <2>1, CallsAssumption
  <2>3. Begun' = Begun
    BY <2>1, <2>2 DEF Begun, Calls
  <2>4. \A d \in Submits : Live(d)' => Live(d)
    BY <2>1, <2>2 DEF Live, Calls
  <2>5. \A d \in Calls : Neat(Begun, mem'[d])
    BY <2>1 DEF Once
  <2> QED
    BY <2>1, <2>3, <2>4, <2>5 DEF Once
<1>4. ASSUME NEW c \in Calls, Scan(c) PROVE Once'
  <2>1. /\ pc[c] = "scanning" /\ mem[c] \in World /\ Plan(c, mem[c])
        /\ UNCHANGED <<state, tmp, stream, ragged, mishaps>> /\ c \in Scans
    BY <1>4 DEF Scan, Typed, Phased, Phase
  <2>2. c \notin Submits /\ Live(c)
    BY <2>1, CallsAssumption DEF Live
  <2>3. \A d \in Calls \ {c} : ~Live(d)
    BY <2>2 DEF Solo
  <2>4. Neat(Begun, mem[c])
    BY DEF Once
  <2> QED
    BY <2>1, <2>2, <2>3, <2>4, PlannedOnce
<1>5. ASSUME NEW c \in Calls, AppendEvent(c) PROVE Once'
  <2> DEFINE o == out[c]
             e == Head(o)
             S == ToSet(stream)
             T == ToSet(stream')
  <2>1. /\ o \in Seq(Event) /\ o # <<>> /\ e \in Event /\ Len(o) >= 1
        /\ c \in SaveFirst => Len(o) = 1
    BY <1>5, AppendParts
  <2>2. /\ pc[c] = "appending" /\ Live(c) /\ state' = state /\ tmp' = tmp
        /\ stream' = IF ragged THEN stream ELSE Append(stream, e)
    BY <1>5 DEF AppendEvent, Live
  <2>3. \A d \in Calls \ {c} :
          /\ ~Live(d) /\ ~Live(d)'
          /\ pc'[d] = pc[d] /\ mem'[d] = mem[d] /\ out'[d] = out[d]
    BY <1>5, <2>2, Alone DEF StepOf, Call
  <2>4. ToSet(o) = {e} \cup ToSet(Tail(o))
    BY <2>1, ToSetHeadTail
  <2>5. Says(c, Begun, o)
    BY DEF Once
  <2>6. /\ e \in ToSet(o)
        /\ e.type = "action.queued" => c \in Submits /\ e.action.id = c
        /\ AboutIds({e}) \subseteq Begun
        /\ Says(c, Begun, Tail(o))
    BY <2>4, <2>5 DEF Says, AboutIds
  <2>7. /\ Neat(Begun, mem'[c]) /\ Says(c, Begun, out'[c]) /\ Begun' = Begun
        /\ c \in Submits => ~Live(c)'
    <3>1. CASE Len(o) = 1 /\ c \in SaveFirst
      <4>1. Finish(c, "done")
        BY <1>5, <3>1 DEF AppendEvent
      <4> QED
        BY <2>2, <4>1, FinishOnce
    <3>2. CASE ~(Len(o) = 1 /\ c \in SaveFirst)
      <4>1. c \notin SaveFirst /\ c \notin Submits
        BY <2>1, <3>2 DEF SaveFirst
      <4>2. /\ mem'[c] = mem[c] /\ out'[c] = Tail(o)
            /\ pc'[c] \in {"appending", "writing"}
        BY <1>5, <3>2 DEF AppendEvent, Goto, Typed
      <4>3. Begun' = Begun
        BY <2>3, <4>1 DEF Begun, Calls
      <4> QED
        BY <2>6, <4>1, <4>2, <4>3 DEF Once
    <3> QED
      BY <3>1, <3>2
  <2>8. T = S \/ T = S \cup {e}
    <3>1. stream \in Seq(Event)
      BY DEF Typed
    <3> HIDE DEF e
    <3>2. ToSet(Append(stream, e)) = S \cup {e}
      BY <2>1, <3>1, ToSetAppend
    <3> QED
      BY <2>2, <3>2
  <2>9. Fresh(stream')
    <3>1. stream \in Seq(Event) /\ Fresh(stream)
      BY DEF Typed, Once
    <3>2. e.type = "action.queued" => e.action.id \notin AboutIds(ToSet(stream))
      BY <2>2, <2>6 DEF Once
    <3> HIDE DEF e
    <3>3. Fresh(Append(stream, e))
      BY <2>1, <3>1, <3>2, FreshAppend
    <3> QED
      BY <2>2, <3>1, <3>3
  <2>10. AboutIds(T) \subseteq Begun
    BY <2>6, <2>8 DEF AboutIds, Once
  <2>11. \A d \in Submits : ~Live(d)'
    BY <2>3, <2>7 DEF Calls
  <2>12. \A d \in Calls : Neat(Begun, mem'[d]) /\ Says(d, Begun, out'[d])
    BY <2>3, <2>7 DEF Once
  <2> QED
    BY <2>2, <2>7, <2>9, <2>10, <2>11, <2>12 DEF Once
<1>6. ASSUME NEW c \in Calls, WriteTmp(c) PROVE Once'
  <2>1. /\ tmp' = mem[c] /\ pc[c] = "writing" /\ pc'[c] = "replacing"
        /\ \A d \in Calls \ {c} : pc'[d] = pc[d]
        /\ UNCHANGED <<state, stream, ragged, mem, out, mishaps>>
    BY <1>6 DEF WriteTmp, Goto, Typed
  <2>2. Begun' = Begun /\ \A d \in Submits : Live(d)' <=> Live(d)
    BY <2>1 DEF Begun, Live, Calls
  <2> QED
    BY <2>1, <2>2 DEF Once
<1>7. ASSUME NEW c \in Calls, Replace(c) PROVE Once'
  <2>1. /\ state' = tmp /\ tmp # NoFile /\ tmp' = NoFile
        /\ UNCHANGED <<stream, ragged, mishaps>> /\ pc[c] = "replacing"
        /\ Live(c)
    BY <1>7 DEF Replace, Live
  <2>2. CASE out[c] = <<>>
    <3>1. Finish(c, "done")
      BY <1>7, <2>2 DEF Replace
    <3>2. /\ Neat(Begun, mem'[c]) /\ Says(c, Begun, out'[c])
          /\ ~Live(c)' /\ Begun' = Begun
          /\ \A d \in Calls \ {c} :
               pc'[d] = pc[d] /\ mem'[d] = mem[d] /\ out'[d] = out[d]
      BY <2>1, <3>1, FinishOnce
    <3>3. \A d \in Submits : Live(d)' => Live(d)
      BY <3>2 DEF Live, Calls
    <3>4. \A d \in Calls : Neat(Begun, mem'[d]) /\ Says(d, Begun, out'[d])
      BY <3>2 DEF Once
    <3> QED
      BY <2>1, <3>2, <3>3, <3>4 DEF Once
  <2>3. CASE out[c] # <<>>
    <3>1. /\ UNCHANGED <<mem, out>> /\ pc'[c] = "appending"
          /\ \A d \in Calls \ {c} : pc'[d] = pc[d]
      BY <1>7, <2>1, <2>3 DEF Replace, Goto, Typed
    <3>2. Begun' = Begun /\ \A d \in Submits : Live(d)' <=> Live(d)
      BY <2>1, <3>1 DEF Begun, Live, Calls
    <3> QED
      BY <2>1, <3>1, <3>2 DEF Once
  <2> QED
    BY <2>2, <2>3
<1>8. ASSUME NEW c \in Calls,
             ReplaceRaises(c) \/ Kill(c) \/ KillMidAppend(c)
      PROVE  Once'
  <2>1. PICK label \in {"done", "error", "dead"} : Finish(c, label)
    BY <1>8 DEF ReplaceRaises, Kill, KillMidAppend
  <2>2. Live(c) /\ UNCHANGED <<state, tmp, stream>>
    BY <1>8 DEF ReplaceRaises, Kill, KillMidAppend, Live
  <2>3. /\ Neat(Begun, mem'[c]) /\ Says(c, Begun, out'[c])
        /\ ~Live(c)' /\ Begun' = Begun
        /\ \A d \in Calls \ {c} :
             pc'[d] = pc[d] /\ mem'[d] = mem[d] /\ out'[d] = out[d]
    BY <2>1, <2>2, FinishOnce
  <2>4. \A d \in Submits : Live(d)' => Live(d)
    BY <2>3 DEF Live, Calls
  <2>5. \A d \in Calls : Neat(Begun, mem'[d]) /\ Says(d, Begun, out'[d])
    BY <2>3 DEF Once
  <2> QED
    BY <2>2, <2>3, <2>4, <2>5 DEF Once
<1> QED
  BY <1>1, <1>2, <1>3, <1>4, <1>5, <1>6, <1>7, <1>8 DEF Next, Call

(* What the runs check of it.                                              *)
LEMMA OnceEnough ==
  ASSUME Typed, Once
  PROVE  ProcessedOnce
<1> DEFINE q == [k \in DOMAIN state.queued |-> state.queued[k].id]
           ids == state.processed \o q
<1>1. /\ state \in World /\ state.processed \in Seq(Submits)
      /\ state.queued \in Seq(Actions)
  BY DEF Typed, World
<1>2. \A n \in 1..Len(state.queued) : state.queued[n].id \in Submits
  <2>1. \A n \in 1..Len(state.queued) : state.queued[n] \in Actions
    BY <1>1
  <2>2. \A a \in Actions : a.id \in Submits
    BY DEF Actions
  <2> QED
    BY <2>1, <2>2
<1>3. q \in Seq(Submits) /\ Len(q) = Len(state.queued)
      /\ \A n \in 1..Len(state.queued) : q[n] = state.queued[n].id
  BY <1>1, <1>2
<1> HIDE DEF q
<1>4. /\ ids \in Seq(Submits)
      /\ Len(ids) = Len(state.processed) + Len(state.queued)
      /\ \A n \in 1..(Len(state.processed) + Len(state.queued)) :
           ids[n] = IF n <= Len(state.processed) THEN state.processed[n]
                    ELSE state.queued[n - Len(state.processed)].id
  <2>1. /\ ids \in Seq(Submits) /\ Len(ids) = Len(state.processed) + Len(q)
        /\ \A n \in 1..(Len(state.processed) + Len(q)) :
             ids[n] = IF n <= Len(state.processed) THEN state.processed[n]
                      ELSE q[n - Len(state.processed)]
    BY <1>1, <1>3, ConcatProperties, ZenonT(40)
  <2> DEFINE k == Len(state.processed)
             l == Len(state.queued)
  <2>2. k \in Nat /\ l \in Nat
    BY <1>1
  <2> HIDE DEF k, l, ids
  <2>3. ASSUME NEW n \in 1..(k + l), ~(n <= k)
        PROVE  n - k \in 1..l
    BY <2>2, <2>3
  <2>4. ASSUME NEW n \in 1..(k + l)
        PROVE  ids[n] = IF n <= k THEN state.processed[n]
                        ELSE state.queued[n - k].id
    BY <1>3, <2>1, <2>3 DEF k, l
  <2> QED
    BY <1>3, <2>1, <2>4 DEF k, l
<1>5. /\ AllIds(state) \in Seq(Submits)
      /\ Len(AllIds(state)) = Len(state.processed) + Len(state.queued)
  <2>1. Len(state.queued) \in 0..Len(state.queued)
    BY <1>1
  <2> QED
    BY <1>1, <2>1, MovedTyped DEF AllIds
<1>6. \A n \in 1..(Len(state.processed) + Len(state.queued)) :
        AllIds(state)[n] = IF n <= Len(state.processed) THEN state.processed[n]
                           ELSE state.queued[n - Len(state.processed)].id
  BY DEF AllIds, Moved
<1> HIDE DEF ids
<1>7. ids = AllIds(state)
  BY <1>4, <1>5, <1>6, SeqEqual
<1>8. IsInjective(ids)
  BY <1>1, <1>7, DistinctIs DEF Once, Neat
<1> QED
  BY <1>8 DEF ProcessedOnce, ids, q

-----------------------------------------------------------------------------
(* Nothing that was submitted is lost.                                     *)

NoOverwrite == \A c \in Replays \cup Resets : pc[c] = "idle"

(* What was submitted with success, and what the stream is about, is in    *)
(* the state; a call works on a copy of it that loses none of it.          *)
KeptBy(c) ==
  /\ Live(c) => Known(state) \subseteq Known(mem[c])
  /\ Live(c) /\ c \in Submits => c \in Known(mem[c])
  /\ pc[c] = "scanning" => mem[c] = state
  /\ pc[c] = "replacing" => tmp = mem[c]
  /\ pc[c] = "appending" /\ c \in SaveFirst => state = mem[c]
  /\ AboutIds(ToSet(out[c])) \subseteq
       IF c \in SaveFirst THEN Known(mem[c]) ELSE Known(state)

Kept ==
  /\ \A c \in Submits : pc[c] \in {"appending", "done"} => c \in Known(state)
  /\ AboutIds(ToSet(stream)) \subseteq Known(state)
  /\ \A c \in Calls : KeptBy(c)

(* No action is lost at the start.                                         *)
LEMMA KeptInit == Init => Kept
<1> SUFFICES ASSUME Init PROVE Kept
  OBVIOUS
<1>1. /\ stream = <<>>
      /\ \A c \in Calls : out[c] = <<>> /\ pc[c] = "idle"
  BY DEF Init
<1>2. AboutIds(ToSet(<<>>)) = {}
  BY DEF AboutIds, ToSet
<1> QED
  BY <1>1, <1>2 DEF Kept, KeptBy, Calls, Live

(* A call that ends has nothing left to say.                               *)
LEMMA FinishKept ==
  ASSUME Typed, NEW c \in Calls, NEW label \in {"done", "error", "dead"},
         Finish(c, label)
  PROVE  /\ ~Live(c)' /\ pc'[c] = label /\ AboutIds(ToSet(out'[c])) = {}
         /\ \A d \in Calls \ {c} :
              pc'[d] = pc[d] /\ mem'[d] = mem[d] /\ out'[d] = out[d]
<1>1. /\ mem'[c] = Blank /\ out'[c] = <<>> /\ pc'[c] = label
      /\ \A d \in Calls \ {c} :
           pc'[d] = pc[d] /\ mem'[d] = mem[d] /\ out'[d] = out[d]
  BY DEF Finish, Goto, Typed
<1>2. AboutIds(ToSet(<<>>)) = {}
  BY DEF AboutIds, ToSet
<1> QED
  BY <1>1, <1>2 DEF Live

(* The other calls when one moves.                                         *)
LEMMA KeptOthers ==
  ASSUME Typed, Solo, Solo', Kept, NEW c \in Calls, StepOf(c),
         Live(c) \/ Live(c)', Known(state) \subseteq Known(state')
  PROVE  \A d \in Calls \ {c} : KeptBy(d)'
<1>1. \A d \in Calls \ {c} :
        /\ ~Live(d) /\ ~Live(d)'
        /\ pc'[d] = pc[d] /\ mem'[d] = mem[d] /\ out'[d] = out[d]
  BY Alone
<1>2. \A d \in Calls \ {c} :
        /\ pc'[d] \notin {"scanning", "replacing", "appending"}
        /\ AboutIds(ToSet(out[d])) \subseteq
             IF d \in SaveFirst THEN Known(mem[d]) ELSE Known(state)
  BY <1>1 DEF Live, Kept, KeptBy
<1> QED
  BY <1>1, <1>2 DEF KeptBy

(* No action is lost when a call plans its writes,                         *)
LEMMA PlannedKept ==
  ASSUME Typed, Solo, Solo', Once, Kept, NEW c \in Calls, StepOf(c),
         c \notin Replays \cup Resets, NEW w \in World,
         Known(w) = Known(state), Neat(Begun, w), Plan(c, w),
         c \in Submits => pc[c] = "idle",
         UNCHANGED <<state, tmp, stream, ragged, mishaps>>
  PROVE  Kept'
<1>1. PICK kind \in IF c \in Submits THEN Kinds ELSE {"none"} :
        Planned(c, Job(c, kind, w))
  BY DEF Plan, Planned
<1> DEFINE job == Job(c, kind, w)
<1>2. c \in Submits => c \notin Known(w)
  BY DEF Begun, Neat
<1>3. /\ Known(w) \subseteq Known(job.world)
      /\ c \in Submits => c \in Known(job.world)
      /\ AboutIds(ToSet(job.out)) \subseteq
           IF c \in SaveFirst THEN Known(job.world) ELSE Known(w)
  BY <1>2, JobKnown DEF Typed, Neat
<1>4. Planned(c, job)
  BY <1>1
<1> HIDE DEF job
<1>5. /\ mem'[c] = job.world /\ out'[c] = job.out
      /\ pc'[c] \in {"writing", "appending"}
      /\ pc'[c] = "appending" => c \notin SaveFirst
      /\ \A d \in Calls \ {c} : pc'[d] = pc[d]
  BY <1>4 DEF Planned, Goto, Typed
<1>6. KeptBy(c)' /\ Live(c)'
  BY <1>3, <1>5 DEF KeptBy, Live
<1>7. \A d \in Calls : KeptBy(d)'
  BY <1>6, KeptOthers
<1>8. \A d \in Submits : pc'[d] \in {"appending", "done"} => d \in Known(state)
  <2>1. ASSUME NEW d \in Submits, pc'[d] \in {"appending", "done"}
        PROVE  d \in Known(state)
    <3>1. d # c
      BY <1>5, <2>1 DEF SaveFirst
    <3> QED
      BY <1>5, <2>1, <3>1 DEF Kept, Calls
  <2> QED
    BY <2>1
<1> QED
  BY <1>7, <1>8 DEF Kept

(* ... nor at any step of a call that is alone, if none overwrites the     *)
(* state.                                                                  *)
LEMMA KeptNext ==
  ASSUME Typed, Phased, Solo, Solo', Once, Kept, NoOverwrite', [Next]_vars
  PROVE  Kept'
<1>1. CASE UNCHANGED vars
  BY <1>1 DEF vars, Kept, KeptBy, Live
<1>2. ASSUME NEW c \in Calls, Load(c) PROVE Kept'
  <2>1. /\ Plan(c, state) /\ pc[c] = "idle" /\ StepOf(c)
        /\ UNCHANGED <<state, tmp, stream, ragged, mishaps>>
    BY <1>2 DEF Load, StepOf, Call
  <2>2. pc'[c] # "idle"
    BY <2>1 DEF Plan, Goto, Typed
  <2>3. c \notin Replays \cup Resets
    BY <2>2 DEF NoOverwrite
  <2>4. Neat(Begun, state) /\ state \in World
    BY DEF Once, Typed
  <2> QED
    BY <2>1, <2>3, <2>4, PlannedKept
<1>3. ASSUME NEW c \in Calls, LoadForScan(c) PROVE Kept'
  <2>1. /\ mem'[c] = state /\ pc'[c] = "scanning" /\ c \in Scans
        /\ pc[c] = "idle" /\ out[c] = <<>>
        /\ \A d \in Calls \ {c} : pc'[d] = pc[d]
        /\ UNCHANGED <<state, tmp, stream, ragged, out, mishaps>>
        /\ StepOf(c) /\ Live(c)'
    BY <1>3 DEF LoadForScan, Goto, Typed, StepOf, Call, Live, Phased, Phase
  <2>2. c \notin Submits /\ AboutIds(ToSet(out'[c])) = {}
    BY <2>1, CallsAssumption DEF AboutIds, ToSet
  <2>3. KeptBy(c)'
    BY <2>1, <2>2 DEF KeptBy
  <2>4. \A d \in Calls : KeptBy(d)'
    BY <2>1, <2>3, KeptOthers
  <2>5. \A d \in Submits : pc'[d] = pc[d]
    BY <2>1, <2>2 DEF Calls
  <2> QED
    BY <2>1, <2>4, <2>5 DEF Kept
<1>4. ASSUME NEW c \in Calls, Scan(c) PROVE Kept'
  <2>1. /\ pc[c] = "scanning" /\ mem[c] \in World /\ Plan(c, mem[c])
        /\ UNCHANGED <<state, tmp, stream, ragged, mishaps>> /\ c \in Scans
        /\ StepOf(c)
    BY <1>4 DEF Scan, Typed, Phased, Phase, StepOf, Call
  <2>2. mem[c] = state
    BY <2>1 DEF Kept, KeptBy
  <2>3. Neat(Begun, mem[c]) /\ c \notin Submits /\ c \notin Replays \cup Resets
    BY <2>1, CallsAssumption DEF Once
  <2> QED
    BY <2>1, <2>2, <2>3, PlannedKept
<1>5. ASSUME NEW c \in Calls, AppendEvent(c) PROVE Kept'
  <2> DEFINE o == out[c]
             e == Head(o)
             S == ToSet(stream)
             T == ToSet(stream')
  <2>1. /\ o \in Seq(Event) /\ o # <<>> /\ e \in Event /\ Len(o) >= 1
        /\ c \in SaveFirst => Len(o) = 1
    BY <1>5, AppendParts
  <2>2. /\ pc[c] = "appending" /\ Live(c) /\ state' = state /\ tmp' = tmp
        /\ stream' = IF ragged THEN stream ELSE Append(stream, e)
        /\ StepOf(c)
    BY <1>5 DEF AppendEvent, Live, StepOf, Call
  <2>3. ToSet(o) = {e} \cup ToSet(Tail(o))
    BY <2>1, ToSetHeadTail
  <2>4. T = S \/ T = S \cup {e}
    <3>1. stream \in Seq(Event)
      BY DEF Typed
    <3> HIDE DEF e
    <3>2. ToSet(Append(stream, e)) = S \cup {e}
      BY <2>1, <3>1, ToSetAppend
    <3> QED
      BY <2>2, <3>2
  <2>5. KeptBy(c) /\ AboutIds(S) \subseteq Known(state)
    BY DEF Kept
  <2>6. AboutIds(ToSet(o)) \subseteq Known(state)
    BY <2>2, <2>5 DEF KeptBy
  <2>7. /\ AboutIds({e}) \subseteq Known(state)
        /\ AboutIds(ToSet(Tail(o))) \subseteq Known(state)
    BY <2>3, <2>6 DEF AboutIds
  <2>8. AboutIds(T) \subseteq Known(state)
    BY <2>4, <2>5, <2>7 DEF AboutIds
  <2>9. /\ KeptBy(c)'
        /\ c \in Submits => c \in Known(state)
        /\ \A d \in Calls \ {c} : pc'[d] = pc[d]
    <3>1. CASE Len(o) = 1 /\ c \in SaveFirst
      <4>1. Finish(c, "done")
        BY <1>5, <3>1 DEF AppendEvent
      <4>2. /\ ~Live(c)' /\ pc'[c] = "done" /\ AboutIds(ToSet(out'[c])) = {}
            /\ \A d \in Calls \ {c} : pc'[d] = pc[d]
        BY <4>1, FinishKept
      <4> QED
        BY <2>2, <2>5, <4>2 DEF KeptBy, Kept
    <3>2. CASE ~(Len(o) = 1 /\ c \in SaveFirst)
      <4>1. c \notin SaveFirst /\ c \notin Submits
        BY <2>1, <3>2 DEF SaveFirst
      <4>2. /\ mem'[c] = mem[c] /\ out'[c] = Tail(o)
            /\ pc'[c] \in {"appending", "writing"}
            /\ \A d \in Calls \ {c} : pc'[d] = pc[d]
        BY <1>5, <3>2 DEF AppendEvent, Goto, Typed
      <4> QED
        BY <2>2, <2>5, <2>7, <4>1, <4>2 DEF KeptBy
    <3> QED
      BY <3>1, <3>2
  <2>10. \A d \in Calls : KeptBy(d)'
    BY <2>2, <2>9, KeptOthers
  <2>11. \A d \in Submits : pc'[d] \in {"appending", "done"} => d \in Known(state)
    BY <2>9 DEF Kept, Calls
  <2> QED
    BY <2>2, <2>8, <2>10, <2>11 DEF Kept
<1>6. ASSUME NEW c \in Calls, WriteTmp(c) PROVE Kept'
  <2>1. /\ tmp' = mem[c] /\ pc[c] = "writing" /\ pc'[c] = "replacing"
        /\ \A d \in Calls \ {c} : pc'[d] = pc[d]
        /\ UNCHANGED <<state, stream, ragged, mem, out, mishaps>>
        /\ StepOf(c) /\ Live(c)
    BY <1>6 DEF WriteTmp, Goto, Typed, StepOf, Call, Live
  <2>2. KeptBy(c)'
    BY <2>1 DEF Kept, KeptBy
  <2>3. \A d \in Calls : KeptBy(d)'
    BY <2>1, <2>2, KeptOthers
  <2>4. \A d \in Submits : pc'[d] \in {"appending", "done"} => d \in Known(state)
    BY <2>1 DEF Kept, Calls
  <2> QED
    BY <2>1, <2>3, <2>4 DEF Kept
<1>7. ASSUME NEW c \in Calls, Replace(c) PROVE Kept'
  <2>1. /\ state' = tmp /\ UNCHANGED <<stream, ragged, mishaps>>
        /\ pc[c] = "replacing" /\ Live(c) /\ StepOf(c)
    BY <1>7 DEF Replace, Live, StepOf, Call
  <2>0. /\ state' = mem[c] /\ Known(state) \subseteq Known(mem[c])
        /\ c \in Submits => c \in Known(mem[c])
    BY <2>1 DEF Kept, KeptBy
  <2>2. /\ Known(state) \subseteq Known(state')
        /\ c \in Submits => c \in Known(state')
    BY <2>0
  <2>3. /\ KeptBy(c)' /\ \A d \in Calls \ {c} : pc'[d] = pc[d]
    <3>1. CASE out[c] = <<>>
      <4>1. Finish(c, "done")
        BY <1>7, <3>1 DEF Replace
      <4>2. /\ ~Live(c)' /\ pc'[c] = "done" /\ AboutIds(ToSet(out'[c])) = {}
            /\ \A d \in Calls \ {c} : pc'[d] = pc[d]
        BY <4>1, FinishKept
      <4> QED
        BY <4>2 DEF KeptBy
    <3>2. CASE out[c] # <<>>
      <4>1. /\ UNCHANGED <<mem, out>> /\ pc'[c] = "appending"
            /\ \A d \in Calls \ {c} : pc'[d] = pc[d]
            /\ c \in SaveFirst
        BY <1>7, <2>1, <3>2 DEF Replace, Goto, Typed, Phased, Phase
      <4> QED
        BY <2>0, <2>1, <2>2, <4>1 DEF KeptBy, Kept
    <3> QED
      BY <3>1, <3>2
  <2>4. \A d \in Calls : KeptBy(d)'
    BY <2>1, <2>2, <2>3, KeptOthers
  <2>5. \A d \in Submits : pc'[d] \in {"appending", "done"} => d \in Known(state')
    BY <2>2, <2>3 DEF Kept, Calls
  <2>6. AboutIds(ToSet(stream)) \subseteq Known(state')
    BY <2>2 DEF Kept
  <2> QED
    BY <2>1, <2>4, <2>5, <2>6 DEF Kept
<1>8. ASSUME NEW c \in Calls,
             ReplaceRaises(c) \/ Kill(c) \/ KillMidAppend(c)
      PROVE  Kept'
  <2>1. PICK label \in {"error", "dead"} : Finish(c, label)
    BY <1>8 DEF ReplaceRaises, Kill, KillMidAppend
  <2>2. Live(c) /\ UNCHANGED <<state, tmp, stream>> /\ StepOf(c)
    BY <1>8 DEF ReplaceRaises, Kill, KillMidAppend, Live, StepOf, Call
  <2>3. /\ ~Live(c)' /\ pc'[c] = label /\ AboutIds(ToSet(out'[c])) = {}
        /\ \A d \in Calls \ {c} : pc'[d] = pc[d]
    BY <2>1, FinishKept
  <2>4. KeptBy(c)'
    BY <2>2, <2>3 DEF KeptBy, Live
  <2>5. \A d \in Calls : KeptBy(d)'
    BY <2>2, <2>4, KeptOthers
  <2>6. \A d \in Submits : pc'[d] \in {"appending", "done"} => d \in Known(state)
    BY <2>3 DEF Kept, Calls
  <2> QED
    BY <2>2, <2>5, <2>6 DEF Kept
<1> QED
  BY <1>1, <1>2, <1>3, <1>4, <1>5, <1>6, <1>7, <1>8 DEF Next, Call

(* What the runs check of it.                                              *)
LEMMA KeptEnough ==
  ASSUME Kept
  PROVE  NoActionLost
BY DEF Kept, NoActionLost, Known

-----------------------------------------------------------------------------
(* One call at a time, as OperationalWorld has it without Overlap and      *)
(* OperationalWorldMC in its serial mode.                                  *)

(* No action twice, if calls do not overlap.                               *)
LEMMA OnceAlways == ASSUME ~Overlap PROVE Spec => []Once
<1>1. Typed /\ Phased /\ Solo /\ Solo' /\ Once /\ [Next]_vars => Once'
  BY OnceNext
<1> QED
  BY <1>1, OnceInit, TypedAlways, SoloAlways, PTL DEF Spec

(* No state has an action processed twice, or processed and still queued,  *)
(* whatever calls are killed and whatever lines are cut short, as long as  *)
(* one call is under way at a time.                                        *)
THEOREM ActionsOnce ==
  ASSUME ~Overlap
  PROVE  Spec => []ProcessedOnce
BY OnceAlways, OnceEnough, TypedAlways, PTL

(* Without replays and resets none is ever at work.                        *)
LEMMA NoOverwriteAlways ==
  ASSUME Replays \cup Resets = {} PROVE NoOverwrite
BY DEF NoOverwrite

(* No action lost, if also nothing is replayed or reset.                   *)
LEMMA KeptAlways ==
  ASSUME ~Overlap, Replays \cup Resets = {}
  PROVE  Spec => []Kept
<1>1. Typed /\ Phased /\ Solo /\ Solo' /\ Once /\ Kept /\ [Next]_vars => Kept'
  <2> SUFFICES ASSUME Typed, Phased, Solo, Solo', Once, Kept, [Next]_vars
               PROVE  Kept'
    OBVIOUS
  <2>1. NoOverwrite'
    BY DEF NoOverwrite
  <2> QED
    BY <2>1, KeptNext
<1> QED
  BY <1>1, KeptInit, OnceAlways, TypedAlways, SoloAlways, PTL DEF Spec

(* No action is lost whose submission has succeeded, as long as one call   *)
(* is under way at a time and none replaces the world as a whole.          *)
THEOREM ActionsKept ==
  ASSUME ~Overlap, Replays \cup Resets = {}
  PROVE  Spec => []NoActionLost
BY KeptAlways, KeptEnough, PTL

-----------------------------------------------------------------------------
(* As long as no call is killed, the stream accounts for the state file in *)
(* full, and with what a call has yet to append for the call's copy.       *)

Balanced ==
  mishaps = 0 =>
    /\ ~ragged
    /\ Quiet => Account(stream, state)
    /\ \A c \in Calls : Live(c) => Account(stream \o out[c], mem[c])

(* The account is settled at the start.                                    *)
LEMMA BalancedInit == Init => Balanced
<1> SUFFICES ASSUME Init PROVE Balanced
  OBVIOUS
<1>1. /\ stream = <<>> /\ state = Blank /\ ragged = FALSE
      /\ \A c \in Calls : pc[c] = "idle"
  BY DEF Init
<1>2. <<>> \in Seq(Event) /\ Len(<<>>) = 0 /\ ToSet(<<>>) = {}
  BY DEF ToSet
<1>3. ReplayOf(<<>>) = Blank
  <2>1. PICK f \in [0..Len(<<>>) -> World] :
          f[0] = Blank /\ f[Len(<<>>)] = ReplayOf(<<>>)
    BY <1>2, ReplayTrace
  <2> QED
    BY <1>2, <2>1
<1>4. Account(<<>>, Blank)
  BY <1>2, <1>3 DEF Account, Single, Served, Agrees
<1> QED
  BY <1>1, <1>4 DEF Balanced, Live

(* The account stays settled when a call plans its writes,                 *)
LEMMA PlannedBalanced ==
  ASSUME Typed, Solo, Solo', Balanced, NEW c \in Calls, StepOf(c),
         c \notin Replays \cup Resets, NEW w \in World, Distinct(w),
         mishaps = 0 => Account(stream, w), Plan(c, w),
         UNCHANGED <<state, tmp, stream, ragged, mishaps>>
  PROVE  Balanced'
<1>1. PICK kind \in IF c \in Submits THEN Kinds ELSE {"none"} :
        Planned(c, Job(c, kind, w))
  BY DEF Plan, Planned
<1> DEFINE job == Job(c, kind, w)
<1>2. mishaps = 0 => Account(stream \o job.out, job.world)
  BY JobAccount DEF Typed
<1>3. Planned(c, job)
  BY <1>1
<1> HIDE DEF job
<1>4. /\ mem'[c] = job.world /\ out'[c] = job.out
      /\ pc'[c] \in {"writing", "appending"}
  BY <1>3 DEF Planned, Goto, Typed
<1>5. Live(c)'
  BY <1>4 DEF Live
<1>6. \A d \in Calls \ {c} : ~Live(d)'
  BY <1>5, Alone
<1> QED
  BY <1>2, <1>4, <1>5, <1>6 DEF Balanced, Quiet

(* ... and at every step of a call that is alone, if none overwrites the   *)
(* state.                                                                  *)
LEMMA BalancedNext ==
  ASSUME Typed, Phased, Solo, Solo', Once, Kept, Balanced, NoOverwrite',
         [Next]_vars
  PROVE  Balanced'
<1>1. CASE UNCHANGED vars
  BY <1>1 DEF vars, Balanced, Quiet, Live
<1>2. ASSUME NEW c \in Calls, Load(c) PROVE Balanced'
  <2>1. /\ Plan(c, state) /\ pc[c] = "idle" /\ StepOf(c)
        /\ UNCHANGED <<state, tmp, stream, ragged, mishaps>>
    BY <1>2 DEF Load, StepOf, Call
  <2>2. pc'[c] \in {"writing", "appending"}
    BY <2>1 DEF Plan, Goto, Typed
  <2>3. c \notin Replays \cup Resets
    BY <2>2 DEF NoOverwrite
  <2>4. Live(c)' /\ ~Live(c)
    BY <2>1, <2>2 DEF Live
  <2>5. Quiet
    BY <2>1, <2>4, Alone DEF Quiet
  <2>6. mishaps = 0 => Account(stream, state)
    BY <2>5 DEF Balanced
  <2>7. Distinct(state) /\ state \in World
    BY DEF Once, Neat, Typed
  <2> QED
    BY <2>1, <2>3, <2>6, <2>7, PlannedBalanced
<1>3. ASSUME NEW c \in Calls, LoadForScan(c) PROVE Balanced'
  <2>1. /\ mem'[c] = state /\ pc'[c] = "scanning" /\ pc[c] = "idle"
        /\ out[c] = <<>>
        /\ UNCHANGED <<state, tmp, stream, ragged, out, mishaps>>
        /\ StepOf(c)
    BY <1>3 DEF LoadForScan, Goto, Typed, StepOf, Call, Live, Phased, Phase
  <2>2. Live(c)' /\ ~Live(c)
    BY <2>1 DEF Live
  <2>3. Quiet /\ \A d \in Calls \ {c} : ~Live(d)'
    BY <2>1, <2>2, Alone DEF Quiet
  <2>4. stream \o out[c] = stream
    BY <2>1, ConcatEmpty DEF Typed
  <2>5. mishaps = 0 => ~ragged /\ Account(stream \o out[c], state)
    BY <2>3, <2>4 DEF Balanced
  <2> QED
    BY <2>1, <2>2, <2>3, <2>5 DEF Balanced, Quiet
<1>4. ASSUME NEW c \in Calls, Scan(c) PROVE Balanced'
  <2>1. /\ pc[c] = "scanning" /\ mem[c] \in World /\ Plan(c, mem[c])
        /\ UNCHANGED <<state, tmp, stream, ragged, mishaps>> /\ c \in Scans
        /\ StepOf(c) /\ out[c] = <<>> /\ Live(c)
    BY <1>4 DEF Scan, Typed, Phased, Phase, StepOf, Call, Live
  <2>2. c \notin Replays \cup Resets /\ Distinct(mem[c])
    BY <2>1, CallsAssumption DEF Once, Neat
  <2>3. stream \o out[c] = stream
    BY <2>1, ConcatEmpty DEF Typed
  <2>4. mishaps = 0 => Account(stream, mem[c])
    BY <2>1, <2>3 DEF Balanced
  <2> QED
    BY <2>1, <2>2, <2>4, PlannedBalanced
<1>5. ASSUME NEW c \in Calls, AppendEvent(c) PROVE Balanced'
  <2> DEFINE o == out[c]
             e == Head(o)
  <2>1. /\ o \in Seq(Event) /\ o # <<>> /\ e \in Event /\ Len(o) >= 1
        /\ c \in SaveFirst => Len(o) = 1
        /\ Len(o) = 1 => Tail(o) = <<>>
        /\ Append(stream, e) \in Seq(Event) /\ stream \in Seq(Event)
    BY <1>5, AppendParts DEF Typed
  <2>2. /\ pc[c] = "appending" /\ Live(c) /\ state' = state
        /\ mishaps' = mishaps /\ ragged' = FALSE
        /\ stream' = IF ragged THEN stream ELSE Append(stream, e)
        /\ StepOf(c)
    BY <1>5 DEF AppendEvent, Live, StepOf, Call
  <2>3. \A d \in Calls \ {c} : ~Live(d)'
    BY <2>2, Alone
  <2>4. stream \o o = Append(stream, e) \o Tail(o)
    BY <2>1, ConcatHead
  <2>5. mishaps = 0 => /\ stream' = Append(stream, e)
                       /\ Account(stream' \o Tail(o), mem[c])
    BY <2>2, <2>4 DEF Balanced
  <2>6. CASE Len(o) = 1 /\ c \in SaveFirst
    <3>1. Finish(c, "done")
      BY <1>5, <2>6 DEF AppendEvent
    <3>2. ~Live(c)'
      BY <3>1, FinishKept
    <3>3. state = mem[c]
      BY <2>2, <2>6 DEF Kept, KeptBy
    <3>4. mishaps = 0 => stream' \o Tail(o) = stream'
      BY <2>1, <2>5, <2>6, ConcatEmpty
    <3>5. mishaps = 0 => Account(stream', state')
      BY <2>2, <2>5, <3>3, <3>4
    <3> QED
      BY <2>2, <2>3, <3>2, <3>5 DEF Balanced
  <2>7. CASE ~(Len(o) = 1 /\ c \in SaveFirst)
    <3>1. /\ mem'[c] = mem[c] /\ out'[c] = Tail(o)
          /\ pc'[c] \in {"appending", "writing"}
      BY <1>5, <2>7 DEF AppendEvent, Goto, Typed
    <3>2. Live(c)'
      BY <3>1 DEF Live
    <3> QED
      BY <2>2, <2>3, <2>5, <3>1, <3>2 DEF Balanced, Quiet
  <2> QED
    BY <2>6, <2>7
<1>6. ASSUME NEW c \in Calls, WriteTmp(c) PROVE Balanced'
  <2>1. /\ pc[c] = "writing" /\ pc'[c] = "replacing"
        /\ \A d \in Calls \ {c} : pc'[d] = pc[d]
        /\ UNCHANGED <<state, stream, ragged, mem, out, mishaps>>
    BY <1>6 DEF WriteTmp, Goto, Typed
  <2>2. \A d \in Calls : Live(d)' <=> Live(d)
    BY <2>1 DEF Live
  <2> QED
    BY <2>1, <2>2 DEF Balanced, Quiet
<1>7. ASSUME NEW c \in Calls, Replace(c) PROVE Balanced'
  <2>1. /\ state' = tmp /\ UNCHANGED <<stream, ragged, mishaps>>
        /\ pc[c] = "replacing" /\ Live(c) /\ StepOf(c)
    BY <1>7 DEF Replace, Live, StepOf, Call
  <2>2. state' = mem[c]
    BY <2>1 DEF Kept, KeptBy
  <2>3. \A d \in Calls \ {c} : ~Live(d)'
    BY <2>1, Alone
  <2>4. mishaps = 0 => ~ragged /\ Account(stream \o out[c], mem[c])
    BY <2>1 DEF Balanced
  <2>5. CASE out[c] = <<>>
    <3>1. Finish(c, "done")
      BY <1>7, <2>5 DEF Replace
    <3>2. ~Live(c)'
      BY <3>1, FinishKept
    <3>3. stream \o out[c] = stream
      BY <2>5, ConcatEmpty DEF Typed
    <3>4. mishaps = 0 => Account(stream, mem[c])
      BY <2>4, <3>3
    <3> QED
      BY <2>1, <2>2, <2>3, <2>4, <3>2, <3>4 DEF Balanced
  <2>6. CASE out[c] # <<>>
    <3>1. UNCHANGED <<mem, out>> /\ pc'[c] = "appending"
      BY <1>7, <2>1, <2>6 DEF Replace, Goto, Typed
    <3>2. Live(c)'
      BY <3>1 DEF Live
    <3> QED
      BY <2>1, <2>3, <2>4, <3>1, <3>2 DEF Balanced, Quiet
  <2> QED
    BY <2>5, <2>6
<1>8. ASSUME NEW c \in Calls, ReplaceRaises(c) PROVE Balanced'
  <2>1. pc[c] = "replacing" /\ tmp = NoFile
    BY <1>8 DEF ReplaceRaises
  <2>2. tmp = mem[c] /\ mem[c] \in World
    BY <2>1 DEF Kept, KeptBy, Typed
  <2> QED
    BY <2>1, <2>2, NoFileAssumption
<1>9. ASSUME NEW c \in Calls, Kill(c) \/ KillMidAppend(c) PROVE Balanced'
  <2>1. mishaps' = mishaps + 1 /\ mishaps \in Nat
    BY <1>9 DEF Kill, KillMidAppend, Mishap, Typed
  <2>2. mishaps' # 0
    BY <2>1
  <2> QED
    BY <2>2 DEF Balanced
<1> QED
  BY <1>1, <1>2, <1>3, <1>4, <1>5, <1>6, <1>7, <1>8, <1>9 DEF Next, Call

(* The consequence of an event is in the stream once, in quiet states.     *)
LEMMA BalancedEnough ==
  ASSUME Typed, Spine, Balanced
  PROVE  ConsequenceOnce
<1> SUFFICES ASSUME Quiet, mishaps = 0,
                    NEW e \in Events("approval.required")
             PROVE  \E k \in DOMAIN stream : \A n \in DOMAIN stream :
                      (stream[n].type = "consequence.approval_gate"
                         /\ stream[n].arg = e.id) <=> n = k
  BY DEF ConsequenceOnce
<1>1. Single(stream, state.fired) /\ Served(ToSet(stream), state.fired)
  BY DEF Balanced, Account
<1>2. DOMAIN stream = 1..Len(stream)
  BY DEF Typed
<1>3. e.id \in state.fired
  BY <1>1 DEF Served, Events
<1>4. ActsAhead(Torn, ToSet(stream), state) /\ ~Torn
  <2>1. ~(0 > 0)
    OBVIOUS
  <2> QED
    BY <2>1 DEF Spine, Ahead, Torn
<1>5. PICK x \in ToSet(stream) :
        x.type = "consequence.approval_gate" /\ x.arg = e.id
  BY <1>3, <1>4 DEF ActsAhead
<1>6. PICK k \in DOMAIN stream : x = stream[k]
  BY <1>5 DEF ToSet
<1> QED
  BY <1>1, <1>2, <1>5, <1>6 DEF Single, IsConsequence

-----------------------------------------------------------------------------
(* The tick that the stream tells of: the state's, or the next one when a  *)
(* tick was killed after its last event.                                   *)

(* A call works from the tick of the state file.                           *)
PacedBy(c) ==
  Live(c) =>
    IF c \in Ticks
      THEN /\ mem[c].tick = state.tick + 1
           /\ IF out[c] = <<>> THEN ReplayOf(stream).tick = mem[c].tick
                               ELSE Ends(out[c], mem[c].tick)
      ELSE Unending(out[c]) /\ mem[c].tick = state.tick

Paced ==
  /\ ReplayOf(stream).tick \in {state.tick, state.tick + 1}
  /\ \A c \in Calls : PacedBy(c)

(* No tick is open at the start.                                           *)
LEMMA PacedInit == Init => Paced
<1> SUFFICES ASSUME Init PROVE Paced
  OBVIOUS
<1>1. /\ stream = <<>> /\ state = Blank
      /\ \A c \in Calls : ~Live(c)
  BY DEF Init, Live
<1>2. <<>> \in Seq(Event) /\ Len(<<>>) = 0
  OBVIOUS
<1>3. ReplayOf(<<>>) = Blank
  <2>1. PICK f \in [0..Len(<<>>) -> World] :
          f[0] = Blank /\ f[Len(<<>>)] = ReplayOf(<<>>)
    BY <1>2, ReplayTrace
  <2> QED
    BY <1>2, <2>1
<1> QED
  BY <1>1, <1>3 DEF Paced, PacedBy

(* A step that leaves the call it is of at an end, or as it was.           *)
LEMMA PacedSolo ==
  ASSUME Typed, Solo, Solo', NEW c \in Calls, StepOf(c), Live(c) \/ Live(c)',
         PacedBy(c)'
  PROVE  \A d \in Calls : PacedBy(d)'
<1>1. \A d \in Calls \ {c} : ~Live(d)'
  BY Alone
<1>2. \A d \in Calls \ {c} : PacedBy(d)'
  BY <1>1 DEF PacedBy
<1> QED
  BY <1>2

(* The ticks keep pace when a call plans its writes,                       *)
LEMMA PlannedPaced ==
  ASSUME Typed, Solo, Solo', Paced, NEW c \in Calls, StepOf(c),
         c \notin Replays \cup Resets, NEW w \in World, w.tick = state.tick,
         Plan(c, w), UNCHANGED <<state, tmp, stream, ragged, mishaps>>
  PROVE  Paced'
<1>1. PICK kind \in IF c \in Submits THEN Kinds ELSE {"none"} :
        Planned(c, Job(c, kind, w))
  BY DEF Plan, Planned
<1> DEFINE job == Job(c, kind, w)
<1>2. IF c \in Ticks
        THEN Ends(job.out, w.tick + 1) /\ job.world.tick = w.tick + 1
        ELSE Unending(job.out) /\ job.world.tick = w.tick
  BY JobEnds DEF Typed
<1>3. Planned(c, job) /\ job.out \in Seq(Event)
  BY <1>1, JobTyped DEF JobSet, Typed
<1> HIDE DEF job
<1>4. /\ mem'[c] = job.world /\ out'[c] = job.out
      /\ pc'[c] \in {"writing", "appending"}
  BY <1>3 DEF Planned, Goto, Typed
<1>5. c \in Ticks => job.out # <<>>
  <2>1. Len(<<>>) = 0
    OBVIOUS
  <2> QED
    BY <1>2, <2>1 DEF Ends
<1>6. PacedBy(c)' /\ Live(c)'
  BY <1>2, <1>4, <1>5 DEF PacedBy, Live
<1>7. \A d \in Calls : PacedBy(d)'
  BY <1>6, PacedSolo
<1> QED
  BY <1>7 DEF Paced

(* ... when it appends an event,                                           *)
LEMMA AppendPaced ==
  ASSUME Typed, Phased, Spine, Solo, Solo', Paced, NEW c \in Calls,
         AppendEvent(c)
  PROVE  Paced'
<1> DEFINE o == out[c]
           e == Head(o)
           was == ReplayOf(stream).tick
           is == ReplayOf(stream').tick
<1>0. Len(o) > 1 \/ Len(o) = 1
  <2> DEFINE n == Len(o)
  <2>1. n \in Nat /\ n >= 1
    BY AppendParts
  <2> HIDE DEF n
  <2>2. n > 1 \/ n = 1
    BY <2>1
  <2> QED
    BY <2>2 DEF n
<1>1. /\ o \in Seq(Event) /\ o # <<>> /\ e \in Event /\ Len(o) \in Nat
      /\ Len(o) >= 1
      /\ c \in SaveFirst => Len(o) = 1
      /\ Len(o) = 1 => Tail(o) = <<>>
      /\ Len(o) > 1 => Tail(o) # <<>>
      /\ stream \in Seq(Event)
  BY AppendParts DEF Typed
<1>2. /\ pc[c] = "appending" /\ Live(c) /\ state' = state
      /\ stream' = IF ragged THEN stream ELSE Append(stream, e)
      /\ StepOf(c)
  BY DEF AppendEvent, Live, StepOf, Call
<1>3. e.type # "world.tick.completed" => is = was
  BY <1>1, <1>2, ReplayTick
<1>4. PacedBy(c) /\ was \in {state.tick, state.tick + 1}
  BY DEF Paced
<1>5. CASE c \notin Ticks
  <2>1. ToSet(o) = {e} \cup ToSet(Tail(o))
    BY <1>1, ToSetHeadTail
  <2>2. Unending(o) /\ mem[c].tick = state.tick
    BY <1>2, <1>4, <1>5 DEF PacedBy
  <2>3. e.type # "world.tick.completed" /\ Unending(Tail(o))
    BY <2>1, <2>2 DEF Unending
  <2>4. PacedBy(c)'
    <3>1. CASE Len(o) = 1 /\ c \in SaveFirst
      <4>1. Finish(c, "done")
        BY <3>1 DEF AppendEvent
      <4>2. ~Live(c)'
        BY <4>1, FinishKept
      <4> QED
        BY <4>2 DEF PacedBy
    <3>2. CASE ~(Len(o) = 1 /\ c \in SaveFirst)
      <4>1. mem'[c] = mem[c] /\ out'[c] = Tail(o)
        BY <3>2 DEF AppendEvent, Typed
      <4> QED
        BY <1>2, <1>5, <2>2, <2>3, <4>1 DEF PacedBy
    <3> QED
      BY <3>1, <3>2
  <2>5. is = was
    BY <1>3, <2>3
  <2>6. \A d \in Calls : PacedBy(d)'
    BY <1>2, <2>4, PacedSolo
  <2> QED
    BY <1>2, <1>4, <2>5, <2>6 DEF Paced
<1>6. CASE c \in Ticks
  <2>1. c \notin SaveFirst
    BY <1>6, CallsAssumption DEF SaveFirst
  <2>2. /\ mem'[c] = mem[c] /\ out'[c] = Tail(o)
    BY <2>1 DEF AppendEvent, Typed
  <2>3. Ends(o, mem[c].tick) /\ mem[c].tick = state.tick + 1
    BY <1>1, <1>2, <1>4, <1>6 DEF PacedBy
  <2>4. CASE Len(o) > 1
    <3>1. Ends(Tail(o), mem[c].tick) /\ e.type # "world.tick.completed"
      BY <1>1, <2>3, <2>4, TailEnds
    <3>2. is = was /\ out'[c] # <<>>
      BY <1>1, <1>3, <2>2, <2>4, <3>1
    <3>3. PacedBy(c)'
      BY <1>2, <1>6, <2>2, <2>3, <3>1, <3>2 DEF PacedBy
    <3>4. \A d \in Calls : PacedBy(d)'
      BY <1>2, <3>3, PacedSolo
    <3> QED
      BY <1>2, <1>4, <3>2, <3>4 DEF Paced
  <2>5. CASE Len(o) = 1
    <3>1. e.type = "world.tick.completed" /\ e.arg = mem[c].tick
      BY <1>1, <2>3, <2>5 DEF Ends
    <3>2. ~ragged
      BY <1>2, <2>1, <3>1 DEF Spine, SpineTypes
    <3>3. is = mem[c].tick
      BY <1>1, <1>2, <3>1, <3>2, ReplayTick
    <3>4. out'[c] = <<>>
      BY <1>1, <2>2, <2>5
    <3>5. PacedBy(c)'
      BY <1>2, <1>6, <2>2, <2>3, <3>3, <3>4 DEF PacedBy
    <3>6. \A d \in Calls : PacedBy(d)'
      BY <1>2, <3>5, PacedSolo
    <3> QED
      BY <1>2, <2>3, <3>3, <3>6 DEF Paced
  <2> QED
    BY <1>0, <2>4, <2>5
<1> QED
  BY <1>5, <1>6

(* ... and at every other step of a call that is alone.                    *)
LEMMA PacedNext ==
  ASSUME Typed, Phased, Spine, Solo, Solo', Kept, Paced, NoOverwrite',
         [Next]_vars
  PROVE  Paced'
<1>1. CASE UNCHANGED vars
  BY <1>1 DEF vars, Paced, PacedBy, Live
<1>2. ASSUME NEW c \in Calls, Load(c) PROVE Paced'
  <2>1. /\ Plan(c, state) /\ StepOf(c) /\ state \in World
        /\ UNCHANGED <<state, tmp, stream, ragged, mishaps>>
    BY <1>2 DEF Load, StepOf, Call, Typed
  <2>2. pc'[c] \in {"writing", "appending"}
    BY <2>1 DEF Plan, Goto, Typed
  <2>3. c \notin Replays \cup Resets
    BY <2>2 DEF NoOverwrite
  <2> QED
    BY <2>1, <2>3, PlannedPaced
<1>3. ASSUME NEW c \in Calls, LoadForScan(c) PROVE Paced'
  <2>1. /\ mem'[c] = state /\ pc'[c] = "scanning" /\ pc[c] = "idle"
        /\ out[c] = <<>> /\ c \in Scans
        /\ UNCHANGED <<state, tmp, stream, ragged, out, mishaps>>
        /\ StepOf(c)
    BY <1>3 DEF LoadForScan, Goto, Typed, StepOf, Call, Live, Phased, Phase
  <2>2. c \notin Ticks /\ Live(c)' /\ Unending(out'[c])
    BY <2>1, CallsAssumption DEF Live, Unending, ToSet
  <2>3. PacedBy(c)'
    BY <2>1, <2>2 DEF PacedBy
  <2>4. \A d \in Calls : PacedBy(d)'
    BY <2>1, <2>2, <2>3, PacedSolo
  <2> QED
    BY <2>1, <2>4 DEF Paced
<1>4. ASSUME NEW c \in Calls, Scan(c) PROVE Paced'
  <2>1. /\ pc[c] = "scanning" /\ mem[c] \in World /\ Plan(c, mem[c])
        /\ UNCHANGED <<state, tmp, stream, ragged, mishaps>> /\ c \in Scans
        /\ StepOf(c)
    BY <1>4 DEF Scan, Typed, Phased, Phase, StepOf, Call
  <2>2. c \notin Replays \cup Resets /\ mem[c] = state
    BY <2>1, CallsAssumption DEF Kept, KeptBy
  <2>3. mem[c].tick = state.tick
    BY <2>2
  <2> QED
    BY <2>1, <2>2, <2>3, PlannedPaced
<1>5. ASSUME NEW c \in Calls, AppendEvent(c) PROVE Paced'
  BY <1>5, AppendPaced
<1>6. ASSUME NEW c \in Calls, WriteTmp(c) PROVE Paced'
  <2>1. /\ pc[c] = "writing" /\ pc'[c] = "replacing"
        /\ UNCHANGED <<state, stream, ragged, mem, out, mishaps>>
        /\ StepOf(c) /\ Live(c) /\ Live(c)'
    BY <1>6 DEF WriteTmp, Goto, Typed, Live, StepOf, Call
  <2>2. PacedBy(c)'
    BY <2>1 DEF PacedBy, Paced
  <2>3. \A d \in Calls : PacedBy(d)'
    BY <2>1, <2>2, PacedSolo
  <2> QED
    BY <2>1, <2>3 DEF Paced
<1>7. ASSUME NEW c \in Calls, Replace(c) PROVE Paced'
  <2>1. /\ state' = tmp /\ UNCHANGED <<stream, ragged, mishaps>>
        /\ pc[c] = "replacing" /\ Live(c) /\ StepOf(c)
    BY <1>7 DEF Replace, Live, StepOf, Call
  <2>2. state' = mem[c] /\ PacedBy(c)
    BY <2>1 DEF Kept, KeptBy, Paced
  <2>3. c \in Ticks => out[c] = <<>>
    BY <2>1, CallsAssumption DEF Phased, Phase, SaveFirst
  <2>4. PacedBy(c)'
    <3>1. CASE out[c] = <<>>
      <4>1. Finish(c, "done")
        BY <1>7, <3>1 DEF Replace
      <4>2. ~Live(c)'
        BY <4>1, FinishKept
      <4> QED
        BY <4>2 DEF PacedBy
    <3>2. CASE out[c] # <<>>
      <4>1. UNCHANGED <<mem, out>> /\ c \notin Ticks
        BY <1>7, <2>3, <3>2 DEF Replace
      <4> QED
        BY <2>1, <2>2, <4>1 DEF PacedBy
    <3> QED
      BY <3>1, <3>2
  <2>5. ReplayOf(stream).tick \in {state'.tick, state'.tick + 1}
    <3>1. CASE c \in Ticks
      BY <2>1, <2>2, <2>3, <3>1 DEF PacedBy
    <3>2. CASE c \notin Ticks
      BY <2>1, <2>2, <3>2 DEF PacedBy, Paced
    <3> QED
      BY <3>1, <3>2
  <2>6. \A d \in Calls : PacedBy(d)'
    BY <2>1, <2>4, PacedSolo
  <2> QED
    BY <2>1, <2>5, <2>6 DEF Paced
<1>8. ASSUME NEW c \in Calls,
             ReplaceRaises(c) \/ Kill(c) \/ KillMidAppend(c)
      PROVE  Paced'
  <2>1. PICK label \in {"error", "dead"} : Finish(c, label)
    BY <1>8 DEF ReplaceRaises, Kill, KillMidAppend
  <2>2. Live(c) /\ UNCHANGED <<state, stream>> /\ StepOf(c)
    BY <1>8 DEF ReplaceRaises, Kill, KillMidAppend, Live, StepOf, Call
  <2>3. ~Live(c)'
    BY <2>1, FinishKept
  <2>4. PacedBy(c)'
    BY <2>3 DEF PacedBy
  <2>5. \A d \in Calls : PacedBy(d)'
    BY <2>2, <2>4, PacedSolo
  <2> QED
    BY <2>2, <2>5 DEF Paced
<1> QED
  BY <1>1, <1>2, <1>3, <1>4, <1>5, <1>6, <1>7, <1>8 DEF Next, Call

(* The stream replays to the state file: in full as long as no call was    *)
(* killed, and as far as it goes after that.                               *)
LEMMA AgreesEnough ==
  ASSUME Typed, Spine, Once, Kept, Balanced, Paced
  PROVE  ReplayAgrees
<1> DEFINE r == ReplayOf(stream)
<1> SUFFICES ASSUME Quiet
             PROVE  /\ mishaps = 0 =>
                         [r EXCEPT !.fired = state.fired,
                                   !.android = state.android] = state
                    /\ ToSet(state.processed) \subseteq ToSet(r.processed)
                    /\ r.tick \in {state.tick, state.tick + 1}
                    /\ Ids(r.queued) \subseteq Ids(state.queued)
  BY DEF ReplayAgrees, Replayed, ReplayOf
<1>1. stream \in Seq(Event) /\ state \in World /\ r \in World
  BY ReplayTyped DEF Typed
<1>2. mishaps = 0 => [r EXCEPT !.fired = state.fired,
                               !.android = state.android] = state
  <2>1. mishaps = 0 => Agrees(state, r)
    BY DEF Balanced, Account
  <2> HIDE DEF r
  <2> QED
    BY <1>1, <2>1 DEF Agrees, World
<1>3. ToSet(state.processed) \subseteq ToSet(r.processed)
  <2>1. ActsAhead(Torn, ToSet(stream), state)
    BY DEF Spine, Ahead
  <2>2. \A e \in ToSet(stream) :
          e.type \in Answers => e.action.id \in ToSet(r.processed)
    BY <1>1, ReplayHas
  <2> HIDE DEF r
  <2> QED
    BY <2>1, <2>2 DEF ActsAhead
<1>4. r.tick \in {state.tick, state.tick + 1}
  BY DEF Paced
<1>5. Ids(r.queued) \subseteq Ids(state.queued)
  <2>1. Distinct(r) /\ Known(r) \subseteq AboutIds(ToSet(stream))
    BY <1>1, ReplayNeat DEF Once
  <2>2. AboutIds(ToSet(stream)) \subseteq Known(state)
    BY DEF Kept
  <2> HIDE DEF r
  <2> QED
    BY <1>3, <2>1, <2>2 DEF Distinct, Known
<1> QED
  BY <1>2, <1>3, <1>4, <1>5

-----------------------------------------------------------------------------
(* As long as one call is under way at a time and none replaces the world  *)
(* as a whole.                                                             *)

(* The account stays settled, if calls do not overlap and nothing is       *)
(* replayed or reset.                                                      *)
LEMMA BalancedAlways ==
  ASSUME ~Overlap, Replays \cup Resets = {}
  PROVE  Spec => []Balanced
<1>1. Typed /\ Phased /\ Solo /\ Solo' /\ Once /\ Kept /\ Balanced
        /\ [Next]_vars => Balanced'
  <2> SUFFICES ASSUME Typed, Phased, Solo, Solo', Once, Kept, Balanced,
                      [Next]_vars
               PROVE  Balanced'
    OBVIOUS
  <2>1. NoOverwrite'
    BY DEF NoOverwrite
  <2> QED
    BY <2>1, BalancedNext
<1> QED
  BY <1>1, BalancedInit, OnceAlways, KeptAlways, TypedAlways, SoloAlways, PTL
     DEF Spec

(* The ticks keep pace, under the same conditions.                         *)
LEMMA PacedAlways ==
  ASSUME ~Overlap, Replays \cup Resets = {}
  PROVE  Spec => []Paced
<1>1. Typed /\ Phased /\ Spine /\ Solo /\ Solo' /\ Kept /\ Paced
        /\ [Next]_vars => Paced'
  <2> SUFFICES ASSUME Typed, Phased, Spine, Solo, Solo', Kept, Paced,
                      [Next]_vars
               PROVE  Paced'
    OBVIOUS
  <2>1. NoOverwrite'
    BY DEF NoOverwrite
  <2> QED
    BY <2>1, PacedNext
<1>2. Spec => []Spine
  BY SpineAlways
<1> QED
  BY <1>1, <1>2, PacedInit, KeptAlways, TypedAlways, SoloAlways, PTL DEF Spec

(* A consequence fires exactly once for each event that calls for it,      *)
(* whether a tick or a scan comes across it, as long as one call is under  *)
(* way at a time and no call was killed.                                   *)
THEOREM ConsequencesOnce ==
  ASSUME ~Overlap, Replays \cup Resets = {}
  PROVE  Spec => []ConsequenceOnce
<1>1. Spec => []Spine
  BY SpineAlways
<1> QED
  BY <1>1, BalancedAlways, BalancedEnough, TypedAlways, PTL

(* The stream is replayable: to the tick, queue and entities of the state  *)
(* file when no call was killed, and after kills to at least what the      *)
(* state file knows, to no more in the queue, and to at most one tick more.*)
THEOREM ReplaysAgree ==
  ASSUME ~Overlap, Replays \cup Resets = {}
  PROVE  Spec => []ReplayAgrees
<1>1. Spec => []Spine
  BY SpineAlways
<1> QED
  BY <1>1, BalancedAlways, PacedAlways, OnceAlways, KeptAlways, AgreesEnough,
     TypedAlways, PTL

-----------------------------------------------------------------------------
(* The modes of OperationalWorldMC.                                        *)
Modes ==
  /\ Typed /\ Phased /\ Spine
  /\ serial => Solo /\ NoOverwrite /\ Once /\ Kept /\ Balanced /\ Paced
  /\ ~serial => mishaps = 0

(* What each mode of the run keeps holds at the start,                     *)
LEMMA ModesInit == MCInit => Modes
<1>1. Init => mishaps = 0 /\ NoOverwrite
  BY DEF Init, NoOverwrite, Calls
<1> QED
  BY <1>1, TypedInit, SpineInit, SoloInit, OnceInit, KeptInit, BalancedInit,
     PacedInit DEF MCInit, Modes

(* ... is kept by every step,                                              *)
LEMMA ModesNext ==
  ASSUME Modes, [MCNext]_<<vars, serial>>
  PROVE  Modes'
<1>1. CASE UNCHANGED <<vars, serial>>
  <2>1. [Next]_vars /\ serial' = serial /\ mishaps' = mishaps /\ UNCHANGED vars
    BY <1>1 DEF vars
  <2>2. Typed' /\ Phased' /\ Spine'
    BY <2>1, TypedNext, SpineNext DEF Modes
  <2>3. Solo => Solo'
    BY <2>1 DEF Solo, vars, Live
  <2>4. NoOverwrite => NoOverwrite'
    BY <2>1 DEF NoOverwrite, vars
  <2>5. serial => Once' /\ Kept' /\ Balanced' /\ Paced'
    BY <2>1, <2>3, <2>4, OnceNext, KeptNext, BalancedNext, PacedNext DEF Modes
  <2> QED
    BY <2>1, <2>2, <2>3, <2>4, <2>5 DEF Modes
<1>2. CASE MCNext
  <2>1. [Next]_vars /\ serial' = serial
    BY <1>2 DEF MCNext
  <2>2. serial => Solo'
    BY <1>2 DEF MCNext
  <2>3. serial => NoOverwrite'
    BY <1>2 DEF MCNext, Started, NoOverwrite
  <2>4. ~serial => mishaps' = 0
    BY <1>2 DEF MCNext
  <2>5. Typed' /\ Phased'
    BY <2>1, TypedNext DEF Modes
  <2>6. Spine'
    BY <2>1, <2>4, SpineNext DEF Modes
  <2>7. serial => Once' /\ Kept' /\ Balanced' /\ Paced'
    BY <2>1, <2>2, <2>3, OnceNext, KeptNext, BalancedNext, PacedNext DEF Modes
  <2> QED
    BY <2>1, <2>2, <2>3, <2>4, <2>5, <2>6, <2>7 DEF Modes
<1> QED
  BY <1>1, <1>2

(* ... and holds in every state.                                           *)
LEMMA ModesAlways == MCSpec => []Modes
BY ModesInit, ModesNext, PTL DEF MCSpec

(* Types, in both modes of OperationalWorldMC.                             *)
THEOREM MCTypes == MCSpec => []TypeOK
BY ModesAlways, TypedEnough, PTL DEF Modes

(* The stream is ahead of the state file in both modes, and of the         *)
(* consequences that it remembers when no call is killed.                  *)
THEOREM MCSpine == MCSpec => []SpineAhead
<1>1. Modes => SpineAhead
  <2> SUFFICES ASSUME Modes PROVE SpineAhead
    OBVIOUS
  <2>1. StreamAhead
    BY SpineEnough DEF Modes
  <2>2. ~serial => ConsequenceAhead
    <3>1. ~(0 > 0)
      OBVIOUS
    <3> QED
      BY <3>1
      DEF Modes, Spine, Torn, Ahead, ActsAhead, ConsequenceAhead, Events
  <2> QED
    BY <2>1, <2>2 DEF SpineAhead
<1> QED
  BY <1>1, ModesAlways, PTL

(* In the serial mode an action is processed once, although calls are      *)
(* killed and lines cut short.                                             *)
THEOREM MCOnce == MCSpec => []SerialProcessedOnce
<1>1. Modes => SerialProcessedOnce
  BY OnceEnough DEF Modes, SerialProcessedOnce
<1> QED
  BY <1>1, ModesAlways, PTL

(* In the serial mode no action is lost whose submission has succeeded.    *)
THEOREM MCKept == MCSpec => []SerialNoActionLost
<1>1. Modes => SerialNoActionLost
  BY KeptEnough DEF Modes, SerialNoActionLost
<1> QED
  BY <1>1, ModesAlways, PTL

(* In the serial mode the stream replays to the state file.                *)
THEOREM MCReplay == MCSpec => []SerialReplayAgrees
<1>1. Modes => SerialReplayAgrees
  BY AgreesEnough DEF Modes, SerialReplayAgrees
<1> QED
  BY <1>1, ModesAlways, PTL

(* In the serial mode a consequence fires once for each event that calls   *)
(* for it.                                                                 *)
THEOREM MCConsequence == MCSpec => []SerialConsequenceOnce
<1>1. Modes => SerialConsequenceOnce
  BY BalancedEnough DEF Modes, SerialConsequenceOnce
<1> QED
  BY <1>1, ModesAlways, PTL
=============================================================================
