-------------------------- MODULE EyesInboxProofs ---------------------------
(***************************************************************************)
(* Proofs about EyesInbox, for any names, contents, scans and mishaps.     *)
(***************************************************************************)
EXTENDS EyesInboxMC, FiniteSetTheorems, TLAPS

BusyPCs == TryPCs \cup {"failing"}

(* What the types need of the control state.                               *)
InboxControl ==
  \A p \in Scans :
    /\ pc[p] \in BusyPCs => cur[p] \in Names
    /\ pc[p] \in {"moving", "manifesting", "queueing"} => sha[p] \in Hashes

Typed == TypeOK /\ InboxControl

(* No file bears the id yet.                                               *)
Unused(id) ==
  stored[id] = NoFile /\ manifests[id] = NoFile /\ items[id] = NoFile

(* The ids of scan p: those it may still give are unused, and the files of *)
(* the one in hand are written in order.                                   *)
IdsOf(p) ==
  /\ pc[p] \in {"idle", "listing"} => \A n \in Names : Unused(<<p, n>>)
  /\ pc[p] \in BusyPCs \cup {"next"} => \A n \in todo[p] : Unused(<<p, n>>)
  /\ pc[p] \in BusyPCs => cur[p] \notin todo[p]
  /\ pc[p] \in {"hashing", "discarding", "building", "moving"} =>
       Unused(Id(p))
  /\ pc[p] = "manifesting" => manifests[Id(p)] = NoFile
  /\ pc[p] = "queueing" => manifests[Id(p)] \in Hashes
  /\ pc[p] \in {"manifesting", "queueing"} =>
       /\ items[Id(p)] = NoFile
       /\ p \in NoMove \/ stored[Id(p)] # NoFile

Ingest ==
  /\ \A p \in Scans : IdsOf(p)
  /\ \A id \in Ids : stored[id] # NoFile => place[stored[id]] = "processed"
  /\ IngestedOnce
  /\ ItemHasManifest


(* The types, and what a program counter says of cur and sha, hold at the  *)
(* start.                                                                  *)
LEMMA TypedInit == Init => Typed
  BY DEF Init, Typed, TypeOK, InboxControl, PCs, TryPCs, BusyPCs

(* A scan that is cut short leaves at most the file it was writing torn.   *)
LEMMA HalfWrites ==
  ASSUME Typed, NEW p \in Scans, HalfWritten(p)
  PROVE  /\ manifests' \in [Ids -> Hashes \cup {NoFile, Torn}]
         /\ items' \in [Ids -> {"pending", NoFile, Torn}]
         /\ failures' = failures
         /\ \A id \in Ids :
              /\ \/ manifests'[id] = manifests[id]
                 \/ /\ pc[p] = "manifesting" /\ id = Id(p)
                    /\ manifests'[id] = Torn
              /\ \/ items'[id] = items[id]
                 \/ /\ pc[p] = "queueing" /\ id = Id(p)
                    /\ items'[id] = Torn
  <1>1. \/ manifests' = manifests
        \/ /\ pc[p] = "manifesting"
           /\ manifests' = [manifests EXCEPT ![Id(p)] = Torn]
    BY DEF HalfWritten
  <1>2. \/ items' = items
        \/ pc[p] = "queueing" /\ items' = [items EXCEPT ![Id(p)] = Torn]
    BY DEF HalfWritten
  <1>3. failures' = failures
    BY DEF HalfWritten
  <1> QED
    BY <1>1, <1>2, <1>3 DEF Typed, TypeOK

(* Every step of a scan, of a drop and every mishap keeps the types.       *)
LEMMA TypedStep == Typed /\ [Next]_vars => Typed'
  <1> SUFFICES ASSUME Typed, [Next]_vars PROVE Typed'
    OBVIOUS
  <1> USE InboxAssumption
      DEF Typed, TypeOK, InboxControl, PCs, TryPCs, BusyPCs, Goto, files,
          records, local
  <1>1. ASSUME NEW p \in Scans, Start(p) PROVE Typed'
    BY <1>1 DEF Start, ExistingHashes
  <1>2. ASSUME NEW p \in Scans, List(p) PROVE Typed'
    BY <1>2 DEF List
  <1>3. ASSUME NEW p \in Scans, Take(p) PROVE Typed'
    BY <1>3 DEF Take
  <1>4. ASSUME NEW p \in Scans, End(p) PROVE Typed'
    BY <1>4 DEF End
  <1>5. ASSUME NEW p \in Scans, Hash(p) PROVE Typed'
    BY <1>5 DEF Hash
  <1>6. ASSUME NEW p \in Scans, Discard(p) PROVE Typed'
    BY <1>6 DEF Discard
  <1>7. ASSUME NEW p \in Scans, Build(p) PROVE Typed'
    <2>1. PICK f \in At(cur[p]) : sha' = [sha EXCEPT ![p] = Sha256(f)]
      BY <1>7 DEF Build
    <2>2. Sha256(f) \in Hashes
      BY <2>1 DEF Sha256, At, Files, Hashes
    <2> QED
      BY <1>7, <2>1, <2>2 DEF Build
  <1>8. ASSUME NEW p \in Scans, Move(p) PROVE Typed'
    <2>1. PICK f \in Files :
            /\ place' = [place EXCEPT ![f] = "processed"]
            /\ stored' = [stored EXCEPT ![Id(p)] = f]
      BY <1>8 DEF Move, At
    <2> QED
      BY <1>8, <2>1 DEF Move
  <1>9. ASSUME NEW p \in Scans, Gone(p) PROVE Typed'
    BY <1>9 DEF Gone
  <1>10. ASSUME NEW p \in Scans, WriteManifest(p) PROVE Typed'
    BY <1>10 DEF WriteManifest
  <1>11. ASSUME NEW p \in Scans, WriteItem(p) PROVE Typed'
    BY <1>11 DEF WriteItem, Learn
  <1>12. ASSUME NEW p \in Scans, RecordFailure(p) PROVE Typed'
    BY <1>12 DEF RecordFailure
  <1>13. ASSUME NEW p \in Scans, Raise(p) PROVE Typed'
    <2>1. /\ manifests' \in [Ids -> Hashes \cup {NoFile, Torn}]
          /\ items' \in [Ids -> {"pending", NoFile, Torn}]
          /\ failures' = failures
      BY <1>13, HalfWrites DEF Raise
    <2>2. \E l \in {"dead", "failing"} :
            /\ pc' = [pc EXCEPT ![p] = l]
            /\ l = "failing" => pc[p] \in BusyPCs
      BY <1>13 DEF Raise
    <2>3. UNCHANGED <<files, local>> /\ mishaps' \in Nat
      BY <1>13 DEF Raise, Mishap
    <2> QED
      BY <2>1, <2>2, <2>3
  <1>14. ASSUME NEW p \in Scans, Kill(p) PROVE Typed'
    <2>1. /\ manifests' \in [Ids -> Hashes \cup {NoFile, Torn}]
          /\ items' \in [Ids -> {"pending", NoFile, Torn}]
          /\ failures' = failures
      BY <1>14, HalfWrites DEF Kill
    <2>2. \E l \in {"dead", "failing"} :
            /\ pc' = [pc EXCEPT ![p] = l]
            /\ l = "failing" => pc[p] \in BusyPCs
      BY <1>14 DEF Kill
    <2>3. UNCHANGED <<files, local>> /\ mishaps' \in Nat
      BY <1>14 DEF Kill, Mishap
    <2> QED
      BY <2>1, <2>2, <2>3
  <1>15. ASSUME NEW f \in Files, Drop(f) PROVE Typed'
    BY <1>15 DEF Drop
  <1>16. ASSUME NEW f \in Files, Fill(f) PROVE Typed'
    BY <1>16 DEF Fill
  <1>17. CASE UNCHANGED vars
    BY <1>17 DEF vars
  <1> QED
    BY <1>1, <1>2, <1>3, <1>4, <1>5, <1>6, <1>7, <1>8, <1>9, <1>10, <1>11,
       <1>12,
       <1>13, <1>14, <1>15, <1>16, <1>17
    DEF Next, Scan

(* Type correctness, however scans overlap and are cut short.              *)
THEOREM InboxTyped == Spec => []TypeOK
  <1>1. Typed => TypeOK
    BY DEF Typed
  <1> QED
    BY TypedInit, TypedStep, <1>1, PTL DEF Spec

-----------------------------------------------------------------------------
(* A step of scan p touches no other scan and no other scan's ids.         *)
Own(p) ==
  /\ \A q \in Scans \ {p} :
       pc'[q] = pc[q] /\ todo'[q] = todo[q] /\ cur'[q] = cur[q]
  /\ \A q \in Scans \ {p}, n \in Names :
       /\ stored'[<<q, n>>] = stored[<<q, n>>]
       /\ manifests'[<<q, n>>] = manifests[<<q, n>>]
       /\ items'[<<q, n>>] = items[<<q, n>>]

(* So the other scans' ids are as they were.                               *)
LEMMA OtherIds ==
  ASSUME Typed, NEW p \in Scans, Own(p), NEW q \in Scans \ {p}, IdsOf(q)
  PROVE  IdsOf(q)'
  BY DEF Own, IdsOf, Unused, Id, Typed, TypeOK, InboxControl, BusyPCs, TryPCs

(* What is stored is neither in the inbox nor elsewhere, and was stored    *)
(* once.                                                                   *)
StoredOnce ==
  /\ \A id \in Ids : stored[id] # NoFile => place[stored[id]] = "processed"
  /\ IngestedOnce

(* A step that stores nothing and moves nothing out of processed/.         *)
LEMMA StoredKept ==
  ASSUME StoredOnce, UNCHANGED stored, Typed,
         \A f \in Files : place[f] = "processed" => place'[f] = "processed"
  PROVE  StoredOnce'
  BY DEF StoredOnce, IngestedOnce, Typed, TypeOK

(* At the start no id has been given.                                      *)
LEMMA IngestInit == Init => Ingest
  BY DEF Init, Ingest, IdsOf, Unused, Ids, IngestedOnce, ItemHasManifest,
         BusyPCs, TryPCs

(* Every step keeps Ingest.                                                *)
LEMMA IngestStep == Typed /\ Ingest /\ [Next]_vars => Ingest'
  <1> SUFFICES ASSUME Typed, Ingest, [Next]_vars PROVE Ingest'
    OBVIOUS
  <1> USE InboxAssumption, InboxMarkerAssumption
      DEF Typed, TypeOK, InboxControl, PCs, TryPCs, BusyPCs, Goto, files,
          records, local
  <1>1. ASSUME NEW p \in Scans, Start(p) PROVE Ingest'
    <2>1. Own(p)
      BY <1>1 DEF Start, Own, Id, Ids
    <2>2. IdsOf(p)'
      BY <1>1 DEF Start, Ingest, IdsOf, Unused, Id, Ids
    <2>3. StoredOnce'
      BY <1>1, StoredKept DEF Start, Ingest, StoredOnce, At
    <2>4. ItemHasManifest'
      BY <1>1 DEF Start, Ingest, IdsOf, Unused, ItemHasManifest, Id, Ids
    <2> QED
      BY <2>1, <2>2, <2>3, <2>4, OtherIds DEF Ingest, StoredOnce
  <1>2. ASSUME NEW p \in Scans, List(p) PROVE Ingest'
    <2>1. Own(p)
      BY <1>2 DEF List, Own, Id, Ids
    <2>2. IdsOf(p)'
      <3>1. /\ pc[p] = "listing" /\ pc'[p] = "next" /\ todo'[p] \subseteq Names
            /\ UNCHANGED <<stored, manifests, items>>
        BY <1>2 DEF List
      <3>2. \A n \in Names : Unused(<<p, n>>)
        BY <3>1 DEF Ingest, IdsOf
      <3> QED
        BY <3>1, <3>2 DEF IdsOf, Unused
    <2>3. StoredOnce'
      BY <1>2, StoredKept DEF List, Ingest, StoredOnce, At
    <2>4. ItemHasManifest'
      BY <1>2 DEF List, Ingest, IdsOf, Unused, ItemHasManifest, Id, Ids
    <2> QED
      BY <2>1, <2>2, <2>3, <2>4, OtherIds DEF Ingest, StoredOnce
  <1>3. ASSUME NEW p \in Scans, Take(p) PROVE Ingest'
    <2>1. Own(p)
      BY <1>3 DEF Take, Own, Id, Ids
    <2>2. IdsOf(p)'
      <3>1. PICK n \in todo[p] :
              /\ todo' = [todo EXCEPT ![p] = @ \ {n}]
              /\ \/ UNCHANGED <<pc, cur>>
                 \/ cur' = [cur EXCEPT ![p] = n] /\ Goto(p, "hashing")
        BY <1>3 DEF Take
      <3>4. pc[p] = "next" /\ UNCHANGED <<stored, manifests, items>>
        BY <1>3 DEF Take
      <3>5. todo'[p] = todo[p] \ {n}
        BY <3>1
      <3>6. pc'[p] = "next" \/ (pc'[p] = "hashing" /\ cur'[p] = n)
        BY <3>1, <3>4
      <3>2. /\ pc[p] = "next" /\ todo'[p] = todo[p] \ {n}
            /\ pc'[p] = "next" \/ (pc'[p] = "hashing" /\ cur'[p] = n)
            /\ UNCHANGED <<stored, manifests, items>>
        BY <3>4, <3>5, <3>6
      <3>3. \A k \in todo[p] : Unused(<<p, k>>)
        BY <3>2 DEF Ingest, IdsOf
      <3> QED
        BY <3>2, <3>3 DEF IdsOf, Unused, Id
    <2>3. StoredOnce'
      BY <1>3, StoredKept DEF Take, Ingest, StoredOnce, At
    <2>4. ItemHasManifest'
      BY <1>3 DEF Take, Ingest, IdsOf, Unused, ItemHasManifest, Id, Ids
    <2> QED
      BY <2>1, <2>2, <2>3, <2>4, OtherIds DEF Ingest, StoredOnce
  <1>4. ASSUME NEW p \in Scans, End(p) PROVE Ingest'
    <2>1. Own(p)
      BY <1>4 DEF End, Own, Id, Ids
    <2>2. IdsOf(p)'
      BY <1>4 DEF End, Ingest, IdsOf, Unused, Id, Ids
    <2>3. StoredOnce'
      BY <1>4, StoredKept DEF End, Ingest, StoredOnce, At
    <2>4. ItemHasManifest'
      BY <1>4 DEF End, Ingest, IdsOf, Unused, ItemHasManifest, Id, Ids
    <2> QED
      BY <2>1, <2>2, <2>3, <2>4, OtherIds DEF Ingest, StoredOnce
  <1>5. ASSUME NEW p \in Scans, Hash(p) PROVE Ingest'
    <2>1. Own(p)
      BY <1>5 DEF Hash, Own, Id, Ids
    <2>2. IdsOf(p)'
      BY <1>5 DEF Hash, Ingest, IdsOf, Unused, Id, Ids
    <2>3. StoredOnce'
      BY <1>5, StoredKept DEF Hash, Ingest, StoredOnce, At
    <2>4. ItemHasManifest'
      BY <1>5 DEF Hash, Ingest, IdsOf, Unused, ItemHasManifest, Id, Ids
    <2> QED
      BY <2>1, <2>2, <2>3, <2>4, OtherIds DEF Ingest, StoredOnce
  <1>6. ASSUME NEW p \in Scans, Discard(p) PROVE Ingest'
    <2>1. Own(p)
      BY <1>6 DEF Discard, Own, Id, Ids
    <2>2. IdsOf(p)'
      <3>1. /\ pc[p] = "discarding" /\ pc'[p] = "next"
            /\ UNCHANGED <<stored, manifests, items, todo>>
        BY <1>6 DEF Discard
      <3>2. \A k \in todo[p] : Unused(<<p, k>>)
        BY <3>1 DEF Ingest, IdsOf
      <3> QED
        BY <3>1, <3>2 DEF IdsOf, Unused
    <2>3. StoredOnce'
      BY <1>6, StoredKept DEF Discard, Ingest, StoredOnce, At
    <2>4. ItemHasManifest'
      BY <1>6 DEF Discard, Ingest, IdsOf, Unused, ItemHasManifest, Id, Ids
    <2> QED
      BY <2>1, <2>2, <2>3, <2>4, OtherIds DEF Ingest, StoredOnce
  <1>7. ASSUME NEW p \in Scans, Build(p) PROVE Ingest'
    <2>1. Own(p)
      BY <1>7 DEF Build, Own, Id, Ids
    <2>2. IdsOf(p)'
      BY <1>7 DEF Build, Ingest, IdsOf, Unused, Id, Ids
    <2>3. StoredOnce'
      BY <1>7, StoredKept DEF Build, Ingest, StoredOnce, At
    <2>4. ItemHasManifest'
      BY <1>7 DEF Build, Ingest, IdsOf, Unused, ItemHasManifest, Id, Ids
    <2> QED
      BY <2>1, <2>2, <2>3, <2>4, OtherIds DEF Ingest, StoredOnce
  <1>8. ASSUME NEW p \in Scans, Move(p) PROVE Ingest'
    <2>1. Own(p)
      BY <1>8 DEF Move, Own, Id, Ids
    <2>2. IdsOf(p)'
      <3>1. PICK f \in Files : stored' = [stored EXCEPT ![Id(p)] = f]
        BY <1>8 DEF Move, At
      <3>2. /\ pc[p] = "moving" /\ pc'[p] = "manifesting"
            /\ UNCHANGED <<manifests, items, todo, cur>>
        BY <1>8 DEF Move
      <3>3. /\ Id(p)' = Id(p) /\ Id(p) \in Ids /\ Unused(Id(p))
            /\ cur[p] \notin todo[p]
            /\ \A k \in todo[p] : Unused(<<p, k>>)
        BY <3>2 DEF Ingest, IdsOf, Id, Ids
      <3>4. \A k \in todo[p] : <<p, k>> # Id(p) /\ <<p, k>> \in Ids
        BY <3>3 DEF Id, Ids
      <3>5. stored'[Id(p)] = f /\ f # NoFile
        BY <3>1, <3>3
      <3>6. \A k \in todo[p] : stored'[<<p, k>>] = stored[<<p, k>>]
        BY <3>1, <3>4
      <3> QED
        BY <3>2, <3>3, <3>5, <3>6 DEF IdsOf, Unused
    <2>3. StoredOnce'
      <3>1. PICK f \in Files :
              /\ place[f] = "inbox"
              /\ place' = [place EXCEPT ![f] = "processed"]
              /\ stored' = [stored EXCEPT ![Id(p)] = f]
        BY <1>8 DEF Move, At
      <3>2. \A id \in Ids : stored[id] # f
        BY <3>1 DEF Ingest
      <3>3. \A id \in Ids : stored'[id] = stored[id] \/ (id = Id(p) /\ stored'[id] = f)
        BY <3>1
      <3>4. \A id \in Ids : stored'[id] # NoFile => place'[stored'[id]] = "processed"
        BY <3>1, <3>3 DEF Ingest
      <3>5. IngestedOnce'
        BY <3>2, <3>3 DEF Ingest, IngestedOnce
      <3> QED
        BY <3>4, <3>5 DEF StoredOnce
    <2>4. ItemHasManifest'
      BY <1>8 DEF Move, Ingest, IdsOf, Unused, ItemHasManifest, Id, Ids
    <2> QED
      BY <2>1, <2>2, <2>3, <2>4, OtherIds DEF Ingest, StoredOnce
  <1>9. ASSUME NEW p \in Scans, Gone(p) PROVE Ingest'
    <2>1. Own(p)
      BY <1>9 DEF Gone, Own, Id, Ids
    <2>2. IdsOf(p)'
      <3>1. /\ pc[p] \in {"hashing", "discarding", "building", "moving"}
            /\ pc'[p] = "failing"
            /\ UNCHANGED <<stored, manifests, items, todo, cur>>
        BY <1>9 DEF Gone
      <3>2. cur[p] \notin todo[p] /\ \A k \in todo[p] : Unused(<<p, k>>)
        BY <3>1 DEF Ingest, IdsOf
      <3> QED
        BY <3>1, <3>2 DEF IdsOf, Unused
    <2>3. StoredOnce'
      BY <1>9, StoredKept DEF Gone, Ingest, StoredOnce, At
    <2>4. ItemHasManifest'
      BY <1>9 DEF Gone, Ingest, IdsOf, Unused, ItemHasManifest, Id, Ids
    <2> QED
      BY <2>1, <2>2, <2>3, <2>4, OtherIds DEF Ingest, StoredOnce
  <1>10. ASSUME NEW p \in Scans, WriteManifest(p) PROVE Ingest'
    <2>1. Own(p)
      BY <1>10 DEF WriteManifest, Own, Id, Ids
    <2>2. IdsOf(p)'
      BY <1>10 DEF WriteManifest, Ingest, IdsOf, Unused, Id, Ids
    <2>3. StoredOnce'
      BY <1>10, StoredKept DEF WriteManifest, Ingest, StoredOnce, At
    <2>4. ItemHasManifest'
      BY <1>10
      DEF WriteManifest, Ingest, IdsOf, Unused, ItemHasManifest, Id, Ids
    <2> QED
      BY <2>1, <2>2, <2>3, <2>4, OtherIds DEF Ingest, StoredOnce
  <1>11. ASSUME NEW p \in Scans, WriteItem(p) PROVE Ingest'
    <2>1. Own(p)
      BY <1>11 DEF WriteItem, Own, Id, Ids
    <2>2. IdsOf(p)'
      BY <1>11 DEF WriteItem, Ingest, IdsOf, Unused, Id, Ids
    <2>3. StoredOnce'
      BY <1>11, StoredKept DEF WriteItem, Ingest, StoredOnce, At
    <2>4. ItemHasManifest'
      BY <1>11 DEF WriteItem, Ingest, IdsOf, Unused, ItemHasManifest, Id, Ids
    <2> QED
      BY <2>1, <2>2, <2>3, <2>4, OtherIds DEF Ingest, StoredOnce
  <1>12. ASSUME NEW p \in Scans, RecordFailure(p) PROVE Ingest'
    <2>1. Own(p)
      BY <1>12 DEF RecordFailure, Own, Id, Ids
    <2>2. IdsOf(p)'
      <3>1. /\ pc[p] = "failing"
            /\ pc'[p] = "next"
            /\ UNCHANGED <<stored, manifests, items, todo, cur>>
        BY <1>12 DEF RecordFailure
      <3>2. cur[p] \notin todo[p] /\ \A k \in todo[p] : Unused(<<p, k>>)
        BY <3>1 DEF Ingest, IdsOf
      <3> QED
        BY <3>1, <3>2 DEF IdsOf, Unused
    <2>3. StoredOnce'
      BY <1>12, StoredKept DEF RecordFailure, Ingest, StoredOnce, At
    <2>4. ItemHasManifest'
      BY <1>12
      DEF RecordFailure, Ingest, IdsOf, Unused, ItemHasManifest, Id, Ids
    <2> QED
      BY <2>1, <2>2, <2>3, <2>4, OtherIds DEF Ingest, StoredOnce
  <1>13. ASSUME NEW p \in Scans, Raise(p) PROVE Ingest'
    <2>1. Own(p)
      BY <1>13, HalfWrites DEF Raise, Own, Id, Ids
    <2>2. IdsOf(p)'
      <3>1. /\ pc'[p] \in {"dead", "failing"}
            /\ pc'[p] = "failing" => pc[p] \in BusyPCs
            /\ UNCHANGED <<stored, todo, cur>>
        BY <1>13 DEF Raise
      <3>2. \A k \in todo[p] :
              /\ manifests'[<<p, k>>] = manifests[<<p, k>>] \/ cur[p] = k
              /\ items'[<<p, k>>] = items[<<p, k>>] \/ cur[p] = k
        BY <1>13, HalfWrites DEF Raise, Id, Ids
      <3>3. pc'[p] = "failing" =>
              /\ \A k \in todo[p] : Unused(<<p, k>>)
              /\ cur[p] \notin todo[p]
        BY <3>1 DEF Ingest, IdsOf
      <3> QED
        BY <3>1, <3>2, <3>3 DEF IdsOf, Unused
    <2>3. StoredOnce'
      BY <1>13, HalfWrites, StoredKept DEF Raise, Ingest, StoredOnce, At
    <2>4. ItemHasManifest'
      BY <1>13, HalfWrites
      DEF Raise, Ingest, IdsOf, Unused, ItemHasManifest, Id, Ids
    <2> QED
      BY <2>1, <2>2, <2>3, <2>4, OtherIds DEF Ingest, StoredOnce
  <1>14. ASSUME NEW p \in Scans, Kill(p) PROVE Ingest'
    <2>1. Own(p)
      BY <1>14, HalfWrites DEF Kill, Own, Id, Ids
    <2>2. IdsOf(p)'
      BY <1>14, HalfWrites DEF Kill, Ingest, IdsOf, Unused, Id, Ids
    <2>3. StoredOnce'
      BY <1>14, HalfWrites, StoredKept DEF Kill, Ingest, StoredOnce, At
    <2>4. ItemHasManifest'
      BY <1>14, HalfWrites
      DEF Kill, Ingest, IdsOf, Unused, ItemHasManifest, Id, Ids
    <2> QED
      BY <2>1, <2>2, <2>3, <2>4, OtherIds DEF Ingest, StoredOnce
  <1>15. ASSUME NEW f \in Files, Drop(f) PROVE Ingest'
    <2>1. StoredOnce'
      BY <1>15, StoredKept DEF Drop, Ingest, StoredOnce
    <2> QED
      BY <1>15, <2>1
      DEF Drop, Ingest, IdsOf, Unused, Id, ItemHasManifest, StoredOnce
  <1>16. ASSUME NEW f \in Files, Fill(f) PROVE Ingest'
    <2>1. StoredOnce'
      BY <1>16, StoredKept DEF Fill, Ingest, StoredOnce
    <2> QED
      BY <1>16, <2>1
      DEF Fill, Ingest, IdsOf, Unused, Id, ItemHasManifest, StoredOnce
  <1>17. CASE UNCHANGED vars
    BY <1>17 DEF vars, Ingest, IdsOf, Unused, Id, IngestedOnce, ItemHasManifest
  <1> QED
    BY <1>1, <1>2, <1>3, <1>4, <1>5, <1>6, <1>7, <1>8, <1>9, <1>10, <1>11,
       <1>12,
       <1>13, <1>14, <1>15, <1>16, <1>17
    DEF Next, Scan

(* Typed and Ingest hold throughout.                                       *)
LEMMA IngestAlways == Spec => [](Typed /\ Ingest)
  BY TypedInit, TypedStep, IngestInit, IngestStep, PTL DEF Spec

(* Whatever overlaps, a file is taken into processed/ once.                *)
THEOREM FilesIngestedOnce == Spec => []IngestedOnce
  <1>1. Ingest => IngestedOnce
    BY DEF Ingest
  <1> QED
    BY IngestAlways, <1>1, PTL

(* ... and a queue item is not seen before its manifest and its file.      *)
THEOREM ItemsHaveManifest == Spec => []ItemHasManifest
  <1>1. Ingest => ItemHasManifest
    BY DEF Ingest
  <1> QED
    BY IngestAlways, <1>1, PTL

-----------------------------------------------------------------------------
(* What holds of Orderly steps: scans take turns and move what they take,  *)
(* and a file is complete when it shows.                                   *)
Processed(content) ==
  \E f \in Files : f[2] = content /\ place[f] = "processed"
Manifested(content) == \E id \in Ids : manifests[id] = content
Queued(content) ==
  \E id \in Ids : items[id] = "pending" /\ manifests[id] = content

FilesTidy ==
  /\ \A f \in Files : place[f] # "outside" => whole[f]
  /\ \A f, g \in Files :
       place[f] = "inbox" /\ place[g] = "inbox" /\ NameOf(f) = NameOf(g) =>
         f = g
  /\ \A f \in Files :
       place[f] \in {"duplicate", "overwritten"} => Processed(f[2])

RecordsTrue ==
  /\ \A id \in Ids : manifests[id] \in Hashes =>
       stored[id] \in Files /\ stored[id][2] = manifests[id]
  /\ \A i, j \in Ids :
       items[i] = "pending" /\ items[j] = "pending"
       /\ manifests[i] = manifests[j] => i = j

(* What a live scan knows of the contents that have a manifest or an item. *)
KnowsHashes(p) ==
  /\ \A hash \in known[p] : Manifested(hash)
  /\ \A id \in Ids : items[id] = "pending" => manifests[id] \in known[p]

(* ... and of the file in hand.                                            *)
KnowsFile(p) ==
  /\ pc[p] \in {"hashing", "discarding", "building", "moving"} =>
       At(cur[p]) # {}
  /\ pc[p] = "discarding" => \A f \in At(cur[p]) : f[2] \in known[p]
  /\ pc[p] = "building" => \A f \in At(cur[p]) : f[2] \notin known[p]
  /\ pc[p] = "moving" => \A f \in At(cur[p]) : f[2] = sha[p]
  /\ pc[p] \in {"moving", "manifesting", "queueing"} => sha[p] \notin known[p]
  /\ pc[p] \in {"manifesting", "queueing"} =>
       stored[Id(p)] \in Files /\ stored[Id(p)][2] = sha[p]
  /\ pc[p] = "queueing" => manifests[Id(p)] = sha[p]

(* Without a mishap nothing is left half done.                             *)
NoneFailed == \A p \in Scans : pc[p] \notin {"failing", "dead"}
ManifestsQueued ==
  \A id \in Ids : manifests[id] \in Hashes =>
    \/ items[id] = "pending"
    \/ \E p \in Scans : pc[p] = "queueing" /\ id = Id(p)
KnownQueued ==
  \A p \in Scans : Live(p) => \A hash \in known[p] : Queued(hash)
Gone4Good == {"processed", "duplicate", "overwritten"}
FilesQueued ==
  \A f \in Files : place[f] \in Gone4Good =>
    \/ Queued(f[2])
    \/ \E p \in Scans : pc[p] \in {"manifesting", "queueing"}
                        /\ stored[Id(p)] = f
NoneLost ==
  mishaps = 0 => NoneFailed /\ ManifestsQueued /\ KnownQueued /\ FilesQueued

InTurn ==
  /\ Orderly /\ FilesTidy /\ RecordsTrue /\ NoneLost
  /\ \A p \in Scans : Live(p) => KnowsHashes(p) /\ KnowsFile(p)

(* A step of scan p, which moves only while the others rest.               *)
TurnOf(p) ==
  /\ Live(p) \/ Live(p)'
  /\ \E l : pc' = [pc EXCEPT ![p] = l]

(* So only the files, the records and what p knows are at stake.           *)
LEMMA TurnKeeps ==
  ASSUME Typed, InTurn, Orderly', NEW p \in Scans, TurnOf(p),
         FilesTidy', RecordsTrue', NoneLost',
         Live(p)' => KnowsHashes(p)' /\ KnowsFile(p)'
  PROVE  InTurn'
  <1>1. PICK l : pc' = [pc EXCEPT ![p] = l]
    BY DEF TurnOf
  <1>2. \A q \in Scans \ {p} : pc'[q] = pc[q]
    BY <1>1 DEF Typed, TypeOK
  <1>3. \A q \in Scans \ {p} : ~Live(q)'
    BY <1>2 DEF TurnOf, InTurn, Orderly, Solo, Live
  <1> QED
    BY <1>3 DEF InTurn

(* What is under way moves what it takes.                                  *)
LEMMA LiveMoves ==
  ASSUME InTurn, NEW p \in Scans, Live(p)
  PROVE  p \notin NoMove
  BY DEF InTurn, Orderly, Live

(* A name has one file in the inbox.                                       *)
LEMMA OneAtName ==
  ASSUME FilesTidy, NEW n, NEW f \in At(n), NEW g \in At(n)
  PROVE  f = g
  BY DEF FilesTidy, At

(* A step that writes no record, and that takes a file from the inbox only *)
(* if its content is queued, loses nothing.                                *)
LEMMA NoneLostKept ==
  ASSUME Typed, NoneLost, NEW p \in Scans, NEW l,
         pc' = [pc EXCEPT ![p] = l],
         UNCHANGED <<stored, manifests, items, mishaps>>,
         \A q \in Scans \ {p} : cur'[q] = cur[q] /\ known'[q] = known[q],
         pc[p] \notin {"manifesting", "queueing"},
         mishaps = 0 => l \notin {"failing", "dead"},
         mishaps = 0 => \A f \in Files : place'[f] \in Gone4Good =>
                          place[f] \in Gone4Good \/ Queued(f[2]),
         mishaps = 0 /\ Live(p)' => \A hash \in known'[p] : Queued(hash)
  PROVE  NoneLost'
  <1> SUFFICES ASSUME mishaps = 0
               PROVE  (NoneFailed /\ ManifestsQueued /\ KnownQueued /\ FilesQueued)'
    BY DEF NoneLost
  <1>0. NoneFailed /\ ManifestsQueued /\ KnownQueued /\ FilesQueued
    BY DEF NoneLost
  <1>1. \A hash : Queued(hash)' <=> Queued(hash)
    BY DEF Queued
  <1>2. \A q \in Scans \ {p} : pc'[q] = pc[q] /\ Id(q)' = Id(q)
    BY DEF Typed, TypeOK, Id
  <1>3. NoneFailed'
    BY <1>0 DEF NoneFailed, Typed, TypeOK
  <1>4. ManifestsQueued'
    BY <1>0, <1>2 DEF ManifestsQueued
  <1>5. KnownQueued'
    BY <1>0, <1>1, <1>2 DEF KnownQueued, Live
  <1>6. FilesQueued'
    BY <1>0, <1>1, <1>2 DEF FilesQueued
  <1> QED
    BY <1>3, <1>4, <1>5, <1>6

(* At the start nothing has been dropped and no scan is under way.         *)
LEMMA InTurnInit == Init => InTurn
  <1> SUFFICES ASSUME Init PROVE InTurn
    OBVIOUS
  <1>1. Orderly /\ KnownQueued /\ NoneFailed
    BY InboxAssumption DEF Init, Orderly, Solo, KnownQueued, NoneFailed, Live
  <1>2. FilesTidy /\ FilesQueued
    BY DEF Init, FilesTidy, FilesQueued, Gone4Good
  <1>3. RecordsTrue /\ ManifestsQueued
    <2>1. NoFile \notin Hashes /\ NoFile # "pending"
      BY InboxMarkerAssumption DEF Hashes
    <2>2. \A id \in Ids : manifests[id] = NoFile /\ items[id] = NoFile
      BY DEF Init
    <2>3. RecordsTrue
      BY <2>1, <2>2 DEF RecordsTrue
    <2>4. ManifestsQueued
      BY <2>1, <2>2 DEF ManifestsQueued
    <2> QED
      BY <2>3, <2>4
  <1>4. \A p \in Scans : ~Live(p)
    BY DEF Init, Live
  <1> QED
    BY <1>1, <1>2, <1>3, <1>4 DEF InTurn, NoneLost

(* Every orderly step keeps InTurn.                                        *)
LEMMA InTurnStep ==
  ASSUME Typed, Ingest, InTurn, [Next]_vars, Orderly'
  PROVE  InTurn'
  <1> USE InboxAssumption, InboxMarkerAssumption
      DEF Typed, TypeOK, InboxControl, PCs, TryPCs, BusyPCs, Goto, files,
          records, local
  <1>1. ASSUME NEW p \in Scans, Start(p) PROVE InTurn'
    <2>1. TurnOf(p)
      BY <1>1 DEF Start, TurnOf, Live
    <2>2. FilesTidy'
      BY <1>1 DEF Start, InTurn, FilesTidy, Processed
    <2>3. RecordsTrue'
      BY <1>1 DEF Start, InTurn, RecordsTrue
    <2>4. NoneLost'
      <3>1. \A q \in Scans : pc[q] # "queueing"
        <4>1. \A q \in Scans \ {p} : ~Live(q)
          BY <1>1 DEF Start, Orderly, Solo, Live
        <4> QED
          BY <1>1, <4>1 DEF Start, Live
      <3>2. mishaps = 0 => \A hash \in ExistingHashes : Queued(hash)
        BY <3>1
        DEF InTurn, NoneLost, ManifestsQueued, ExistingHashes, Queued
      <3>3. known'[p] = ExistingHashes
        BY <1>1 DEF Start
      <3> QED
        BY <1>1, <3>2, <3>3, NoneLostKept DEF Start, InTurn
    <2>5. Live(p)' => KnowsHashes(p)'
      <3>1. pc'[p] = "listing" /\ known'[p] = ExistingHashes
            /\ UNCHANGED <<manifests, items>>
        BY <1>1 DEF Start
      <3>2. \A hash \in ExistingHashes : Manifested(hash)
        BY DEF ExistingHashes, Manifested
      <3>3. \A id \in Ids : items[id] = "pending" =>
              manifests[id] \in ExistingHashes
        BY DEF Ingest, ItemHasManifest, ExistingHashes
      <3> QED
        BY <3>1, <3>2, <3>3 DEF KnowsHashes, Manifested
    <2>6. Live(p)' => KnowsFile(p)'
      BY <1>1 DEF Start, InTurn, KnowsFile, Live, At, Id
    <2> QED
      BY <2>1, <2>2, <2>3, <2>4, <2>5, <2>6, TurnKeeps
  <1>2. ASSUME NEW p \in Scans, List(p) PROVE InTurn'
    <2>1. TurnOf(p)
      BY <1>2 DEF List, TurnOf, Live
    <2>2. FilesTidy'
      BY <1>2 DEF List, InTurn, FilesTidy, Processed
    <2>3. RecordsTrue'
      BY <1>2 DEF List, InTurn, RecordsTrue
    <2>4. NoneLost'
      <3>1. mishaps = 0 /\ Live(p) => \A hash \in known[p] : Queued(hash)
        BY DEF InTurn, NoneLost, KnownQueued
      <3> QED
        BY <1>2, <3>1, NoneLostKept DEF List, InTurn, Live
    <2>5. Live(p)' => KnowsHashes(p)'
      BY <1>2 DEF List, InTurn, KnowsHashes, Live, Manifested
    <2>6. Live(p)' => KnowsFile(p)'
      BY <1>2 DEF List, InTurn, KnowsFile, Live, At, Id
    <2> QED
      BY <2>1, <2>2, <2>3, <2>4, <2>5, <2>6, TurnKeeps
  <1>3. ASSUME NEW p \in Scans, Take(p) PROVE InTurn'
    <2>7. PICK n \in todo[p] :
            \/ UNCHANGED <<pc, cur>>
            \/ /\ At(n) # {} /\ cur' = [cur EXCEPT ![p] = n]
               /\ pc' = [pc EXCEPT ![p] = "hashing"]
      BY <1>3 DEF Take
    <2>8. /\ pc[p] = "next" /\ pc'[p] \in {"next", "hashing"}
          /\ pc' = [pc EXCEPT ![p] = pc'[p]]
          /\ \A q \in Scans \ {p} : cur'[q] = cur[q]
          /\ UNCHANGED <<files, records, known, mishaps>>
      BY <1>3, <2>7 DEF Take
    <2>1. TurnOf(p)
      BY <2>8 DEF TurnOf, Live
    <2>2. FilesTidy'
      BY <1>3 DEF Take, InTurn, FilesTidy, Processed
    <2>3. RecordsTrue'
      BY <1>3 DEF Take, InTurn, RecordsTrue
    <2>4. NoneLost'
      <3>1. mishaps = 0 => \A hash \in known[p] : Queued(hash)
        BY <2>8 DEF InTurn, NoneLost, KnownQueued, Live
      <3> QED
        BY <2>8, <3>1, NoneLostKept DEF InTurn
    <2>5. Live(p)' => KnowsHashes(p)'
      BY <2>8 DEF InTurn, KnowsHashes, Live, Manifested
    <2>6. Live(p)' => KnowsFile(p)'
      BY <2>7, <2>8 DEF KnowsFile, At
    <2> QED
      BY <2>1, <2>2, <2>3, <2>4, <2>5, <2>6, TurnKeeps
  <1>4. ASSUME NEW p \in Scans, End(p) PROVE InTurn'
    <2>1. TurnOf(p)
      BY <1>4 DEF End, TurnOf, Live
    <2>2. FilesTidy'
      BY <1>4 DEF End, InTurn, FilesTidy, Processed
    <2>3. RecordsTrue'
      BY <1>4 DEF End, InTurn, RecordsTrue
    <2>4. NoneLost'
      <3>1. mishaps = 0 /\ Live(p) => \A hash \in known[p] : Queued(hash)
        BY DEF InTurn, NoneLost, KnownQueued
      <3> QED
        BY <1>4, <3>1, NoneLostKept DEF End, InTurn, Live
    <2>5. Live(p)' => KnowsHashes(p)'
      BY <1>4 DEF End, InTurn, KnowsHashes, Live, Manifested
    <2>6. Live(p)' => KnowsFile(p)'
      BY <1>4 DEF End, InTurn, KnowsFile, Live, At, Id
    <2> QED
      BY <2>1, <2>2, <2>3, <2>4, <2>5, <2>6, TurnKeeps
  <1>5. ASSUME NEW p \in Scans, Hash(p) PROVE InTurn'
    <2>7. PICK f \in At(cur[p]) :
            pc' = [pc EXCEPT ![p] = IF Sha256(f) \notin known[p] THEN "building"
                                                              ELSE "discarding"]
      BY <1>5, LiveMoves DEF Hash, Live
    <2>8. pc[p] = "hashing" /\ UNCHANGED <<files, records, local, mishaps>>
      BY <1>5 DEF Hash
    <2>9. Sha256(f) = f[2] /\ \A g \in At(cur[p]) : g = f
      BY OneAtName DEF InTurn, FilesTidy, Sha256, At
    <2>1. TurnOf(p)
      BY <2>7, <2>8 DEF TurnOf, Live
    <2>2. FilesTidy'
      BY <1>5 DEF Hash, InTurn, FilesTidy, Processed
    <2>3. RecordsTrue'
      BY <1>5 DEF Hash, InTurn, RecordsTrue
    <2>4. NoneLost'
      <3>1. mishaps = 0 => \A hash \in known[p] : Queued(hash)
        BY <2>8 DEF InTurn, NoneLost, KnownQueued, Live
      <3>2. pc' = [pc EXCEPT ![p] = pc'[p]] /\ pc'[p] \in {"building", "discarding"}
        BY <2>7
      <3> QED
        BY <2>8, <3>1, <3>2, NoneLostKept DEF InTurn
    <2>5. Live(p)' => KnowsHashes(p)'
      BY <2>8 DEF InTurn, KnowsHashes, Live, Manifested
    <2>6. Live(p)' => KnowsFile(p)'
      <3>1. At(cur[p])' = At(cur[p])
        BY <2>8 DEF At
      <3>2. /\ pc'[p] \in {"building", "discarding"}
            /\ pc'[p] = "building" <=> f[2] \notin known[p]
        BY <2>7, <2>9
      <3> QED
        BY <2>8, <2>9, <3>1, <3>2 DEF KnowsFile
    <2> QED
      BY <2>1, <2>2, <2>3, <2>4, <2>5, <2>6, TurnKeeps
  <1>6. ASSUME NEW p \in Scans, Discard(p) PROVE InTurn'
    <2>7. PICK f \in At(cur[p]) :
            place' = [g \in Files |->
              IF g = f THEN "duplicate"
              ELSE IF place[g] = "duplicate" /\ NameOf(g) = NameOf(f)
                     THEN "overwritten" ELSE place[g]]
      BY <1>6 DEF Discard
    <2>8. /\ pc[p] = "discarding" /\ pc' = [pc EXCEPT ![p] = "next"]
          /\ UNCHANGED <<whole, stored, records, local, mishaps>>
      BY <1>6 DEF Discard
    <2>9. /\ f \in Files /\ place[f] = "inbox" /\ f[2] \in known[p]
          /\ \A hash \in known[p] : Manifested(hash)
      BY <2>8 DEF At, InTurn, KnowsFile, KnowsHashes, Live
    <2>10. PICK id \in Ids : manifests[id] = f[2]
      BY <2>9 DEF Manifested
    <2>11. /\ stored[id] \in Files /\ stored[id][2] = f[2]
           /\ place[stored[id]] = "processed"
      BY <2>9, <2>10 DEF InTurn, RecordsTrue, Ingest
    <2>12. \A g \in Files :
             /\ place'[g] # "outside" <=> place[g] # "outside"
             /\ place[g] = "processed" => place'[g] = "processed"
             /\ place'[g] = "inbox" => place[g] = "inbox"
             /\ place'[g] \in Gone4Good => place[g] \in Gone4Good \/ g = f
      BY <2>7, <2>9 DEF Gone4Good
    <2>1. TurnOf(p)
      BY <2>8 DEF TurnOf, Live
    <2>2. FilesTidy'
      <3>1. Processed(f[2])'
        BY <2>11, <2>12 DEF Processed
      <3>2. \A g \in Files : place'[g] \in {"duplicate", "overwritten"} =>
              Processed(g[2])'
        <4> SUFFICES ASSUME NEW g \in Files, g # f,
                            place'[g] \in {"duplicate", "overwritten"}
                     PROVE  Processed(g[2])'
          BY <3>1
        <4>1. place[g] \in {"duplicate", "overwritten"}
          BY <2>7
        <4>2. Processed(g[2])
          BY <4>1 DEF InTurn, FilesTidy
        <4> QED
          BY <2>12, <4>2 DEF Processed
      <3> QED
        BY <2>8, <2>12, <3>2 DEF InTurn, FilesTidy
    <2>3. RecordsTrue'
      BY <2>8 DEF InTurn, RecordsTrue
    <2>4. NoneLost'
      <3>1. mishaps = 0 => \A hash \in known[p] : Queued(hash)
        BY <2>8 DEF InTurn, NoneLost, KnownQueued, Live
      <3> QED
        BY <2>8, <2>9, <2>12, <3>1, NoneLostKept DEF InTurn
    <2>5. Live(p)' => KnowsHashes(p)'
      BY <2>8 DEF InTurn, KnowsHashes, Live, Manifested
    <2>6. Live(p)' => KnowsFile(p)'
      BY <2>8 DEF KnowsFile
    <2> QED
      BY <2>1, <2>2, <2>3, <2>4, <2>5, <2>6, TurnKeeps
  <1>7. ASSUME NEW p \in Scans, Build(p) PROVE InTurn'
    <2>7. PICK f \in At(cur[p]) : sha' = [sha EXCEPT ![p] = Sha256(f)]
      BY <1>7 DEF Build
    <2>8. /\ pc[p] = "building" /\ pc' = [pc EXCEPT ![p] = "moving"]
          /\ UNCHANGED <<files, records, known, todo, cur, mishaps>>
      BY <1>7, LiveMoves DEF Build, Live
    <2>9. Sha256(f) = f[2] /\ \A g \in At(cur[p]) : g = f
      BY OneAtName DEF InTurn, FilesTidy, Sha256, At
    <2>1. TurnOf(p)
      BY <2>8 DEF TurnOf, Live
    <2>2. FilesTidy'
      BY <1>7 DEF Build, InTurn, FilesTidy, Processed
    <2>3. RecordsTrue'
      BY <1>7 DEF Build, InTurn, RecordsTrue
    <2>4. NoneLost'
      <3>1. mishaps = 0 => \A hash \in known[p] : Queued(hash)
        BY <2>8 DEF InTurn, NoneLost, KnownQueued, Live
      <3> QED
        BY <2>8, <3>1, NoneLostKept DEF InTurn
    <2>5. Live(p)' => KnowsHashes(p)'
      BY <2>8 DEF InTurn, KnowsHashes, Live, Manifested
    <2>6. Live(p)' => KnowsFile(p)'
      <3>1. At(cur[p])' = At(cur[p])
        BY <2>8 DEF At
      <3>2. sha'[p] = f[2] /\ f[2] \notin known[p]
        BY <2>7, <2>8, <2>9 DEF InTurn, KnowsFile, Live
      <3> QED
        BY <2>7, <2>8, <2>9, <3>1, <3>2 DEF KnowsFile
    <2> QED
      BY <2>1, <2>2, <2>3, <2>4, <2>5, <2>6, TurnKeeps
  <1>8. ASSUME NEW p \in Scans, Move(p) PROVE InTurn'
    <2>7. PICK f \in At(cur[p]) :
            /\ place' = [place EXCEPT ![f] = "processed"]
            /\ stored' = [stored EXCEPT ![Id(p)] = f]
      BY <1>8 DEF Move
    <2>8. /\ pc[p] = "moving" /\ pc' = [pc EXCEPT ![p] = "manifesting"]
          /\ UNCHANGED <<whole, records, local, mishaps>>
      BY <1>8 DEF Move
    <2>9. /\ f \in Files /\ place[f] = "inbox" /\ f[2] = sha[p]
          /\ sha[p] \notin known[p]
      BY <2>8 DEF At, InTurn, KnowsFile, Live
    <2>10. Id(p) \in Ids /\ Id(p)' = Id(p) /\ manifests[Id(p)] = NoFile
      BY <2>8 DEF Ingest, IdsOf, Unused, Id, Ids
    <2>11. /\ \A id \in Ids \ {Id(p)} : stored'[id] = stored[id]
           /\ stored'[Id(p)] = f
           /\ \A g \in Files \ {f} : place'[g] = place[g]
           /\ place'[f] = "processed"
      BY <2>7, <2>9, <2>10
    <2>1. TurnOf(p)
      BY <2>8 DEF TurnOf, Live
    <2>2. FilesTidy'
      <3>1. \A content : Processed(content) => Processed(content)'
        BY <2>11 DEF Processed
      <3> QED
        BY <2>8, <2>9, <2>11, <3>1 DEF InTurn, FilesTidy
    <2>3. RecordsTrue'
      <3>1. manifests[Id(p)] \notin Hashes
        BY <2>10 DEF Hashes
      <3> QED
        BY <2>8, <2>11, <3>1 DEF InTurn, RecordsTrue
    <2>4. NoneLost'
      <3> SUFFICES ASSUME mishaps = 0
                   PROVE  (NoneFailed /\ ManifestsQueued /\ KnownQueued
                             /\ FilesQueued)'
        BY <2>8 DEF NoneLost
      <3>0. NoneFailed /\ ManifestsQueued /\ KnownQueued /\ FilesQueued
        BY DEF InTurn, NoneLost
      <3>1. \A hash : Queued(hash)' <=> Queued(hash)
        BY <2>8 DEF Queued
      <3>2. \A q \in Scans : pc'[q] = IF q = p THEN "manifesting" ELSE pc[q]
        BY <2>8
      <3>8. \A q \in Scans : Id(q)' = Id(q)
        BY <2>8 DEF Id
      <3>9. \A q \in Scans \ {p} : ~Live(q)
        BY <2>8 DEF InTurn, Orderly, Solo, Live
      <3>3. NoneFailed'
        BY <3>0, <3>2 DEF NoneFailed
      <3>4. ManifestsQueued'
        BY <2>8, <3>0, <3>2, <3>8 DEF ManifestsQueued
      <3>5. KnownQueued'
        BY <2>8, <3>0, <3>1, <3>2 DEF KnownQueued, Live
      <3>6. FilesQueued'
        <4> SUFFICES ASSUME NEW g \in Files, place'[g] \in Gone4Good
                     PROVE  \/ Queued(g[2])'
                            \/ \E q \in Scans :
                                 /\ pc'[q] \in {"manifesting", "queueing"}
                                 /\ stored'[Id(q)'] = g
          BY DEF FilesQueued
        <4>1. CASE g = f
          BY <2>10, <2>11, <3>2, <4>1
        <4>2. CASE g # f
          <5>1. \A q \in Scans : pc[q] \notin {"manifesting", "queueing"}
            BY <2>8, <3>9 DEF Live
          <5>2. Queued(g[2])
            BY <2>11, <3>0, <4>2, <5>1 DEF FilesQueued
          <5> QED
            BY <3>1, <5>2
        <4> QED
          BY <4>1, <4>2
      <3> QED
        BY <3>3, <3>4, <3>5, <3>6
    <2>5. Live(p)' => KnowsHashes(p)'
      BY <2>8 DEF InTurn, KnowsHashes, Live, Manifested
    <2>6. Live(p)' => KnowsFile(p)'
      BY <2>8, <2>9, <2>10, <2>11 DEF KnowsFile
    <2> QED
      BY <2>1, <2>2, <2>3, <2>4, <2>5, <2>6, TurnKeeps
  <1>9. ASSUME NEW p \in Scans, Gone(p) PROVE InTurn'
    BY <1>9 DEF Gone, InTurn, KnowsFile, Live
  <1>10. ASSUME NEW p \in Scans, WriteManifest(p) PROVE InTurn'
    <2>7. /\ pc[p] = "manifesting" /\ pc' = [pc EXCEPT ![p] = "queueing"]
          /\ manifests' = [manifests EXCEPT ![Id(p)] = sha[p]]
          /\ UNCHANGED <<files, items, failures, local, mishaps>>
      BY <1>10 DEF WriteManifest
    <2>8. /\ Id(p) \in Ids /\ Id(p)' = Id(p)
          /\ manifests[Id(p)] = NoFile /\ items[Id(p)] = NoFile
      BY <2>7 DEF Ingest, IdsOf, Id, Ids
    <2>9. /\ \A id \in Ids \ {Id(p)} : manifests'[id] = manifests[id]
          /\ manifests'[Id(p)] = sha[p]
      BY <2>7, <2>8
    <2>10. /\ stored[Id(p)] \in Files /\ stored[Id(p)][2] = sha[p]
           /\ sha[p] \notin known[p] /\ KnowsHashes(p)
      BY <2>7 DEF InTurn, KnowsFile, Live
    <2>11. known[p] \subseteq Hashes /\ NoFile \notin Hashes
      BY DEF Hashes
    <2>1. TurnOf(p)
      BY <2>7 DEF TurnOf, Live
    <2>2. FilesTidy'
      BY <2>7 DEF InTurn, FilesTidy, Processed
    <2>3. RecordsTrue'
      <3>1. \A id \in Ids : items[id] = "pending" => id # Id(p)
        BY <2>8
      <3>2. RecordsTrue
        BY DEF InTurn
      <3>3. \A id \in Ids : manifests'[id] \in Hashes =>
              stored'[id] \in Files /\ stored'[id][2] = manifests'[id]
        BY <2>7, <2>9, <2>10, <3>2 DEF RecordsTrue
      <3>4. \A i, j \in Ids :
              items'[i] = "pending" /\ items'[j] = "pending"
              /\ manifests'[i] = manifests'[j] => i = j
        BY <2>7, <2>9, <3>1, <3>2 DEF RecordsTrue
      <3> QED
        BY <3>3, <3>4 DEF RecordsTrue
    <2>4. NoneLost'
      <3> SUFFICES ASSUME mishaps = 0
                   PROVE  (NoneFailed /\ ManifestsQueued /\ KnownQueued
                             /\ FilesQueued)'
        BY <2>7 DEF NoneLost
      <3>0. NoneFailed /\ ManifestsQueued /\ KnownQueued /\ FilesQueued
        BY DEF InTurn, NoneLost
      <3>1. \A hash : Queued(hash) => Queued(hash)'
        BY <2>7, <2>8, <2>9 DEF Queued
      <3>2. \A q \in Scans : pc'[q] = IF q = p THEN "queueing" ELSE pc[q]
        BY <2>7
      <3>8. \A q \in Scans : Id(q)' = Id(q)
        BY <2>7 DEF Id
      <3>3. NoneFailed'
        BY <3>0, <3>2 DEF NoneFailed
      <3>4. ManifestsQueued'
        <4> SUFFICES ASSUME NEW id \in Ids, manifests'[id] \in Hashes
                     PROVE  \/ items'[id] = "pending"
                            \/ \E q \in Scans : pc'[q] = "queueing" /\ id = Id(q)'
          BY DEF ManifestsQueued
        <4>1. CASE id = Id(p)
          BY <2>8, <3>2, <4>1
        <4>2. CASE id # Id(p)
          BY <2>7, <2>9, <3>0, <3>2, <3>8, <4>2 DEF ManifestsQueued
        <4> QED
          BY <4>1, <4>2
      <3>5. KnownQueued'
        BY <2>7, <3>0, <3>1, <3>2 DEF KnownQueued, Live
      <3>6. FilesQueued'
        <4>1. \A q \in Scans : pc[q] \in {"manifesting", "queueing"} =>
                               pc'[q] \in {"manifesting", "queueing"}
          BY <3>2
        <4> QED
          BY <2>7, <3>0, <3>1, <3>8, <4>1 DEF FilesQueued
      <3> QED
        BY <3>3, <3>4, <3>5, <3>6
    <2>5. Live(p)' => KnowsHashes(p)'
      <3>1. \A hash \in known[p] : Manifested(hash)'
        <4> SUFFICES ASSUME NEW hash \in known[p] PROVE Manifested(hash)'
          OBVIOUS
        <4>1. PICK id \in Ids : manifests[id] = hash
          BY <2>10 DEF KnowsHashes, Manifested
        <4>2. id # Id(p)
          BY <2>8, <2>11, <4>1
        <4> QED
          BY <2>9, <4>1, <4>2 DEF Manifested
      <3>2. \A id \in Ids : items'[id] = "pending" =>
              manifests'[id] \in known[p]
        BY <2>7, <2>8, <2>9, <2>10 DEF KnowsHashes
      <3> QED
        BY <2>7, <3>1, <3>2 DEF KnowsHashes
    <2>6. Live(p)' => KnowsFile(p)'
      BY <2>7, <2>8, <2>9, <2>10 DEF KnowsFile
    <2> QED
      BY <2>1, <2>2, <2>3, <2>4, <2>5, <2>6, TurnKeeps
  <1>11. ASSUME NEW p \in Scans, WriteItem(p) PROVE InTurn'
    <2>7. /\ pc[p] = "queueing" /\ pc' = [pc EXCEPT ![p] = "next"]
          /\ items' = [items EXCEPT ![Id(p)] = "pending"]
          /\ known' = [known EXCEPT ![p] = @ \cup {sha[p]}]
          /\ UNCHANGED <<files, manifests, failures, todo, cur, sha, mishaps>>
      BY <1>11 DEF WriteItem, Learn
    <2>8. Id(p) \in Ids /\ Id(p)' = Id(p) /\ items[Id(p)] = NoFile
      BY <2>7 DEF Ingest, IdsOf, Id, Ids
    <2>9. /\ \A id \in Ids \ {Id(p)} : items'[id] = items[id]
          /\ items'[Id(p)] = "pending"
          /\ known'[p] = known[p] \cup {sha[p]}
      BY <2>7, <2>8
    <2>10. /\ stored[Id(p)] \in Files /\ stored[Id(p)][2] = sha[p]
           /\ sha[p] \notin known[p] /\ manifests[Id(p)] = sha[p]
           /\ KnowsHashes(p)
      BY <2>7 DEF InTurn, KnowsFile, Live
    <2>1. TurnOf(p)
      BY <2>7 DEF TurnOf, Live
    <2>2. FilesTidy'
      BY <2>7 DEF InTurn, FilesTidy, Processed
    <2>3. RecordsTrue'
      <3>1. \A id \in Ids : items[id] = "pending" => manifests[id] # sha[p]
        BY <2>10 DEF KnowsHashes
      <3>2. RecordsTrue
        BY DEF InTurn
      <3>3. \A i, j \in Ids :
              items'[i] = "pending" /\ items'[j] = "pending"
              /\ manifests'[i] = manifests'[j] => i = j
        BY <2>7, <2>9, <2>10, <3>1, <3>2 DEF RecordsTrue
      <3> QED
        BY <2>7, <3>2, <3>3 DEF RecordsTrue
    <2>4. NoneLost'
      <3> SUFFICES ASSUME mishaps = 0
                   PROVE  (NoneFailed /\ ManifestsQueued /\ KnownQueued
                             /\ FilesQueued)'
        BY <2>7 DEF NoneLost
      <3>0. NoneFailed /\ ManifestsQueued /\ KnownQueued /\ FilesQueued
        BY DEF InTurn, NoneLost
      <3>1. \A hash : Queued(hash) => Queued(hash)'
        BY <2>7, <2>8, <2>9 DEF Queued
      <3>7. \A hash : hash = sha[p] => Queued(hash)'
        BY <2>7, <2>8, <2>9, <2>10 DEF Queued
      <3>2. \A q \in Scans : pc'[q] = IF q = p THEN "next" ELSE pc[q]
        BY <2>7
      <3>8. \A q \in Scans : Id(q)' = Id(q)
        BY <2>7 DEF Id
      <3>3. NoneFailed'
        BY <3>0, <3>2 DEF NoneFailed
      <3>4. ManifestsQueued'
        <4> SUFFICES ASSUME NEW id \in Ids, id # Id(p),
                            manifests'[id] \in Hashes
                     PROVE  \/ items'[id] = "pending"
                            \/ \E q \in Scans : pc'[q] = "queueing" /\ id = Id(q)'
          BY <2>9 DEF ManifestsQueued
        <4>1. \/ items[id] = "pending"
              \/ \E q \in Scans : pc[q] = "queueing" /\ id = Id(q)
          BY <2>7, <3>0 DEF ManifestsQueued
        <4> QED
          BY <2>9, <3>2, <3>8, <4>1
      <3>5. KnownQueued'
        <4>1. \A q \in Scans \ {p} : known'[q] = known[q]
          BY <2>7
        <4>2. Live(p)
          BY <2>7 DEF Live
        <4>3. \A hash \in known'[p] : Queued(hash)'
          BY <2>9, <3>0, <3>1, <3>7, <4>2 DEF KnownQueued
        <4>4. \A q \in Scans \ {p} : Live(q)' => \A hash \in known'[q] : Queued(hash)'
          BY <3>0, <3>1, <3>2, <4>1 DEF KnownQueued, Live
        <4> QED
          BY <4>3, <4>4 DEF KnownQueued
      <3>6. FilesQueued'
        <4> SUFFICES ASSUME NEW g \in Files, place[g] \in Gone4Good
                     PROVE  \/ Queued(g[2])'
                            \/ \E q \in Scans :
                                 /\ pc'[q] \in {"manifesting", "queueing"}
                                 /\ stored'[Id(q)'] = g
          BY <2>7 DEF FilesQueued
        <4>1. \/ Queued(g[2])
              \/ \E q \in Scans : pc[q] \in {"manifesting", "queueing"}
                                  /\ stored[Id(q)] = g
          BY <3>0 DEF FilesQueued
        <4>2. CASE stored[Id(p)] = g
          <5>1. g[2] = sha[p]
            BY <2>10, <4>2
          <5> QED
            BY <3>7, <5>1
        <4>3. CASE stored[Id(p)] # g
          BY <2>7, <3>1, <3>2, <3>8, <4>1, <4>3
        <4> QED
          BY <4>2, <4>3
      <3> QED
        BY <3>3, <3>4, <3>5, <3>6
    <2>5. Live(p)' => KnowsHashes(p)'
      <3>1. Manifested(sha[p])
        BY <2>8, <2>10 DEF Manifested
      <3>2. \A hash : Manifested(hash)' <=> Manifested(hash)
        BY <2>7 DEF Manifested
      <3> QED
        BY <2>7, <2>9, <2>10, <3>1, <3>2 DEF KnowsHashes
    <2>6. Live(p)' => KnowsFile(p)'
      BY <2>7 DEF KnowsFile
    <2> QED
      BY <2>1, <2>2, <2>3, <2>4, <2>5, <2>6, TurnKeeps
  <1>12. ASSUME NEW p \in Scans, RecordFailure(p) PROVE InTurn'
    <2>1. TurnOf(p)
      BY <1>12 DEF RecordFailure, TurnOf, Live
    <2>2. FilesTidy'
      BY <1>12 DEF RecordFailure, InTurn, FilesTidy, Processed
    <2>3. RecordsTrue'
      BY <1>12 DEF RecordFailure, InTurn, RecordsTrue
    <2>4. NoneLost'
      BY <1>12, NoneLostKept
      DEF RecordFailure, InTurn, NoneLost, NoneFailed, KnownQueued, Live
    <2>5. Live(p)' => KnowsHashes(p)'
      BY <1>12 DEF RecordFailure, InTurn, KnowsHashes, Live, Manifested
    <2>6. Live(p)' => KnowsFile(p)'
      BY <1>12 DEF RecordFailure, KnowsFile
    <2> QED
      BY <2>1, <2>2, <2>3, <2>4, <2>5, <2>6, TurnKeeps
  <1>13. ASSUME NEW p \in Scans, Raise(p) PROVE InTurn'
    <2>7. /\ Live(p) /\ HalfWritten(p) /\ mishaps' # 0
          /\ UNCHANGED <<place, whole, stored, known, todo, cur, sha>>
      BY <1>13 DEF Raise, Mishap, Live
    <2>8. \E l \in {"failing", "dead"} : pc' = [pc EXCEPT ![p] = l]
      BY <1>13 DEF Raise
    <2>9. /\ pc[p] = "manifesting" => manifests[Id(p)] = NoFile
          /\ pc[p] = "queueing" => items[Id(p)] = NoFile
      BY DEF Ingest, IdsOf
    <2>10. \A id \in Ids :
             /\ manifests'[id] = manifests[id]
                  \/ (manifests[id] = NoFile /\ manifests'[id] = Torn)
             /\ items'[id] = "pending" => items[id] = "pending"
             /\ items[id] = "pending" => manifests'[id] = manifests[id]
      <3>1. \A id \in Ids : items[id] = "pending" => manifests[id] \in Hashes
        BY DEF Ingest, ItemHasManifest
      <3>2. NoFile \notin Hashes
        BY DEF Hashes
      <3> QED
        BY <2>7, <2>9, <3>1, <3>2, HalfWrites
    <2>11. NoFile \notin Hashes /\ Torn \notin Hashes /\ known[p] \subseteq Hashes
      BY DEF Hashes
    <2>1. TurnOf(p)
      BY <2>7, <2>8 DEF TurnOf
    <2>2. FilesTidy'
      BY <2>7 DEF InTurn, FilesTidy, Processed
    <2>3. RecordsTrue'
      <3>1. RecordsTrue /\ stored' = stored
        BY <2>7 DEF InTurn
      <3>2. \A id \in Ids : manifests'[id] \in Hashes =>
              manifests'[id] = manifests[id]
        BY <2>10, <2>11
      <3>3. \A id \in Ids : items'[id] = "pending" =>
              items[id] = "pending" /\ manifests'[id] = manifests[id]
        BY <2>10
      <3>4. \A id \in Ids : manifests'[id] \in Hashes =>
              stored'[id] \in Files /\ stored'[id][2] = manifests'[id]
        BY <3>1, <3>2 DEF RecordsTrue
      <3>5. \A i, j \in Ids :
              items'[i] = "pending" /\ items'[j] = "pending"
              /\ manifests'[i] = manifests'[j] => i = j
        <4> SUFFICES ASSUME NEW i \in Ids, NEW j \in Ids,
                            items'[i] = "pending", items'[j] = "pending",
                            manifests'[i] = manifests'[j]
                     PROVE  i = j
          OBVIOUS
        <4>1. /\ items[i] = "pending" /\ items[j] = "pending"
              /\ manifests[i] = manifests[j]
          BY <3>3
        <4> QED
          BY <3>1, <4>1 DEF RecordsTrue
      <3> QED
        BY <3>4, <3>5 DEF RecordsTrue
    <2>4. NoneLost'
      BY <2>7 DEF NoneLost
    <2>5. Live(p)' => KnowsHashes(p)'
      <3>1. KnowsHashes(p)
        BY <2>7 DEF InTurn
      <3>2. \A hash \in known[p] : Manifested(hash)'
        BY <2>10, <2>11, <3>1 DEF KnowsHashes, Manifested
      <3> QED
        BY <2>7, <2>10, <3>1, <3>2 DEF KnowsHashes
    <2>6. Live(p)' => KnowsFile(p)'
      BY <2>8 DEF KnowsFile
    <2> QED
      BY <2>1, <2>2, <2>3, <2>4, <2>5, <2>6, TurnKeeps
  <1>14. ASSUME NEW p \in Scans, Kill(p) PROVE InTurn'
    <2>7. /\ Live(p) /\ HalfWritten(p) /\ mishaps' # 0
          /\ UNCHANGED <<place, whole, stored, known, todo, cur, sha>>
      BY <1>14 DEF Kill, Mishap, Live
    <2>8. \E l \in {"failing", "dead"} : pc' = [pc EXCEPT ![p] = l]
      BY <1>14 DEF Kill
    <2>9. /\ pc[p] = "manifesting" => manifests[Id(p)] = NoFile
          /\ pc[p] = "queueing" => items[Id(p)] = NoFile
      BY DEF Ingest, IdsOf
    <2>10. \A id \in Ids :
             /\ manifests'[id] = manifests[id]
                  \/ (manifests[id] = NoFile /\ manifests'[id] = Torn)
             /\ items'[id] = "pending" => items[id] = "pending"
             /\ items[id] = "pending" => manifests'[id] = manifests[id]
      <3>1. \A id \in Ids : items[id] = "pending" => manifests[id] \in Hashes
        BY DEF Ingest, ItemHasManifest
      <3>2. NoFile \notin Hashes
        BY DEF Hashes
      <3> QED
        BY <2>7, <2>9, <3>1, <3>2, HalfWrites
    <2>11. NoFile \notin Hashes /\ Torn \notin Hashes /\ known[p] \subseteq Hashes
      BY DEF Hashes
    <2>1. TurnOf(p)
      BY <2>7, <2>8 DEF TurnOf
    <2>2. FilesTidy'
      BY <2>7 DEF InTurn, FilesTidy, Processed
    <2>3. RecordsTrue'
      <3>1. RecordsTrue /\ stored' = stored
        BY <2>7 DEF InTurn
      <3>2. \A id \in Ids : manifests'[id] \in Hashes =>
              manifests'[id] = manifests[id]
        BY <2>10, <2>11
      <3>3. \A id \in Ids : items'[id] = "pending" =>
              items[id] = "pending" /\ manifests'[id] = manifests[id]
        BY <2>10
      <3>4. \A id \in Ids : manifests'[id] \in Hashes =>
              stored'[id] \in Files /\ stored'[id][2] = manifests'[id]
        BY <3>1, <3>2 DEF RecordsTrue
      <3>5. \A i, j \in Ids :
              items'[i] = "pending" /\ items'[j] = "pending"
              /\ manifests'[i] = manifests'[j] => i = j
        <4> SUFFICES ASSUME NEW i \in Ids, NEW j \in Ids,
                            items'[i] = "pending", items'[j] = "pending",
                            manifests'[i] = manifests'[j]
                     PROVE  i = j
          OBVIOUS
        <4>1. /\ items[i] = "pending" /\ items[j] = "pending"
              /\ manifests[i] = manifests[j]
          BY <3>3
        <4> QED
          BY <3>1, <4>1 DEF RecordsTrue
      <3> QED
        BY <3>4, <3>5 DEF RecordsTrue
    <2>4. NoneLost'
      BY <2>7 DEF NoneLost
    <2>5. Live(p)' => KnowsHashes(p)'
      <3>1. KnowsHashes(p)
        BY <2>7 DEF InTurn
      <3>2. \A hash \in known[p] : Manifested(hash)'
        BY <2>10, <2>11, <3>1 DEF KnowsHashes, Manifested
      <3> QED
        BY <2>7, <2>10, <3>1, <3>2 DEF KnowsHashes
    <2>6. Live(p)' => KnowsFile(p)'
      BY <2>8 DEF KnowsFile
    <2> QED
      BY <2>1, <2>2, <2>3, <2>4, <2>5, <2>6, TurnKeeps
  <1>15. ASSUME NEW f \in Files, Drop(f) PROVE InTurn'
    <2>1. /\ place[f] = "outside" /\ At(NameOf(f)) = {}
          /\ place' = [place EXCEPT ![f] = "inbox"]
          /\ whole' = [whole EXCEPT ![f] = TRUE]
          /\ UNCHANGED <<stored, records, pc, local, mishaps>>
      BY <1>15 DEF Drop, Orderly
    <2>2. /\ place'[f] = "inbox" /\ whole'[f]
          /\ \A g \in Files \ {f} : place'[g] = place[g] /\ whole'[g] = whole[g]
      BY <2>1
    <2>3. \A g \in Files : place[g] = "inbox" => NameOf(g) # NameOf(f)
      BY <2>1 DEF At
    <2>4. \A content : Processed(content) => Processed(content)'
      BY <2>1, <2>2 DEF Processed
    <2>5. FilesTidy'
      BY <2>2, <2>3, <2>4 DEF InTurn, FilesTidy
    <2>6. RecordsTrue'
      BY <2>1 DEF InTurn, RecordsTrue
    <2>7. NoneLost'
      <3>1. \A g \in Files : place'[g] \in Gone4Good => place[g] \in Gone4Good
        BY <2>2 DEF Gone4Good
      <3>2. \A hash : Queued(hash)' <=> Queued(hash)
        BY <2>1 DEF Queued
      <3>3. \A q \in Scans : Id(q)' = Id(q)
        BY <2>1 DEF Id
      <3>4. FilesQueued => FilesQueued'
        BY <2>1, <3>1, <3>2, <3>3 DEF FilesQueued
      <3>5. ManifestsQueued => ManifestsQueued'
        BY <2>1, <3>3 DEF ManifestsQueued
      <3>6. KnownQueued => KnownQueued'
        BY <2>1, <3>2 DEF KnownQueued, Live
      <3> QED
        BY <2>1, <3>4, <3>5, <3>6 DEF InTurn, NoneLost, NoneFailed
    <2>8. ASSUME NEW p \in Scans, Live(p)'
          PROVE  KnowsHashes(p)' /\ KnowsFile(p)'
      <3>1. Live(p) /\ KnowsHashes(p) /\ KnowsFile(p)
        BY <2>1, <2>8 DEF InTurn, Live
      <3>2. KnowsHashes(p)'
        BY <2>1, <3>1 DEF KnowsHashes, Manifested
      <3>3. At(cur[p]) # {} => At(cur[p])' = At(cur[p])
        BY <2>1, <2>2, <2>3 DEF At
      <3>4. KnowsFile(p)'
        BY <2>1, <3>1, <3>3 DEF KnowsFile, Id
      <3> QED
        BY <3>2, <3>4
    <2> QED
      BY <2>5, <2>6, <2>7, <2>8 DEF InTurn
  <1>16. ASSUME NEW f \in Files, Fill(f) PROVE InTurn'
    BY <1>16 DEF Fill, InTurn, FilesTidy
  <1>17. CASE UNCHANGED vars
    <2>1. UNCHANGED <<place, whole, stored, manifests, items, pc, known, cur,
                      sha, mishaps>>
      BY <1>17 DEF vars
    <2>2. FilesTidy' /\ RecordsTrue'
      BY <2>1 DEF InTurn, FilesTidy, Processed, RecordsTrue
    <2>3. NoneLost'
      <3>1. /\ \A hash : Queued(hash)' <=> Queued(hash)
            /\ \A q \in Scans : Id(q)' = Id(q)
        BY <2>1 DEF Queued, Id
      <3>2. NoneFailed => NoneFailed'
        BY <2>1 DEF NoneFailed
      <3>3. ManifestsQueued => ManifestsQueued'
        BY <2>1, <3>1 DEF ManifestsQueued
      <3>4. KnownQueued => KnownQueued'
        BY <2>1, <3>1 DEF KnownQueued, Live
      <3>5. FilesQueued => FilesQueued'
        BY <2>1, <3>1 DEF FilesQueued
      <3> QED
        BY <2>1, <3>2, <3>3, <3>4, <3>5 DEF InTurn, NoneLost
    <2>4. \A p \in Scans : Live(p)' => KnowsHashes(p)' /\ KnowsFile(p)'
      BY <2>1 DEF InTurn, Live, KnowsHashes, KnowsFile, Manifested, At, Id
    <2> QED
      BY <2>2, <2>3, <2>4 DEF InTurn
  <1> QED
    BY <1>1, <1>2, <1>3, <1>4, <1>5, <1>6, <1>7, <1>8, <1>9, <1>10, <1>11,
       <1>12,
       <1>13, <1>14, <1>15, <1>16, <1>17
    DEF Next, Scan

(* What TLC runs is the intake with some of its steps left out, so all     *)
(* that is proved of Spec holds of it in both modes.                       *)
THEOREM RunIsSpec == MCSpec => Spec
<1>1. MCInit => Init
  BY DEF MCInit
<1>2. [MCNext]_<<vars, serial>> => [Next]_vars
  BY DEF MCNext
<1> QED
  BY <1>1, <1>2, PTL DEF MCSpec, Spec

(* All of it holds throughout the serial mode.                             *)
LEMMA InTurnAlways == MCSpec => [](Typed /\ Ingest /\ (serial => InTurn))
<1> DEFINE Inv == Typed /\ Ingest /\ (serial => InTurn)
<1>1. MCInit => Inv
  BY TypedInit, IngestInit, InTurnInit DEF MCInit
<1>2. Inv /\ [MCNext]_<<vars, serial>> => Inv'
  <2> SUFFICES ASSUME Inv, [MCNext]_<<vars, serial>> PROVE Inv'
    OBVIOUS
  <2>1. [Next]_vars /\ serial' = serial
    BY DEF MCNext
  <2>2. (Typed /\ Ingest)'
    BY <2>1, TypedStep, IngestStep
  <2>3. ASSUME serial PROVE InTurn'
    <3>1. CASE Orderly'
      BY <2>1, <2>3, <3>1, InTurnStep
    <3>2. CASE UNCHANGED <<vars, serial>>
      <4>1. Orderly'
        BY <2>3, <3>2
        DEF InTurn, Orderly, Solo, Live, vars, files
      <4> QED
        BY <2>1, <2>3, <4>1, InTurnStep
    <3> QED
      BY <2>3, <3>1, <3>2 DEF MCNext
  <2> QED
    BY <2>1, <2>2, <2>3
<1> QED
  BY <1>1, <1>2, PTL DEF MCSpec

(* Scans that take turns lose no content, whatever is dropped meanwhile    *)
(* and wherever they are killed: what a duplicate overwrote is in          *)
(* processed/.                                                             *)
THEOREM ContentIsRetained == MCSpec => []SerialContentRetained
  <1>1. Typed /\ InTurn => ContentRetained
    <2> SUFFICES ASSUME Typed, InTurn, NEW f \in Dropped
                 PROVE  \E g \in Files :
                          /\ g[2] = f[2] /\ whole[g]
                          /\ place[g] \notin {"outside", "overwritten"}
      BY DEF ContentRetained
    <2>1. f \in Files /\ place[f] # "outside" /\ whole[f]
      BY DEF Dropped
    <2>2. CASE place[f] # "overwritten"
      BY <2>1, <2>2
    <2>3. CASE place[f] = "overwritten"
      <3>1. PICK g \in Files : g[2] = f[2] /\ place[g] = "processed"
        BY <2>1, <2>3 DEF InTurn, FilesTidy, Processed
      <3>2. whole[g]
        BY <3>1 DEF InTurn, FilesTidy
      <3> QED
        BY <3>1, <3>2
    <2> QED
      BY <2>2, <2>3
  <1> QED
    BY InTurnAlways, <1>1, PTL DEF SerialContentRetained

(* ... a worker finds the manifest of an item and the artifact that the    *)
(* manifest describes                                                      *)
THEOREM ItemsBacked == MCSpec => []SerialItemBacked
  <1>1. Ingest /\ InTurn => ItemBacked
    <2> SUFFICES ASSUME Ingest, InTurn, NEW id \in Ids, items[id] # NoFile
                 PROVE  \E f \in Files : stored[id] = f /\ manifests[id] = f[2]
      BY DEF ItemBacked
    <2>1. manifests[id] \in Hashes
      BY DEF Ingest, ItemHasManifest
    <2>2. stored[id] \in Files /\ stored[id][2] = manifests[id]
      BY <2>1 DEF InTurn, RecordsTrue
    <2> QED
      BY <2>2
  <1> QED
    BY InTurnAlways, <1>1, PTL DEF SerialItemBacked

(* ... and a content is queued at most once.                               *)
THEOREM ContentQueuedOnce == MCSpec => []SerialQueuedOnce
  <1>1. InTurn => QueuedOnce
    <2> SUFFICES ASSUME InTurn, NEW content \in Contents
                 PROVE  Cardinality(ItemsFor(content)) <= 1
      BY DEF QueuedOnce
    <2>1. \A i, j \in ItemsFor(content) : i = j
      BY DEF InTurn, RecordsTrue, ItemsFor
    <2>2. CASE ItemsFor(content) = {}
      BY <2>2, FS_EmptySet
    <2>3. ASSUME NEW i \in ItemsFor(content)
          PROVE  Cardinality(ItemsFor(content)) <= 1
      <3>1. ItemsFor(content) = {i}
        BY <2>1, <2>3
      <3>2. Cardinality({i}) = 1
        BY FS_Singleton
      <3> QED
        BY <3>1, <3>2
    <2> QED
      BY <2>2, <2>3
  <1> QED
    BY InTurnAlways, <1>1, PTL DEF SerialQueuedOnce

(* Unless a scan was killed or an operation raised, what has left the      *)
(* inbox is queued by the time that no scan is under way.                  *)
THEOREM NothingIsSwallowed == MCSpec => []SerialNothingSwallowed
  <1>1. Typed /\ InTurn => NothingSwallowed
    <2> SUFFICES ASSUME Typed, InTurn, Quiet, mishaps = 0,
                        NEW f \in Dropped, place[f] # "inbox"
                 PROVE  ItemsFor(f[2]) # {}
      BY DEF NothingSwallowed
    <2>1. f \in Files /\ place[f] \in Gone4Good
      BY DEF Dropped, Gone4Good, Typed, TypeOK
    <2>2. \A p \in Scans : pc[p] \notin {"manifesting", "queueing"}
      BY DEF Quiet, Live
    <2>3. Queued(f[2])
      BY <2>1, <2>2 DEF InTurn, NoneLost, FilesQueued
    <2> QED
      BY <2>3 DEF Queued, ItemsFor
  <1> QED
    BY InTurnAlways, <1>1, PTL DEF SerialNothingSwallowed
=============================================================================
