----------------------------- MODULE EyesInbox ------------------------------
(***************************************************************************)
(* Intake, scripts/eyes_inbox.py: scan_inbox takes the files of inbox/,    *)
(* one by one in order of their names, to processed/ with a manifest and a *)
(* queue item, or to failed/ when a manifest has their hash already.       *)
(*                                                                         *)
(* A file is told from the others by its name and content, and place says  *)
(* where it is; a scan knows it by its name only.  An artifact has the id  *)
(* <<scan, name>>: _uid is fresh, and a scan meets a name once.  Files are *)
(* dropped by people and by android_eyes_inbox_kit, at any time.           *)
(*                                                                         *)
(* Left out: what routing_hint, preview and priority say, and the counts.  *)
(***************************************************************************)
EXTENDS Naturals, FiniteSets

CONSTANTS
  Names,        \* file names, numbered in the order of sorted(iterdir())
  Contents,
  Scans,        \* calls of scan_inbox
  NoMove,       \* those with --no-move
  TornWrites,   \* TRUE: a failed write may leave half a file
  Faults,       \* the operations that may raise (storage full, I/O error)
  MaxMishaps,   \* BOUND: kills and exceptions in a behaviour
  NoFile, Torn, Empty, None

Files == Names \X Contents
NameOf(f) == f[1]
Ids == Scans \X Names
Hashes == Contents \cup {Empty}
TryPCs == {"hashing", "discarding", "building", "moving", "manifesting",
           "queueing"}
PCs == {"idle", "listing", "next", "failing", "done", "dead"} \cup TryPCs

ASSUME InboxAssumption ==
  /\ Names \subseteq Nat /\ IsFiniteSet(Names)
  /\ NoMove \subseteq Scans
  /\ TornWrites \in BOOLEAN
  /\ Faults \subseteq TryPCs \cup {"failing"}
  /\ MaxMishaps \in Nat
ASSUME InboxMarkerAssumption ==
  /\ {NoFile, Torn, Empty} \cap Contents = {}
  /\ "pending" \notin {NoFile, Torn}
  /\ NoFile # Torn /\ NoFile # Empty /\ Torn # Empty
  /\ None \notin Names \cup Hashes /\ NoFile \notin Files

VARIABLES
  place,      \* of each file: its directory
  whole,      \* of each file: all of its content has been written
  stored,     \* processed/<id>__<name>
  manifests,  \* manifests/<id>.json: its sha256
  items,      \* queue/pending/*.json, the item that refers to an artifact
  failures,   \* failed/failed__<name>.json
  pc, known, todo, cur,   \* of a scan: existing_hashes, listing, item
  sha,                    \* of a scan: the artifact's sha256
  mishaps

files == <<place, whole, stored>>
records == <<manifests, items, failures>>
local == <<known, todo, cur, sha>>
vars == <<files, records, pc, local, mishaps>>

(* What each directory of the intake and each variable of a scan may hold. *)
TypeOK ==
  /\ place \in [Files ->
       {"outside", "inbox", "processed", "duplicate", "overwritten"}]
  /\ whole \in [Files -> BOOLEAN]
  /\ stored \in [Ids -> Files \cup {NoFile}]
  /\ manifests \in [Ids -> Hashes \cup {NoFile, Torn}]
  /\ items \in [Ids -> {"pending", NoFile, Torn}]
  /\ failures \subseteq Names
  /\ pc \in [Scans -> PCs]
  /\ known \in [Scans -> SUBSET Hashes]
  /\ todo \in [Scans -> SUBSET Names]
  /\ cur \in [Scans -> Names \cup {None}]
  /\ sha \in [Scans -> Hashes \cup {None}]
  /\ mishaps \in Nat

-----------------------------------------------------------------------------
Live(p) == pc[p] \notin {"idle", "done", "dead"}
Goto(p, label) == pc' = [pc EXCEPT ![p] = label]
Id(p) == <<p, cur[p]>>

At(n) == {f \in Files : place[f] = "inbox" /\ NameOf(f) = n}
Sha256(f) == IF whole[f] THEN f[2] ELSE Empty
ExistingHashes == {manifests[id] : id \in Ids} \cap Hashes

Init ==
  /\ place = [f \in Files |-> "outside"]
  /\ whole = [f \in Files |-> FALSE]
  /\ stored = [id \in Ids |-> NoFile]
  /\ manifests = [id \in Ids |-> NoFile]
  /\ items = [id \in Ids |-> NoFile]
  /\ failures = {}
  /\ pc = [p \in Scans |-> "idle"]
  /\ known = [p \in Scans |-> {}]
  /\ todo = [p \in Scans |-> {}]
  /\ cur = [p \in Scans |-> None]
  /\ sha = [p \in Scans |-> None]
  /\ mishaps = 0

-----------------------------------------------------------------------------
(* android_eyes_inbox_drop_text, _drop_url and _stage_file: _unique_path   *)
(* picks a name that is free.  A file that is moved in has its content at  *)
(* once, one that is written in place does not.                            *)
Drop(f) ==
  /\ place[f] = "outside" /\ At(NameOf(f)) = {}
  /\ place' = [place EXCEPT ![f] = "inbox"]
  /\ \E complete \in BOOLEAN : whole' = [whole EXCEPT ![f] = complete]
  /\ UNCHANGED <<stored, records, pc, local, mishaps>>

(* The open file gets its content wherever a scan has moved it meanwhile.  *)
Fill(f) ==
  /\ place[f] # "outside" /\ ~whole[f]
  /\ whole' = [whole EXCEPT ![f] = TRUE]
  /\ UNCHANGED <<place, stored, records, pc, local, mishaps>>

-----------------------------------------------------------------------------
(* existing_hashes, then the listing of the inbox.                         *)
Start(p) ==
  /\ pc[p] = "idle"
  /\ known' = [known EXCEPT ![p] = ExistingHashes]
  /\ Goto(p, "listing")
  /\ UNCHANGED <<files, records, todo, cur, sha, mishaps>>

List(p) ==
  /\ pc[p] = "listing"
  /\ todo' = [todo EXCEPT ![p] = {n \in Names : At(n) # {}}]
  /\ Goto(p, "next")
  /\ UNCHANGED <<files, records, known, cur, sha, mishaps>>

(* The next name; one that is gone is not is_file and is skipped.          *)
Take(p) ==
  /\ pc[p] = "next"
  /\ \E n \in todo[p] :
       /\ \A k \in todo[p] : n <= k
       /\ todo' = [todo EXCEPT ![p] = @ \ {n}]
       /\ IF At(n) = {}
            THEN UNCHANGED <<pc, cur>>
            ELSE cur' = [cur EXCEPT ![p] = n] /\ Goto(p, "hashing")
  /\ UNCHANGED <<files, records, known, sha, mishaps>>

End(p) ==
  /\ pc[p] = "next" /\ todo[p] = {}
  /\ Goto(p, "done")
  /\ UNCHANGED <<files, records, local, mishaps>>

(* An operation on a file that has gone raises.                            *)
Gone(p) ==
  /\ pc[p] \in {"hashing", "discarding", "building", "moving"}
  /\ At(cur[p]) = {}
  /\ Goto(p, "failing")
  /\ UNCHANGED <<files, records, local, mishaps>>

Hash(p) ==
  /\ pc[p] = "hashing"
  /\ \E f \in At(cur[p]) :
       Goto(p, IF Sha256(f) \notin known[p] THEN "building"
               ELSE IF p \in NoMove THEN "next" ELSE "discarding")
  /\ UNCHANGED <<files, records, local, mishaps>>

(* shutil.move to failed/duplicate__<name>, over what has that name.       *)
Discard(p) ==
  /\ pc[p] = "discarding"
  /\ \E f \in At(cur[p]) :
       place' = [g \in Files |->
         IF g = f THEN "duplicate"
         ELSE IF place[g] = "duplicate" /\ NameOf(g) = NameOf(f)
                THEN "overwritten" ELSE place[g]]
  /\ Goto(p, "next")
  /\ UNCHANGED <<whole, stored, records, local, mishaps>>

(* _build_artifact reads and hashes the file once more.                    *)
Build(p) ==
  /\ pc[p] = "building"
  /\ \E f \in At(cur[p]) : sha' = [sha EXCEPT ![p] = Sha256(f)]
  /\ Goto(p, IF p \in NoMove THEN "manifesting" ELSE "moving")
  /\ UNCHANGED <<files, records, known, todo, cur, mishaps>>

MoveByName(p) ==            \* variant: processed/<name>, without the id
  /\ pc[p] = "moving"
  /\ \E f \in At(cur[p]) :
       /\ place' = [g \in Files |->
            IF g = f THEN "processed"
            ELSE IF place[g] = "processed" /\ NameOf(g) = NameOf(f)
                   THEN "overwritten" ELSE place[g]]
       /\ stored' = [stored EXCEPT ![Id(p)] = f]
  /\ Goto(p, "manifesting")
  /\ UNCHANGED <<whole, records, local, mishaps>>

CopyToProcessed(p) ==       \* variant: a copy, removed by someone later
  /\ pc[p] = "moving"
  /\ \E f \in At(cur[p]) : stored' = [stored EXCEPT ![Id(p)] = f]
  /\ Goto(p, "manifesting")
  /\ UNCHANGED <<place, whole, records, local, mishaps>>

(* _move_to_processed *)
Move(p) ==
  /\ pc[p] = "moving"
  /\ \E f \in At(cur[p]) :
       /\ place' = [place EXCEPT ![f] = "processed"]
       /\ stored' = [stored EXCEPT ![Id(p)] = f]
  /\ Goto(p, "manifesting")
  /\ UNCHANGED <<whole, records, local, mishaps>>

WriteItemFirst(p) ==        \* variant: the queue item, no manifest yet
  /\ pc[p] = "manifesting"
  /\ items' = [items EXCEPT ![Id(p)] = "pending"]
  /\ manifests' = manifests
  /\ Goto(p, "queueing")
  /\ UNCHANGED <<files, failures, local, mishaps>>

WriteManifest(p) ==
  /\ pc[p] = "manifesting"
  /\ manifests' = [manifests EXCEPT ![Id(p)] = sha[p]]
  /\ Goto(p, "queueing")
  /\ UNCHANGED <<files, items, failures, local, mishaps>>

LearnNothing(p) == known            \* variant: the hash is not added
LearnId(p) == [known EXCEPT ![p] = @ \cup {Id(p)}]   \* variant: the id is
Learn(p) == [known EXCEPT ![p] = @ \cup {sha[p]}]

WriteOneItem(p) ==          \* variant: one queue file for all of a scan
  /\ pc[p] = "queueing"
  /\ items' = [id \in Ids |-> IF id = Id(p) THEN "pending"
                              ELSE IF id[1] = p THEN NoFile ELSE items[id]]
  /\ known' = Learn(p)
  /\ Goto(p, "next")
  /\ UNCHANGED <<files, manifests, failures, todo, cur, sha, mishaps>>

(* The queue item, and existing_hashes.add.                                *)
WriteItem(p) ==
  /\ pc[p] = "queueing"
  /\ items' = [items EXCEPT ![Id(p)] = "pending"]
  /\ known' = Learn(p)
  /\ Goto(p, "next")
  /\ UNCHANGED <<files, manifests, failures, todo, cur, sha, mishaps>>

(* The except clause.                                                      *)
RecordFailure(p) ==
  /\ pc[p] = "failing"
  /\ failures' = failures \cup {cur[p]}
  /\ Goto(p, "next")
  /\ UNCHANGED <<files, manifests, items, local, mishaps>>

-----------------------------------------------------------------------------
Mishap == mishaps < MaxMishaps /\ mishaps' = mishaps + 1

(* What becomes of the file a scan was writing when it was cut short.      *)
HalfWritten(p) ==
  /\ manifests' \in
       {manifests} \cup IF TornWrites /\ pc[p] = "manifesting"
                        THEN {[manifests EXCEPT ![Id(p)] = Torn]} ELSE {}
  /\ items' \in
       {items} \cup IF TornWrites /\ pc[p] = "queueing"
                    THEN {[items EXCEPT ![Id(p)] = Torn]} ELSE {}
  /\ UNCHANGED failures

(* An exception goes to the except clause, one raised there ends the scan. *)
Raise(p) ==
  /\ pc[p] \in Faults /\ Mishap
  /\ HalfWritten(p)
  /\ Goto(p, IF pc[p] = "failing" THEN "dead" ELSE "failing")
  /\ UNCHANGED <<files, local>>

Kill(p) ==
  /\ Live(p) /\ Mishap
  /\ HalfWritten(p)
  /\ Goto(p, "dead")
  /\ UNCHANGED <<files, local>>

Scan(p) ==
  \/ Start(p) \/ List(p) \/ Take(p) \/ End(p)
  \/ Hash(p) \/ Discard(p) \/ Build(p) \/ Move(p) \/ Gone(p)
  \/ WriteManifest(p) \/ WriteItem(p) \/ RecordFailure(p)

Next ==
  \/ \E f \in Files : Drop(f) \/ Fill(f)
  \/ \E p \in Scans : Scan(p) \/ Raise(p) \/ Kill(p)

Spec == Init /\ [][Next]_vars

-----------------------------------------------------------------------------
Quiet == \A p \in Scans : ~Live(p)
Dropped == {f \in Files : place[f] # "outside" /\ whole[f]}
ItemsFor(content) == {id \in Ids : items[id] = "pending"
                                   /\ manifests[id] = content}

(* What the operator dropped is never lost: a file with that content is in *)
(* inbox/, processed/ or failed/, although failed/duplicate__<name> is     *)
(* overwritten by the next duplicate of that name.                         *)
ContentRetained ==
  \A f \in Dropped : \E g \in Files :
    g[2] = f[2] /\ whole[g] /\ place[g] \notin {"outside", "overwritten"}

(* However scans overlap, a file is taken by one of them only.             *)
IngestedOnce ==
  \A i, j \in Ids : stored[i] = stored[j] /\ stored[i] # NoFile => i = j

(* A queue item is not seen before the manifest that it refers to and the  *)
(* file that was moved for it, even by a worker that runs meanwhile.       *)
ItemHasManifest ==
  \A id \in Ids : items[id] # NoFile =>
    /\ manifests[id] \in Hashes
    /\ id[1] \in NoMove \/ stored[id] # NoFile

(* A worker that picks up a queue item finds the manifest it refers to and *)
(* the artifact whose hash the manifest states.                            *)
ItemBacked ==
  \A id \in Ids : items[id] # NoFile =>
    \E f \in Files : stored[id] = f /\ manifests[id] = f[2]

(* One queue item for a content, however often it is dropped.              *)
QueuedOnce == \A content \in Contents : Cardinality(ItemsFor(content)) <= 1

(* When no scan was killed and nothing raised, all that has left the inbox *)
(* has a queue item.                                                       *)
NothingSwallowed ==
  Quiet /\ mishaps = 0 =>
    \A f \in Dropped : place[f] = "inbox" \/ ItemsFor(f[2]) # {}
=============================================================================
