----------------------------- MODULE ReviewGate -----------------------------
(***************************************************************************)
(* The human gate of the Eyes lane: scripts/eyes_review_gate.py            *)
(* (emit_review_required, decide_review) and                               *)
(* scripts/eyes_review_gate_support.py (the audit trail and the leases).   *)
(*                                                                         *)
(* A decision is one process that writes an audit event, for an approval   *)
(* also a lease and a second event, then moves the review out of           *)
(* review/pending.  Every file operation is an action.  A file's SHA-256   *)
(* stands for the file, so an event's previous_event_sha256 is the name of *)
(* the event it was read from.                                             *)
(*                                                                         *)
(* Left out: review_required.json (written, never read), the notification, *)
(* what a lease permits, and commands that stop at their arguments or at a *)
(* review that is not in review/pending: they change nothing.              *)
(***************************************************************************)
EXTENDS Naturals

CONSTANTS
  Reviews,      \* review ids
  Deciders,     \* runs of the --approve or --reject command
  Verdicts,     \* what the operator may ask for
  Overlap,      \* TRUE: two decisions may be under way at once
  TornWrites,   \* TRUE: a kill may leave a half-written file
  MaxMishaps,   \* BOUND: kills in a behaviour
  NoFile, Torn, Unborn, None

ASSUME GateAssumption ==
  /\ Verdicts \subseteq {"APPROVED", "REJECTED"}
  /\ Overlap \in BOOLEAN
  /\ TornWrites \in BOOLEAN
  /\ MaxMishaps \in Nat

Present == "present"
Names == Nat                           \* timestamp_ns of an event; 0: none
Record == [event : Names, lease : Deciders \cup {None}]

ASSUME MarkerAssumption ==
  /\ NoFile # Torn /\ {NoFile, Torn} \cap Record = {}
  /\ None \notin Reviews \cup Deciders
  /\ Unborn \notin {NoFile, Torn, Present} /\ Present \notin {NoFile, Torn}

VARIABLES
  pending,      \* review/pending/<review>.json
  decided,      \* review/approved and review/rejected
  events,       \* audit/events, the readable ones
  tornEvents,   \* names of the audit events that cannot be read
  leases,       \* leases/active; a lease's id names the decider that made it
  clock,        \* time.time_ns()
  pc, review, verdict,   \* control and arguments of a decision
  kind,                  \* event_type of the event being emitted
  stamp, prev,           \* its timestamp_ns and previous_event_sha256
  decision,              \* name of the decision event; audit_event_ref
  mishaps

files   == <<pending, decided, events, tornEvents, leases>>
args    == <<review, verdict>>
emitting == <<kind, stamp, prev, decision>>
vars    == <<files, clock, pc, args, emitting, mishaps>>

Event ==
  [at : Names, kind : {"review_decision", "lease_minted"},
   review : Reviews, verdict : Verdicts, lease : Deciders \cup {None},
   prev : Names]
Lease ==
  [id : Deciders, review : Reviews, decision : Names, minted : Names]
PCs == {"idle", "stamping", "linking", "logging", "leasing", "referring",
        "filing", "clearing", "done", "error", "dead"}

(* What each directory of the gate and each variable of a decision may     *)
(* hold.                                                                   *)
TypeOK ==
  /\ pending \in [Reviews -> {Unborn, Present, Torn, NoFile}]
  /\ decided \in [Verdicts -> [Reviews -> Record \cup {NoFile, Torn}]]
  /\ events \subseteq Event
  /\ tornEvents \subseteq Names
  /\ leases \subseteq Lease
  /\ clock \in Nat
  /\ pc \in [Deciders -> PCs]
  /\ review \in [Deciders -> Reviews \cup {None}]
  /\ verdict \in [Deciders -> Verdicts \cup {None}]
  /\ kind \in [Deciders -> {"review_decision", "lease_minted"}]
  /\ stamp \in [Deciders -> Names]
  /\ prev \in [Deciders -> Names]
  /\ decision \in [Deciders -> Names]
  /\ mishaps \in Nat

-----------------------------------------------------------------------------
Live(d) == pc[d] \notin {"idle", "done", "error", "dead"}
MayStart(d) == Overlap \/ \A o \in Deciders \ {d} : ~Live(o)
Goto(d, label) == pc' = [pc EXCEPT ![d] = label]

Init ==
  /\ pending = [r \in Reviews |-> Unborn]
  /\ decided = [v \in Verdicts |-> [r \in Reviews |-> NoFile]]
  /\ events = {} /\ tornEvents = {} /\ leases = {}
  /\ clock = 0
  /\ pc = [d \in Deciders |-> "idle"]
  /\ review = [d \in Deciders |-> None]
  /\ verdict = [d \in Deciders |-> None]
  /\ kind = [d \in Deciders |-> "review_decision"]
  /\ stamp = [d \in Deciders |-> 0]
  /\ prev = [d \in Deciders |-> 0]
  /\ decision = [d \in Deciders |-> 0]
  /\ mishaps = 0

(* emit_review_required, called by the worker and by recovery, under a new *)
(* review id.                                                              *)
EmitReviewRequired(r) ==
  /\ pending[r] = Unborn
  /\ pending' = [pending EXCEPT ![r] = Present]
  /\ UNCHANGED <<decided, events, tornEvents, leases, clock, pc, args,
                 emitting, mishaps>>

-----------------------------------------------------------------------------
(* decide_review *)

ResolveToLease(d) ==         \* variant: the lease comes before the audit
  /\ pc[d] = "idle" /\ MayStart(d)
  /\ \E r \in Reviews, v \in Verdicts :
       /\ pending[r] = Present
       /\ review' = [review EXCEPT ![d] = r]
       /\ verdict' = [verdict EXCEPT ![d] = v]
       /\ Goto(d, IF v = "APPROVED" THEN "leasing" ELSE "stamping")
  /\ UNCHANGED <<files, clock, emitting, mishaps>>

ResolveUnread(d) ==          \* variant: the review itself is not read
  /\ pc[d] = "idle" /\ MayStart(d)
  /\ \E r \in Reviews, v \in Verdicts :
       /\ pending[r] = Present
       /\ verdict' = [verdict EXCEPT ![d] = v]
  /\ Goto(d, "stamping")
  /\ UNCHANGED <<files, clock, review, emitting, mishaps>>

(* The review is found in review/pending and read; one that is torn raises *)
(* at once and changes nothing.                                            *)
Resolve(d) ==
  /\ pc[d] = "idle" /\ MayStart(d)
  /\ \E r \in Reviews, v \in Verdicts :
       /\ pending[r] = Present
       /\ review' = [review EXCEPT ![d] = r]
       /\ verdict' = [verdict EXCEPT ![d] = v]
  /\ Goto(d, "stamping")
  /\ UNCHANGED <<files, clock, emitting, mishaps>>

(* emit_audit_event: the timestamp is taken first ...                      *)
Stamp(d) ==
  /\ pc[d] = "stamping"
  /\ clock' = clock + 1
  /\ stamp' = [stamp EXCEPT ![d] = clock + 1]
  /\ Goto(d, "linking")
  /\ UNCHANGED <<files, args, kind, prev, decision, mishaps>>

LatestOf(S) == {n \in S : \A m \in S : m <= n}
EventNames == {e.at : e \in events} \cup tornEvents

LinkOldest(d) ==             \* variant: events[0] for events[-1]
  /\ pc[d] = "linking"
  /\ \/ EventNames = {} /\ prev' = [prev EXCEPT ![d] = 0]
     \/ \E n \in EventNames :
          /\ \A m \in EventNames : n <= m
          /\ prev' = [prev EXCEPT ![d] = n]
  /\ Goto(d, "logging")
  /\ UNCHANGED <<files, clock, args, kind, stamp, decision, mishaps>>

(* ... then previous_event_sha reads the event whose name sorts last, and  *)
(* raises if it is torn ...                                                *)
Link(d) ==
  /\ pc[d] = "linking"
  /\ \/ EventNames = {}
        /\ prev' = [prev EXCEPT ![d] = 0]
        /\ Goto(d, "logging")
     \/ \E n \in LatestOf(EventNames) :
          IF n \in tornEvents
            THEN Goto(d, "error") /\ UNCHANGED prev
            ELSE prev' = [prev EXCEPT ![d] = n] /\ Goto(d, "logging")
  /\ UNCHANGED <<files, clock, args, kind, stamp, decision, mishaps>>

EventOf(d) ==
  [at |-> stamp[d], kind |-> kind[d], review |-> review[d],
   verdict |-> verdict[d],
   lease |-> IF kind[d] = "lease_minted" THEN d ELSE None,
   prev |-> prev[d]]

AfterLog(d) ==
  IF kind[d] = "lease_minted" THEN "referring"
  ELSE IF verdict[d] = "APPROVED" THEN "leasing" ELSE "filing"

LogAndFile(d) ==             \* variant: minted_event_ref is never written
  /\ pc[d] = "logging"
  /\ events' = events \cup {EventOf(d)}
  /\ decision' = IF kind[d] = "review_decision"
                   THEN [decision EXCEPT ![d] = stamp[d]] ELSE decision
  /\ Goto(d, IF AfterLog(d) = "leasing" THEN "leasing" ELSE "filing")
  /\ UNCHANGED <<pending, decided, tornEvents, leases, clock, args, kind,
                 stamp, prev, mishaps>>

(* ... and the event file is created.                                      *)
Log(d) ==
  /\ pc[d] = "logging"
  /\ events' = events \cup {EventOf(d)}
  /\ decision' = IF kind[d] = "review_decision"
                   THEN [decision EXCEPT ![d] = stamp[d]] ELSE decision
  /\ Goto(d, AfterLog(d))
  /\ UNCHANGED <<pending, decided, tornEvents, leases, clock, args, kind,
                 stamp, prev, mishaps>>

(* mint_execution_lease: a new lease file, its audit event, and the lease  *)
(* again with minted_event_ref.                                            *)
WriteLease(d) ==
  /\ pc[d] = "leasing"
  /\ leases' = leases \cup {[id |-> d, review |-> review[d],
                             decision |-> decision[d], minted |-> 0]}
  /\ kind' = [kind EXCEPT ![d] = "lease_minted"]
  /\ Goto(d, "stamping")
  /\ UNCHANGED <<pending, decided, events, tornEvents, clock, args, stamp,
                 prev, decision, mishaps>>

LeaseBy(d) == {l \in leases : l.id = d}

ReferLease(d) ==
  /\ pc[d] = "referring"
  /\ leases' = (leases \ LeaseBy(d))
                 \cup {[l EXCEPT !.minted = stamp[d]] : l \in LeaseBy(d)}
  /\ Goto(d, "filing")
  /\ UNCHANGED <<pending, decided, events, tornEvents, clock, args, emitting,
                 mishaps>>

RecordOf(d) ==
  [event |-> decision[d],
   lease |-> IF verdict[d] = "APPROVED" THEN d ELSE None]

FileOver(d) ==               \* variant: write_json instead of write_json_new
  /\ pc[d] = "filing"
  /\ decided' = [decided EXCEPT ![verdict[d]][review[d]] = RecordOf(d)]
  /\ Goto(d, "clearing")
  /\ UNCHANGED <<pending, events, tornEvents, leases, clock, args, emitting,
                 mishaps>>

FileInMemory(d) ==           \* variant: the decided review is not written
  /\ pc[d] = "filing"
  /\ Goto(d, "clearing")
  /\ UNCHANGED <<files, clock, args, emitting, mishaps>>

(* write_json_new refuses to replace an earlier record of the same verdict *)
File(d) ==
  /\ pc[d] = "filing"
  /\ IF decided[verdict[d]][review[d]] = NoFile
       THEN /\ decided' = [decided EXCEPT
                             ![verdict[d]][review[d]] = RecordOf(d)]
            /\ Goto(d, "clearing")
       ELSE Goto(d, "error") /\ UNCHANGED decided
  /\ UNCHANGED <<pending, events, tornEvents, leases, clock, args, emitting,
                 mishaps>>

(* pending_path.unlink raises when another decision was faster.            *)
Clear(d) ==
  /\ pc[d] = "clearing"
  /\ IF pending[review[d]] = NoFile
       THEN Goto(d, "error") /\ UNCHANGED pending
       ELSE /\ pending' = [pending EXCEPT ![review[d]] = NoFile]
            /\ Goto(d, "done")
  /\ UNCHANGED <<decided, events, tornEvents, leases, clock, args, emitting,
                 mishaps>>

-----------------------------------------------------------------------------
Mishap == mishaps < MaxMishaps /\ mishaps' = mishaps + 1

Kill(d) ==
  /\ Live(d) /\ Mishap
  /\ Goto(d, "dead")
  /\ UNCHANGED <<files, clock, args, emitting>>

(* The kill comes inside a write: a new audit event, a decided review or   *)
(* the lease that is being rewritten is left half-written.  (A lease that  *)
(* is half-written when it is new is no lease.)                            *)
KillMidWrite(d) ==
  /\ TornWrites /\ Live(d) /\ Mishap
  /\ Goto(d, "dead")
  /\ \/ /\ pc[d] = "logging"
        /\ tornEvents' = tornEvents \cup {stamp[d]}
        /\ UNCHANGED <<decided, leases>>
     \/ /\ pc[d] = "referring"
        /\ leases' = leases \ LeaseBy(d)
        /\ UNCHANGED <<decided, tornEvents>>
     \/ /\ pc[d] = "filing"
        /\ decided[verdict[d]][review[d]] = NoFile
        /\ decided' = [decided EXCEPT ![verdict[d]][review[d]] = Torn]
        /\ UNCHANGED <<leases, tornEvents>>
  /\ UNCHANGED <<pending, events, clock, args, emitting>>

(* The worker is killed while it emits a review.                           *)
EmitTorn(r) ==
  /\ TornWrites /\ Mishap
  /\ pending[r] = Unborn
  /\ pending' = [pending EXCEPT ![r] = Torn]
  /\ UNCHANGED <<decided, events, tornEvents, leases, clock, pc, args,
                 emitting>>

Decide(d) ==
  \/ Resolve(d) \/ Stamp(d) \/ Link(d) \/ Log(d)
  \/ WriteLease(d) \/ ReferLease(d) \/ File(d) \/ Clear(d)

Next ==
  \/ \E r \in Reviews : EmitReviewRequired(r) \/ EmitTorn(r)
  \/ \E d \in Deciders : Decide(d) \/ Kill(d) \/ KillMidWrite(d)

Spec == Init /\ [][Next]_vars

-----------------------------------------------------------------------------
Readable(file) == file \notin {NoFile, Torn}

(* No lease without an approval on record: whatever is killed and however  *)
(* decisions overlap, a lease's decision_event_ref is an audit event that  *)
(* approves the lease's own review.                                        *)
LeaseBacked ==
  \A l \in leases : \E e \in events :
    /\ e.at = l.decision /\ e.kind = "review_decision"
    /\ e.review = l.review /\ e.verdict = "APPROVED"

(* A review in review/approved comes with its lease: minted for it under   *)
(* the decision the review names, and minted on record.                    *)
ApprovedCarriesLease ==
  "APPROVED" \in Verdicts =>
    \A r \in Reviews : Readable(decided["APPROVED"][r]) =>
      \E l \in leases, e \in events :
        /\ l.id = decided["APPROVED"][r].lease /\ l.review = r
        /\ l.decision = decided["APPROVED"][r].event
        /\ e.at = l.minted /\ e.kind = "lease_minted" /\ e.lease = l.id

(* A review is never lost: when it has left review/pending, an intact      *)
(* record of a decision on it exists.                                      *)
ReviewRetained ==
  \A r \in Reviews : pending[r] = NoFile =>
    \E v \in Verdicts : Readable(decided[v][r])

(* A recorded decision stands: no later command, retry or rival rewrites   *)
(* the record of it.                                                       *)
DecisionFrozen ==
  [][\A v \in Verdicts, r \in Reviews :
       Readable(decided[v][r]) => decided'[v][r] = decided[v][r]]_vars

(* The audit events form one chain in the order of their names: each one   *)
(* carries the hash of its predecessor.                                    *)
ChainLinear ==
  \A e \in events :
    LET earlier == {n \in EventNames : n < e.at} IN
    IF earlier = {} THEN e.prev = 0 ELSE e.prev \in LatestOf(earlier)

(* One approval, one lease: a review never has two active leases.          *)
OneLeasePerReview ==
  \A l, m \in leases : l.review = m.review => l = m

(* A review the operator has rejected leaves no active lease behind.       *)
RejectedHasNoLease ==
  \A d \in Deciders :
    pc[d] = "done" /\ verdict[d] = "REJECTED" =>
      \A l \in leases : l.review # review[d]

(* A review is approved or rejected, not both.                             *)
DecidedOnce ==
  \A r \in Reviews, v, w \in Verdicts :
    Readable(decided[v][r]) /\ Readable(decided[w][r]) => v = w

(* A pending review can be decided: a decision that is not killed does not *)
(* fail while its review is still pending.                                 *)
PendingIsDecidable ==
  \A d \in Deciders : pc[d] = "error" => pending[review[d]] = NoFile
=============================================================================
