-------------------------- MODULE ReviewGateProofs --------------------------
(***************************************************************************)
(* Proofs about ReviewGate, for any number of reviews, of decisions under  *)
(* way at once, and of kills, inside writes or between them.               *)
(***************************************************************************)
EXTENDS ReviewGateMC, TLAPS

(* A decision that has started knows its review and its verdict.           *)
Typed ==
  /\ TypeOK
  /\ \A d \in Deciders : pc[d] # "idle" =>
       review[d] \in Reviews /\ verdict[d] \in Verdicts

(* The types hold at the start.                                            *)
LEMMA TypedInit == Init => Typed
  BY DEF Init, Typed, TypeOK, PCs, Names

(* Every step keeps the types.                                             *)
LEMMA TypedStep == Typed /\ [Next]_vars => Typed'
<1> SUFFICES ASSUME Typed, [Next]_vars PROVE Typed'
  OBVIOUS
<1> USE GateAssumption DEF Typed, TypeOK, Names, PCs, Goto
<1>1. ASSUME NEW r \in Reviews, EmitReviewRequired(r) PROVE Typed'
  BY <1>1 DEF EmitReviewRequired, args, emitting
<1>2. ASSUME NEW r \in Reviews, EmitTorn(r) PROVE Typed'
  BY <1>2 DEF EmitTorn, Mishap, args, emitting
<1>3. ASSUME NEW d \in Deciders, Resolve(d) PROVE Typed'
  BY <1>3 DEF Resolve, files, emitting
<1>4. ASSUME NEW d \in Deciders, Stamp(d) PROVE Typed'
  BY <1>4 DEF Stamp, files, args
<1>5. ASSUME NEW d \in Deciders, Link(d) PROVE Typed'
  <2>1. EventNames \subseteq Nat
    <3>1. \A e \in events : e.at \in Nat
      BY DEF Event
    <3>2. tornEvents \subseteq Nat
      OBVIOUS
    <3> HIDE DEF Typed, TypeOK
    <3> QED
      BY <3>1, <3>2 DEF EventNames
  <2> QED
    BY <1>5, <2>1 DEF Link, LatestOf, files, args
<1>6. ASSUME NEW d \in Deciders, Log(d) PROVE Typed'
  <2>1. EventOf(d) \in Event
    BY <1>6 DEF Log, EventOf, Event
  <2>2. AfterLog(d) \in PCs
    BY DEF AfterLog
  <2> QED
    BY <1>6, <2>1, <2>2 DEF Log, args
<1>7. ASSUME NEW d \in Deciders, WriteLease(d) PROVE Typed'
  BY <1>7 DEF WriteLease, Lease, args
<1>8. ASSUME NEW d \in Deciders, ReferLease(d) PROVE Typed'
  <2>1. leases' \subseteq Lease
    BY <1>8 DEF ReferLease, LeaseBy, Lease
  <2> QED
    BY <1>8, <2>1 DEF ReferLease, args, emitting
<1>9. ASSUME NEW d \in Deciders, File(d) PROVE Typed'
  <2>1. RecordOf(d) \in Record
    BY DEF RecordOf, Record
  <2> QED
    BY <1>9, <2>1 DEF File, args, emitting
<1>10. ASSUME NEW d \in Deciders, Clear(d) PROVE Typed'
  BY <1>10 DEF Clear, args, emitting
<1>11. ASSUME NEW d \in Deciders, Kill(d) PROVE Typed'
  BY <1>11 DEF Kill, Live, Mishap, files, args, emitting
<1>12. ASSUME NEW d \in Deciders, KillMidWrite(d) PROVE Typed'
  <2>1. /\ pc[d] # "idle" /\ pc' = [pc EXCEPT ![d] = "dead"]
        /\ mishaps' \in Nat
        /\ UNCHANGED <<pending, events, clock, review, verdict, kind, stamp,
                       prev, decision>>
    BY <1>12 DEF KillMidWrite, Live, Mishap, args, emitting
  <2>2. /\ tornEvents' \in {tornEvents, tornEvents \cup {stamp[d]}}
        /\ leases' \in {leases, leases \ LeaseBy(d)}
    BY <1>12 DEF KillMidWrite
  <2>3. decided' \in [Verdicts -> [Reviews -> Record \cup {NoFile, Torn}]]
    BY <1>12, <2>1 DEF KillMidWrite
  <2> QED
    BY <2>1, <2>2, <2>3
<1>13. CASE UNCHANGED vars
  BY <1>13 DEF vars, files, args, emitting
<1> QED
  BY <1>1, <1>2, <1>3, <1>4, <1>5, <1>6, <1>7, <1>8, <1>9, <1>10, <1>11,
     <1>12, <1>13 DEF Next, Decide

(* The files and the state of every decision have the types that TypeOK    *)
(* gives them, in every reachable state.                                   *)
THEOREM GateTyped == Spec => []TypeOK
<1>1. Typed => TypeOK
  BY DEF Typed
<1> QED
  BY TypedInit, TypedStep, <1>1, PTL DEF Spec

-----------------------------------------------------------------------------
(* A decision counts as logged from the creation of its event on.          *)
DecisionLogged(d) ==
  \/ pc[d] \in {"leasing", "referring", "filing", "clearing"}
  \/ pc[d] \in {"stamping", "linking", "logging"} /\ kind[d] = "lease_minted"

Recorded(d) ==
  \E e \in events : /\ e.at = decision[d] /\ e.kind = "review_decision"
                    /\ e.review = review[d] /\ e.verdict = verdict[d]

(* The kind of event and the verdict fit the place of the decision.        *)
Placed(d) ==
  /\ pc[d] \in {"idle", "leasing"} => kind[d] = "review_decision"
  /\ pc[d] = "referring" => kind[d] = "lease_minted"
  /\ pc[d] = "leasing" \/ kind[d] = "lease_minted" => verdict[d] = "APPROVED"
  /\ pc[d] \in {"filing", "clearing"} /\ verdict[d] = "APPROVED" =>
       kind[d] = "lease_minted"

(* The strengthening of LeaseBacked: a decision that is about to mint has  *)
(* its own approval on record.                                             *)
Backed ==
  /\ LeaseBacked
  /\ \A d \in Deciders : Placed(d) /\ (DecisionLogged(d) => Recorded(d))

(* Before any decision there is no lease.                                  *)
LEMMA BackedInit == Init => Backed
  BY DEF Init, Backed, LeaseBacked, Placed, DecisionLogged

(* Every step keeps leases backed.                                         *)
LEMMA BackedStep == Typed /\ Backed /\ [Next]_vars => Backed'
<1> SUFFICES ASSUME Typed, Backed, [Next]_vars PROVE Backed'
  OBVIOUS
<1> USE GateAssumption DEF Typed, TypeOK, Goto
<1>a. ASSUME events \subseteq events', leases' \subseteq leases
      PROVE LeaseBacked'
  BY <1>a DEF Backed, LeaseBacked
<1>b. ASSUME NEW d \in Deciders, events \subseteq events',
             UNCHANGED <<pc[d], kind[d], decision[d], review[d], verdict[d]>>
      PROVE Placed(d)' /\ (DecisionLogged(d)' => Recorded(d)')
  BY <1>b DEF Backed, Placed, DecisionLogged, Recorded
<1>1. ASSUME NEW r \in Reviews, EmitReviewRequired(r) \/ EmitTorn(r)
      PROVE Backed'
  BY <1>1, <1>a, <1>b DEF EmitReviewRequired, EmitTorn, Backed, args, emitting
<1>c. ASSUME NEW d \in Deciders, events \subseteq events',
             \A o \in Deciders \ {d} :
               UNCHANGED <<pc[o], kind[o], decision[o], review[o], verdict[o]>>,
             LeaseBacked', Placed(d)', DecisionLogged(d)' => Recorded(d)'
      PROVE Backed'
  BY <1>b, <1>c DEF Backed
<1>3. ASSUME NEW d \in Deciders, Resolve(d) PROVE Backed'
  <2>1. LeaseBacked'
    BY <1>3, <1>a DEF Resolve, files
  <2>2. Placed(d)' /\ (DecisionLogged(d)' => Recorded(d)')
    BY <1>3 DEF Resolve, Backed, Placed, DecisionLogged, files, emitting
  <2> QED
    BY <1>3, <2>1, <2>2, <1>c DEF Resolve, files, emitting
<1>4. ASSUME NEW d \in Deciders, Stamp(d) \/ Link(d) PROVE Backed'
  <2>1. LeaseBacked'
    BY <1>4, <1>a DEF Stamp, Link, files
  <2>2. Placed(d)' /\ (DecisionLogged(d)' => Recorded(d)')
    BY <1>4 DEF Stamp, Link, Backed, Placed, DecisionLogged, Recorded,
                files, args
  <2> QED
    BY <1>4, <2>1, <2>2, <1>c DEF Stamp, Link, files, args
<1>6. ASSUME NEW d \in Deciders, Log(d) PROVE Backed'
  <2>1. LeaseBacked'
    BY <1>6, <1>a DEF Log
  <2>2. Placed(d)'
    BY <1>6 DEF Log, AfterLog, Backed, Placed, args
  <2>3. Recorded(d)'
    <3>1. CASE kind[d] = "lease_minted"
      BY <1>6, <3>1 DEF Log, Backed, DecisionLogged, Recorded, args
    <3>2. CASE kind[d] = "review_decision"
      <4>1. EventOf(d) \in events' /\ decision'[d] = stamp[d]
        BY <1>6, <3>2 DEF Log
      <4> QED
        BY <1>6, <3>2, <4>1 DEF Log, Recorded, EventOf, args
    <3> QED
      BY <3>1, <3>2
  <2> QED
    BY <1>6, <2>1, <2>2, <2>3, <1>c DEF Log, args
<1>7. ASSUME NEW d \in Deciders, WriteLease(d) PROVE Backed'
  <2>1. LeaseBacked'
    <3>1. Recorded(d) /\ verdict[d] = "APPROVED"
      BY <1>7 DEF WriteLease, Backed, DecisionLogged, Placed
    <3> QED
      BY <1>7, <3>1 DEF WriteLease, Backed, LeaseBacked, Recorded
  <2>2. Placed(d)' /\ (DecisionLogged(d)' => Recorded(d)')
    BY <1>7 DEF WriteLease, Backed, Placed, DecisionLogged, Recorded, args
  <2> QED
    BY <1>7, <2>1, <2>2, <1>c DEF WriteLease, args
<1>8. ASSUME NEW d \in Deciders, ReferLease(d) PROVE Backed'
  <2>1. LeaseBacked'
    BY <1>8 DEF ReferLease, LeaseBy, Lease, Backed, LeaseBacked
  <2>2. Placed(d)' /\ (DecisionLogged(d)' => Recorded(d)')
    BY <1>8 DEF ReferLease, Backed, Placed, DecisionLogged, Recorded,
                args, emitting
  <2> QED
    BY <1>8, <2>1, <2>2, <1>c DEF ReferLease, args, emitting
<1>9. ASSUME NEW d \in Deciders, File(d) \/ Clear(d) PROVE Backed'
  <2>1. LeaseBacked'
    BY <1>9, <1>a DEF File, Clear
  <2>2. Placed(d)' /\ (DecisionLogged(d)' => Recorded(d)')
    BY <1>9 DEF File, Clear, Backed, Placed, DecisionLogged, Recorded,
                args, emitting
  <2> QED
    BY <1>9, <2>1, <2>2, <1>c DEF File, Clear, args, emitting
<1>10. ASSUME NEW d \in Deciders, Kill(d) \/ KillMidWrite(d) PROVE Backed'
  <2>1. events' = events /\ leases' \subseteq leases
    BY <1>10 DEF Kill, KillMidWrite, LeaseBy, files
  <2>2. LeaseBacked'
    BY <2>1, <1>a
  <2>3. Placed(d)' /\ (DecisionLogged(d)' => Recorded(d)')
    BY <1>10 DEF Kill, KillMidWrite, Backed, Placed, DecisionLogged, args,
                 emitting
  <2> QED
    BY <1>10, <2>1, <2>2, <2>3, <1>c DEF Kill, KillMidWrite, args, emitting
<1>11. CASE UNCHANGED vars
  BY <1>11, <1>a, <1>b DEF vars, files, args, emitting, Backed
<1> QED
  BY <1>1, <1>3, <1>4, <1>6, <1>7, <1>8, <1>9, <1>10, <1>11 DEF Next, Decide

(* No lease without an approval on record: every lease in leases/active    *)
(* names an audit event that approves its own review, however decisions    *)
(* overlap and wherever they are killed.                                   *)
THEOREM LeasesBacked == Spec => []LeaseBacked
<1>1. Backed => LeaseBacked
  BY DEF Backed
<1> QED
  BY TypedInit, TypedStep, BackedInit, BackedStep, <1>1, PTL DEF Spec
-----------------------------------------------------------------------------
(* The strengthening of ReviewRetained: whoever is about to clear          *)
(* review/pending has put the record of its decision in place.             *)
Retained ==
  /\ ReviewRetained
  /\ \A d \in Deciders : pc[d] = "clearing" =>
       Readable(decided[verdict[d]][review[d]])

(* A recorded decision outlives every step.                                *)
LEMMA RecordsStay ==
  ASSUME Typed, [Next]_vars, NEW v \in Verdicts, NEW r \in Reviews,
         Readable(decided[v][r])
  PROVE  decided'[v][r] = decided[v][r]
<1> USE DEF Typed, TypeOK, Readable
<1>1. ASSUME NEW d \in Deciders, File(d) PROVE decided'[v][r] = decided[v][r]
  <2>1. pc[d] # "idle"
    BY <1>1 DEF File
  <2> QED
    BY <1>1, <2>1 DEF File
<1>2. ASSUME NEW d \in Deciders, KillMidWrite(d)
      PROVE  decided'[v][r] = decided[v][r]
  <2>1. pc[d] # "idle"
    BY <1>2 DEF KillMidWrite, Live
  <2> QED
    BY <1>2, <2>1 DEF KillMidWrite
<1>3. ASSUME UNCHANGED decided PROVE decided'[v][r] = decided[v][r]
  BY <1>3
<1> QED
  BY <1>1, <1>2, <1>3 DEF Next, Decide, EmitReviewRequired, EmitTorn, Resolve,
     Stamp, Link, Log, WriteLease, ReferLease, Clear, Kill, vars, files

(* No review has left review/pending at the start.                         *)
LEMMA RetainedInit == Init => Retained
  BY MarkerAssumption DEF Init, Retained, ReviewRetained

(* Every step keeps the record of a review that has left review/pending.   *)
LEMMA RetainedStep == Typed /\ Retained /\ [Next]_vars => Retained'
<1> SUFFICES ASSUME Typed, Retained, [Next]_vars PROVE Retained'
  OBVIOUS
<1> USE MarkerAssumption DEF Typed, TypeOK, Goto
<1>1. \A v \in Verdicts, r \in Reviews :
        Readable(decided[v][r]) => Readable(decided'[v][r])
  BY RecordsStay
<1>2. ASSUME NEW r \in Reviews, pending'[r] = NoFile, pending[r] # NoFile
      PROVE  \E d \in Deciders : Clear(d) /\ review[d] = r
  <2>1. ASSUME NEW d \in Deciders, Clear(d) PROVE review[d] = r
    BY <1>2, <2>1 DEF Clear
  <2>2. ASSUME NEW d \in Deciders, Decide(d) PROVE Clear(d)
    BY <1>2, <2>2 DEF Decide, Resolve, Stamp, Link, Log, WriteLease,
       ReferLease, File, files
  <2>3. ASSUME NEW d \in Deciders PROVE ~Kill(d) /\ ~KillMidWrite(d)
    BY <1>2 DEF Kill, KillMidWrite, files
  <2>4. ASSUME NEW q \in Reviews
        PROVE  ~EmitReviewRequired(q) /\ ~EmitTorn(q)
    BY <1>2 DEF EmitReviewRequired, EmitTorn
  <2>5. ~UNCHANGED vars
    BY <1>2 DEF vars, files
  <2> QED
    BY <2>1, <2>2, <2>3, <2>4, <2>5 DEF Next
<1>3. ReviewRetained'
  <2> SUFFICES ASSUME NEW r \in Reviews, pending'[r] = NoFile
               PROVE  \E v \in Verdicts : Readable(decided'[v][r])
    BY DEF ReviewRetained, Readable
  <2>1. CASE pending[r] = NoFile
    BY <2>1, <1>1 DEF Retained, ReviewRetained
  <2>2. CASE pending[r] # NoFile
    <3>1. PICK d \in Deciders : Clear(d) /\ review[d] = r
      BY <2>2, <1>2
    <3>2. verdict[d] \in Verdicts /\ Readable(decided[verdict[d]][r])
      BY <3>1 DEF Clear, Retained
    <3> QED
      BY <3>2, <1>1
  <2> QED
    BY <2>1, <2>2
<1>4. ASSUME NEW d \in Deciders, pc'[d] = "clearing"
      PROVE  Readable(decided'[verdict'[d]][review'[d]])
  <2>1. CASE File(d)
    <3>1. pc[d] = "filing" /\ decided[verdict[d]][review[d]] = NoFile
      BY <1>4, <2>1 DEF File
    <3>2. RecordOf(d) \in Record
      BY <3>1 DEF RecordOf, Record
    <3>3. decided'[verdict[d]][review[d]] = RecordOf(d)
      BY <3>1, <2>1 DEF File
    <3> QED
      BY <2>1, <3>2, <3>3 DEF File, args, Readable
  <2>2. CASE ~File(d)
    <3> DEFINE Same == pc[d] = "clearing" /\ UNCHANGED <<verdict[d], review[d]>>
    <3>1. ASSUME NEW o \in Deciders, Resolve(o) \/ Stamp(o) \/ Link(o) PROVE Same
      BY <1>4, <3>1 DEF Resolve, Stamp, Link, args
    <3>2. ASSUME NEW o \in Deciders, Log(o) PROVE Same
      BY <1>4, <3>2 DEF Log, AfterLog, args
    <3>3. ASSUME NEW o \in Deciders, WriteLease(o) \/ ReferLease(o) PROVE Same
      BY <1>4, <3>3 DEF WriteLease, ReferLease, args
    <3>4. ASSUME NEW o \in Deciders, File(o) PROVE Same
      BY <1>4, <2>2, <3>4 DEF File, args
    <3>5. ASSUME NEW o \in Deciders, Clear(o) PROVE Same
      BY <1>4, <3>5 DEF Clear, args
    <3>6. ASSUME NEW o \in Deciders, Kill(o) \/ KillMidWrite(o) PROVE Same
      BY <1>4, <3>6 DEF Kill, KillMidWrite, args
    <3>7. Same
      BY <1>4, <3>1, <3>2, <3>3, <3>4, <3>5, <3>6
         DEF Next, Decide, EmitReviewRequired, EmitTorn, vars, args
    <3> QED
      BY <3>7, <1>1 DEF Retained
  <2> QED
    BY <2>1, <2>2
<1> QED
  BY <1>3, <1>4 DEF Retained, Readable

(* A review is never lost: once it has left review/pending, an intact      *)
(* record of a decision on it exists, whatever is killed.                  *)
THEOREM ReviewsRetained == Spec => []ReviewRetained
<1>1. Retained => ReviewRetained
  BY DEF Retained
<1> QED
  BY TypedInit, TypedStep, RetainedInit, RetainedStep, <1>1, PTL DEF Spec

(* A recorded decision stands: no step rewrites a record that can be read. *)
THEOREM DecisionsFrozen == Spec => DecisionFrozen
<1>1. Typed /\ [Next]_vars =>
        [\A v \in Verdicts, r \in Reviews :
           Readable(decided[v][r]) => decided'[v][r] = decided[v][r]]_vars
  BY RecordsStay
<1> QED
  BY TypedInit, TypedStep, <1>1, PTL DEF Spec, DecisionFrozen
-----------------------------------------------------------------------------
(* What decisions that take turns know of the audit trail: the one under   *)
(* way has the newest timestamp, and once it has read the latest event, no *)
(* other event comes in between.                                           *)
NamesPast == \A n \in EventNames : n <= clock
Newest(d) ==
  /\ pc[d] \in {"linking", "logging"} =>
       stamp[d] = clock /\ \A n \in EventNames : n < stamp[d]
  /\ pc[d] = "logging" =>
       IF EventNames = {} THEN prev[d] = 0 ELSE prev[d] \in LatestOf(EventNames)

Chained ==
  Solo /\ NamesPast /\ ChainLinear /\ \A d \in Deciders : Newest(d)

(* A step of decision d, which is under way before it or after it.         *)
TurnOf(d) ==
  /\ Live(d) \/ Live(d)'
  /\ \E l \in PCs : pc' = [pc EXCEPT ![d] = l]

(* The names of the audit events are numbers.                              *)
LEMMA NamesTyped == Typed => EventNames \subseteq Nat
<1> SUFFICES ASSUME Typed PROVE EventNames \subseteq Nat
  OBVIOUS
<1>1. \A e \in events : e.at \in Nat
  BY DEF Typed, TypeOK, Event, Names
<1>2. tornEvents \subseteq Nat
  BY DEF Typed, TypeOK, Names
<1> QED
  BY <1>1, <1>2 DEF EventNames

(* So only the trail and what d knows of it are at stake.                  *)
LEMMA TurnKeeps ==
  ASSUME Typed, Chained, Solo', NEW d \in Deciders, TurnOf(d),
         NamesPast', ChainLinear', Newest(d)'
  PROVE  Chained'
<1>1. \A o \in Deciders \ {d} : pc'[o] = pc[o]
  BY DEF TurnOf, Typed, TypeOK
<1>2. \A o \in Deciders \ {d} : ~Live(o)'
  <2>1. CASE Live(d)
    <3>1. \A o \in Deciders \ {d} : ~Live(o)
      BY <2>1 DEF Chained, Solo
    <3> QED
      BY <1>1, <3>1 DEF Live
  <2>2. CASE Live(d)'
    BY <2>2 DEF Solo
  <2> QED
    BY <2>1, <2>2 DEF TurnOf
<1>3. \A o \in Deciders \ {d} : Newest(o)'
  BY <1>2 DEF Newest, Live
<1> QED
  BY <1>3 DEF Chained

(* An event keeps its predecessor when all new names come after it.        *)
LEMMA EarlierKept ==
  ASSUME Typed, EventNames \subseteq EventNames',
         \A n \in EventNames' \ EventNames, m \in EventNames : m < n,
         EventNames' \subseteq Nat, NEW e \in events
  PROVE  {n \in EventNames : n < e.at}' = {n \in EventNames : n < e.at}
<1>1. PICK a \in EventNames : a = e.at
  BY DEF EventNames
<1>2. EventNames \subseteq Nat
  BY NamesTyped
<1>3. \A n \in EventNames' \ EventNames : a < n /\ n \in Nat /\ a \in Nat
  BY <1>2
<1>4. \A n \in EventNames' \ EventNames : ~(n < a)
  BY <1>3
<1> QED
  BY <1>1, <1>4

(* A torn event that comes after all others leaves the chain as it is.     *)
LEMMA ChainKept ==
  ASSUME Typed, ChainLinear, UNCHANGED events,
         EventNames \subseteq EventNames', EventNames' \subseteq Nat,
         \A n \in EventNames' \ EventNames, m \in EventNames : m < n
  PROVE  ChainLinear'
<1> SUFFICES ASSUME NEW e \in events
             PROVE  LET earlier == {n \in EventNames : n < e.at}' IN
                    IF earlier = {} THEN e.prev = 0
                    ELSE e.prev \in LatestOf(earlier)
  BY DEF ChainLinear, LatestOf
<1> QED
  BY EarlierKept DEF ChainLinear

(* At the start there are no events.                                       *)
LEMMA ChainedInit == Init => Chained
  BY DEF Init, Chained, Solo, NamesPast, Newest, ChainLinear, EventNames, Live

(* Decisions that do not overlap take turns.                               *)
LEMMA SoloStep ==
  ASSUME Overlap = FALSE, Typed, Solo, [Next]_vars
  PROVE  Solo'
<1>1. ASSUME NEW d \in Deciders, Decide(d) \/ Kill(d) \/ KillMidWrite(d)
      PROVE  Solo'
  <2>1. Live(d) \/ MayStart(d)
    BY <1>1 DEF Decide, Resolve, Stamp, Link, Log, WriteLease, ReferLease,
                File, Clear, Kill, KillMidWrite, Live
  <2>2. \A o \in Deciders \ {d} : ~Live(o)
    BY <2>1 DEF MayStart, Solo
  <2>3. \A o \in Deciders \ {d} : pc'[o] = pc[o]
    <3>1. pc \in [Deciders -> PCs]
      BY DEF Typed, TypeOK
    <3> USE DEF Goto
    <3>2. CASE Resolve(d) \/ Stamp(d) \/ Link(d) \/ Log(d)
      BY <3>1, <3>2 DEF Resolve, Stamp, Link, Log
    <3>3. CASE WriteLease(d) \/ ReferLease(d) \/ File(d) \/ Clear(d)
      BY <3>1, <3>3 DEF WriteLease, ReferLease, File, Clear
    <3>4. CASE Kill(d) \/ KillMidWrite(d)
      BY <3>1, <3>4 DEF Kill, KillMidWrite
    <3> QED
      BY <1>1, <3>2, <3>3, <3>4 DEF Decide
  <2>4. \A o \in Deciders \ {d} : ~Live(o)'
    BY <2>2, <2>3 DEF Live
  <2> QED
    BY <2>4 DEF Solo
<1>2. ASSUME UNCHANGED pc PROVE Solo'
  BY <1>2 DEF Solo, Live
<1>3. ASSUME NEW r \in Reviews, EmitReviewRequired(r) \/ EmitTorn(r)
      PROVE  UNCHANGED pc
  BY <1>3 DEF EmitReviewRequired, EmitTorn
<1> QED
  BY <1>1, <1>2, <1>3 DEF Next, vars

(* Every step of decisions that take turns keeps the chain.                *)
LEMMA ChainedStep ==
  ASSUME Solo', Typed, Typed', Chained, [Next]_vars
  PROVE  Chained'
<1> USE DEF Goto
<1>0. /\ EventNames \subseteq Nat /\ EventNames' \subseteq Nat
      /\ clock \in Nat /\ pc \in [Deciders -> PCs]
      /\ stamp \in [Deciders -> Nat] /\ prev \in [Deciders -> Nat]
  <2>1. \A e \in events' : e.at \in Nat
    BY DEF Typed, TypeOK, Event, Names
  <2>2. tornEvents' \subseteq Nat
    BY DEF Typed, TypeOK, Names
  <2>3. EventNames' \subseteq Nat
    BY <2>1, <2>2 DEF EventNames
  <2>4. /\ clock \in Nat /\ pc \in [Deciders -> PCs]
        /\ stamp \in [Deciders -> Nat] /\ prev \in [Deciders -> Nat]
    BY DEF Typed, TypeOK, Names
  <2> QED
    BY NamesTyped, <2>3, <2>4
<1>a. ASSUME UNCHANGED <<events, tornEvents>>
      PROVE  EventNames' = EventNames /\ ChainLinear'
  <2>1. EventNames' = EventNames
    BY <1>a DEF EventNames
  <2> QED
    BY <1>0, <1>a, <2>1, ChainKept DEF Chained
<1>b. ASSUME NEW d \in Deciders, TurnOf(d),
             UNCHANGED <<events, tornEvents, clock>>,
             pc'[d] \notin {"linking", "logging"}
      PROVE  Chained'
  <2>1. NamesPast'
    BY <1>a, <1>b DEF Chained, NamesPast
  <2>2. Newest(d)'
    BY <1>b DEF Newest
  <2> QED
    BY <1>a, <1>b, <2>1, <2>2, TurnKeeps
<1>1. ASSUME NEW r \in Reviews, EmitReviewRequired(r) \/ EmitTorn(r)
      PROVE  Chained'
  <2>1. UNCHANGED <<events, tornEvents, clock, pc, stamp, prev>>
    BY <1>1 DEF EmitReviewRequired, EmitTorn, args, emitting
  <2>2. NamesPast' /\ \A d \in Deciders : Newest(d)'
    BY <1>a, <2>1 DEF Chained, NamesPast, Newest
  <2> QED
    BY <1>a, <2>1, <2>2 DEF Chained
<1>3. ASSUME NEW d \in Deciders, Resolve(d) PROVE Chained'
  <2>1. /\ pc' = [pc EXCEPT ![d] = "stamping"]
        /\ UNCHANGED <<events, tornEvents, clock>>
    BY <1>3 DEF Resolve, files
  <2>2. pc'[d] = "stamping"
    BY <1>0, <2>1
  <2> QED
    BY <1>b, <2>1, <2>2 DEF TurnOf, Live, PCs
<1>4. ASSUME NEW d \in Deciders, Stamp(d) PROVE Chained'
  <2>1. /\ pc[d] = "stamping" /\ pc' = [pc EXCEPT ![d] = "linking"]
        /\ clock' = clock + 1 /\ stamp'[d] = clock + 1
        /\ UNCHANGED <<events, tornEvents>>
    BY <1>0, <1>4 DEF Stamp, files
  <2>2. TurnOf(d)
    BY <2>1 DEF TurnOf, Live, PCs
  <2>3. \A n \in EventNames : n < clock + 1 /\ n <= clock + 1
    BY <1>0 DEF Chained, NamesPast
  <2>4. NamesPast'
    BY <1>a, <2>1, <2>3 DEF NamesPast
  <2>5. Newest(d)'
    BY <1>0, <1>a, <2>1, <2>3 DEF Newest
  <2> QED
    BY <1>a, <2>1, <2>2, <2>4, <2>5, TurnKeeps
<1>5. ASSUME NEW d \in Deciders, Link(d) PROVE Chained'
  <2>1. /\ pc[d] = "linking" /\ UNCHANGED <<events, tornEvents, clock, stamp>>
        /\ \/ pc' = [pc EXCEPT ![d] = "error"]
           \/ /\ pc' = [pc EXCEPT ![d] = "logging"]
              /\ IF EventNames = {} THEN prev'[d] = 0
                 ELSE prev'[d] \in LatestOf(EventNames)
    <3>1. pc[d] = "linking" /\ UNCHANGED <<events, tornEvents, clock, stamp>>
      BY <1>5 DEF Link, files
    <3>2. CASE EventNames = {}
      <4>1. LatestOf(EventNames) = {}
        BY <3>2 DEF LatestOf
      <4>2. /\ prev' = [prev EXCEPT ![d] = 0]
            /\ pc' = [pc EXCEPT ![d] = "logging"]
        BY <1>5, <4>1 DEF Link
      <4> QED
        BY <1>0, <3>1, <3>2, <4>2
    <3>3. CASE EventNames # {}
      <4>1. PICK n \in LatestOf(EventNames) :
              \/ pc' = [pc EXCEPT ![d] = "error"]
              \/ pc' = [pc EXCEPT ![d] = "logging"]
                 /\ prev' = [prev EXCEPT ![d] = n]
        BY <1>5, <3>3 DEF Link
      <4> QED
        BY <1>0, <3>1, <3>3, <4>1
    <3> QED
      BY <3>1, <3>2, <3>3
  <2>2. TurnOf(d)
    BY <2>1 DEF TurnOf, Live, PCs
  <2>3. NamesPast'
    BY <1>a, <2>1 DEF Chained, NamesPast
  <2>4. Newest(d)
    BY DEF Chained
  <2>5. Newest(d)'
    BY <1>0, <1>a, <2>1, <2>4 DEF Newest
  <2> QED
    BY <1>a, <2>1, <2>2, <2>3, <2>5, TurnKeeps
<1>6. ASSUME NEW d \in Deciders, Log(d) PROVE Chained'
  <2>1. /\ pc[d] = "logging" /\ pc' = [pc EXCEPT ![d] = AfterLog(d)]
        /\ events' = events \cup {EventOf(d)}
        /\ UNCHANGED <<tornEvents, clock>>
    BY <1>6 DEF Log
  <2>2. /\ EventOf(d).at = stamp[d] /\ EventOf(d).prev = prev[d]
        /\ stamp[d] \in Nat
    BY <1>0 DEF EventOf
  <2>3. /\ stamp[d] = clock /\ \A n \in EventNames : n < stamp[d]
        /\ IF EventNames = {} THEN prev[d] = 0
           ELSE prev[d] \in LatestOf(EventNames)
    BY <2>1 DEF Chained, Newest
  <2>4. EventNames' = EventNames \cup {stamp[d]}
    BY <2>1, <2>2 DEF EventNames
  <2>5. AfterLog(d) \in {"referring", "leasing", "filing"}
    BY DEF AfterLog
  <2>6. TurnOf(d)
    BY <2>1, <2>5 DEF TurnOf, Live, PCs
  <2>7. NamesPast'
    BY <1>0, <2>1, <2>3, <2>4 DEF Chained, NamesPast
  <2>8. Newest(d)'
    BY <1>0, <2>1, <2>5 DEF Newest
  <2>9. ChainLinear'
    <3> SUFFICES ASSUME NEW e \in events'
                 PROVE  LET earlier == {n \in EventNames : n < e.at}' IN
                        IF earlier = {} THEN e.prev = 0
                        ELSE e.prev \in LatestOf(earlier)
      BY DEF ChainLinear, LatestOf
    <3>1. CASE e \in events
      <4>1. {n \in EventNames : n < e.at}' = {n \in EventNames : n < e.at}
        BY <1>0, <2>3, <2>4, <3>1, EarlierKept
      <4> QED
        BY <3>1, <4>1 DEF Chained, ChainLinear
    <3>2. CASE e = EventOf(d)
      <4>1. e.at = stamp[d] /\ e.prev = prev[d]
        BY <2>2, <3>2
      <4>2. ~(stamp[d] < stamp[d])
        BY <2>2
      <4>3. {n \in EventNames : n < e.at}' = EventNames
        BY <2>3, <2>4, <4>1, <4>2
      <4> QED
        BY <2>3, <4>1, <4>3
    <3> QED
      BY <2>1, <3>1, <3>2
  <2> QED
    BY <2>6, <2>7, <2>8, <2>9, TurnKeeps
<1>7. ASSUME NEW d \in Deciders, WriteLease(d) \/ ReferLease(d) PROVE Chained'
  <2>1. /\ pc[d] \in {"leasing", "referring"}
        /\ \E l \in {"stamping", "filing"} : pc' = [pc EXCEPT ![d] = l]
        /\ UNCHANGED <<events, tornEvents, clock>>
    BY <1>7 DEF WriteLease, ReferLease
  <2> QED
    BY <1>0, <1>b, <2>1 DEF TurnOf, Live, PCs
<1>8. ASSUME NEW d \in Deciders, File(d) \/ Clear(d) PROVE Chained'
  <2>1. /\ pc[d] \in {"filing", "clearing"}
        /\ \E l \in {"clearing", "done", "error"} : pc' = [pc EXCEPT ![d] = l]
        /\ UNCHANGED <<events, tornEvents, clock>>
    BY <1>8 DEF File, Clear
  <2> QED
    BY <1>0, <1>b, <2>1 DEF TurnOf, Live, PCs
<1>9. ASSUME NEW d \in Deciders, Kill(d) PROVE Chained'
  <2>1. /\ Live(d) /\ pc' = [pc EXCEPT ![d] = "dead"]
        /\ UNCHANGED <<events, tornEvents, clock>>
    BY <1>9 DEF Kill, files
  <2> QED
    BY <1>0, <1>b, <2>1 DEF TurnOf, PCs
<1>10. ASSUME NEW d \in Deciders, KillMidWrite(d) PROVE Chained'
  <2>1. /\ Live(d) /\ pc' = [pc EXCEPT ![d] = "dead"]
        /\ UNCHANGED <<events, clock>>
        /\ \/ tornEvents' = tornEvents
           \/ pc[d] = "logging" /\ tornEvents' = tornEvents \cup {stamp[d]}
    BY <1>10 DEF KillMidWrite
  <2>2. CASE tornEvents' = tornEvents
    BY <1>0, <1>b, <2>1, <2>2 DEF TurnOf, PCs
  <2>3. CASE pc[d] = "logging" /\ tornEvents' = tornEvents \cup {stamp[d]}
    <3>1. stamp[d] = clock /\ \A n \in EventNames : n < stamp[d]
      BY <2>3 DEF Chained, Newest
    <3>2. EventNames' = EventNames \cup {stamp[d]}
      BY <2>1, <2>3 DEF EventNames
    <3>3. ChainLinear'
      BY <1>0, <2>1, <3>1, <3>2, ChainKept DEF Chained
    <3>4. NamesPast'
      BY <1>0, <2>1, <3>1, <3>2 DEF Chained, NamesPast
    <3>5. TurnOf(d) /\ Newest(d)'
      BY <1>0, <2>1 DEF TurnOf, Newest, PCs
    <3> QED
      BY <3>3, <3>4, <3>5, TurnKeeps
  <2> QED
    BY <2>1, <2>2, <2>3
<1>11. CASE UNCHANGED vars
  <2>1. UNCHANGED <<events, tornEvents, clock, pc, stamp, prev>>
    BY <1>11 DEF vars, files, emitting
  <2>2. NamesPast' /\ \A d \in Deciders : Newest(d)'
    BY <1>a, <2>1 DEF Chained, NamesPast, Newest
  <2> QED
    BY <1>a, <2>1, <2>2 DEF Chained
<1> QED
  BY <1>1, <1>3, <1>4, <1>5, <1>6, <1>7, <1>8, <1>9, <1>10, <1>11
     DEF Next, Decide

(* The audit events of decisions that take turns form one chain, although  *)
(* a kill may leave the latest one torn: no later decision gets past it.   *)
THEOREM ChainIsLinear ==
  ASSUME Overlap = FALSE
  PROVE  Spec => []ChainLinear
<1>1. Typed /\ Chained /\ [Next]_vars => (Typed /\ Chained)'
  <2>1. Chained => Solo
    BY DEF Chained
  <2> QED
    BY <2>1, TypedStep, SoloStep, ChainedStep
<1>2. Chained => ChainLinear
  BY DEF Chained
<1> QED
  BY TypedInit, ChainedInit, <1>1, <1>2, PTL DEF Spec

(* The run of ReviewGateMC is one of ReviewGate: what is proved of Spec    *)
(* holds of it, in both modes.                                             *)
THEOREM RunIsSpec == MCSpec => Spec
<1>1. MCInit => Init
  BY DEF MCInit
<1>2. [MCNext]_<<vars, serial>> => [Next]_vars
  BY DEF MCNext
<1> QED
  BY <1>1, <1>2, PTL DEF MCSpec, Spec

(* Decisions that take turns leave one chain of audit events, although     *)
(* they are killed between writes and inside them.                         *)
THEOREM SerialChainIsLinear == MCSpec => []SerialChainLinear
<1> DEFINE Inv == Typed /\ (serial => Chained)
<1>1. MCInit => Inv
  BY TypedInit, ChainedInit DEF MCInit
<1>2. Inv /\ [MCNext]_<<vars, serial>> => Inv'
  <2> SUFFICES ASSUME Inv, [MCNext]_<<vars, serial>> PROVE Inv'
    OBVIOUS
  <2>1. [Next]_vars /\ serial' = serial
    BY DEF MCNext
  <2>2. Typed'
    BY <2>1, TypedStep
  <2>3. ASSUME serial PROVE Chained'
    <3>1. Chained
      BY <2>3
    <3>2. Solo'
      <4>1. CASE MCNext
        BY <2>3, <4>1 DEF MCNext
      <4>2. CASE UNCHANGED <<vars, serial>>
        <5>1. UNCHANGED pc
          BY <4>2 DEF vars
        <5> QED
          BY <3>1, <5>1 DEF Chained, Solo, Live
      <4> QED
        BY <4>1, <4>2
    <3> QED
      BY <2>1, <2>2, <3>1, <3>2, ChainedStep
  <2> QED
    BY <2>1, <2>2, <2>3
<1>3. Inv => SerialChainLinear
  BY DEF Chained, SerialChainLinear
<1> QED
  BY <1>1, <1>2, <1>3, PTL DEF MCSpec
-----------------------------------------------------------------------------
(* What an approving decision d has on file before it files its review:    *)
(* its lease, and the audit event of the minting.                          *)
LeaseOf(d, minted) ==
  [id |-> d, review |-> review[d], decision |-> decision[d],
   minted |-> minted]
Minted(d) ==
  \E e \in events :
    e.at = stamp[d] /\ e.kind = "lease_minted" /\ e.lease = d
Holds(d) ==
  /\ pc[d] \in {"stamping", "linking", "logging", "referring"}
     /\ kind[d] = "lease_minted" => LeaseOf(d, 0) \in leases
  /\ pc[d] = "referring" => Minted(d)
  /\ pc[d] = "filing" /\ verdict[d] = "APPROVED" =>
       Minted(d) /\ LeaseOf(d, stamp[d]) \in leases

(* An approved review carries the lease of a decision that is beyond       *)
(* filing, and so will not touch the lease again.                          *)
Over == {"clearing", "done", "error", "dead"}
Carries(record, r) ==
  /\ record.lease \in Deciders /\ pc[record.lease] \in Over
  /\ \E l \in leases, e \in events :
       /\ l.id = record.lease /\ l.review = r
       /\ l.decision = record.event
       /\ e.at = l.minted /\ e.kind = "lease_minted" /\ e.lease = l.id
Carried ==
  /\ \A d \in Deciders : Holds(d)
  /\ "APPROVED" \in Verdicts =>
       \A r \in Reviews : Readable(decided["APPROVED"][r]) =>
         Carries(decided["APPROVED"][r], r)

(* A step of decision d that keeps the events, and every lease but those   *)
(* of d.                                                                   *)
StepOf(d) ==
  /\ events \subseteq events'
  /\ \A l \in leases : l.id # d => l \in leases'
  /\ \A o \in Deciders \ {d} :
       UNCHANGED <<pc[o], kind[o], stamp[o], decision[o], review[o],
                   verdict[o]>>

(* Such a step leaves the other decisions with what they hold ...          *)
LEMMA OthersHold ==
  ASSUME NEW d \in Deciders, StepOf(d), NEW o \in Deciders \ {d}, Holds(o)
  PROVE  Holds(o)'
<1>1. UNCHANGED <<pc[o], kind[o], stamp[o], decision[o], review[o],
                  verdict[o]>>
  BY DEF StepOf
<1>2. Minted(o) => Minted(o)'
  BY <1>1 DEF StepOf, Minted
<1>3. \A m : LeaseOf(o, m)' = LeaseOf(o, m) /\ LeaseOf(o, m).id = o
  BY <1>1 DEF LeaseOf
<1>4. \A m : LeaseOf(o, m) \in leases => LeaseOf(o, m) \in leases'
  BY <1>3 DEF StepOf
<1>5. LeaseOf(o, 0) \in leases => LeaseOf(o, 0)' \in leases'
  BY <1>3, <1>4
<1>6. LeaseOf(o, stamp[o]) \in leases => LeaseOf(o, stamp[o])' \in leases'
  BY <1>1, <1>4 DEF LeaseOf
<1> QED
  BY <1>1, <1>2, <1>5, <1>6 DEF Holds

(* ... and every approved review with the lease it carries.                *)
LEMMA CarriesOn ==
  ASSUME NEW d \in Deciders, StepOf(d), pc[d] \in Over => pc'[d] \in Over,
         pc[d] \in Over => leases \subseteq leases',
         NEW record, NEW r, Carries(record, r)
  PROVE  Carries(record, r)'
<1>1. PICK l \in leases, e \in events :
        /\ l.id = record.lease /\ l.review = r
        /\ l.decision = record.event
        /\ e.at = l.minted /\ e.kind = "lease_minted" /\ e.lease = l.id
  BY DEF Carries
<1>2. l \in leases' /\ e \in events'
  BY <1>1 DEF StepOf, Carries
<1>3. record.lease \in Deciders /\ pc'[record.lease] \in Over
  BY DEF StepOf, Carries
<1> QED
  BY <1>1, <1>2, <1>3 DEF Carries
(* At the start no review has been approved.                               *)
LEMMA CarriedInit == Init => Carried
  BY DEF Init, Carried, Holds, Readable

(* Every step keeps leases with the reviews that they were minted for.     *)
LEMMA CarriedStep ==
  ASSUME Typed, Backed, Carried, [Next]_vars
  PROVE  Carried'
<1> USE DEF Goto
<1>0. /\ pc \in [Deciders -> PCs] /\ review \in [Deciders -> Reviews \cup {None}]
      /\ kind \in [Deciders -> {"review_decision", "lease_minted"}]
      /\ stamp \in [Deciders -> Nat] /\ decision \in [Deciders -> Nat]
      /\ leases \subseteq Lease
      /\ \A d \in Deciders : Holds(d) /\ Placed(d)
  BY DEF Typed, TypeOK, Names, Carried, Backed
<1>a. ASSUME NEW d \in Deciders, StepOf(d), Holds(d)', UNCHANGED decided,
             pc[d] \in Over => pc'[d] \in Over /\ leases \subseteq leases'
      PROVE  Carried'
  <2>1. \A o \in Deciders : Holds(o)'
    BY <1>0, <1>a, OthersHold
  <2>2. ASSUME "APPROVED" \in Verdicts, NEW r \in Reviews,
               Readable(decided["APPROVED"][r])
        PROVE  Carries(decided["APPROVED"][r], r)'
    <3>1. PICK record : record = decided["APPROVED"][r]
      OBVIOUS
    <3>2. Carries(record, r)
      BY <2>2, <3>1 DEF Carried
    <3>3. Carries(record, r)'
      BY <1>a, <3>2, CarriesOn
    <3> QED
      BY <1>a, <3>1, <3>3 DEF Carries
  <2> QED
    BY <1>a, <2>1, <2>2 DEF Carried, Readable
<1>1. ASSUME UNCHANGED <<decided, events, leases, pc, kind, stamp, decision,
                         review, verdict>>
      PROVE  Carried'
  BY <1>1 DEF Carried, Holds, Carries, Minted, LeaseOf, Readable
<1>2. ASSUME NEW r \in Reviews, EmitReviewRequired(r) \/ EmitTorn(r)
      PROVE  Carried'
  BY <1>1, <1>2 DEF EmitReviewRequired, EmitTorn, args, emitting
<1>3. ASSUME NEW d \in Deciders, Resolve(d) PROVE Carried'
  <2>1. /\ pc[d] = "idle" /\ pc'[d] = "stamping" /\ kind'[d] = kind[d]
        /\ UNCHANGED <<decided, leases>>
    BY <1>0, <1>3 DEF Resolve, files, emitting
  <2>2. StepOf(d)
    BY <1>0, <1>3 DEF Resolve, StepOf, files, emitting, Typed, TypeOK
  <2>3. Holds(d)'
    BY <1>0, <2>1 DEF Holds, Placed
  <2> QED
    BY <1>a, <2>1, <2>2, <2>3 DEF Over
<1>4. ASSUME NEW d \in Deciders, Stamp(d) \/ Link(d) PROVE Carried'
  <2>1. /\ pc[d] \in {"stamping", "linking"}
        /\ pc'[d] \in {"linking", "logging", "error"}
        /\ UNCHANGED <<decided, events, leases, kind, decision, review, verdict>>
    BY <1>0, <1>4 DEF Stamp, Link, files, args
  <2>2. StepOf(d)
    BY <1>0, <1>4 DEF Stamp, Link, StepOf, files, args
  <2>3. Holds(d)'
    <3>1. kind[d] = "lease_minted" => LeaseOf(d, 0) \in leases
      BY <1>0, <2>1 DEF Holds
    <3> QED
      BY <2>1, <3>1 DEF Holds, LeaseOf
  <2> QED
    BY <1>a, <2>1, <2>2, <2>3 DEF Over
<1>5. ASSUME NEW d \in Deciders, Log(d) PROVE Carried'
  <2>1. /\ pc[d] = "logging" /\ pc'[d] = AfterLog(d)
        /\ events' = events \cup {EventOf(d)}
        /\ kind[d] = "lease_minted" => decision' = decision
        /\ UNCHANGED <<decided, leases, kind, stamp, review, verdict>>
    BY <1>0, <1>5 DEF Log, args
  <2>2. StepOf(d)
    BY <1>0, <1>5 DEF Log, StepOf, args
  <2>3. Holds(d)'
    <3>1. CASE kind[d] = "lease_minted"
      <4>1. /\ EventOf(d).at = stamp[d] /\ EventOf(d).kind = "lease_minted"
            /\ EventOf(d).lease = d
        BY <3>1 DEF EventOf
      <4>2. Minted(d)'
        BY <2>1, <4>1 DEF Minted
      <4>3. LeaseOf(d, 0) \in leases /\ pc'[d] = "referring"
        BY <1>0, <2>1, <3>1 DEF Holds, AfterLog
      <4> QED
        BY <2>1, <3>1, <4>2, <4>3 DEF Holds, LeaseOf
    <3>2. CASE kind[d] # "lease_minted"
      BY <1>0, <2>1, <3>2 DEF Holds, AfterLog
    <3> QED
      BY <3>1, <3>2
  <2> QED
    BY <1>a, <2>1, <2>2, <2>3 DEF Over
<1>6. ASSUME NEW d \in Deciders, WriteLease(d) PROVE Carried'
  <2>1. /\ pc[d] = "leasing" /\ pc'[d] = "stamping"
        /\ leases' = leases \cup {LeaseOf(d, 0)}
        /\ UNCHANGED <<decided, decision, review>>
    BY <1>0, <1>6 DEF WriteLease, LeaseOf, args
  <2>2. StepOf(d)
    BY <1>0, <1>6 DEF WriteLease, StepOf, args
  <2>3. Holds(d)'
    BY <2>1 DEF Holds, LeaseOf
  <2> QED
    BY <1>a, <2>1, <2>2, <2>3 DEF Over
<1>7. ASSUME NEW d \in Deciders, ReferLease(d) PROVE Carried'
  <2>1. /\ pc[d] = "referring" /\ pc'[d] = "filing"
        /\ UNCHANGED <<decided, events, stamp, decision, review>>
    BY <1>0, <1>7 DEF ReferLease, args, emitting
  <2>2. StepOf(d)
    BY <1>0, <1>7 DEF ReferLease, StepOf, LeaseBy, args, emitting
  <2>3. LeaseOf(d, 0) \in LeaseBy(d) /\ Minted(d)
    BY <1>0, <2>1 DEF Holds, Placed, LeaseBy, LeaseOf
  <2>4. LeaseOf(d, stamp[d]) = [LeaseOf(d, 0) EXCEPT !.minted = stamp[d]]
    BY DEF LeaseOf
  <2>5. LeaseOf(d, stamp[d]) \in leases'
    BY <1>7, <2>3, <2>4 DEF ReferLease
  <2>6. Holds(d)'
    BY <2>1, <2>3, <2>5 DEF Holds, LeaseOf, Minted
  <2> QED
    BY <1>a, <2>1, <2>2, <2>6 DEF Over
<1>8. ASSUME NEW d \in Deciders, File(d) PROVE Carried'
  <2>1. /\ pc[d] = "filing" /\ pc'[d] \in {"clearing", "error"}
        /\ UNCHANGED <<events, leases, stamp, decision, review, verdict>>
    BY <1>0, <1>8 DEF File, args, emitting
  <2>2. StepOf(d)
    BY <1>0, <1>8 DEF File, StepOf, args, emitting
  <2>3. Holds(d)'
    BY <2>1 DEF Holds
  <2>4. \A o \in Deciders : Holds(o)'
    BY <1>0, <2>2, <2>3, OthersHold
  <2>5. ASSUME "APPROVED" \in Verdicts, NEW r \in Reviews,
               Readable(decided["APPROVED"][r])'
        PROVE  Carries(decided["APPROVED"][r], r)'
    <3>1. PICK record : record = decided'["APPROVED"][r]
      OBVIOUS
    <3>2. CASE decided'["APPROVED"][r] = decided["APPROVED"][r]
      <4>1. Carries(record, r)
        BY <2>5, <3>1, <3>2 DEF Carried, Readable
      <4>2. Carries(record, r)'
        BY <2>1, <2>2, <4>1, CarriesOn DEF Over
      <4> QED
        BY <3>1, <4>2 DEF Carries
    <3>3. CASE decided'["APPROVED"][r] # decided["APPROVED"][r]
      <4>1. /\ verdict[d] = "APPROVED" /\ review[d] = r
            /\ record = RecordOf(d) /\ pc'[d] = "clearing"
        <5>1. /\ decided' = [decided EXCEPT
                              ![verdict[d]][review[d]] = RecordOf(d)]
              /\ pc' = [pc EXCEPT ![d] = "clearing"]
          BY <1>8, <3>3 DEF File
        <5>2. verdict[d] = "APPROVED" /\ review[d] = r
          BY <3>3, <5>1 DEF Typed, TypeOK
        <5>3. decided'["APPROVED"][r] = RecordOf(d)
          BY <2>5, <5>1, <5>2 DEF Typed, TypeOK
        <5> QED
          BY <1>0, <3>1, <5>1, <5>2, <5>3
      <4>2. record.lease = d /\ record.event = decision[d]
        BY <4>1 DEF RecordOf
      <4>3. LeaseOf(d, stamp[d]) \in leases' /\ Minted(d)
        BY <1>0, <2>1, <4>1 DEF Holds
      <4>4. Carries(record, r)'
        BY <2>1, <4>1, <4>2, <4>3 DEF Carries, Minted, LeaseOf, Over
      <4> QED
        BY <3>1, <4>4 DEF Carries
    <3> QED
      BY <3>2, <3>3
  <2> QED
    BY <2>4, <2>5 DEF Carried
<1>9. ASSUME NEW d \in Deciders, Clear(d) PROVE Carried'
  <2>1. /\ pc[d] = "clearing" /\ pc'[d] \in {"done", "error"}
        /\ UNCHANGED <<decided, leases>>
    BY <1>0, <1>9 DEF Clear, args, emitting
  <2>2. StepOf(d)
    BY <1>0, <1>9 DEF Clear, StepOf, args, emitting
  <2>3. Holds(d)'
    BY <2>1 DEF Holds
  <2> QED
    BY <1>a, <2>1, <2>2, <2>3 DEF Over
<1>10. ASSUME NEW d \in Deciders, Kill(d) PROVE Carried'
  <2>1. Live(d) /\ pc'[d] = "dead" /\ UNCHANGED <<decided, leases>>
    BY <1>0, <1>10 DEF Kill, files
  <2>2. StepOf(d)
    BY <1>0, <1>10 DEF Kill, StepOf, files, args, emitting
  <2>3. Holds(d)'
    BY <2>1 DEF Holds
  <2> QED
    BY <1>a, <2>1, <2>2, <2>3 DEF Over
<1>11. ASSUME NEW d \in Deciders, KillMidWrite(d) PROVE Carried'
  <2>1. /\ pc[d] \in {"logging", "referring", "filing"} /\ pc'[d] = "dead"
        /\ pc' = [pc EXCEPT ![d] = "dead"]
        /\ leases' \in {leases, leases \ LeaseBy(d)}
        /\ UNCHANGED <<events, kind, stamp, decision, review, verdict>>
    BY <1>0, <1>11 DEF KillMidWrite, args, emitting
  <2>2. StepOf(d)
    BY <1>0, <2>1 DEF StepOf, LeaseBy
  <2>3. Holds(d)'
    BY <2>1 DEF Holds
  <2>4. \A o \in Deciders : Holds(o)'
    BY <1>0, <2>2, <2>3, OthersHold
  <2>5. ASSUME "APPROVED" \in Verdicts, NEW r \in Reviews,
               Readable(decided["APPROVED"][r])'
        PROVE  Carries(decided["APPROVED"][r], r)'
    <3>1. PICK record : record = decided'["APPROVED"][r]
      OBVIOUS
    <3>2. decided'["APPROVED"][r] = decided["APPROVED"][r]
      <4>1. \/ UNCHANGED decided
            \/ decided' = [decided EXCEPT ![verdict[d]][review[d]] = Torn]
        BY <1>11 DEF KillMidWrite
      <4> QED
        BY <2>5, <4>1 DEF Readable, Typed, TypeOK
    <3>3. Carries(record, r)
      BY <2>5, <3>1, <3>2 DEF Carried, Readable
    <3>4. Carries(record, r)'
      BY <2>1, <2>2, <3>3, CarriesOn DEF Over
    <3> QED
      BY <3>1, <3>4 DEF Carries
  <2> QED
    BY <2>4, <2>5 DEF Carried
<1>12. CASE UNCHANGED vars
  BY <1>1, <1>12 DEF vars, files, args, emitting
<1> QED
  BY <1>2, <1>3, <1>4, <1>5, <1>6, <1>7, <1>8, <1>9, <1>10, <1>11, <1>12
     DEF Next, Decide

(* A review in review/approved comes with its lease, minted for it under   *)
(* its own decision and with the minting on record, however decisions      *)
(* overlap and wherever they are killed.                                   *)
THEOREM ApprovalsCarryLeases == Spec => []ApprovedCarriesLease
<1>1. Typed /\ Backed /\ Carried /\ [Next]_vars => (Typed /\ Backed /\ Carried)'
  BY TypedStep, BackedStep, CarriedStep
<1>2. Carried => ApprovedCarriesLease
  BY DEF Carried, Carries, ApprovedCarriesLease
<1> QED
  BY TypedInit, BackedInit, CarriedInit, <1>1, <1>2, PTL DEF Spec
=============================================================================
