----------------------- MODULE OperationalWorldEngine -----------------------
(***************************************************************************)
(* What the operators of OperationalWorld compute, for any queue, any      *)
(* stream and any world: the two loops of a tick, the scan, the filter of  *)
(* the queue and the replay are folds, and what such a fold returns        *)
(* follows from its steps by induction on natural numbers (a least number  *)
(* that is not in a set), as the rules of induction over a predicate       *)
(* cannot be instantiated.                                                 *)
(***************************************************************************)
EXTENDS OperationalWorldMC, SequenceTheorems, WellFoundedInduction, TLAPS

-----------------------------------------------------------------------------
(* Induction on natural numbers, with a set for the predicate.             *)

(* A nonempty set of natural numbers has a least element.                  *)
LEMMA LeastNatural ==
  ASSUME NEW S \in SUBSET Nat, S # {}
  PROVE  \E m \in S : \A k \in S : m <= k
<1> DEFINE R == OpToRel(<, Nat)
<1>1. \A a, b \in Nat : <<a, b>> \in R <=> a < b
  BY DEF OpToRel
<1>2. IsWellFoundedOn(R, Nat)
  BY NatLessThanWellFounded
<1> HIDE DEF R
<1>3. \E x \in S : \A y \in S : ~(<<y, x>> \in R)
  BY <1>2, WFMin
<1>4. PICK m \in S : \A y \in S : ~(<<y, m>> \in R)
  BY <1>3
<1>5. ASSUME NEW k \in S PROVE m <= k
  <2>1. m \in Nat /\ k \in Nat
    OBVIOUS
  <2>2. ~(k < m)
    BY <1>4, <1>1, <2>1
  <2> QED
    BY <2>1, <2>2
<1> QED
  BY <1>5

(* Induction up to N: a set with 0 that is closed under adding one.        *)
LEMMA UpTo ==
  ASSUME NEW N \in Nat, NEW S, 0 \in S, \A n \in 0..(N - 1) : n \in S => n + 1 \in S
  PROVE  \A n \in 0..N : n \in S
<1>1. SUFFICES ASSUME (0..N) \ S # {} PROVE FALSE
  OBVIOUS
<1>2. (0..N) \ S \in SUBSET Nat
  OBVIOUS
<1>3. PICK m \in (0..N) \ S : \A k \in (0..N) \ S : m <= k
  BY <1>1, <1>2, LeastNatural
<1>4. m # 0 /\ m - 1 \in 0..(N - 1) /\ m - 1 \in 0..N /\ (m - 1) + 1 = m
  BY <1>3
<1>5. m - 1 \in S
  BY <1>3, <1>4
<1> QED
  BY <1>4, <1>5, <1>3

(* A nonempty finite set of indices has a greatest element, Max.           *)
LEMMA MaxOf ==
  ASSUME NEW N \in Nat, NEW s \in SUBSET (1..N), s # {}
  PROVE  Max(s) \in s /\ \A x \in s : Max(s) >= x
<1> DEFINE T == {k \in Nat : \A x \in s : x <= k}
<1>1. N \in T
  OBVIOUS
<1>2. PICK m \in T : \A k \in T : m <= k
  <2> HIDE DEF T
  <2>1. T \in SUBSET Nat
    BY DEF T
  <2> QED
    BY <1>1, <2>1, LeastNatural
<1>3. m \in s
  <2>1. SUFFICES ASSUME m \notin s PROVE FALSE
    OBVIOUS
  <2>2. PICK x \in s : TRUE
    OBVIOUS
  <2>3. m \in Nat /\ m >= 1 /\ \A y \in s : y \in Nat /\ y <= m
    BY <1>2, <2>2
  <2>4. \A y \in s : y <= m - 1
    BY <2>1, <2>3
  <2>5. m - 1 \in T
    BY <2>3, <2>4
  <2> QED
    BY <1>2, <2>5, <2>3
<1>4. \E x \in s : \A y \in s : x >= y
  <2>1. \A y \in s : m >= y
    BY <1>2
  <2> QED
    BY <1>3, <2>1
<1> QED
  BY <1>4 DEF Max

(* Taking the greatest of 1..n leaves 1..(n - 1).                          *)
LEMMA MaxUpTo ==
  ASSUME NEW n \in Nat, n > 0
  PROVE  Max(1..n) = n /\ (1..n) \ {Max(1..n)} = 1..(n - 1) /\ 1..n # {}
<1>1. n \in 1..n /\ 1..n \in SUBSET (1..n)
  OBVIOUS
<1>2. Max(1..n) \in 1..n /\ \A x \in 1..n : Max(1..n) >= x
  BY <1>1, MaxOf
<1>3. Max(1..n) = n
  BY <1>1, <1>2
<1> QED
  BY <1>1, <1>3

(* The values of a fold on the sets of indices, as MapThenFoldSet has      *)
(* them, and on the numbers of elements that have been taken.              *)
IsFold(it, base, N, step) ==
  \A s \in SUBSET (1..N) :
    it[s] = IF s = {} THEN base ELSE step[<<it[s \ {Max(s)}], Max(s)>>]

IsTrace(f, it, base, N, step) ==
  /\ f[0] = base /\ f[N] = it[1..N]
  /\ \A n \in 1..N : f[n] = step[<<f[n - 1], n>>]

Unfolds(it, X, base, N, step) ==
  /\ it[{}] = base
  /\ \A n \in 1..N : it[1..(n - 1)] \in X =>
                         it[1..n] = step[<<it[1..(n - 1)], n>>]

(* A fold from the left, as the community modules define it, exists.       *)
LEMMA FoldExists ==
  ASSUME NEW X, NEW base \in X, NEW N \in Nat, NEW step \in [X \X (1..N) -> X]
  PROVE  \E it \in [SUBSET (1..N) -> X] : IsFold(it, base, N, step)
<1> DEFINE Good(it, m) ==
             /\ it \in [SUBSET (1..m) -> X]
             /\ \A s \in SUBSET (1..m) :
                  it[s] = IF s = {} THEN base
                          ELSE step[<<it[s \ {Max(s)}], Max(s)>>]
           S == {m \in 0..N : \E it : Good(it, m)}
<1>1. 0 \in S
  <2>1. Good([s \in SUBSET (1..0) |-> base], 0)
    <3>1. \A s \in SUBSET (1..0) : s = {}
      OBVIOUS
    <3> QED
      BY <3>1
  <2>2. 0 \in 0..N
    OBVIOUS
  <2> HIDE DEF Good
  <2> QED
    BY <2>1, <2>2
<1>2. ASSUME NEW m \in 0..(N - 1), m \in S PROVE m + 1 \in S
  <2>1. PICK it : Good(it, m)
    BY <1>2
  <2> DEFINE nxt == [s \in SUBSET (1..(m + 1)) |->
                       IF m + 1 \notin s THEN it[s]
                       ELSE step[<<it[s \ {m + 1}], m + 1>>]]
  <2>2. ASSUME NEW s \in SUBSET (1..(m + 1)), m + 1 \in s
        PROVE  /\ s # {} /\ Max(s) = m + 1
               /\ s \ {m + 1} \in SUBSET (1..m)
               /\ m + 1 \notin s \ {m + 1}
    <3>1. s # {} /\ m + 1 \in Nat /\ \A x \in s : x \in Nat /\ x <= m + 1
      BY <2>2
    <3>2. Max(s) \in s /\ \A x \in s : Max(s) >= x
      BY <3>1, MaxOf
    <3>3. Max(s) = m + 1
      <4>1. PICK x : x = Max(s)
        OBVIOUS
      <4>2. x \in s /\ x >= m + 1 /\ x <= m + 1 /\ x \in Nat
        BY <3>1, <3>2, <2>2, <4>1
      <4> QED
        BY <4>1, <4>2
    <3>4. \A x \in s \ {m + 1} : x \in 1..m
      OBVIOUS
    <3> QED
      BY <3>1, <3>3, <3>4
  <2>3. ASSUME NEW s \in SUBSET (1..(m + 1)), m + 1 \notin s
        PROVE  /\ s \in SUBSET (1..m)
               /\ s \ {Max(s)} \in SUBSET (1..(m + 1))
               /\ m + 1 \notin s \ {Max(s)}
    <3>1. \A x \in s : x \in 1..m
      BY <2>3
    <3> QED
      BY <3>1, <2>3
  <2>4. m + 1 \in 1..N
    OBVIOUS
  <2>5. nxt \in [SUBSET (1..(m + 1)) -> X]
    <3>1. ASSUME NEW s \in SUBSET (1..(m + 1)) PROVE nxt[s] \in X
      <4>1. CASE m + 1 \in s
        <5>1. it[s \ {m + 1}] \in X
          BY <2>1, <2>2, <4>1
        <5> QED
          BY <4>1, <5>1, <2>4
      <4>2. CASE m + 1 \notin s
        BY <2>1, <2>3, <4>2
      <4> QED
        BY <4>1, <4>2
    <3> QED
      BY <3>1
  <2>6. ASSUME NEW s \in SUBSET (1..(m + 1))
        PROVE  nxt[s] = IF s = {} THEN base
                        ELSE step[<<nxt[s \ {Max(s)}], Max(s)>>]
    <3>1. CASE m + 1 \in s
      <4>1. nxt[s \ {m + 1}] = it[s \ {m + 1}]
        BY <2>2, <3>1
      <4> QED
        BY <2>2, <3>1, <4>1
    <3>2. CASE m + 1 \notin s
      <4>1. nxt[s] = it[s]
        BY <3>2
      <4>2. nxt[s \ {Max(s)}] = it[s \ {Max(s)}]
        BY <2>3, <3>2
      <4>3. s \in SUBSET (1..m)
        BY <2>3, <3>2
      <4>4. it[s] = IF s = {} THEN base
                    ELSE step[<<it[s \ {Max(s)}], Max(s)>>]
        BY <2>1, <4>3
      <4> QED
        BY <4>1, <4>2, <4>4
    <3> QED
      BY <3>1, <3>2
  <2>7. Good(nxt, m + 1)
    <3> HIDE DEF nxt
    <3> QED
      BY <2>5, <2>6
  <2>8. m + 1 \in 0..N
    OBVIOUS
  <2> HIDE DEF Good
  <2> QED
    BY <2>7, <2>8
<1>3. N \in S
  <2> HIDE DEF S
  <2>1. \A n \in 0..N : n \in S
    BY <1>1, <1>2, UpTo
  <2> QED
    BY <2>1
<1>4. PICK it : Good(it, N)
  BY <1>3
<1>5. IsFold(it, base, N, step)
  BY <1>4 DEF IsFold
<1> QED
  BY <1>4, <1>5

(* The values a fold goes through.                                         *)
LEMMA FoldTrace ==
  ASSUME NEW X, NEW base \in X, NEW N \in Nat, NEW step \in [X \X (1..N) -> X],
         NEW it, Unfolds(it, X, base, N, step)
  PROVE  \E f \in [0..N -> X] : IsTrace(f, it, base, N, step)
<1> USE DEF Unfolds
<1> DEFINE S == {n \in 0..N : it[1..n] \in X}
           f == [n \in 0..N |-> it[1..n]]
<1>1. 1..0 = {}
  OBVIOUS
<1>2. 0 \in S
  BY <1>1
<1>3. ASSUME NEW n \in 0..(N - 1), n \in S PROVE n + 1 \in S
  <2>1. n + 1 \in 1..N /\ (n + 1) - 1 = n /\ n + 1 \in 0..N
    OBVIOUS
  <2>2. it[1..(n + 1)] = step[<<it[1..n], n + 1>>]
    BY <1>3, <2>1
  <2> QED
    BY <1>3, <2>1, <2>2
<1>4. \A n \in 0..N : it[1..n] \in X
  <2> HIDE DEF S
  <2>1. \A n \in 0..N : n \in S
    BY <1>2, <1>3, UpTo
  <2> QED
    BY <2>1 DEF S
<1>5. ASSUME NEW n \in 1..N PROVE f[n] = step[<<f[n - 1], n>>]
  <2>1. n \in 0..N /\ n - 1 \in 0..N
    OBVIOUS
  <2> QED
    BY <1>4, <2>1
<1>6. f \in [0..N -> X] /\ f[0] = base /\ f[N] = it[1..N]
  BY <1>1, <1>4
<1> HIDE DEF f
<1>7. IsTrace(f, it, base, N, step)
  BY <1>5, <1>6 DEF IsTrace
<1> QED
  BY <1>6, <1>7

-----------------------------------------------------------------------------
AboutActions == {"action.queued", "action.accepted", "action.rejected",
                 "approval.required", "entity.property_set", "effect.failed",
                 "world.note"}

AboutWorld == {"world.tick.started", "world.tick.completed",
               "world.initialized", "android.reconciled"}

Event ==
  {e \in [id : EventIds,
          type : AboutActions \cup AboutWorld \cup {"consequence.approval_gate"},
          action : Actions \cup {NoAction}, arg : Nat \cup EventIds] :
     /\ e.type \in AboutActions => e.action \in Actions
     /\ e.type = "consequence.approval_gate" => e.arg \in EventIds
     /\ e.type # "consequence.approval_gate" => e.arg \in Nat}

JobSet == [world : World, out : Seq(Event)]

(* One step of scan_consequences, of the loop over to_process, and of the  *)
(* loop that removes an action from the queue.                             *)
Fire(c, j, e) ==
  IF e.type # "approval.required" \/ e.id \in j.world.fired THEN j
  ELSE Emit(c, [j EXCEPT !.world.fired = @ \cup {e.id}],
            "consequence.approval_gate", NoAction, e.id)

Work(c, j, a) == Settle(ProcessAction(c, j, a), a)

Worked(c, start, queue) ==
  LET step(job, a) == Settle(ProcessAction(c, job, a), a)
  IN FoldLeft(step, start, queue)

Keep(kept, q, id) == IF q.id = id THEN kept ELSE Append(kept, q)

ReplayOf(s) == FoldLeft(ReplayEvent, Blank, s)

(* Emit adds one event to what a job appends and keeps its world.          *)
LEMMA EmitTyped ==
  ASSUME NEW c \in Calls, NEW job \in JobSet, NEW type, NEW action, NEW arg,
         \A id \in EventIds :
           [id |-> id, type |-> type, action |-> action, arg |-> arg] \in Event
  PROVE  /\ Emit(c, job, type, action, arg) \in JobSet
         /\ Emit(c, job, type, action, arg).world = job.world
         /\ Emit(c, job, type, action, arg).out =
              Append(job.out, [id |-> <<c, Len(job.out) + 1>>, type |-> type,
                               action |-> action, arg |-> arg])
<1>1. job.out \in Seq(Event) /\ Len(job.out) \in Nat
  BY DEF JobSet
<1>2. <<c, Len(job.out) + 1>> \in EventIds
  BY <1>1 DEF EventIds
<1> DEFINE e == [id |-> <<c, Len(job.out) + 1>>, type |-> type,
                 action |-> action, arg |-> arg]
<1>3. e \in Event
  BY <1>2
<1> HIDE DEF e
<1>4. Append(job.out, e) \in Seq(Event)
  BY <1>1, <1>3
<1>5. Emit(c, job, type, action, arg) = [job EXCEPT !.out = Append(@, e)]
  BY DEF Emit, e
<1> QED
  BY <1>4, <1>5 DEF JobSet, e

(* The world of a reset is one.                                            *)
LEMMA BlankTyped == Blank \in World
BY DEF Blank, World

(* One round of the consequence loop keeps the types.                      *)
LEMMA FireTyped ==
  ASSUME NEW c \in Calls, NEW j \in JobSet, NEW e \in Event
  PROVE  Fire(c, j, e) \in JobSet
<1> DEFINE k == [j EXCEPT !.world.fired = @ \cup {e.id}]
<1>1. e.id \in EventIds
  BY DEF Event
<1>2. k \in JobSet
  BY <1>1 DEF JobSet, World
<1>3. \A id \in EventIds :
        [id |-> id, type |-> "consequence.approval_gate",
         action |-> NoAction, arg |-> e.id] \in Event
  BY <1>1 DEF Event, AboutActions, AboutWorld
<1>4. Emit(c, k, "consequence.approval_gate", NoAction, e.id) \in JobSet
  BY <1>2, <1>3, EmitTyped
<1> QED
  BY <1>4 DEF Fire

(* The jobs that scan_consequences goes through.                           *)
LEMMA ScanTrace ==
  ASSUME NEW c \in Calls, NEW job \in JobSet,
         NEW recent \in Seq(Event)
  PROVE  \E f \in [0..Len(recent) -> JobSet] :
           /\ f[0] = job
           /\ f[Len(recent)] = ScanConsequences(c, job, recent)
           /\ \A n \in 1..Len(recent) : f[n] = Fire(c, f[n - 1], recent[n])
<1> DEFINE N == Len(recent)
           step == [p \in JobSet \X (1..N) |-> Fire(c, p[1], recent[p[2]])]
           Folds(it) == it = [s \in SUBSET (1..N) |->
                                IF s = {} THEN job
                                ELSE Fire(c, it[s \ {Max(s)}], recent[Max(s)])]
<1>1. /\ N \in Nat /\ job \in JobSet
      /\ DOMAIN recent = 1..N /\ \A n \in 1..N : recent[n] \in Event
  OBVIOUS
<1>2. step \in [JobSet \X (1..N) -> JobSet]
  BY <1>1, FireTyped
<1>3. \E it : Folds(it)
  <2>1. PICK it \in [SUBSET (1..N) -> JobSet] : IsFold(it, job, N, step)
    <3> HIDE DEF step, N, Folds
    <3> QED
      BY <1>1, <1>2, FoldExists
  <2>2. ASSUME NEW s \in SUBSET (1..N), s # {}
        PROVE  step[<<it[s \ {Max(s)}], Max(s)>>]
                 = Fire(c, it[s \ {Max(s)}], recent[Max(s)])
    <3>1. Max(s) \in 1..N
      BY <1>1, <2>2, MaxOf
    <3>2. it[s \ {Max(s)}] \in JobSet
      OBVIOUS
    <3> QED
      BY <3>1, <3>2
  <2> HIDE DEF step
  <2> QED
    BY <2>1, <2>2 DEF IsFold
<1> DEFINE it == CHOOSE g : Folds(g)
<1>4. Folds(it)
  BY <1>3
<1>5. ScanConsequences(c, job, recent) = it[1..N]
  BY <1>1 DEF ScanConsequences, Fire, FoldLeft, MapThenFoldSet
<1> HIDE DEF it
<1>6. it[{}] = job
  BY <1>4
<1>7. ASSUME NEW n \in 1..N, it[1..(n - 1)] \in JobSet
      PROVE  it[1..n] = step[<<it[1..(n - 1)], n>>]
  <2>1. 1..n \in SUBSET (1..N) /\ n \in Nat /\ n > 0
    BY <1>1
  <2>2. it[1..n] = Fire(c, it[1..(n - 1)], recent[n])
    BY <1>4, <2>1, MaxUpTo
  <2> QED
    BY <1>7, <2>2
<1> HIDE DEF step
<1>8. Unfolds(it, JobSet, job, N, step)
  BY <1>6, <1>7 DEF Unfolds
<1>9. PICK f \in [0..N -> JobSet] : IsTrace(f, it, job, N, step)
  <2> HIDE DEF N
  <2> QED
    BY <1>1, <1>2, <1>8, FoldTrace
<1>10. ASSUME NEW n \in 1..N PROVE f[n] = Fire(c, f[n - 1], recent[n])
  <2>1. f[n - 1] \in JobSet
    BY <1>1
  <2> QED
    BY <1>9, <2>1 DEF step, IsTrace
<1>11. f[0] = job /\ f[N] = it[1..N]
  BY <1>9 DEF IsTrace
<1> QED
  BY <1>5, <1>10, <1>11

(* One round of the action loop keeps the types.                           *)
LEMMA WorkTyped ==
  ASSUME NEW c \in Calls, NEW j \in JobSet, NEW a \in Actions
  PROVE  Work(c, j, a) \in JobSet
<1>1. ASSUME NEW id \in EventIds, NEW type \in AboutActions
      PROVE  [id |-> id, type |-> type, action |-> a, arg |-> 0] \in Event
  BY DEF Event, AboutActions, AboutWorld
<1>2. ASSUME NEW k \in JobSet, NEW type \in AboutActions
      PROVE  Emit(c, k, type, a, 0) \in JobSet
  BY <1>1, <1>2, EmitTyped
<1>3. /\ "action.accepted" \in AboutActions /\ "action.rejected" \in AboutActions
      /\ "approval.required" \in AboutActions /\ "effect.failed" \in AboutActions
      /\ "entity.property_set" \in AboutActions /\ "world.note" \in AboutActions
  BY DEF AboutActions
<1>4. a.id \in Submits
  BY DEF Actions
<1>5. ASSUME NEW k \in JobSet PROVE Effect(c, k, a) \in JobSet
  <2>1. [k EXCEPT !.world.value = a.id] \in JobSet
    BY <1>4 DEF JobSet, World
  <2> QED
    BY <1>2, <1>3, <2>1 DEF Effect
<1>6. [j EXCEPT !.world.approvals = @ \cup {a.id}] \in JobSet
  BY <1>4 DEF JobSet, World
<1>7. ProcessAction(c, j, a) \in JobSet
  BY <1>2, <1>3, <1>5, <1>6 DEF ProcessAction
<1>8. ASSUME NEW k \in JobSet PROVE Settle(k, a) \in JobSet
  <2>1. Append(k.world.processed, a.id) \in Seq(Submits)
    BY <1>4 DEF JobSet, World
  <2> QED
    BY <2>1 DEF Settle, JobSet, World
<1> QED
  BY <1>7, <1>8 DEF Work

(* The jobs that the loop over to_process goes through.                    *)
LEMMA WorkTrace ==
  ASSUME NEW c \in Calls, NEW start \in JobSet,
         NEW queue \in Seq(Actions)
  PROVE  \E f \in [0..Len(queue) -> JobSet] :
           /\ f[0] = start
           /\ f[Len(queue)] = Worked(c, start, queue)
           /\ \A n \in 1..Len(queue) : f[n] = Work(c, f[n - 1], queue[n])
<1> DEFINE N == Len(queue)
           step == [p \in JobSet \X (1..N) |-> Work(c, p[1], queue[p[2]])]
           Folds(it) == it = [s \in SUBSET (1..N) |->
                                IF s = {} THEN start
                                ELSE Work(c, it[s \ {Max(s)}], queue[Max(s)])]
<1>1. /\ N \in Nat /\ start \in JobSet
      /\ DOMAIN queue = 1..N /\ \A n \in 1..N : queue[n] \in Actions
  OBVIOUS
<1>2. step \in [JobSet \X (1..N) -> JobSet]
  BY <1>1, WorkTyped
<1>3. \E it : Folds(it)
  <2>1. PICK it \in [SUBSET (1..N) -> JobSet] : IsFold(it, start, N, step)
    <3> HIDE DEF step, N, Folds
    <3> QED
      BY <1>1, <1>2, FoldExists
  <2>2. ASSUME NEW s \in SUBSET (1..N), s # {}
        PROVE  step[<<it[s \ {Max(s)}], Max(s)>>]
                 = Work(c, it[s \ {Max(s)}], queue[Max(s)])
    <3>1. Max(s) \in 1..N
      BY <1>1, <2>2, MaxOf
    <3>2. it[s \ {Max(s)}] \in JobSet
      OBVIOUS
    <3> QED
      BY <3>1, <3>2
  <2> HIDE DEF step
  <2> QED
    BY <2>1, <2>2 DEF IsFold
<1> DEFINE it == CHOOSE g : Folds(g)
<1>4. Folds(it)
  BY <1>3
<1>5. Worked(c, start, queue) = it[1..N]
  BY <1>1 DEF Worked, Work, FoldLeft, MapThenFoldSet
<1> HIDE DEF it
<1>6. it[{}] = start
  BY <1>4
<1>7. ASSUME NEW n \in 1..N, it[1..(n - 1)] \in JobSet
      PROVE  it[1..n] = step[<<it[1..(n - 1)], n>>]
  <2>1. 1..n \in SUBSET (1..N) /\ n \in Nat /\ n > 0
    BY <1>1
  <2>2. it[1..n] = Work(c, it[1..(n - 1)], queue[n])
    BY <1>4, <2>1, MaxUpTo
  <2> QED
    BY <1>7, <2>2
<1> HIDE DEF step
<1>8. Unfolds(it, JobSet, start, N, step)
  BY <1>6, <1>7 DEF Unfolds
<1>9. PICK f \in [0..N -> JobSet] : IsTrace(f, it, start, N, step)
  <2> HIDE DEF N
  <2> QED
    BY <1>1, <1>2, <1>8, FoldTrace
<1>10. ASSUME NEW n \in 1..N PROVE f[n] = Work(c, f[n - 1], queue[n])
  <2>1. f[n - 1] \in JobSet
    BY <1>1
  <2> QED
    BY <1>9, <2>1 DEF step, IsTrace
<1>11. f[0] = start /\ f[N] = it[1..N]
  BY <1>9 DEF IsTrace
<1> QED
  BY <1>5, <1>10, <1>11

(* The queues that the removal of an action goes through.                  *)
LEMMA KeepTyped ==
  ASSUME NEW kept \in Seq(Actions), NEW q \in Actions, NEW id
  PROVE  Keep(kept, q, id) \in Seq(Actions)
BY DEF Keep

(* Without, round by round.                                                *)
LEMMA WithoutTrace ==
  ASSUME NEW id,
         NEW queue \in Seq(Actions)
  PROVE  \E f \in [0..Len(queue) -> Seq(Actions)] :
           /\ f[0] = <<>>
           /\ f[Len(queue)] = Without(queue, id)
           /\ \A n \in 1..Len(queue) : f[n] = Keep(f[n - 1], queue[n], id)
<1> DEFINE N == Len(queue)
           step == [p \in Seq(Actions) \X (1..N) |-> Keep(p[1], queue[p[2]], id)]
           Folds(it) == it = [s \in SUBSET (1..N) |->
                                IF s = {} THEN <<>>
                                ELSE Keep(it[s \ {Max(s)}], queue[Max(s)], id)]
<1>1. /\ N \in Nat /\ <<>> \in Seq(Actions)
      /\ DOMAIN queue = 1..N /\ \A n \in 1..N : queue[n] \in Actions
  OBVIOUS
<1>2. step \in [Seq(Actions) \X (1..N) -> Seq(Actions)]
  BY <1>1, KeepTyped
<1>3. \E it : Folds(it)
  <2>1. PICK it \in [SUBSET (1..N) -> Seq(Actions)] : IsFold(it, <<>>, N, step)
    <3> HIDE DEF step, N, Folds
    <3> QED
      BY <1>1, <1>2, FoldExists
  <2>2. ASSUME NEW s \in SUBSET (1..N), s # {}
        PROVE  step[<<it[s \ {Max(s)}], Max(s)>>]
                 = Keep(it[s \ {Max(s)}], queue[Max(s)], id)
    <3>1. Max(s) \in 1..N
      BY <1>1, <2>2, MaxOf
    <3>2. it[s \ {Max(s)}] \in Seq(Actions)
      OBVIOUS
    <3> QED
      BY <3>1, <3>2
  <2> HIDE DEF step
  <2> QED
    BY <2>1, <2>2 DEF IsFold
<1> DEFINE it == CHOOSE g : Folds(g)
<1>4. Folds(it)
  BY <1>3
<1>5. Without(queue, id) = it[1..N]
  BY <1>1 DEF Without, Keep, FoldLeft, MapThenFoldSet
<1> HIDE DEF it
<1>6. it[{}] = <<>>
  BY <1>4
<1>7. ASSUME NEW n \in 1..N, it[1..(n - 1)] \in Seq(Actions)
      PROVE  it[1..n] = step[<<it[1..(n - 1)], n>>]
  <2>1. 1..n \in SUBSET (1..N) /\ n \in Nat /\ n > 0
    BY <1>1
  <2>2. it[1..n] = Keep(it[1..(n - 1)], queue[n], id)
    BY <1>4, <2>1, MaxUpTo
  <2> QED
    BY <1>7, <2>2
<1> HIDE DEF step
<1>8. Unfolds(it, Seq(Actions), <<>>, N, step)
  BY <1>6, <1>7 DEF Unfolds
<1>9. PICK f \in [0..N -> Seq(Actions)] : IsTrace(f, it, <<>>, N, step)
  <2> HIDE DEF N
  <2> QED
    BY <1>1, <1>2, <1>8, FoldTrace
<1>10. ASSUME NEW n \in 1..N PROVE f[n] = Keep(f[n - 1], queue[n], id)
  <2>1. f[n - 1] \in Seq(Actions)
    BY <1>1
  <2> QED
    BY <1>9, <2>1 DEF step, IsTrace
<1>11. f[0] = <<>> /\ f[N] = it[1..N]
  BY <1>9 DEF IsTrace
<1> QED
  BY <1>5, <1>10, <1>11

(* What Without leaves of a queue is a queue.                              *)
LEMMA WithoutTyped ==
  ASSUME NEW queue \in Seq(Actions), NEW id
  PROVE  Without(queue, id) \in Seq(Actions)
<1>1. Len(queue) \in 0..Len(queue)
  OBVIOUS
<1> QED
  BY <1>1, WithoutTrace

(* The replay of one event keeps the types.                                *)
LEMMA ReplayEventTyped ==
  ASSUME NEW w \in World, NEW e \in Event
  PROVE  ReplayEvent(w, e) \in World
<1>1. e.type \in AboutActions => e.action \in Actions /\ e.action.id \in Submits
  BY DEF Event, Actions
<1>2. e.type # "consequence.approval_gate" => e.arg \in Nat
  BY DEF Event
<1>3. ASSUME NEW a \in Actions PROVE MarkProcessed(w, a) \in World
  <2>1. a.id \in Submits
    BY DEF Actions
  <2>2. w.queued \in Seq(Actions) /\ w.processed \in Seq(Submits)
    BY DEF World
  <2>3. Without(w.queued, a.id) \in Seq(Actions)
    BY <2>2, WithoutTyped
  <2>4. (IF Contains(w.processed, a.id) THEN w.processed
         ELSE Append(w.processed, a.id)) \in Seq(Submits)
    BY <2>1, <2>2
  <2> QED
    BY <2>3, <2>4 DEF MarkProcessed, World
<1>4. CASE e.type = "action.queued"
  <2>1. Append(w.queued, e.action) \in Seq(Actions)
    BY <1>1, <1>4 DEF World, AboutActions
  <2> QED
    BY <1>4, <2>1 DEF ReplayEvent, World
<1>5. CASE e.type \in {"action.accepted", "action.rejected"}
  BY <1>1, <1>3, <1>5 DEF ReplayEvent, AboutActions
<1>6. CASE e.type = "approval.required"
  <2>1. MarkProcessed(w, e.action) \in World /\ e.action.id \in Submits
    BY <1>1, <1>3, <1>6 DEF AboutActions
  <2> QED
    BY <1>6, <2>1 DEF ReplayEvent, World
<1>7. CASE e.type = "entity.property_set"
  BY <1>1, <1>7 DEF ReplayEvent, World, AboutActions
<1>8. CASE e.type = "world.tick.completed"
  BY <1>2, <1>8 DEF ReplayEvent, World
<1> QED
  BY <1>4, <1>5, <1>6, <1>7, <1>8 DEF ReplayEvent

(* The worlds that a replay goes through.                                  *)
LEMMA ReplayTrace ==
  ASSUME NEW s0 \in Seq(Event)
  PROVE  \E f \in [0..Len(s0) -> World] :
           /\ f[0] = Blank
           /\ f[Len(s0)] = ReplayOf(s0)
           /\ \A n \in 1..Len(s0) : f[n] = ReplayEvent(f[n - 1], s0[n])
<1> DEFINE N == Len(s0)
           step == [p \in World \X (1..N) |-> ReplayEvent(p[1], s0[p[2]])]
           Folds(it) == it = [s \in SUBSET (1..N) |->
                                IF s = {} THEN Blank
                                ELSE ReplayEvent(it[s \ {Max(s)}], s0[Max(s)])]
<1>1. /\ N \in Nat /\ Blank \in World
      /\ DOMAIN s0 = 1..N /\ \A n \in 1..N : s0[n] \in Event
  BY BlankTyped
<1>2. step \in [World \X (1..N) -> World]
  BY <1>1, ReplayEventTyped
<1>3. \E it : Folds(it)
  <2>1. PICK it \in [SUBSET (1..N) -> World] : IsFold(it, Blank, N, step)
    <3> HIDE DEF step, N, Folds
    <3> QED
      BY <1>1, <1>2, FoldExists
  <2>2. ASSUME NEW s \in SUBSET (1..N), s # {}
        PROVE  step[<<it[s \ {Max(s)}], Max(s)>>]
                 = ReplayEvent(it[s \ {Max(s)}], s0[Max(s)])
    <3>1. Max(s) \in 1..N
      BY <1>1, <2>2, MaxOf
    <3>2. it[s \ {Max(s)}] \in World
      OBVIOUS
    <3> QED
      BY <3>1, <3>2
  <2> HIDE DEF step
  <2> QED
    BY <2>1, <2>2 DEF IsFold
<1> DEFINE it == CHOOSE g : Folds(g)
<1>4. Folds(it)
  BY <1>3
<1>5. ReplayOf(s0) = it[1..N]
  BY <1>1 DEF ReplayOf, FoldLeft, MapThenFoldSet
<1> HIDE DEF it
<1>6. it[{}] = Blank
  BY <1>4
<1>7. ASSUME NEW n \in 1..N, it[1..(n - 1)] \in World
      PROVE  it[1..n] = step[<<it[1..(n - 1)], n>>]
  <2>1. 1..n \in SUBSET (1..N) /\ n \in Nat /\ n > 0
    BY <1>1
  <2>2. it[1..n] = ReplayEvent(it[1..(n - 1)], s0[n])
    BY <1>4, <2>1, MaxUpTo
  <2> QED
    BY <1>7, <2>2
<1> HIDE DEF step
<1>8. Unfolds(it, World, Blank, N, step)
  BY <1>6, <1>7 DEF Unfolds
<1>9. PICK f \in [0..N -> World] : IsTrace(f, it, Blank, N, step)
  <2> HIDE DEF N
  <2> QED
    BY <1>1, <1>2, <1>8, FoldTrace
<1>10. ASSUME NEW n \in 1..N PROVE f[n] = ReplayEvent(f[n - 1], s0[n])
  <2>1. f[n - 1] \in World
    BY <1>1
  <2> QED
    BY <1>9, <2>1 DEF step, IsTrace
<1>11. f[0] = Blank /\ f[N] = it[1..N]
  BY <1>9 DEF IsTrace
<1> QED
  BY <1>5, <1>10, <1>11

-----------------------------------------------------------------------------
(* What a call works out is typed.                                         *)

(* A tick takes the front of the queue and leaves the rest.                *)
LEMMA TakenTyped ==
  ASSUME NEW w \in World
  PROVE  /\ Taken(w) \in Seq(Actions) /\ Rest(w) \in Seq(Actions)
         /\ Len(Taken(w)) \in 0..Len(w.queued)
         /\ \A n \in 1..Len(Taken(w)) : Taken(w)[n] = w.queued[n]
         /\ Len(Rest(w)) = Len(w.queued) - Len(Taken(w))
         /\ \A n \in 1..Len(Rest(w)) : Rest(w)[n] = w.queued[Len(Taken(w)) + n]
<1> DEFINE q == w.queued
           k == IF MaxActions < Len(q) THEN MaxActions ELSE Len(q)
<1>1. q \in Seq(Actions) /\ Len(q) \in Nat /\ MaxActions \in Nat
  BY WorldAssumption DEF World
<1>2. k \in Nat /\ k <= Len(q) /\ Taken(w) = SubSeq(q, 1, k)
  BY <1>1 DEF Taken
<1> HIDE DEF k, q
<1>3. /\ SubSeq(q, 1, k) \in Seq(Actions) /\ Len(SubSeq(q, 1, k)) = k
      /\ \A n \in 1..k : SubSeq(q, 1, k)[n] = q[n]
  BY <1>1, <1>2
<1>4. Len(Taken(w)) = k
  BY <1>2, <1>3
<1>5. Rest(w) = SubSeq(q, k + 1, Len(q))
  BY <1>4 DEF Rest, q
<1>6. /\ SubSeq(q, k + 1, Len(q)) \in Seq(Actions)
      /\ Len(SubSeq(q, k + 1, Len(q))) = Len(q) - k
      /\ \A n \in 1..(Len(q) - k) : SubSeq(q, k + 1, Len(q))[n] = q[k + n]
  BY <1>1, <1>2
<1>7. /\ Len(Taken(w)) \in 0..Len(q)
      /\ Len(Rest(w)) = Len(q) - Len(Taken(w))
  <2>1. Len(Rest(w)) = Len(q) - k
    BY ONLY <1>5, <1>6
  <2>2. k \in 0..Len(q)
    BY ONLY <1>1, <1>2
  <2> QED
    BY ONLY <1>4, <2>1, <2>2
<1>8. \A n \in 1..Len(Rest(w)) : Rest(w)[n] = q[Len(Taken(w)) + n]
  BY <1>4, <1>5, <1>6
<1> QED
  BY <1>2, <1>3, <1>4, <1>5, <1>6, <1>7, <1>8 DEF q

(* An event that is about the world only.                                  *)
LEMMA WorldEvent ==
  ASSUME NEW id \in EventIds, NEW type \in AboutWorld, NEW arg \in Nat
  PROVE  [id |-> id, type |-> type, action |-> NoAction, arg |-> arg] \in Event
BY DEF Event, AboutActions, AboutWorld

(* The parts of a tick.                                                    *)
TickStart(c, w) ==
  Emit(c, [world |-> [w EXCEPT !.tick = @ + 1, !.queued = Rest(w)],
           out |-> <<>>],
       "world.tick.started", NoAction, w.tick + 1)

TickActed(c, w) == Worked(c, TickStart(c, w), Taken(w))

TickScanned(c, w) ==
  ScanConsequences(c, TickActed(c, w), TickActed(c, w).out)

(* process_tick in its steps: start, actions, consequences, end.           *)
LEMMA TickParts ==
  ASSUME NEW c, NEW w
  PROVE  ProcessTick(c, w) = Emit(c, TickScanned(c, w), "world.tick.completed",
                                  NoAction, w.tick + 1)
BY DEF ProcessTick, TickScanned, TickActed, TickStart, Worked, FoldLeft,
       MapThenFoldSet

(* Each step of a tick keeps the types.                                    *)
LEMMA TickTyped ==
  ASSUME NEW c \in Calls, NEW w \in World
  PROVE  /\ TickStart(c, w) \in JobSet /\ TickActed(c, w) \in JobSet
         /\ TickScanned(c, w) \in JobSet /\ ProcessTick(c, w) \in JobSet
<1>1. w.tick + 1 \in Nat
  BY DEF World
<1>2. /\ "world.tick.started" \in AboutWorld
      /\ "world.tick.completed" \in AboutWorld
  BY DEF AboutWorld
<1>3. [world |-> [w EXCEPT !.tick = @ + 1, !.queued = Rest(w)],
       out |-> <<>>] \in JobSet
  <2>1. [w EXCEPT !.tick = @ + 1, !.queued = Rest(w)] \in World
    BY TakenTyped, <1>1 DEF World
  <2> QED
    BY <2>1 DEF JobSet
<1>4. TickStart(c, w) \in JobSet
  BY <1>1, <1>2, <1>3, WorldEvent, EmitTyped DEF TickStart
<1>5. TickActed(c, w) \in JobSet
  <2>1. Len(Taken(w)) \in 0..Len(Taken(w)) /\ Taken(w) \in Seq(Actions)
    BY TakenTyped
  <2> QED
    BY <1>4, <2>1, WorkTrace DEF TickActed
<1>6. TickScanned(c, w) \in JobSet
  <2>1. TickActed(c, w).out \in Seq(Event)
    BY <1>5 DEF JobSet
  <2>2. Len(TickActed(c, w).out) \in 0..Len(TickActed(c, w).out)
    BY <2>1
  <2> QED
    BY <1>5, <2>1, <2>2, ScanTrace DEF TickScanned
<1>7. ProcessTick(c, w) \in JobSet
  BY <1>1, <1>2, <1>6, TickParts, WorldEvent, EmitTyped
<1> QED
  BY <1>4, <1>5, <1>6, <1>7

(* A scan of consequences keeps the types.                                 *)
LEMMA ScanTyped ==
  ASSUME NEW c \in Calls, NEW job \in JobSet, NEW recent \in Seq(Event)
  PROVE  ScanConsequences(c, job, recent) \in JobSet
<1>1. Len(recent) \in 0..Len(recent)
  OBVIOUS
<1> QED
  BY <1>1, ScanTrace

(* The replay of a stream is a world.                                      *)
LEMMA ReplayTyped ==
  ASSUME NEW s \in Seq(Event)
  PROVE  ReplayOf(s) \in World
<1>1. Len(s) \in 0..Len(s)
  OBVIOUS
<1> QED
  BY <1>1, ReplayTrace

(* The job of a call that changes nothing.                                 *)
LEMMA SameTyped ==
  ASSUME NEW w \in World
  PROVE  Same(w) \in JobSet /\ Same(w).world = w /\ Same(w).out = <<>>
BY DEF Same, JobSet

(* The part of the stream a scan reads is a sequence of events.            *)
LEMMA TailTyped ==
  ASSUME stream \in Seq(Event)
  PROVE  StreamTail \in Seq(Event)
BY WorldAssumption DEF StreamTail

(* The job of each tool.                                                   *)
LEMMA JobOf ==
  ASSUME NEW c \in Calls, NEW kind, NEW w
  PROVE  /\ c \in Submits => Job(c, kind, w) = SubmitAction(c, kind, w)
         /\ c \in Ticks => Job(c, kind, w) = ProcessTick(c, w)
         /\ c \in Scans =>
              Job(c, kind, w) = ScanConsequences(c, Same(w), StreamTail)
         /\ c \in Reconciles => Job(c, kind, w) = Reconcile(c, w)
         /\ c \in Replays => Job(c, kind, w) = Same(ReplayOf(stream))
         /\ c \in Inits => Job(c, kind, w) = Initialize(c, w, FALSE)
         /\ c \in Resets => Job(c, kind, w) = Initialize(c, w, TRUE)
<1>1. Replayed = ReplayOf(stream)
  BY DEF Replayed, ReplayOf, FoldLeft, MapThenFoldSet
<1> QED
  BY <1>1, CallsAssumption DEF Job, Calls

(* What submit_action computes: one more action, one event.                *)
LEMMA SubmitTyped ==
  ASSUME NEW c \in Submits, NEW kind \in Kinds, NEW w \in World
  PROVE  LET action == [id |-> c, kind |-> kind]
             job == SubmitAction(c, kind, w)
         IN  /\ action \in Actions /\ job \in JobSet
             /\ job.world = [w EXCEPT !.queued = Append(@, action)]
             /\ job.out = <<[id |-> <<c, 1>>, type |-> "action.queued",
                             action |-> action, arg |-> 0]>>
<1> DEFINE action == [id |-> c, kind |-> kind]
           base == [Same(w) EXCEPT !.world.queued = Append(@, action)]
<1>1. action \in Actions
  BY DEF Actions
<1>2. Append(w.queued, action) \in Seq(Actions)
  BY <1>1 DEF World
<1>3. /\ base \in JobSet /\ base.out = <<>>
      /\ base.world = [w EXCEPT !.queued = Append(@, action)]
  BY <1>2, SameTyped DEF JobSet, World, Same
<1>4. \A id \in EventIds : [id |-> id, type |-> "action.queued",
                            action |-> action, arg |-> 0] \in Event
  BY <1>1 DEF Event, AboutActions
<1>5. c \in Calls
  BY DEF Calls
<1>6. SubmitAction(c, kind, w) = Emit(c, base, "action.queued", action, 0)
  BY DEF SubmitAction
<1> HIDE DEF base, action
<1>7. /\ SubmitAction(c, kind, w) \in JobSet
      /\ SubmitAction(c, kind, w).world = base.world
      /\ SubmitAction(c, kind, w).out =
           Append(base.out, [id |-> <<c, Len(base.out) + 1>>,
                             type |-> "action.queued", action |-> action,
                             arg |-> 0])
  BY <1>3, <1>4, <1>5, <1>6, EmitTyped
<1>8. Len(base.out) + 1 = 1
  BY <1>3
<1>9. SubmitAction(c, kind, w).out =
        <<[id |-> <<c, 1>>, type |-> "action.queued", action |-> action,
           arg |-> 0]>>
  BY <1>3, <1>7, <1>8
<1> QED
  BY <1>1, <1>3, <1>7, <1>9 DEF action

(* What init, a reset and a reconciliation compute: one event.             *)
LEMMA PlainTyped ==
  ASSUME NEW c \in Calls, NEW w \in World
  PROVE  /\ Initialize(c, w, FALSE) \in JobSet
         /\ Initialize(c, w, FALSE).world = w
         /\ Initialize(c, w, FALSE).out =
              <<[id |-> <<c, 1>>, type |-> "world.initialized",
                 action |-> NoAction, arg |-> 0]>>
         /\ Initialize(c, w, TRUE) \in JobSet
         /\ Initialize(c, w, TRUE).world = Blank
         /\ Initialize(c, w, TRUE).out =
              <<[id |-> <<c, 1>>, type |-> "world.initialized",
                 action |-> NoAction, arg |-> 0]>>
         /\ Reconcile(c, w) \in JobSet
         /\ Reconcile(c, w).world = [w EXCEPT !.android = TRUE]
         /\ Reconcile(c, w).out =
              <<[id |-> <<c, 1>>, type |-> "android.reconciled",
                 action |-> NoAction, arg |-> 0]>>
<1>1. ASSUME NEW v \in World, NEW type \in AboutWorld
      PROVE  LET job == Emit(c, Same(v), type, NoAction, 0)
             IN  /\ job \in JobSet /\ job.world = v
                 /\ job.out = <<[id |-> <<c, 1>>, type |-> type,
                                 action |-> NoAction, arg |-> 0]>>
  <2>1. Same(v) \in JobSet /\ Same(v).world = v /\ Same(v).out = <<>>
    BY SameTyped
  <2>2. \A id \in EventIds : [id |-> id, type |-> type, action |-> NoAction,
                              arg |-> 0] \in Event
    BY WorldEvent
  <2>3. Len(Same(v).out) + 1 = 1
    BY <2>1
  <2> QED
    BY <2>1, <2>2, <2>3, EmitTyped
<1>2. "world.initialized" \in AboutWorld /\ "android.reconciled" \in AboutWorld
  BY DEF AboutWorld
<1>3. [w EXCEPT !.android = TRUE] \in World
  BY DEF World
<1>4. [Same(w) EXCEPT !.world.android = TRUE] = Same([w EXCEPT !.android = TRUE])
  <2> DEFINE v == [w EXCEPT !.android = TRUE]
  <2>1. [Same(w) EXCEPT !.world.android = TRUE] = [Same(w) EXCEPT !.world = v]
    BY DEF Same
  <2> HIDE DEF v
  <2>2. [Same(w) EXCEPT !.world = v] = Same(v)
    BY DEF Same
  <2> QED
    BY <2>1, <2>2 DEF v
<1> QED
  <2>1. /\ Initialize(c, w, FALSE)
             = Emit(c, Same(w), "world.initialized", NoAction, 0)
        /\ Initialize(c, w, TRUE)
             = Emit(c, Same(Blank), "world.initialized", NoAction, 0)
        /\ Reconcile(c, w) = Emit(c, Same([w EXCEPT !.android = TRUE]),
                                  "android.reconciled", NoAction, 0)
    BY <1>4 DEF Initialize, Reconcile
  <2> DEFINE init(v) == Emit(c, Same(v), "world.initialized", NoAction, 0)
  <2>2. ASSUME NEW v \in World
        PROVE  /\ init(v) \in JobSet /\ init(v).world = v
               /\ init(v).out = <<[id |-> <<c, 1>>, type |-> "world.initialized",
                                   action |-> NoAction, arg |-> 0]>>
    BY <1>1, <1>2
  <2>3. init(w) = Initialize(c, w, FALSE) /\ init(Blank) = Initialize(c, w, TRUE)
    BY <2>1
  <2>4. /\ init(w) \in JobSet /\ init(w).world = w
        /\ init(w).out = <<[id |-> <<c, 1>>, type |-> "world.initialized",
                            action |-> NoAction, arg |-> 0]>>
    BY <2>2
  <2>5. /\ init(Blank) \in JobSet /\ init(Blank).world = Blank
        /\ init(Blank).out = <<[id |-> <<c, 1>>, type |-> "world.initialized",
                                action |-> NoAction, arg |-> 0]>>
    BY <2>2, BlankTyped
  <2> HIDE DEF init
  <2>6. LET job == Emit(c, Same([w EXCEPT !.android = TRUE]),
                        "android.reconciled", NoAction, 0)
        IN  /\ job \in JobSet /\ job.world = [w EXCEPT !.android = TRUE]
            /\ job.out = <<[id |-> <<c, 1>>, type |-> "android.reconciled",
                            action |-> NoAction, arg |-> 0]>>
    BY <1>1, <1>2, <1>3
  <2>7. /\ Reconcile(c, w) \in JobSet
        /\ Reconcile(c, w).world = [w EXCEPT !.android = TRUE]
        /\ Reconcile(c, w).out =
             <<[id |-> <<c, 1>>, type |-> "android.reconciled",
                action |-> NoAction, arg |-> 0]>>
    BY <2>1, <2>6
  <2> QED
    BY <2>3, <2>4, <2>5, <2>7

(* What any call computes from a world is a job.                           *)
LEMMA JobTyped ==
  ASSUME NEW c \in Calls, NEW w \in World, stream \in Seq(Event),
         NEW kind \in IF c \in Submits THEN Kinds ELSE {"none"}
  PROVE  Job(c, kind, w) \in JobSet
<1>0. /\ c \in Submits => Job(c, kind, w) = SubmitAction(c, kind, w)
      /\ c \in Ticks => Job(c, kind, w) = ProcessTick(c, w)
      /\ c \in Scans =>
           Job(c, kind, w) = ScanConsequences(c, Same(w), StreamTail)
      /\ c \in Reconciles => Job(c, kind, w) = Reconcile(c, w)
      /\ c \in Replays => Job(c, kind, w) = Same(ReplayOf(stream))
      /\ c \in Inits => Job(c, kind, w) = Initialize(c, w, FALSE)
      /\ c \in Resets => Job(c, kind, w) = Initialize(c, w, TRUE)
  BY JobOf
<1>1. CASE c \in Submits
  <2>1. kind \in Kinds
    BY <1>1
  <2>2. SubmitAction(c, kind, w) \in JobSet
    BY <1>1, <2>1, SubmitTyped
  <2> QED
    BY <1>0, <1>1, <2>2
<1>2. CASE c \in Ticks
  BY <1>2, <1>0, TickTyped
<1>3. CASE c \in Scans
  BY <1>3, <1>0, ScanTyped, SameTyped, TailTyped
<1>4. CASE c \in Reconciles
  BY <1>4, <1>0, PlainTyped
<1>5. CASE c \in Replays
  BY <1>5, <1>0, SameTyped, ReplayTyped
<1>6. CASE c \in Inits
  <2>1. Initialize(c, w, FALSE) \in JobSet
    BY PlainTyped
  <2> QED
    BY <1>0, <1>6, <2>1
<1>7. CASE c \in Resets
  <2>1. Initialize(c, w, TRUE) \in JobSet
    BY PlainTyped
  <2> QED
    BY <1>0, <1>7, <2>1
<1> QED
  BY <1>1, <1>2, <1>3, <1>4, <1>5, <1>6, <1>7 DEF Calls

-----------------------------------------------------------------------------
(* Types.                                                                  *)

(* A call that saves before it appends has one event to append.            *)
LEMMA SaveFirstJob ==
  ASSUME NEW c \in SaveFirst, NEW w \in World,
         NEW kind \in IF c \in Submits THEN Kinds ELSE {"none"}
  PROVE  Len(Job(c, kind, w).out) = 1
<1>0. /\ c \in Submits => Job(c, kind, w) = SubmitAction(c, kind, w)
      /\ c \in Inits => Job(c, kind, w) = Initialize(c, w, FALSE)
      /\ c \in Resets => Job(c, kind, w) = Initialize(c, w, TRUE)
  BY JobOf DEF SaveFirst, Calls
<1>1. CASE c \in Submits
  <2>1. kind \in Kinds
    BY <1>1
  <2>2. SubmitAction(c, kind, w).out =
          <<[id |-> <<c, 1>>, type |-> "action.queued",
             action |-> [id |-> c, kind |-> kind], arg |-> 0]>>
    BY <1>1, <2>1, SubmitTyped
  <2>3. Len(SubmitAction(c, kind, w).out) = 1
    BY <2>2
  <2> QED
    BY <1>0, <1>1, <2>3
<1>2. CASE c \in Inits \cup Resets
  <2>1. c \in Calls
    BY <1>2 DEF Calls
  <2> DEFINE e == [id |-> <<c, 1>>, type |-> "world.initialized",
                   action |-> NoAction, arg |-> 0]
  <2>2. /\ Initialize(c, w, FALSE).out = <<e>>
        /\ Initialize(c, w, TRUE).out = <<e>>
    BY <2>1, PlainTyped
  <2> HIDE DEF e
  <2>3. /\ Len(Initialize(c, w, FALSE).out) = 1
        /\ Len(Initialize(c, w, TRUE).out) = 1
    BY <2>2
  <2> QED
    BY <1>0, <1>2, <2>3
<1> QED
  BY <1>1, <1>2 DEF SaveFirst

-----------------------------------------------------------------------------
(* What one step of each loop does, and what holds at the end of a loop    *)
(* when every step keeps it.                                               *)

(* The events of an action: the answer to it and what came of it.          *)
Answer(a) == CASE a.kind = "unknown" -> "action.rejected"
               [] a.kind = "gated"   -> "approval.required"
               [] OTHER              -> "action.accepted"

Result(a) == CASE a.kind = "mark"  -> "entity.property_set"
               [] a.kind = "stray" -> "effect.failed"
               [] OTHER            -> "world.note"

EventOf(c, o, type, a) ==
  [id |-> <<c, Len(o) + 1>>, type |-> type, action |-> a, arg |-> 0]

Answered(c, o, a) == Append(o, EventOf(c, o, Answer(a), a))

Reported(c, o, a) ==
  IF a.kind \in {"unknown", "gated"} THEN Answered(c, o, a)
  ELSE Append(Answered(c, o, a),
              EventOf(c, Answered(c, o, a), Result(a), a))

WorkedWorld(w, a) ==
  [w EXCEPT !.processed = Append(@, a.id),
            !.approvals = IF a.kind = "gated" THEN @ \cup {a.id} ELSE @,
            !.value = IF a.kind = "mark" THEN a.id ELSE @]

(* An event about an action is an event.                                   *)
LEMMA EventOfTyped ==
  ASSUME NEW c \in Calls, NEW o \in Seq(Event), NEW type \in AboutActions,
         NEW a \in Actions
  PROVE  EventOf(c, o, type, a) \in Event
<1>1. <<c, Len(o) + 1>> \in EventIds
  BY DEF EventIds
<1> QED
  BY <1>1 DEF EventOf, Event, AboutActions, AboutWorld

(* So are the answer to an action and its result.                          *)
LEMMA AnswerTyped ==
  ASSUME NEW c \in Calls, NEW o \in Seq(Event), NEW a \in Actions
  PROVE  /\ EventOf(c, o, Answer(a), a) \in Event
         /\ Answered(c, o, a) \in Seq(Event)
         /\ EventOf(c, Answered(c, o, a), Result(a), a) \in Event
         /\ Reported(c, o, a) \in Seq(Event)
<1>1. Answer(a) \in AboutActions /\ Result(a) \in AboutActions
  BY DEF Answer, Result, AboutActions
<1>2. EventOf(c, o, Answer(a), a) \in Event
  BY <1>1, EventOfTyped
<1>3. Answered(c, o, a) \in Seq(Event)
  BY <1>2 DEF Answered
<1>4. EventOf(c, Answered(c, o, a), Result(a), a) \in Event
  BY <1>1, <1>3, EventOfTyped
<1> QED
  BY <1>2, <1>3, <1>4 DEF Reported

(* Emit, for an event about an action.                                     *)
LEMMA EmitAbout ==
  ASSUME NEW c, NEW job, NEW type, NEW a
  PROVE  Emit(c, job, type, a, 0)
           = [job EXCEPT !.out = Append(@, EventOf(c, job.out, type, a))]
BY DEF Emit, EventOf

(* Settle records the action and appends nothing.                          *)
LEMMA SettleParts ==
  ASSUME NEW v, NEW p, NEW a
  PROVE  Settle([world |-> v, out |-> p], a)
           = [world |-> [v EXCEPT !.processed = Append(@, a.id)], out |-> p]
BY DEF Settle

(* What one round of the action loop does: the events Reported, the world  *)
(* WorkedWorld.                                                            *)
LEMMA WorkParts ==
  ASSUME NEW c \in Calls, NEW j \in JobSet, NEW a \in Actions
  PROVE  Work(c, j, a) = [world |-> WorkedWorld(j.world, a),
                          out |-> Reported(c, j.out, a)]
<1> DEFINE w == j.world
           o == j.out
<1>1. w \in World /\ o \in Seq(Event) /\ j = [world |-> w, out |-> o]
  BY DEF JobSet
<1> HIDE DEF w, o
<1>2. ASSUME NEW v, NEW p, NEW type
      PROVE  Emit(c, [world |-> v, out |-> p], type, a, 0)
               = [world |-> v, out |-> Append(p, EventOf(c, p, type, a))]
  BY EmitAbout
<1>7. ASSUME NEW v, NEW p
      PROVE  Settle([world |-> v, out |-> p], a)
               = [world |-> [v EXCEPT !.processed = Append(@, a.id)],
                  out |-> p]
  BY SettleParts
<1>3. w = [tick |-> w.tick, value |-> w.value, approvals |-> w.approvals,
           android |-> w.android, queued |-> w.queued,
           processed |-> w.processed, fired |-> w.fired]
  BY <1>1 DEF World
<1>4. CASE a.kind = "unknown"
  <2> DEFINE p == Append(o, EventOf(c, o, "action.rejected", a))
  <2>4. ProcessAction(c, j, a) = [world |-> w, out |-> p]
    BY <1>1, <1>2, <1>4 DEF ProcessAction
  <2>1. Work(c, j, a) = [world |-> [w EXCEPT !.processed = Append(@, a.id)],
                         out |-> p]
    BY <1>7, <2>4 DEF Work
  <2>2. WorkedWorld(w, a) = [w EXCEPT !.processed = Append(@, a.id)]
    BY <1>3, <1>4 DEF WorkedWorld
  <2>3. Reported(c, o, a) = Append(o, EventOf(c, o, "action.rejected", a))
    BY <1>4 DEF Reported, Answered, Answer
  <2> QED
    BY <2>1, <2>2, <2>3 DEF w, o
<1>5. CASE a.kind = "gated"
  <2>1. Work(c, j, a) =
          [world |-> [[w EXCEPT !.approvals = @ \cup {a.id}]
                        EXCEPT !.processed = Append(@, a.id)],
           out |-> Append(o, EventOf(c, o, "approval.required", a))]
    <3>1. [j EXCEPT !.world.approvals = @ \cup {a.id}]
            = [world |-> [w EXCEPT !.approvals = @ \cup {a.id}], out |-> o]
      <4>1. [[world |-> w, out |-> o] EXCEPT !.world.approvals = @ \cup {a.id}]
              = [world |-> [w EXCEPT !.approvals = @ \cup {a.id}], out |-> o]
        OBVIOUS
      <4> QED
        BY <1>1, <4>1
    <3> DEFINE v == [w EXCEPT !.approvals = @ \cup {a.id}]
               k == [j EXCEPT !.world.approvals = @ \cup {a.id}]
    <3>3. ProcessAction(c, j, a) = Emit(c, k, "approval.required", a, 0)
      BY <1>5 DEF ProcessAction
    <3>4. k = [world |-> v, out |-> o]
      BY <3>1
    <3> HIDE DEF v, k
    <3>5. ProcessAction(c, j, a)
            = [world |-> v,
               out |-> Append(o, EventOf(c, o, "approval.required", a))]
      BY <1>2, <3>3, <3>4
    <3>2. ProcessAction(c, j, a)
            = [world |-> [w EXCEPT !.approvals = @ \cup {a.id}],
               out |-> Append(o, EventOf(c, o, "approval.required", a))]
      BY <3>5 DEF v
    <3> QED
      BY <1>7, <3>2 DEF Work
  <2>2. WorkedWorld(w, a) = [[w EXCEPT !.approvals = @ \cup {a.id}]
                               EXCEPT !.processed = Append(@, a.id)]
    BY <1>3, <1>5 DEF WorkedWorld
  <2>3. Reported(c, o, a) = Append(o, EventOf(c, o, "approval.required", a))
    BY <1>5 DEF Reported, Answered, Answer
  <2> QED
    BY <2>1, <2>2, <2>3 DEF w, o
<1>6. CASE a.kind \notin {"unknown", "gated"}
  <2> DEFINE p == Append(o, EventOf(c, o, "action.accepted", a))
  <2>1. Answered(c, o, a) = p
    BY <1>6 DEF Answered, Answer
  <2>2. ProcessAction(c, j, a) = Effect(c, [world |-> w, out |-> p], a)
    BY <1>1, <1>2, <1>6 DEF ProcessAction
  <2>3. Reported(c, o, a) = Append(p, EventOf(c, p, Result(a), a))
    BY <1>6, <2>1 DEF Reported
  <2> HIDE DEF p
  <2>4. CASE a.kind = "mark"
    <3>1. [[world |-> w, out |-> p] EXCEPT !.world.value = a.id]
            = [world |-> [w EXCEPT !.value = a.id], out |-> p]
      OBVIOUS
    <3>2. Effect(c, [world |-> w, out |-> p], a)
            = [world |-> [w EXCEPT !.value = a.id],
               out |-> Append(p, EventOf(c, p, Result(a), a))]
      BY <1>2, <2>4, <3>1 DEF Effect, Result
    <3>3. Work(c, j, a) =
            [world |-> [[w EXCEPT !.value = a.id]
                          EXCEPT !.processed = Append(@, a.id)],
             out |-> Append(p, EventOf(c, p, Result(a), a))]
      BY <1>7, <2>2, <3>2 DEF Work
    <3>4. WorkedWorld(w, a) = [[w EXCEPT !.value = a.id]
                                 EXCEPT !.processed = Append(@, a.id)]
      BY <1>3, <2>4 DEF WorkedWorld
    <3> QED
      BY <2>3, <3>3, <3>4 DEF w, o
  <2>5. CASE a.kind # "mark"
    <3>1. Effect(c, [world |-> w, out |-> p], a)
            = [world |-> w, out |-> Append(p, EventOf(c, p, Result(a), a))]
      BY <1>2, <2>5 DEF Effect, Result
    <3>2. Work(c, j, a) =
            [world |-> [w EXCEPT !.processed = Append(@, a.id)],
             out |-> Append(p, EventOf(c, p, Result(a), a))]
      BY <1>7, <2>2, <3>1 DEF Work
    <3>3. WorkedWorld(w, a) = [w EXCEPT !.processed = Append(@, a.id)]
      BY <1>3, <1>6, <2>5 DEF WorkedWorld
    <3> QED
      BY <2>3, <3>2, <3>3 DEF w, o
  <2> QED
    BY <2>4, <2>5
<1> QED
  BY <1>4, <1>5, <1>6

Consequence(c, o, e) ==
  [id |-> <<c, Len(o) + 1>>, type |-> "consequence.approval_gate",
   action |-> NoAction, arg |-> e.id]

(* What one round of the consequence loop does: nothing, or the event of   *)
(* a consequence that had not fired.                                       *)
LEMMA FireParts ==
  ASSUME NEW c \in Calls, NEW j \in JobSet, NEW e \in Event
  PROVE  /\ Fire(c, j, e) \in JobSet
         /\ Consequence(c, j.out, e) \in Event
         /\ Fire(c, j, e) = j
            \/ /\ e.type = "approval.required" /\ e.id \notin j.world.fired
               /\ Fire(c, j, e) =
                    [world |-> [j.world EXCEPT !.fired = @ \cup {e.id}],
                     out |-> Append(j.out, Consequence(c, j.out, e))]
         /\ Fire(c, j, e) = j =>
              e.type # "approval.required" \/ e.id \in j.world.fired
<1> DEFINE w == j.world
           o == j.out
           fire == [world |-> [w EXCEPT !.fired = @ \cup {e.id}],
                    out |-> Append(o, Consequence(c, o, e))]
<1>1. w \in World /\ o \in Seq(Event) /\ j = [world |-> w, out |-> o]
  BY DEF JobSet
<1>2. Fire(c, j, e) \in JobSet
  BY FireTyped
<1>3. e.id \in EventIds /\ <<c, Len(o) + 1>> \in EventIds
  BY <1>1 DEF Event, EventIds
<1>4. Consequence(c, o, e) \in Event
  BY <1>3 DEF Consequence, Event, AboutActions, AboutWorld
<1>5. ~(e.type # "approval.required" \/ e.id \in w.fired) =>
        Fire(c, j, e) = fire
  BY <1>1 DEF Fire, Emit, Consequence
<1>6. e.type # "approval.required" \/ e.id \in w.fired => Fire(c, j, e) = j
  BY DEF Fire
<1>7. e.type = "approval.required" /\ e.id \notin w.fired => fire # j
  <2>1. [w EXCEPT !.fired = @ \cup {e.id}].fired = w.fired \cup {e.id}
    BY <1>1 DEF World
  <2> QED
    BY <2>1
<1> QED
  BY <1>2, <1>4, <1>5, <1>6, <1>7

(* The second case of FireParts.                                           *)
LEMMA Fires ==
  ASSUME NEW c \in Calls, NEW j \in JobSet, NEW e \in Event, Fire(c, j, e) # j
  PROVE  /\ e.type = "approval.required" /\ e.id \notin j.world.fired
         /\ Consequence(c, j.out, e) \in Event
         /\ Fire(c, j, e).world = [j.world EXCEPT !.fired = @ \cup {e.id}]
         /\ Fire(c, j, e).out = Append(j.out, Consequence(c, j.out, e))
<1> DEFINE v == [j.world EXCEPT !.fired = @ \cup {e.id}]
           o == Append(j.out, Consequence(c, j.out, e))
<1>1. /\ e.type = "approval.required" /\ e.id \notin j.world.fired
      /\ Consequence(c, j.out, e) \in Event
      /\ Fire(c, j, e) = [world |-> v, out |-> o]
  BY FireParts
<1> HIDE DEF v, o
<1>2. Fire(c, j, e).world = v /\ Fire(c, j, e).out = o
  BY <1>1
<1> QED
  BY <1>1, <1>2 DEF v, o

(* A set that each step of a trace stays in holds its last value.          *)
LEMMA TraceKeeps ==
  ASSUME NEW N \in Nat, NEW f, NEW Good, f[0] \in Good,
         \A n \in 1..N : f[n - 1] \in Good => f[n] \in Good
  PROVE  f[N] \in Good
<1> DEFINE S == {n \in 0..N : f[n] \in Good}
<1>1. 0 \in S
  OBVIOUS
<1>2. ASSUME NEW n \in 0..(N - 1), n \in S PROVE n + 1 \in S
  <2>1. n + 1 \in 1..N /\ (n + 1) - 1 = n /\ n + 1 \in 0..N
    OBVIOUS
  <2> QED
    BY <1>2, <2>1
<1>3. \A n \in 0..N : n \in S
  <2> HIDE DEF S
  <2> QED
    BY <1>1, <1>2, UpTo
<1> QED
  BY <1>3

(* What every action keeps, the loop over the actions keeps.               *)
LEMMA WorkKeeps ==
  ASSUME NEW c \in Calls, NEW queue \in Seq(Actions),
         NEW Good \in SUBSET JobSet, NEW start \in Good,
         \A j \in Good, n \in 1..Len(queue) : Work(c, j, queue[n]) \in Good
  PROVE  Worked(c, start, queue) \in Good
<1>1. start \in JobSet /\ Len(queue) \in Nat
  OBVIOUS
<1>2. PICK f \in [0..Len(queue) -> JobSet] :
        /\ f[0] = start
        /\ f[Len(queue)] = Worked(c, start, queue)
        /\ \A n \in 1..Len(queue) : f[n] = Work(c, f[n - 1], queue[n])
  BY <1>1, WorkTrace
<1>3. \A n \in 1..Len(queue) : f[n - 1] \in Good => f[n] \in Good
  BY <1>2
<1>4. f[Len(queue)] \in Good
  <2>1. f[0] \in Good
    BY <1>2
  <2> QED
    BY ONLY <1>1, <1>3, <2>1, TraceKeeps
<1> QED
  BY <1>2, <1>4

(* What every event keeps, the scan for consequences keeps.                *)
LEMMA ScanKeeps ==
  ASSUME NEW c \in Calls, NEW recent \in Seq(Event),
         NEW Good \in SUBSET JobSet, NEW job \in Good,
         \A j \in Good, n \in 1..Len(recent) : Fire(c, j, recent[n]) \in Good
  PROVE  ScanConsequences(c, job, recent) \in Good
<1>1. job \in JobSet /\ Len(recent) \in Nat
  OBVIOUS
<1>2. PICK f \in [0..Len(recent) -> JobSet] :
        /\ f[0] = job
        /\ f[Len(recent)] = ScanConsequences(c, job, recent)
        /\ \A n \in 1..Len(recent) : f[n] = Fire(c, f[n - 1], recent[n])
  BY <1>1, ScanTrace
<1>3. \A n \in 1..Len(recent) : f[n - 1] \in Good => f[n] \in Good
  BY <1>2
<1>4. f[Len(recent)] \in Good
  <2>1. f[0] \in Good
    BY <1>2
  <2> QED
    BY ONLY <1>1, <1>3, <2>1, TraceKeeps
<1> QED
  BY <1>2, <1>4

(* What every event keeps, the replay keeps.                               *)
LEMMA ReplayKeeps ==
  ASSUME NEW s \in Seq(Event), NEW Good \in SUBSET World, Blank \in Good,
         \A w \in Good, n \in 1..Len(s) : ReplayEvent(w, s[n]) \in Good
  PROVE  ReplayOf(s) \in Good
<1>1. Len(s) \in Nat
  OBVIOUS
<1>2. PICK f \in [0..Len(s) -> World] :
        /\ f[0] = Blank
        /\ f[Len(s)] = ReplayOf(s)
        /\ \A n \in 1..Len(s) : f[n] = ReplayEvent(f[n - 1], s[n])
  BY ReplayTrace
<1>3. \A n \in 1..Len(s) : f[n - 1] \in Good => f[n] \in Good
  BY <1>2
<1>4. f[Len(s)] \in Good
  <2>1. f[0] \in Good
    BY <1>2
  <2> QED
    BY ONLY <1>1, <1>3, <2>1, TraceKeeps
<1> QED
  BY <1>2, <1>4

(* What every entry keeps, the filter of the queue keeps.                  *)
LEMMA WithoutKeeps ==
  ASSUME NEW queue \in Seq(Actions), NEW id, NEW Good \in SUBSET Seq(Actions),
         <<>> \in Good,
         \A kept \in Good, n \in 1..Len(queue) :
           Keep(kept, queue[n], id) \in Good
  PROVE  Without(queue, id) \in Good
<1>1. Len(queue) \in Nat
  OBVIOUS
<1>2. PICK f \in [0..Len(queue) -> Seq(Actions)] :
        /\ f[0] = <<>>
        /\ f[Len(queue)] = Without(queue, id)
        /\ \A n \in 1..Len(queue) : f[n] = Keep(f[n - 1], queue[n], id)
  BY WithoutTrace
<1>3. \A n \in 1..Len(queue) : f[n - 1] \in Good => f[n] \in Good
  BY <1>2
<1>4. f[Len(queue)] \in Good
  <2>1. f[0] \in Good
    BY <1>2
  <2> QED
    BY ONLY <1>1, <1>3, <2>1, TraceKeeps
<1> QED
  BY <1>2, <1>4

-----------------------------------------------------------------------------
(* The stream is ahead of the state.                                       *)

Answers == {"action.accepted", "action.rejected", "approval.required"}

SpineTypes == Answers \cup {"entity.property_set", "world.tick.completed"}

(* What the events of S account for in a world.                            *)
ActsAhead(torn, S, w) ==
  /\ \A x \in ToSet(w.processed) :
       \E e \in S : e.type \in Answers /\ e.action.id = x
  /\ \A x \in w.approvals :
       \E e \in S : e.type = "approval.required" /\ e.action.id = x
  /\ w.value # None =>
       \E e \in S : e.type = "entity.property_set" /\ e.action.id = w.value
  /\ ~torn =>
       \A k \in w.fired :
         \E e \in S : e.type = "consequence.approval_gate" /\ e.arg = k

TickAhead(S, w) ==
  w.tick > 0 => \E e \in S : e.type = "world.tick.completed" /\ e.arg = w.tick

Ahead(torn, S, w) == ActsAhead(torn, S, w) /\ TickAhead(S, w)

(* A stream that has more is no less ahead.                                *)
LEMMA AheadMore ==
  ASSUME NEW torn, NEW S, NEW T, S \subseteq T, NEW w
  PROVE  /\ ActsAhead(torn, S, w) => ActsAhead(torn, T, w)
         /\ Ahead(torn, S, w) => Ahead(torn, T, w)
<1>1. ActsAhead(torn, S, w) => ActsAhead(torn, T, w)
  BY DEF ActsAhead
<1>2. TickAhead(S, w) => TickAhead(T, w)
  BY DEF TickAhead
<1> QED
  BY <1>1, <1>2 DEF Ahead

(* Losing an event that no state depends on does no harm.                  *)
LEMMA AheadLess ==
  ASSUME NEW torn, torn, NEW S, NEW e, NEW w, Ahead(torn, S \cup {e}, w),
         e.type \notin SpineTypes
  PROVE  Ahead(torn, S, w)
BY DEF Ahead, ActsAhead, TickAhead, SpineTypes, Answers

(* Any stream is ahead of the world of a reset.                            *)
LEMMA BlankAhead == ASSUME NEW torn, NEW S PROVE Ahead(torn, S, Blank)
<1>1. ToSet(<<>>) = {}
  BY DEF ToSet
<1> QED
  BY <1>1 DEF Ahead, ActsAhead, TickAhead, Blank

(* The elements of a sequence with one more.                               *)
LEMMA ToSetAppend ==
  ASSUME NEW X, NEW s \in Seq(X), NEW e \in X
  PROVE  ToSet(Append(s, e)) = ToSet(s) \cup {e}
<1> DEFINE t == Append(s, e)
<1>1. /\ t \in Seq(X) /\ Len(t) = Len(s) + 1 /\ t[Len(s) + 1] = e
      /\ \A n \in 1..Len(s) : t[n] = s[n]
  BY AppendProperties
<1> HIDE DEF t
<1>2. /\ Len(s) \in Nat /\ DOMAIN s = 1..Len(s)
      /\ DOMAIN t = 1..(Len(s) + 1)
  BY <1>1
<1>3. ASSUME NEW x \in ToSet(t) PROVE x \in ToSet(s) \cup {e}
  <2>1. PICK n \in 1..(Len(s) + 1) : x = t[n]
    BY <1>2 DEF ToSet
  <2>2. n = Len(s) + 1 \/ n \in 1..Len(s)
    BY <1>2
  <2> QED
    BY <1>1, <1>2, <2>1, <2>2 DEF ToSet
<1>4. ASSUME NEW x \in ToSet(s) PROVE x \in ToSet(t)
  <2>1. PICK n \in 1..Len(s) : x = s[n]
    BY <1>2 DEF ToSet
  <2>2. n \in 1..(Len(s) + 1)
    BY <1>2
  <2> QED
    BY <1>1, <1>2, <2>1, <2>2 DEF ToSet
<1>5. e \in ToSet(t)
  <2>1. Len(s) + 1 \in 1..(Len(s) + 1)
    BY <1>2
  <2> QED
    BY <1>1, <1>2, <2>1 DEF ToSet
<1> QED
  BY <1>3, <1>4, <1>5 DEF t

(* The events of an action account for what it does to the world.          *)
LEMMA ReportedHas ==
  ASSUME NEW c \in Calls, NEW o \in Seq(Event), NEW a \in Actions
  PROVE  /\ ToSet(o) \subseteq ToSet(Reported(c, o, a))
         /\ EventOf(c, o, Answer(a), a) \in ToSet(Reported(c, o, a))
         /\ a.kind = "mark" =>
              \E e \in ToSet(Reported(c, o, a)) :
                e.type = "entity.property_set" /\ e.action = a
<1> DEFINE p == Answered(c, o, a)
           e1 == EventOf(c, o, Answer(a), a)
           e2 == EventOf(c, p, Result(a), a)
<1>1. p \in Seq(Event) /\ ToSet(p) = ToSet(o) \cup {e1}
  BY AnswerTyped, ToSetAppend DEF Answered
<1>2. ToSet(Append(p, e2)) = ToSet(p) \cup {e2}
  <2>1. e2 \in Event
    BY AnswerTyped
  <2> HIDE DEF p, e2
  <2> QED
    BY <1>1, <2>1, ToSetAppend
<1>3. CASE a.kind \in {"unknown", "gated"}
  <2>1. Reported(c, o, a) = p
    BY <1>3 DEF Reported
  <2> HIDE DEF p, e1, e2
  <2> QED
    BY <1>1, <1>3, <2>1 DEF e1
<1>4. CASE a.kind \notin {"unknown", "gated"}
  <2>1. Reported(c, o, a) = Append(p, e2)
    BY <1>4 DEF Reported
  <2>2. a.kind = "mark" => e2.type = "entity.property_set" /\ e2.action = a
    BY DEF EventOf, Result
  <2> HIDE DEF p, e1, e2
  <2> QED
    BY <1>1, <1>2, <2>1, <2>2 DEF e1
<1> QED
  BY <1>3, <1>4

(* The fields of WorkedWorld.                                              *)
LEMMA WorkedWorldIs ==
  ASSUME NEW w \in World, NEW a \in Actions
  PROVE  /\ WorkedWorld(w, a).tick = w.tick
         /\ WorkedWorld(w, a).queued = w.queued
         /\ WorkedWorld(w, a).fired = w.fired
         /\ WorkedWorld(w, a).android = w.android
         /\ WorkedWorld(w, a).processed = Append(w.processed, a.id)
         /\ ToSet(WorkedWorld(w, a).processed) = ToSet(w.processed) \cup {a.id}
         /\ WorkedWorld(w, a).approvals =
              IF a.kind = "gated" THEN w.approvals \cup {a.id} ELSE w.approvals
         /\ WorkedWorld(w, a).value = IF a.kind = "mark" THEN a.id ELSE w.value
<1>1. w.processed \in Seq(Submits)
  BY DEF World
<1>2. ToSet(Append(w.processed, a.id)) = ToSet(w.processed) \cup {a.id}
  BY <1>1, ToSetAppend DEF Actions
<1> QED
  BY <1>2 DEF WorkedWorld, World

(* One round of the action loop keeps the events ahead.                    *)
LEMMA WorkAhead ==
  ASSUME NEW torn, NEW c \in Calls, NEW S, NEW j \in JobSet, NEW a \in Actions,
         ActsAhead(torn, S \cup ToSet(j.out), j.world)
  PROVE  /\ ActsAhead(torn, S \cup ToSet(Work(c, j, a).out), Work(c, j, a).world)
         /\ Work(c, j, a).world.tick = j.world.tick
<1> DEFINE w == j.world
           v == WorkedWorld(w, a)
           U == S \cup ToSet(j.out)
           T == S \cup ToSet(Reported(c, j.out, a))
           e == EventOf(c, j.out, Answer(a), a)
<1>1. w \in World /\ j.out \in Seq(Event)
  BY DEF JobSet
<1>2. Work(c, j, a) = [world |-> v, out |-> Reported(c, j.out, a)]
  BY WorkParts
<1>3. /\ v.tick = w.tick /\ v.fired = w.fired
      /\ ToSet(v.processed) = ToSet(w.processed) \cup {a.id}
      /\ v.approvals = IF a.kind = "gated" THEN w.approvals \cup {a.id}
                                           ELSE w.approvals
      /\ v.value = IF a.kind = "mark" THEN a.id ELSE w.value
  BY <1>1, WorkedWorldIs
<1>4. /\ U \subseteq T /\ e \in T
      /\ a.kind = "mark" => \E x \in T : x.type = "entity.property_set"
                                           /\ x.action = a
  BY <1>1, ReportedHas
<1>5. e.type \in Answers /\ e.action = a
      /\ (a.kind = "gated" => e.type = "approval.required")
  BY DEF EventOf, Answer, Answers
<1>6. ActsAhead(torn, U, w)
  OBVIOUS
<1> HIDE DEF v, w, U, T, e
<1>7. ActsAhead(torn, T, w)
  BY <1>4, <1>6, AheadMore
<1>8. \A x \in ToSet(v.processed) :
        \E y \in T : y.type \in Answers /\ y.action.id = x
  BY <1>3, <1>4, <1>5, <1>7 DEF ActsAhead
<1>9. \A x \in v.approvals :
        \E y \in T : y.type = "approval.required" /\ y.action.id = x
  BY <1>3, <1>4, <1>5, <1>7 DEF ActsAhead
<1>10. v.value # None =>
         \E y \in T : y.type = "entity.property_set" /\ y.action.id = v.value
  BY <1>3, <1>4, <1>7 DEF ActsAhead
<1>11. ActsAhead(torn, T, v)
  BY <1>3, <1>7, <1>8, <1>9, <1>10 DEF ActsAhead
<1> QED
  BY <1>2, <1>3, <1>11 DEF T, w

(* One round of the consequence loop keeps the events ahead.               *)
LEMMA FireAhead ==
  ASSUME NEW torn, NEW c \in Calls, NEW S, NEW j \in JobSet, NEW e \in Event,
         ActsAhead(torn, S \cup ToSet(j.out), j.world)
  PROVE  /\ ActsAhead(torn, S \cup ToSet(Fire(c, j, e).out), Fire(c, j, e).world)
         /\ Fire(c, j, e).world.tick = j.world.tick
<1>1. CASE Fire(c, j, e) = j
  BY <1>1
<1>2. CASE Fire(c, j, e) # j
  <2> DEFINE w == j.world
             v == [w EXCEPT !.fired = @ \cup {e.id}]
             x == Consequence(c, j.out, e)
             U == S \cup ToSet(j.out)
             T == S \cup ToSet(Append(j.out, x))
  <2>1. Fire(c, j, e) = [world |-> v, out |-> Append(j.out, x)]
    BY <1>2, FireParts
  <2>2. w \in World /\ j.out \in Seq(Event) /\ ActsAhead(torn, U, w)
    BY DEF JobSet
  <2>3. /\ v.processed = w.processed /\ v.approvals = w.approvals
        /\ v.value = w.value /\ v.tick = w.tick
        /\ v.fired = w.fired \cup {e.id}
    BY <2>2 DEF World
  <2>4. ToSet(Append(j.out, x)) = ToSet(j.out) \cup {x}
    <3>1. x \in Event
      BY FireParts
    <3> HIDE DEF x
    <3> QED
      BY <2>2, <3>1, ToSetAppend
  <2>5. U \subseteq T /\ x \in T
    BY <2>4
  <2>6. x.type = "consequence.approval_gate" /\ x.arg = e.id
    BY DEF Consequence
  <2> HIDE DEF v, w, U, T, x
  <2>7. ActsAhead(torn, T, w)
    BY <2>2, <2>5, AheadMore
  <2>8. ActsAhead(torn, T, v)
    BY <2>3, <2>5, <2>6, <2>7 DEF ActsAhead
  <2> QED
    BY <2>1, <2>3, <2>8 DEF T, w
<1> QED
  BY <1>1, <1>2

(* The fields a replayed answer changes: _mark_action_processed.           *)
LEMMA MarkIs ==
  ASSUME NEW w \in World, NEW a \in Actions
  PROVE  /\ MarkProcessed(w, a) \in World
         /\ MarkProcessed(w, a).queued = Without(w.queued, a.id)
         /\ MarkProcessed(w, a).processed
              = IF a.id \in ToSet(w.processed) THEN w.processed
                                          ELSE Append(w.processed, a.id)
         /\ ToSet(MarkProcessed(w, a).processed) = ToSet(w.processed) \cup {a.id}
         /\ MarkProcessed(w, a).tick = w.tick
         /\ MarkProcessed(w, a).value = w.value
         /\ MarkProcessed(w, a).approvals = w.approvals
         /\ MarkProcessed(w, a).fired = w.fired
         /\ MarkProcessed(w, a).android = w.android
<1>1. a.id \in Submits
  BY DEF Actions
<1>2. w.queued \in Seq(Actions) /\ w.processed \in Seq(Submits)
  BY DEF World
<1>3. Without(w.queued, a.id) \in Seq(Actions)
  BY <1>2, WithoutTyped
<1>4. Contains(w.processed, a.id) <=> a.id \in ToSet(w.processed)
  BY <1>2 DEF Contains, ToSet
<1> DEFINE p == IF a.id \in ToSet(w.processed) THEN w.processed
                                              ELSE Append(w.processed, a.id)
<1>5. p \in Seq(Submits) /\ ToSet(p) = ToSet(w.processed) \cup {a.id}
  BY <1>1, <1>2, ToSetAppend
<1>6. MarkProcessed(w, a) = [w EXCEPT !.queued = Without(w.queued, a.id),
                                      !.processed = p]
  BY <1>4 DEF MarkProcessed
<1> HIDE DEF p
<1>7. /\ MarkProcessed(w, a) \in World
      /\ MarkProcessed(w, a).queued = Without(w.queued, a.id)
      /\ MarkProcessed(w, a).processed = p
      /\ MarkProcessed(w, a).tick = w.tick
      /\ MarkProcessed(w, a).value = w.value
      /\ MarkProcessed(w, a).approvals = w.approvals
      /\ MarkProcessed(w, a).fired = w.fired
      /\ MarkProcessed(w, a).android = w.android
  BY <1>3, <1>5, <1>6 DEF World
<1> QED
  BY <1>5, <1>7 DEF p

(* What a replay knows, it knows from an event.                            *)
LEMMA ReplayEventAhead ==
  ASSUME NEW torn, NEW S \in SUBSET Event, NEW w \in World, NEW e \in S, Ahead(torn, S, w)
  PROVE  Ahead(torn, S, ReplayEvent(w, e))
<1>1. e.type \in AboutActions => e.action \in Actions /\ e.action.id \in Submits
  BY DEF Event, Actions
<1>2. CASE e.type \in Answers
  <2> DEFINE a == e.action
             m == MarkProcessed(w, a)
  <2>1. a \in Actions
    BY <1>1, <1>2 DEF Answers, AboutActions
  <2>2. /\ m \in World
        /\ ToSet(m.processed) = ToSet(w.processed) \cup {a.id}
        /\ m.tick = w.tick /\ m.value = w.value /\ m.approvals = w.approvals
        /\ m.fired = w.fired
    BY <2>1, MarkIs
  <2>3. CASE e.type # "approval.required"
    <3>1. ReplayEvent(w, e) = m
      BY <1>2, <2>3 DEF ReplayEvent, Answers
    <3> HIDE DEF m
    <3>2. Ahead(torn, S, m)
      BY <1>2, <2>2 DEF Ahead, ActsAhead, TickAhead
    <3> QED
      BY <3>1, <3>2
  <2>4. CASE e.type = "approval.required"
    <3> DEFINE v == [m EXCEPT !.approvals = @ \cup {a.id}]
    <3>1. ReplayEvent(w, e) = v
      BY <2>4 DEF ReplayEvent
    <3>2. /\ v.processed = m.processed /\ v.tick = w.tick /\ v.value = w.value
          /\ v.approvals = w.approvals \cup {a.id} /\ v.fired = w.fired
      BY <2>2 DEF World
    <3> HIDE DEF m, v
    <3>3. Ahead(torn, S, v)
      BY <1>2, <2>2, <2>4, <3>2 DEF Ahead, ActsAhead, TickAhead
    <3> QED
      BY <3>1, <3>3
  <2> QED
    BY <2>3, <2>4
<1>3. CASE e.type = "action.queued"
  <2>1. ReplayEvent(w, e) = [w EXCEPT !.queued = Append(@, e.action)]
    BY <1>3 DEF ReplayEvent
  <2> QED
    BY <2>1 DEF Ahead, ActsAhead, TickAhead, World
<1>4. CASE e.type = "entity.property_set"
  <2>1. ReplayEvent(w, e) = [w EXCEPT !.value = e.action.id]
    BY <1>4 DEF ReplayEvent
  <2> QED
    BY <1>4, <2>1 DEF Ahead, ActsAhead, TickAhead, World
<1>5. CASE e.type = "world.tick.completed"
  <2>1. ReplayEvent(w, e) = [w EXCEPT !.tick = e.arg]
    BY <1>5 DEF ReplayEvent
  <2> QED
    BY <1>5, <2>1 DEF Ahead, ActsAhead, TickAhead, World
<1>6. CASE e.type \notin Answers \cup {"action.queued", "entity.property_set",
                                       "world.tick.completed"}
  <2>1. ReplayEvent(w, e) = w
    BY <1>6 DEF ReplayEvent, Answers
  <2> QED
    BY <2>1
<1> QED
  BY <1>2, <1>3, <1>4, <1>5, <1>6

(* A stream is ahead of its own replay.                                    *)
LEMMA ReplayAhead ==
  ASSUME NEW torn, NEW s \in Seq(Event)
  PROVE  Ahead(torn, ToSet(s), ReplayOf(s))
<1> DEFINE Good == {w \in World : Ahead(torn, ToSet(s), w)}
<1>1. Blank \in Good
  BY BlankTyped, BlankAhead
<1>2. ASSUME NEW w \in Good, NEW n \in 1..Len(s)
      PROVE  ReplayEvent(w, s[n]) \in Good
  <2>1. s[n] \in ToSet(s) /\ s[n] \in Event /\ ToSet(s) \in SUBSET Event
    BY DEF ToSet
  <2> QED
    BY <2>1, ReplayEventTyped, ReplayEventAhead
<1>3. Good \in SUBSET World
  OBVIOUS
<1> HIDE DEF Good
<1>4. ReplayOf(s) \in Good
  BY <1>1, <1>2, <1>3, ReplayKeeps
<1> QED
  BY <1>4 DEF Good

(* A tick begins with an event that accounts for nothing, and accounts for *)
(* everything it has done when it ends.                                    *)
LEMMA TickStartIs ==
  ASSUME NEW c \in Calls, NEW w \in World
  PROVE  /\ TickStart(c, w) \in JobSet
         /\ TickStart(c, w).world = [w EXCEPT !.tick = @ + 1, !.queued = Rest(w)]
         /\ TickStart(c, w).out =
              <<[id |-> <<c, 1>>, type |-> "world.tick.started",
                 action |-> NoAction, arg |-> w.tick + 1]>>
<1> DEFINE v == [w EXCEPT !.tick = @ + 1, !.queued = Rest(w)]
           e == [id |-> <<c, 1>>, type |-> "world.tick.started",
                 action |-> NoAction, arg |-> w.tick + 1]
<1>1. TickStart(c, w) \in JobSet
  BY TickTyped
<1>2. TickStart(c, w) = [[world |-> v, out |-> <<>>] EXCEPT
                           !.out = Append(@, [id |-> <<c, Len(@) + 1>>,
                                    type |-> "world.tick.started",
                                    action |-> NoAction, arg |-> w.tick + 1])]
  BY DEF TickStart, Emit
<1>3. Len(<<>>) + 1 = 1
  OBVIOUS
<1>4. TickStart(c, w) = [world |-> v, out |-> Append(<<>>, e)]
  BY <1>2, <1>3
<1> HIDE DEF e, v
<1>5. Append(<<>>, e) = <<e>>
  OBVIOUS
<1> QED
  BY <1>1, <1>4, <1>5 DEF e, v

(* A tick ends with the event of its number.                               *)
LEMMA TickEndIs ==
  ASSUME NEW c \in Calls, NEW w \in World
  PROVE  /\ ProcessTick(c, w).world = TickScanned(c, w).world
         /\ \E e \in Event :
              /\ e.type = "world.tick.completed" /\ e.arg = w.tick + 1
              /\ e.id = <<c, Len(TickScanned(c, w).out) + 1>>
              /\ e.action = NoAction
              /\ ProcessTick(c, w).out = Append(TickScanned(c, w).out, e)
<1> DEFINE j == TickScanned(c, w)
           e == [id |-> <<c, Len(j.out) + 1>>, type |-> "world.tick.completed",
                 action |-> NoAction, arg |-> w.tick + 1]
<1>1. j \in JobSet /\ w.tick + 1 \in Nat
  BY TickTyped DEF World
<1>2. "world.tick.completed" \in AboutWorld
  BY DEF AboutWorld
<1>3. \A id \in EventIds :
        [id |-> id, type |-> "world.tick.completed", action |-> NoAction,
         arg |-> w.tick + 1] \in Event
  BY <1>1, <1>2, WorldEvent
<1>4. /\ ProcessTick(c, w).world = j.world
      /\ ProcessTick(c, w).out = Append(j.out, e)
  <2>1. ProcessTick(c, w) = Emit(c, j, "world.tick.completed", NoAction,
                                 w.tick + 1)
    BY TickParts
  <2> HIDE DEF j
  <2> QED
    BY <1>1, <1>3, <2>1, EmitTyped
<1>5. e \in Event
  <2>1. j.out \in Seq(Event)
    BY <1>1 DEF JobSet
  <2>2. <<c, Len(j.out) + 1>> \in EventIds
    BY <2>1 DEF EventIds
  <2> QED
    BY <1>3, <2>2
<1> QED
  BY <1>4, <1>5

Begins(o, type) == Len(o) >= 1 /\ o[1].type = type

(* The first event stays first.                                            *)
LEMMA AppendBegins ==
  ASSUME NEW o \in Seq(Event), NEW e \in Event, NEW type,
         Begins(o, type) \/ (o = <<>> /\ e.type = type)
  PROVE  Begins(Append(o, e), type)
<1>1. /\ Len(Append(o, e)) = Len(o) + 1 /\ Append(o, e)[Len(o) + 1] = e
      /\ \A n \in 1..Len(o) : Append(o, e)[n] = o[n]
      /\ Len(o) \in Nat
  BY AppendProperties
<1>2. CASE o = <<>>
  <2>1. Len(o) = 0
    BY <1>2
  <2>2. e.type = type
    BY <2>1 DEF Begins
  <2> QED
    BY <1>1, <2>1, <2>2 DEF Begins
<1>3. CASE o # <<>>
  <2>1. Len(o) >= 1 /\ 1 \in 1..Len(o) /\ Begins(o, type)
    BY <1>1, <1>3 DEF Begins
  <2>2. Append(o, e)[1] = o[1]
    BY <1>1, <2>1
  <2> QED
    BY <1>1, <2>1, <2>2 DEF Begins
<1> QED
  BY <1>2, <1>3

(* A tick's events are ahead of the world it saves, and start with one     *)
(* that no state depends on.                                               *)
LEMMA TickAheadOf ==
  ASSUME NEW torn, NEW c \in Calls, NEW w \in World, NEW S, Ahead(torn, S, w)
  PROVE  /\ Ahead(torn, S \cup ToSet(ProcessTick(c, w).out), ProcessTick(c, w).world)
         /\ Begins(ProcessTick(c, w).out, "world.tick.started")
<1> DEFINE Good == {j \in JobSet : /\ ActsAhead(torn, S \cup ToSet(j.out), j.world)
                                   /\ j.world.tick = w.tick + 1
                                   /\ Begins(j.out, "world.tick.started")}
           start == TickStart(c, w)
           acted == TickActed(c, w)
           scanned == TickScanned(c, w)
<1>1. Good \in SUBSET JobSet
  OBVIOUS
<1>2. start \in Good
  <2>1. /\ start \in JobSet
        /\ start.world = [w EXCEPT !.tick = @ + 1, !.queued = Rest(w)]
        /\ start.out = <<[id |-> <<c, 1>>, type |-> "world.tick.started",
                          action |-> NoAction, arg |-> w.tick + 1]>>
    BY TickStartIs
  <2>2. /\ start.world.tick = w.tick + 1
        /\ start.world.processed = w.processed /\ start.world.fired = w.fired
        /\ start.world.approvals = w.approvals /\ start.world.value = w.value
    BY <2>1 DEF World
  <2>3. Begins(start.out, "world.tick.started")
    BY <2>1 DEF Begins
  <2> HIDE DEF start
  <2>4. ActsAhead(torn, S, start.world)
    BY <2>2 DEF Ahead, ActsAhead
  <2>5. ActsAhead(torn, S \cup ToSet(start.out), start.world)
    BY <2>4, AheadMore
  <2> QED
    BY <2>1, <2>2, <2>3, <2>5
<1>3. Taken(w) \in Seq(Actions)
  BY TakenTyped
<1>4. ASSUME NEW j \in Good, NEW n \in 1..Len(Taken(w))
      PROVE  Work(c, j, Taken(w)[n]) \in Good
  <2> DEFINE a == Taken(w)[n]
             k == Work(c, j, a)
             e == EventOf(c, j.out, Answer(a), a)
  <2>1. a \in Actions
    BY <1>3
  <2> HIDE DEF a
  <2>2. k \in JobSet /\ ActsAhead(torn, S \cup ToSet(k.out), k.world)
        /\ k.world.tick = w.tick + 1
    <3>1. /\ j \in JobSet /\ ActsAhead(torn, S \cup ToSet(j.out), j.world)
          /\ j.world.tick = w.tick + 1
      OBVIOUS
    <3>2. k \in JobSet
      BY <2>1, <3>1, WorkTyped
    <3> HIDE DEF Good
    <3>3. /\ ActsAhead(torn, S \cup ToSet(k.out), k.world)
          /\ k.world.tick = j.world.tick
      <4>1. /\ c \in Calls /\ a \in Actions /\ j \in JobSet
            /\ ActsAhead(torn, S \cup ToSet(j.out), j.world)
        BY <2>1, <3>1
      <4> QED
        BY ONLY <4>1, WorkAhead, ZenonT(40)
    <3> QED
      BY <3>1, <3>2, <3>3
  <2>3. Begins(k.out, "world.tick.started")
    <3> DEFINE p == Answered(c, j.out, a)
    <3>1. k.out = Reported(c, j.out, a)
      BY <2>1, WorkParts
    <3>2. /\ EventOf(c, j.out, Answer(a), a) \in Event /\ p \in Seq(Event)
          /\ EventOf(c, p, Result(a), a) \in Event
          /\ j.out \in Seq(Event) /\ Begins(j.out, "world.tick.started")
      BY <2>1, AnswerTyped DEF JobSet
    <3>3. Begins(p, "world.tick.started")
      BY <3>2, AppendBegins DEF Answered
    <3> HIDE DEF p
    <3>4. Begins(Append(p, EventOf(c, p, Result(a), a)), "world.tick.started")
      BY <3>2, <3>3, AppendBegins
    <3> QED
      BY <3>1, <3>3, <3>4 DEF Reported, p
  <2> QED
    BY <2>2, <2>3 DEF a
<1>5. acted \in Good
  <2> HIDE DEF Good
  <2> QED
    BY <1>1, <1>2, <1>3, <1>4, WorkKeeps DEF TickActed
<1>6. ASSUME NEW j \in Good, NEW e \in Event PROVE Fire(c, j, e) \in Good
  <2>1. /\ Fire(c, j, e) \in JobSet
        /\ ActsAhead(torn, S \cup ToSet(Fire(c, j, e).out), Fire(c, j, e).world)
        /\ Fire(c, j, e).world.tick = w.tick + 1
    <3>1. /\ j \in JobSet /\ ActsAhead(torn, S \cup ToSet(j.out), j.world)
          /\ j.world.tick = w.tick + 1
      OBVIOUS
    <3> HIDE DEF Good
    <3>2. Fire(c, j, e) \in JobSet
      BY <3>1, FireTyped
    <3>3. /\ ActsAhead(torn, S \cup ToSet(Fire(c, j, e).out), Fire(c, j, e).world)
          /\ Fire(c, j, e).world.tick = j.world.tick
      <4>1. /\ c \in Calls /\ e \in Event /\ j \in JobSet
            /\ ActsAhead(torn, S \cup ToSet(j.out), j.world)
        BY <3>1
      <4> QED
        BY ONLY <4>1, FireAhead, ZenonT(40)
    <3> QED
      BY <3>1, <3>2, <3>3
  <2>2. Begins(Fire(c, j, e).out, "world.tick.started")
    <3>1. CASE Fire(c, j, e) = j
      BY <3>1
    <3>2. CASE Fire(c, j, e) # j
      <4>5. j \in JobSet
        OBVIOUS
      <4>1. /\ Consequence(c, j.out, e) \in Event
            /\ Fire(c, j, e).out = Append(j.out, Consequence(c, j.out, e))
        BY <3>2, <4>5, Fires
      <4>2. j.out \in Seq(Event) /\ Begins(j.out, "world.tick.started")
        BY DEF JobSet
      <4> QED
        BY <4>1, <4>2, AppendBegins
    <3> QED
      BY <3>1, <3>2
  <2> QED
    BY <2>1, <2>2
<1>7. scanned \in Good
  <2>1. acted.out \in Seq(Event)
    BY TickTyped DEF JobSet
  <2>2. \A n \in 1..Len(acted.out) : acted.out[n] \in Event
    BY <2>1
  <2> HIDE DEF Good
  <2>3. \A j \in Good, n \in 1..Len(acted.out) : Fire(c, j, acted.out[n]) \in Good
    BY <1>6, <2>2
  <2> QED
    BY <1>1, <1>5, <2>1, <2>3, ScanKeeps DEF TickScanned
<1> HIDE DEF scanned
<1>8. /\ scanned \in JobSet /\ ActsAhead(torn, S \cup ToSet(scanned.out), scanned.world)
      /\ scanned.world.tick = w.tick + 1
      /\ Begins(scanned.out, "world.tick.started")
      /\ scanned.out \in Seq(Event)
  BY <1>7 DEF JobSet
<1>9. PICK e \in Event :
        /\ e.type = "world.tick.completed" /\ e.arg = w.tick + 1
        /\ ProcessTick(c, w).out = Append(scanned.out, e)
  BY TickEndIs DEF scanned
<1>10. ToSet(Append(scanned.out, e)) = ToSet(scanned.out) \cup {e}
  BY <1>8, ToSetAppend
<1>11. ActsAhead(torn, S \cup ToSet(Append(scanned.out, e)), scanned.world)
  BY <1>8, <1>10, AheadMore
<1>12. TickAhead(S \cup ToSet(Append(scanned.out, e)), scanned.world)
  BY <1>8, <1>9, <1>10 DEF TickAhead
<1>13. Begins(Append(scanned.out, e), "world.tick.started")
  BY <1>8, AppendBegins
<1>14. ProcessTick(c, w).world = scanned.world
  BY TickEndIs DEF scanned
<1> QED
  BY <1>9, <1>11, <1>12, <1>13, <1>14 DEF Ahead

(* A scan appends consequences and nothing else.                           *)
LEMMA ScanAheadOf ==
  ASSUME NEW torn, NEW c \in Calls, NEW w \in World, NEW recent \in Seq(Event), NEW S,
         Ahead(torn, S, w)
  PROVE  LET job == ScanConsequences(c, Same(w), recent)
         IN  /\ Ahead(torn, S \cup ToSet(job.out), job.world)
             /\ job.out # <<>> => Begins(job.out, "consequence.approval_gate")
<1> DEFINE Good == {j \in JobSet :
                      /\ ActsAhead(torn, S \cup ToSet(j.out), j.world)
                      /\ j.world.tick = w.tick
                      /\ j.out # <<>> =>
                           Begins(j.out, "consequence.approval_gate")}
           job == ScanConsequences(c, Same(w), recent)
<1>1. Good \in SUBSET JobSet
  OBVIOUS
<1>2. Same(w) \in Good
  <2>1. Same(w) \in JobSet /\ Same(w).world = w /\ Same(w).out = <<>>
    BY SameTyped
  <2>2. ActsAhead(torn, S \cup ToSet(Same(w).out), w)
    BY AheadMore DEF Ahead
  <2> QED
    BY <2>1, <2>2
<1>3. ASSUME NEW j \in Good, NEW e \in Event PROVE Fire(c, j, e) \in Good
  <2>1. /\ Fire(c, j, e) \in JobSet
        /\ ActsAhead(torn, S \cup ToSet(Fire(c, j, e).out), Fire(c, j, e).world)
        /\ Fire(c, j, e).world.tick = w.tick
    <3>1. /\ j \in JobSet /\ ActsAhead(torn, S \cup ToSet(j.out), j.world)
          /\ j.world.tick = w.tick
      OBVIOUS
    <3> HIDE DEF Good
    <3>2. Fire(c, j, e) \in JobSet
      BY <3>1, FireTyped
    <3>3. /\ ActsAhead(torn, S \cup ToSet(Fire(c, j, e).out), Fire(c, j, e).world)
          /\ Fire(c, j, e).world.tick = j.world.tick
      <4>1. /\ c \in Calls /\ e \in Event /\ j \in JobSet
            /\ ActsAhead(torn, S \cup ToSet(j.out), j.world)
        BY <3>1
      <4> QED
        BY ONLY <4>1, FireAhead, ZenonT(40)
    <3> QED
      BY <3>1, <3>2, <3>3
  <2>2. Fire(c, j, e).out # <<>> =>
          Begins(Fire(c, j, e).out, "consequence.approval_gate")
    <3>1. CASE Fire(c, j, e) = j
      BY <3>1
    <3>2. CASE Fire(c, j, e) # j
      <4>5. j \in JobSet
        OBVIOUS
      <4>1. /\ Consequence(c, j.out, e) \in Event
            /\ Fire(c, j, e).out = Append(j.out, Consequence(c, j.out, e))
        BY <3>2, <4>5, Fires
      <4>2. /\ j.out \in Seq(Event)
            /\ j.out = <<>> \/ Begins(j.out, "consequence.approval_gate")
        BY DEF JobSet
      <4>3. Consequence(c, j.out, e).type = "consequence.approval_gate"
        BY DEF Consequence
      <4> QED
        BY <4>1, <4>2, <4>3, AppendBegins
    <3> QED
      BY <3>1, <3>2
  <2> QED
    BY <2>1, <2>2
<1>4. job \in Good
  <2>1. \A n \in 1..Len(recent) : recent[n] \in Event
    OBVIOUS
  <2> HIDE DEF Good
  <2>2. \A j \in Good, n \in 1..Len(recent) : Fire(c, j, recent[n]) \in Good
    BY <1>3, <2>1
  <2> QED
    BY <1>1, <1>2, <2>2, ScanKeeps
<1> HIDE DEF job
<1>5. TickAhead(S \cup ToSet(job.out), job.world)
  <2>1. TickAhead(S, w) /\ job.world.tick = w.tick
    BY <1>4 DEF Ahead
  <2> QED
    BY <2>1 DEF TickAhead
<1> QED
  BY <1>4, <1>5 DEF Ahead, job

(* Every call works out a world that the stream and the events it will     *)
(* append account for; a call that saves first accounts for it already.    *)
Counted(c, S, o) == IF c \in SaveFirst THEN S ELSE S \cup ToSet(o)

(* So it is with every call, counting only the events that are appended    *)
(* before the save.                                                        *)
LEMMA JobAhead ==
  ASSUME NEW torn, NEW c \in Calls, NEW w \in World, stream \in Seq(Event),
         NEW kind \in IF c \in Submits THEN Kinds ELSE {"none"},
         Ahead(torn, ToSet(stream), w)
  PROVE  LET job == Job(c, kind, w)
         IN  /\ Ahead(torn, Counted(c, ToSet(stream), job.out), job.world)
             /\ c \notin SaveFirst /\ job.out # <<>> =>
                  \E type : type \notin SpineTypes /\ Begins(job.out, type)
<1> DEFINE S == ToSet(stream)
<1>0. /\ c \in Submits => Job(c, kind, w) = SubmitAction(c, kind, w)
      /\ c \in Ticks => Job(c, kind, w) = ProcessTick(c, w)
      /\ c \in Scans =>
           Job(c, kind, w) = ScanConsequences(c, Same(w), StreamTail)
      /\ c \in Reconciles => Job(c, kind, w) = Reconcile(c, w)
      /\ c \in Replays => Job(c, kind, w) = Same(ReplayOf(stream))
      /\ c \in Inits => Job(c, kind, w) = Initialize(c, w, FALSE)
      /\ c \in Resets => Job(c, kind, w) = Initialize(c, w, TRUE)
  BY JobOf
<1>1. /\ "world.tick.started" \notin SpineTypes
      /\ "consequence.approval_gate" \notin SpineTypes
      /\ "android.reconciled" \notin SpineTypes
  BY DEF SpineTypes, Answers
<1>2. CASE c \in Submits
  <2> DEFINE job == SubmitAction(c, kind, w)
  <2>1. kind \in Kinds /\ c \in SaveFirst
    BY <1>2 DEF SaveFirst
  <2>2. job.world = [w EXCEPT !.queued = Append(@, [id |-> c, kind |-> kind])]
    BY <1>2, <2>1, SubmitTyped
  <2>3. /\ job.world.processed = w.processed
        /\ job.world.approvals = w.approvals /\ job.world.value = w.value
        /\ job.world.tick = w.tick /\ job.world.fired = w.fired
    BY <2>2 DEF World
  <2> HIDE DEF job
  <2>4. Ahead(torn, S, job.world)
    BY <2>3 DEF Ahead, ActsAhead, TickAhead
  <2> QED
    BY <1>0, <1>2, <2>1, <2>4 DEF Counted, job
<1>3. CASE c \in Ticks
  <2>1. c \notin SaveFirst
    BY <1>3, CallsAssumption DEF SaveFirst
  <2>2. /\ Ahead(torn, S \cup ToSet(ProcessTick(c, w).out), ProcessTick(c, w).world)
        /\ Begins(ProcessTick(c, w).out, "world.tick.started")
    BY TickAheadOf
  <2> QED
    BY <1>0, <1>1, <1>3, <2>1, <2>2 DEF Counted
<1>4. CASE c \in Scans
  <2>1. c \notin SaveFirst
    BY <1>4, CallsAssumption DEF SaveFirst
  <2> DEFINE job == ScanConsequences(c, Same(w), StreamTail)
  <2>2. /\ Ahead(torn, S \cup ToSet(job.out), job.world)
        /\ job.out # <<>> => Begins(job.out, "consequence.approval_gate")
    BY TailTyped, ScanAheadOf
  <2> HIDE DEF job
  <2>3. Job(c, kind, w) = job
    BY <1>0, <1>4 DEF job
  <2> QED
    BY <1>1, <2>1, <2>2, <2>3 DEF Counted
<1>5. CASE c \in Reconciles
  <2> DEFINE job == Reconcile(c, w)
             e == [id |-> <<c, 1>>, type |-> "android.reconciled",
                   action |-> NoAction, arg |-> 0]
  <2>1. job.world = [w EXCEPT !.android = TRUE] /\ job.out = <<e>>
    BY PlainTyped
  <2>2. /\ job.world.processed = w.processed
        /\ job.world.approvals = w.approvals /\ job.world.value = w.value
        /\ job.world.tick = w.tick /\ job.world.fired = w.fired
    BY <2>1 DEF World
  <2>3. Begins(job.out, "android.reconciled")
    BY <2>1 DEF Begins
  <2> HIDE DEF job
  <2>4. Ahead(torn, S, job.world)
    BY <2>2 DEF Ahead, ActsAhead, TickAhead
  <2>5. Ahead(torn, Counted(c, S, job.out), job.world)
    BY <2>4, AheadMore DEF Counted
  <2>6. Job(c, kind, w) = job
    BY <1>0, <1>5 DEF job
  <2> QED
    BY <1>1, <2>3, <2>5, <2>6
<1>6. CASE c \in Replays
  <2> DEFINE job == Same(ReplayOf(stream))
  <2>1. job.world = ReplayOf(stream) /\ job.out = <<>>
    BY DEF Same
  <2>2. Ahead(torn, S, job.world)
    BY <2>1, ReplayAhead
  <2> HIDE DEF job
  <2>3. Ahead(torn, Counted(c, S, job.out), job.world)
    BY <2>2, AheadMore DEF Counted
  <2>4. Job(c, kind, w) = job
    BY <1>0, <1>6 DEF job
  <2> QED
    BY <2>1, <2>3, <2>4
<1>7. CASE c \in Inits \cup Resets
  <2>1. c \in SaveFirst
    BY <1>7 DEF SaveFirst
  <2>2. /\ Initialize(c, w, FALSE).world = w
        /\ Initialize(c, w, TRUE).world = Blank
    BY PlainTyped
  <2>3. Job(c, kind, w).world \in {w, Blank}
    BY <1>0, <1>7, <2>2
  <2>4. Ahead(torn, S, Job(c, kind, w).world)
    BY <2>3, BlankAhead
  <2> QED
    BY <2>1, <2>4 DEF Counted
<1> QED
  BY <1>2, <1>3, <1>4, <1>5, <1>6, <1>7 DEF Calls

(* Ahead, when less is asked.                                              *)
LEMMA AheadWeaker ==
  ASSUME NEW torn, NEW then, torn => then, NEW S, NEW w, Ahead(torn, S, w)
  PROVE  Ahead(then, S, w)
BY DEF Ahead, ActsAhead

(* Counted grows with the stream.                                          *)
LEMMA CountedMore ==
  ASSUME NEW c, NEW S, NEW T, S \subseteq T, NEW o
  PROVE  Counted(c, S, o) \subseteq Counted(c, T, o)
BY DEF Counted

(* The elements of a sequence, first and rest.                             *)
LEMMA ToSetHeadTail ==
  ASSUME NEW X, NEW o \in Seq(X), o # <<>>
  PROVE  ToSet(o) = {Head(o)} \cup ToSet(Tail(o))
<1> DEFINE t == Tail(o)
<1>1. /\ DOMAIN o = 1..Len(o) /\ Len(o) \in Nat /\ Len(o) >= 1
      /\ Head(o) = o[1]
  OBVIOUS
<1>2. /\ t \in Seq(X) /\ Len(t) = Len(o) - 1 /\ DOMAIN t = 1..(Len(o) - 1)
      /\ \A n \in 1..(Len(o) - 1) : t[n] = o[n + 1]
  BY <1>1
<1> HIDE DEF t
<1>3. ASSUME NEW x \in ToSet(o) PROVE x = Head(o) \/ x \in ToSet(t)
  <2>1. PICK n \in 1..Len(o) : x = o[n]
    BY <1>1 DEF ToSet
  <2>2. CASE n = 1
    BY <1>1, <2>1, <2>2
  <2>3. CASE n # 1
    <3>1. n - 1 \in 1..(Len(o) - 1) /\ (n - 1) + 1 = n
      BY <1>1, <2>3
    <3>2. t[n - 1] = x
      BY <1>2, <2>1, <3>1
    <3> QED
      BY <1>2, <3>1, <3>2 DEF ToSet
  <2> QED
    BY <2>2, <2>3
<1>4. ASSUME NEW x \in ToSet(t) PROVE x \in ToSet(o)
  <2>1. PICK n \in 1..(Len(o) - 1) : x = t[n]
    BY <1>2 DEF ToSet
  <2>2. n + 1 \in 1..Len(o) /\ x = o[n + 1]
    BY <1>1, <1>2, <2>1
  <2> QED
    BY <1>1, <2>2 DEF ToSet
<1>5. Head(o) \in ToSet(o)
  <2>1. 1 \in 1..Len(o)
    BY <1>1
  <2> QED
    BY <1>1, <2>1 DEF ToSet
<1> QED
  BY <1>3, <1>4, <1>5 DEF t

-----------------------------------------------------------------------------
(* The ids of the actions of a world, the processed ones first, and what   *)
(* a tick does with them: it moves some, in their order.                   *)

Moved(w, n) ==
  [i \in 1..(Len(w.processed) + n) |->
     IF i <= Len(w.processed) THEN w.processed[i]
     ELSE w.queued[i - Len(w.processed)].id]

AllIds(w) == Moved(w, Len(w.queued))

(* The processed actions after n rounds.                                   *)
LEMMA MovedTyped ==
  ASSUME NEW w \in World, NEW n \in 0..Len(w.queued)
  PROVE  /\ Moved(w, n) \in Seq(Submits)
         /\ Len(Moved(w, n)) = Len(w.processed) + n
         /\ Moved(w, 0) = w.processed
         /\ n > 0 => Moved(w, n) = Append(Moved(w, n - 1), w.queued[n].id)
<1> DEFINE p == w.processed
           q == w.queued
           L == Len(p)
<1>1. /\ p \in Seq(Submits) /\ q \in Seq(Actions) /\ L \in Nat /\ Len(q) \in Nat
      /\ n \in Nat /\ n <= Len(q)
  BY DEF World
<1>2. /\ \A i \in 1..L : p[i] \in Submits
      /\ \A i \in 1..Len(q) : q[i].id \in Submits
  <2>1. \A a \in Actions : a.id \in Submits
    BY DEF Actions
  <2> HIDE DEF p, q, L
  <2>2. \A i \in 1..Len(q) : q[i] \in Actions
    BY <1>1
  <2>3. \A i \in 1..Len(p) : p[i] \in Submits
    BY <1>1
  <2> QED
    BY <2>1, <2>2, <2>3 DEF L
<1> DEFINE m(k) == [i \in 1..(L + k) |-> IF i <= L THEN p[i] ELSE q[i - L].id]
<1>3. ASSUME NEW k \in 0..Len(q)
      PROVE  m(k) \in Seq(Submits) /\ Len(m(k)) = L + k
  <2>1. ASSUME NEW i \in 1..(L + k), ~(i <= L) PROVE i - L \in 1..Len(q)
    BY <1>1, <2>1
  <2>2. \A i \in 1..(L + k) : (IF i <= L THEN p[i] ELSE q[i - L].id) \in Submits
    BY <1>1, <1>2, <2>1
  <2>3. L + k \in Nat
    BY <1>1
  <2> HIDE DEF p, q, L
  <2> QED
    BY <2>2, <2>3
<1>4. m(0) = p
  <2> HIDE DEF p, q, L
  <2>1. m(0) \in Seq(Submits) /\ Len(m(0)) = L
    BY <1>1, <1>3
  <2>2. \A i \in 1..L : m(0)[i] = p[i]
    BY <1>1
  <2> QED
    BY <1>1, <2>1, <2>2 DEF L
<1>5. n > 0 => m(n) = Append(m(n - 1), q[n].id)
  <2> SUFFICES ASSUME n > 0 PROVE m(n) = Append(m(n - 1), q[n].id)
    OBVIOUS
  <2> HIDE DEF p, q, L
  <2> DEFINE a == m(n - 1)
             b == m(n)
             x == q[n].id
  <2>1. /\ a \in Seq(Submits) /\ Len(a) = L + (n - 1)
        /\ b \in Seq(Submits) /\ Len(b) = L + n /\ x \in Submits
    <3>1. n - 1 \in 0..Len(q) /\ n \in 0..Len(q) /\ n \in 1..Len(q)
      BY <1>1
    <3> HIDE DEF m
    <3>2. a \in Seq(Submits) /\ Len(a) = L + (n - 1)
      BY <1>3, <3>1
    <3>3. b \in Seq(Submits) /\ Len(b) = L + n
      BY <1>3, <3>1
    <3> QED
      BY <1>2, <3>1, <3>2, <3>3
  <2>2. \A i \in 1..(L + (n - 1)) : b[i] = a[i]
    BY <1>1
  <2>3. b[L + n] = x
    BY <1>1
  <2> HIDE DEF a, b, x
  <2>4. /\ Append(a, x) \in Seq(Submits) /\ Len(Append(a, x)) = L + n
        /\ \A i \in 1..(L + (n - 1)) : Append(a, x)[i] = a[i]
        /\ Append(a, x)[L + n] = x
    BY <1>1, <2>1
  <2>5. \A i \in 1..(L + n) : i \in 1..(L + (n - 1)) \/ i = L + n
    BY <1>1
  <2>6. \A i \in 1..(L + n) : b[i] = Append(a, x)[i]
    BY <2>2, <2>3, <2>4, <2>5
  <2>7. Len(b) = Len(Append(a, x))
    BY <2>1, <2>4
  <2> QED
    BY <2>1, <2>4, <2>6, <2>7, SeqEqual DEF a, b, x
<1>6. \A k : Moved(w, k) = m(k)
  BY DEF Moved
<1>7. m(n) \in Seq(Submits) /\ Len(m(n)) = L + n
  BY <1>3
<1> HIDE DEF m, p, q, L
<1> QED
  BY <1>4, <1>5, <1>6, <1>7 DEF p, q, L

(* The jobs of a tick, one action at a time.                               *)
LEMMA TickSteps ==
  ASSUME NEW c \in Calls, NEW w \in World
  PROVE  \E f \in [0..Len(Taken(w)) -> JobSet] :
           /\ f[0] = TickStart(c, w) /\ f[Len(Taken(w))] = TickActed(c, w)
           /\ \A n \in 1..Len(Taken(w)) :
                /\ w.queued[n] \in Actions
                /\ f[n].world = WorkedWorld(f[n - 1].world, w.queued[n])
                /\ f[n].out = Reported(c, f[n - 1].out, w.queued[n])
<1> DEFINE N == Len(Taken(w))
<1>1. /\ Taken(w) \in Seq(Actions) /\ N \in 0..Len(w.queued)
      /\ \A n \in 1..N : Taken(w)[n] = w.queued[n]
      /\ TickStart(c, w) \in JobSet
  BY TakenTyped, TickTyped
<1>2. PICK f \in [0..N -> JobSet] :
        /\ f[0] = TickStart(c, w)
        /\ f[N] = Worked(c, TickStart(c, w), Taken(w))
        /\ \A n \in 1..N : f[n] = Work(c, f[n - 1], Taken(w)[n])
  BY <1>1, WorkTrace
<1>3. ASSUME NEW n \in 1..N
      PROVE  /\ w.queued[n] \in Actions
             /\ f[n].world = WorkedWorld(f[n - 1].world, w.queued[n])
             /\ f[n].out = Reported(c, f[n - 1].out, w.queued[n])
  <2>1. n - 1 \in 0..N /\ Taken(w)[n] = w.queued[n] /\ Taken(w)[n] \in Actions
    BY <1>1
  <2>2. f[n - 1] \in JobSet
    BY <2>1
  <2>3. f[n] = [world |-> WorkedWorld(f[n - 1].world, w.queued[n]),
                out |-> Reported(c, f[n - 1].out, w.queued[n])]
    BY <1>2, <2>1, <2>2, WorkParts
  <2> QED
    BY <2>1, <2>3
<1> QED
  BY <1>2, <1>3 DEF TickActed

(* The world after n rounds of the action loop.                            *)
LEMMA TickProgress ==
  ASSUME NEW c \in Calls, NEW w \in World,
         NEW f \in [0..Len(Taken(w)) -> JobSet],
         f[0] = TickStart(c, w),
         \A n \in 1..Len(Taken(w)) :
           /\ w.queued[n] \in Actions
           /\ f[n].world = WorkedWorld(f[n - 1].world, w.queued[n])
  PROVE  \A n \in 0..Len(Taken(w)) :
           /\ f[n].world.processed = Moved(w, n)
           /\ f[n].world.queued = Rest(w) /\ f[n].world.tick = w.tick + 1
           /\ f[n].world.fired = w.fired /\ f[n].world.android = w.android
<1> DEFINE N == Len(Taken(w))
           Good(n) == /\ f[n].world.processed = Moved(w, n)
                      /\ f[n].world.queued = Rest(w)
                      /\ f[n].world.tick = w.tick + 1
                      /\ f[n].world.fired = w.fired
                      /\ f[n].world.android = w.android
           S == {n \in 0..N : Good(n)}
<1>1. N \in Nat /\ N <= Len(w.queued) /\ Len(w.queued) \in Nat
  <2>1. Len(Taken(w)) \in 0..Len(w.queued)
    BY TakenTyped
  <2>2. w.queued \in Seq(Actions)
    BY DEF World
  <2> QED
    BY <2>1, <2>2
<1>2. 0 \in S
  <2>1. TickStart(c, w).world = [w EXCEPT !.tick = @ + 1, !.queued = Rest(w)]
    BY TickStartIs
  <2>2. 0 \in 0..Len(w.queued)
    BY <1>1
  <2>3. Moved(w, 0) = w.processed
    BY <2>2, MovedTyped
  <2>4. 0 \in 0..N
    BY <1>1
  <2> QED
    BY <2>1, <2>3, <2>4 DEF World
<1>3. ASSUME NEW n \in 0..(N - 1), n \in S PROVE n + 1 \in S
  <2>1. /\ n + 1 \in 1..N /\ (n + 1) - 1 = n /\ n + 1 \in 0..N
        /\ n + 1 \in 0..Len(w.queued) /\ n + 1 > 0 /\ n \in 0..N
    BY <1>1
  <2> DEFINE a == w.queued[n + 1]
             v == f[n].world
  <2>2. v \in World /\ a \in Actions /\ f[n + 1].world = WorkedWorld(v, a)
    BY <2>1 DEF JobSet
  <2>3. Moved(w, n + 1) = Append(Moved(w, n), a.id)
    BY <2>1, MovedTyped
  <2>4. Good(n)
    BY <1>3
  <2> HIDE DEF v, a
  <2>5. /\ f[n + 1].world.processed = Append(v.processed, a.id)
        /\ f[n + 1].world.queued = v.queued /\ f[n + 1].world.tick = v.tick
        /\ f[n + 1].world.fired = v.fired
        /\ f[n + 1].world.android = v.android
    <3> DEFINE u == WorkedWorld(v, a)
    <3>1. /\ u.tick = v.tick /\ u.queued = v.queued /\ u.fired = v.fired
          /\ u.android = v.android /\ u.processed = Append(v.processed, a.id)
      BY <2>2, WorkedWorldIs
    <3> HIDE DEF u
    <3> QED
      BY <2>2, <3>1 DEF u
  <2>6. Good(n + 1)
    BY <2>3, <2>4, <2>5 DEF v
  <2> QED
    BY <2>1, <2>6
<1>4. \A n \in 0..N : n \in S
  <2> HIDE DEF S, N
  <2> QED
    BY <1>1, <1>2, <1>3, UpTo
<1> QED
  BY <1>4

(* What scan_consequences leaves alone.                                    *)
LEMMA ScanIs ==
  ASSUME NEW c \in Calls, NEW job \in JobSet, NEW recent \in Seq(Event)
  PROVE  LET k == ScanConsequences(c, job, recent)
         IN  /\ k \in JobSet
             /\ k.world = [job.world EXCEPT !.fired = k.world.fired]
<1> DEFINE Good == {j \in JobSet :
                      j.world = [job.world EXCEPT !.fired = j.world.fired]}
           k == ScanConsequences(c, job, recent)
<1>1. Good \in SUBSET JobSet
  OBVIOUS
<1>2. job \in Good
  BY DEF JobSet, World
<1>3. ASSUME NEW j \in Good, NEW e \in Event PROVE Fire(c, j, e) \in Good
  <2>1. j \in JobSet /\ Fire(c, j, e) \in JobSet
        /\ j.world = [job.world EXCEPT !.fired = j.world.fired]
    BY FireTyped
  <2>2. CASE Fire(c, j, e) = j
    BY <2>2
  <2>3. CASE Fire(c, j, e) # j
    <3>1. Fire(c, j, e).world = [j.world EXCEPT !.fired = @ \cup {e.id}]
      BY <2>1, <2>3, Fires
    <3>2. job.world \in World /\ j.world \in World
      BY <2>1 DEF JobSet
    <3>3. Fire(c, j, e).world
            = [job.world EXCEPT !.fired = Fire(c, j, e).world.fired]
      BY <2>1, <3>1, <3>2 DEF World
    <3> QED
      BY <2>1, <3>3
  <2> QED
    BY <2>2, <2>3
<1>4. k \in Good
  <2>1. \A n \in 1..Len(recent) : recent[n] \in Event
    OBVIOUS
  <2> HIDE DEF Good
  <2>2. \A j \in Good, n \in 1..Len(recent) : Fire(c, j, recent[n]) \in Good
    BY <1>3, <2>1
  <2> QED
    BY <1>1, <1>2, <2>2, ScanKeeps
<1> QED
  BY <1>4

(* The world a tick saves: what it took has moved from the queue to the    *)
(* processed actions.                                                      *)
LEMMA TickWorld ==
  ASSUME NEW c \in Calls, NEW w \in World
  PROVE  /\ ProcessTick(c, w).world.processed = Moved(w, Len(Taken(w)))
         /\ ProcessTick(c, w).world.queued = Rest(w)
         /\ ProcessTick(c, w).world.tick = w.tick + 1
         /\ ProcessTick(c, w).world.android = w.android
         /\ TickActed(c, w).world.fired = w.fired
         /\ ProcessTick(c, w).world
              = [TickActed(c, w).world EXCEPT
                   !.fired = ProcessTick(c, w).world.fired]
<1> DEFINE N == Len(Taken(w))
           j == TickActed(c, w)
           k == TickScanned(c, w)
<1>1. PICK f \in [0..N -> JobSet] :
           /\ f[0] = TickStart(c, w) /\ f[N] = j
           /\ \A n \in 1..N :
                /\ w.queued[n] \in Actions
                /\ f[n].world = WorkedWorld(f[n - 1].world, w.queued[n])
                /\ f[n].out = Reported(c, f[n - 1].out, w.queued[n])
  BY TickSteps
<1>2. N \in 0..N
  BY TakenTyped
<1>3. /\ f[N].world.processed = Moved(w, N)
      /\ f[N].world.queued = Rest(w) /\ f[N].world.tick = w.tick + 1
      /\ f[N].world.fired = w.fired /\ f[N].world.android = w.android
  BY <1>1, <1>2, TickProgress
<1>4. k.world = [j.world EXCEPT !.fired = k.world.fired]
  <2>1. j \in JobSet /\ j.out \in Seq(Event)
    BY TickTyped DEF JobSet
  <2> HIDE DEF j
  <2>2. k = ScanConsequences(c, j, j.out)
    BY DEF TickScanned, j
  <2> HIDE DEF k
  <2> QED
    BY <2>1, <2>2, ScanIs
<1>5. ProcessTick(c, w).world = k.world
  BY TickEndIs
<1>6. j.world \in World
  BY TickTyped DEF JobSet
<1> HIDE DEF j, k
<1>7. /\ k.world.processed = j.world.processed /\ k.world.queued = j.world.queued
      /\ k.world.tick = j.world.tick /\ k.world.android = j.world.android
  BY <1>4, <1>6 DEF World
<1> QED
  BY <1>1, <1>3, <1>4, <1>5, <1>7 DEF j

(* A tick neither loses nor adds an action.                                *)
LEMMA TickIds ==
  ASSUME NEW c \in Calls, NEW w \in World
  PROVE  AllIds(ProcessTick(c, w).world) = AllIds(w)
<1> DEFINE v == ProcessTick(c, w).world
           p == w.processed
           q == w.queued
           k == Len(Taken(w))
           r == Rest(w)
<1>1. /\ p \in Seq(Submits) /\ q \in Seq(Actions)
      /\ Len(p) \in Nat /\ Len(q) \in Nat
  BY DEF World
<1>2. /\ k \in 0..Len(q) /\ Len(r) = Len(q) - k
      /\ \A n \in 1..Len(r) : r[n] = q[k + n]
  BY TakenTyped
<1>3. v.processed = Moved(w, k) /\ v.queued = r
  BY TickWorld
<1>4. Len(Moved(w, k)) = Len(p) + k
  BY <1>2, MovedTyped
<1>5. Moved(w, k) = [i \in 1..(Len(p) + k) |->
                       IF i <= Len(p) THEN p[i] ELSE q[i - Len(p)].id]
  BY DEF Moved
<1>6. AllIds(w) = [i \in 1..(Len(p) + Len(q)) |->
                     IF i <= Len(p) THEN p[i] ELSE q[i - Len(p)].id]
  BY DEF AllIds, Moved
<1> HIDE DEF p, q, k, r
<1>7. AllIds(v) = [i \in 1..((Len(p) + k) + Len(r)) |->
                     IF i <= Len(p) + k THEN Moved(w, k)[i]
                     ELSE r[i - (Len(p) + k)].id]
  BY <1>3, <1>4 DEF AllIds, Moved
<1>8. (Len(p) + k) + Len(r) = Len(p) + Len(q)
  BY <1>1, <1>2
<1>9. ASSUME NEW i \in 1..(Len(p) + Len(q))
      PROVE  (IF i <= Len(p) + k THEN Moved(w, k)[i]
              ELSE r[i - (Len(p) + k)].id)
               = IF i <= Len(p) THEN p[i] ELSE q[i - Len(p)].id
  <2>1. CASE i <= Len(p) + k
    <3>1. i \in 1..(Len(p) + k)
      BY <1>1, <1>2, <2>1
    <3> QED
      BY <1>5, <2>1, <3>1
  <2>2. CASE ~(i <= Len(p) + k)
    <3>1. /\ i - (Len(p) + k) \in 1..Len(r)
          /\ k + (i - (Len(p) + k)) = i - Len(p) /\ ~(i <= Len(p))
      BY <1>1, <1>2, <2>2
    <3>2. r[i - (Len(p) + k)] = q[i - Len(p)]
      BY <1>2, <3>1
    <3> QED
      BY <2>2, <3>1, <3>2
  <2> QED
    BY <2>1, <2>2
<1> HIDE DEF v
<1>10. AllIds(v) = AllIds(w)
  BY <1>6, <1>7, <1>8, <1>9
<1> QED
  BY <1>10 DEF v

-----------------------------------------------------------------------------
(* An action is known once.                                                *)

Known(w) == ToSet(w.processed) \cup Ids(w.queued)

OneEach(queue) ==
  \A i, j \in 1..Len(queue) : queue[i].id = queue[j].id => i = j

Distinct(w) ==
  /\ IsInjective(w.processed) /\ OneEach(w.queued)
  /\ ToSet(w.processed) \cap Ids(w.queued) = {}

(* The actions of a world, in one sequence.                                *)
LEMMA KnownIs ==
  ASSUME NEW w \in World
  PROVE  Known(w) = ToSet(AllIds(w)) /\ Known(w) \subseteq Submits
<1> DEFINE p == w.processed
           q == w.queued
           L == Len(p)
           a == AllIds(w)
<1>1. /\ p \in Seq(Submits) /\ q \in Seq(Actions) /\ L \in Nat /\ Len(q) \in Nat
      /\ DOMAIN p = 1..L /\ DOMAIN q = 1..Len(q)
  BY DEF World
<1>2. a = [i \in 1..(L + Len(q)) |-> IF i <= L THEN p[i] ELSE q[i - L].id]
  BY DEF AllIds, Moved
<1>3. Len(q) \in 0..Len(q)
  BY <1>1
<1>4. a \in Seq(Submits) /\ DOMAIN a = 1..(L + Len(q))
  BY <1>2, <1>3, MovedTyped DEF AllIds
<1> HIDE DEF p, q, L, a
<1>5. ASSUME NEW x \in ToSet(p) PROVE x \in ToSet(a)
  <2>1. PICK i \in 1..L : x = p[i]
    BY <1>1 DEF ToSet
  <2>2. i \in 1..(L + Len(q)) /\ a[i] = x
    BY <1>1, <1>2, <2>1
  <2> QED
    BY <1>4, <2>2 DEF ToSet
<1>6. ASSUME NEW x \in Ids(q) PROVE x \in ToSet(a)
  <2>1. PICK i \in 1..Len(q) : x = q[i].id
    BY <1>1 DEF Ids, ToSet
  <2>2. /\ L + i \in 1..(L + Len(q)) /\ ~(L + i <= L) /\ (L + i) - L = i
    BY <1>1
  <2>3. a[L + i] = x
    BY <1>2, <2>1, <2>2
  <2> QED
    BY <1>4, <2>2, <2>3 DEF ToSet
<1>7. ASSUME NEW x \in ToSet(a) PROVE x \in ToSet(p) \cup Ids(q)
  <2>1. PICK i \in 1..(L + Len(q)) : x = a[i]
    BY <1>4 DEF ToSet
  <2>2. CASE i <= L
    <3>1. i \in 1..L /\ x = p[i]
      BY <1>1, <1>2, <2>1, <2>2
    <3> QED
      BY <1>1, <3>1 DEF ToSet
  <2>3. CASE ~(i <= L)
    <3>1. i - L \in 1..Len(q) /\ x = q[i - L].id
      BY <1>1, <1>2, <2>1, <2>3
    <3> QED
      BY <1>1, <3>1 DEF ToSet, Ids
  <2> QED
    BY <2>2, <2>3
<1>8. ToSet(a) \subseteq Submits
  <2> HIDE DEF a
  <2>1. a \in Seq(Submits)
    BY <1>4
  <2>2. DOMAIN a = 1..Len(a) /\ \A i \in 1..Len(a) : a[i] \in Submits
    BY ONLY <2>1
  <2> QED
    BY <2>2 DEF ToSet
<1>9. ToSet(a) = ToSet(p) \cup Ids(q)
  BY <1>5, <1>6, <1>7
<1> QED
  BY <1>8, <1>9 DEF Known, p, q, a

(* No action twice, said of that sequence.                                 *)
LEMMA DistinctIs ==
  ASSUME NEW w \in World
  PROVE  Distinct(w) <=> IsInjective(AllIds(w))
<1> DEFINE p == w.processed
           q == w.queued
           L == Len(p)
           a == AllIds(w)
<1>1. /\ p \in Seq(Submits) /\ q \in Seq(Actions) /\ L \in Nat /\ Len(q) \in Nat
      /\ DOMAIN p = 1..L /\ DOMAIN q = 1..Len(q)
  BY DEF World
<1>2. a = [i \in 1..(L + Len(q)) |-> IF i <= L THEN p[i] ELSE q[i - L].id]
  BY DEF AllIds, Moved
<1> HIDE DEF p, q, L, a
<1>3. DOMAIN a = 1..(L + Len(q))
  BY <1>2
<1>4. /\ \A i \in 1..L : i \in 1..(L + Len(q)) /\ a[i] = p[i]
      /\ \A i \in 1..Len(q) : L + i \in 1..(L + Len(q)) /\ a[L + i] = q[i].id
  <2>1. \A i \in 1..L : i \in 1..(L + Len(q)) /\ i <= L
    BY <1>1
  <2>2. \A i \in 1..Len(q) : /\ L + i \in 1..(L + Len(q)) /\ ~(L + i <= L)
                             /\ (L + i) - L = i
    BY <1>1
  <2> QED
    BY <1>2, <2>1, <2>2
<1>5. \A k \in 1..(L + Len(q)) : k \in 1..L \/ \E i \in 1..Len(q) : k = L + i
  <2>1. ASSUME NEW k \in 1..(L + Len(q)), ~(k <= L)
        PROVE  k - L \in 1..Len(q) /\ k = L + (k - L)
    BY <1>1, <2>1
  <2>2. ASSUME NEW k \in 1..(L + Len(q)), k <= L PROVE k \in 1..L
    BY <1>1, <2>2
  <2> QED
    BY <2>1, <2>2
<1>6. ASSUME IsInjective(a)
      PROVE  /\ IsInjective(p) /\ OneEach(q) /\ ToSet(p) \cap Ids(q) = {}
  <2>1. IsInjective(p)
    BY <1>1, <1>3, <1>4, <1>6 DEF IsInjective
  <2>2. ASSUME NEW i \in 1..Len(q), NEW j \in 1..Len(q), q[i].id = q[j].id
        PROVE  i = j
    <3>1. L + i = L + j
      BY <1>3, <1>4, <1>6, <2>2 DEF IsInjective
    <3> QED
      BY <1>1, <3>1
  <2>3. ASSUME NEW x \in ToSet(p), x \in Ids(q) PROVE FALSE
    <3>1. PICK i \in 1..L : x = p[i]
      BY <1>1 DEF ToSet
    <3>2. PICK j \in 1..Len(q) : x = q[j].id
      BY <1>1, <2>3 DEF ToSet, Ids
    <3>3. i = L + j
      BY <1>3, <1>4, <1>6, <3>1, <3>2 DEF IsInjective
    <3> QED
      BY <1>1, <3>3
  <2> QED
    BY <2>1, <2>2, <2>3 DEF OneEach
<1>7. ASSUME IsInjective(p), OneEach(q), ToSet(p) \cap Ids(q) = {}
      PROVE  IsInjective(a)
  <2>1. /\ \A i \in 1..L : p[i] \in ToSet(p)
        /\ \A i \in 1..Len(q) : q[i].id \in Ids(q)
    BY <1>1 DEF ToSet, Ids
  <2>2. ASSUME NEW k \in 1..(L + Len(q)), NEW m \in 1..(L + Len(q)), a[k] = a[m]
        PROVE  k = m
    <3>1. CASE k \in 1..L /\ m \in 1..L
      BY <1>1, <1>4, <1>7, <2>2, <3>1 DEF IsInjective
    <3>2. CASE k \in 1..L /\ \E i \in 1..Len(q) : m = L + i
      BY <1>4, <1>7, <2>1, <2>2, <3>2
    <3>3. CASE m \in 1..L /\ \E i \in 1..Len(q) : k = L + i
      BY <1>4, <1>7, <2>1, <2>2, <3>3
    <3>4. CASE (\E i \in 1..Len(q) : k = L + i) /\ \E i \in 1..Len(q) : m = L + i
      BY <1>4, <1>7, <2>2, <3>4 DEF OneEach
    <3> QED
      BY <1>5, <3>1, <3>2, <3>3, <3>4
  <2> QED
    BY <1>3, <2>2 DEF IsInjective
<1> QED
  BY <1>6, <1>7 DEF Distinct, p, q, a

(* A new element repeats nothing.                                          *)
LEMMA InjectiveAppend ==
  ASSUME NEW X, NEW s \in Seq(X), NEW e \in X, IsInjective(s), e \notin ToSet(s)
  PROVE  IsInjective(Append(s, e))
<1> DEFINE t == Append(s, e)
<1>1. /\ t \in Seq(X) /\ Len(t) = Len(s) + 1 /\ t[Len(s) + 1] = e
      /\ \A n \in 1..Len(s) : t[n] = s[n]
  BY AppendProperties
<1> HIDE DEF t
<1>2. DOMAIN t = 1..(Len(s) + 1) /\ DOMAIN s = 1..Len(s) /\ Len(s) \in Nat
  BY <1>1
<1>3. ASSUME NEW i \in 1..(Len(s) + 1), NEW j \in 1..(Len(s) + 1), t[i] = t[j]
      PROVE  i = j
  <2>1. i \in 1..Len(s) \/ i = Len(s) + 1
    BY <1>2
  <2>2. j \in 1..Len(s) \/ j = Len(s) + 1
    BY <1>2
  <2>3. \A n \in 1..Len(s) : t[n] = s[n] /\ t[n] \in ToSet(s)
    BY <1>1, <1>2 DEF ToSet
  <2> QED
    BY <1>1, <1>2, <1>3, <2>1, <2>2, <2>3 DEF IsInjective
<1> QED
  BY <1>2, <1>3 DEF IsInjective, t

(* A new action at the end of the queue.                                   *)
LEMMA EnqueueNeat ==
  ASSUME NEW w \in World, NEW a \in Actions, Distinct(w), a.id \notin Known(w)
  PROVE  LET v == [w EXCEPT !.queued = Append(@, a)]
         IN  /\ v \in World /\ Distinct(v) /\ Known(v) = Known(w) \cup {a.id}
<1> DEFINE v == [w EXCEPT !.queued = Append(@, a)]
           q == w.queued
           r == Append(q, a)
<1>1. q \in Seq(Actions) /\ a.id \in Submits /\ Len(q) \in Nat
  BY DEF World, Actions
<1>2. /\ r \in Seq(Actions) /\ Len(r) = Len(q) + 1 /\ r[Len(q) + 1] = a
      /\ \A n \in 1..Len(q) : r[n] = q[n]
      /\ ToSet(r) = ToSet(q) \cup {a}
  BY <1>1, AppendProperties, ToSetAppend
<1>3. v \in World /\ v.queued = r /\ v.processed = w.processed
  BY <1>2 DEF World
<1> HIDE DEF v, r, q
<1>4. Ids(r) = Ids(q) \cup {a.id}
  BY <1>2 DEF Ids
<1>5. Distinct(w) /\ a.id \notin Ids(q) /\ a.id \notin ToSet(w.processed)
  BY DEF Known, q
<1>6. \A n \in 1..Len(q) : q[n].id \in Ids(q)
  BY <1>1 DEF Ids, ToSet
<1>7. OneEach(r)
  <2>1. ASSUME NEW i \in 1..(Len(q) + 1), NEW j \in 1..(Len(q) + 1),
               r[i].id = r[j].id
        PROVE  i = j
    <3>1. i \in 1..Len(q) \/ i = Len(q) + 1
      BY <1>1
    <3>2. j \in 1..Len(q) \/ j = Len(q) + 1
      BY <1>1
    <3> QED
      BY <1>2, <1>5, <1>6, <2>1, <3>1, <3>2 DEF OneEach, Distinct, q
  <2> QED
    BY <1>2, <2>1 DEF OneEach
<1>8. Distinct(v)
  BY <1>3, <1>4, <1>5, <1>7 DEF Distinct, q
<1>9. Known(v) = Known(w) \cup {a.id}
  BY <1>3, <1>4 DEF Known, q
<1> QED
  BY <1>3, <1>8, <1>9 DEF v

(* What is left of a queue when an action goes.                            *)
LEMMA WithoutIs ==
  ASSUME NEW queue \in Seq(Actions), NEW id, OneEach(queue)
  PROVE  /\ Without(queue, id) \in Seq(Actions) /\ OneEach(Without(queue, id))
         /\ Ids(Without(queue, id)) = Ids(queue) \ {id}
<1> DEFINE N == Len(queue)
<1>1. PICK f \in [0..N -> Seq(Actions)] :
        /\ f[0] = <<>> /\ f[N] = Without(queue, id)
        /\ \A n \in 1..N : f[n] = Keep(f[n - 1], queue[n], id)
  BY WithoutTrace
<1> DEFINE Upto(n) == {queue[m].id : m \in 1..n}
           Good(n) == OneEach(f[n]) /\ Ids(f[n]) = Upto(n) \ {id}
           S == {n \in 0..N : Good(n)}
<1>2. N \in Nat /\ DOMAIN queue = 1..N /\ \A n \in 1..N : queue[n] \in Actions
  OBVIOUS
<1>3. 0 \in S
  <2>1. Len(f[0]) = 0 /\ Ids(f[0]) = {}
    BY <1>1 DEF Ids, ToSet
  <2>2. OneEach(f[0])
    BY <2>1 DEF OneEach
  <2>3. 1..0 = {}
    OBVIOUS
  <2> QED
    BY <1>2, <2>1, <2>2, <2>3
<1>4. ASSUME NEW n \in 0..(N - 1), n \in S PROVE n + 1 \in S
  <2> DEFINE kept == f[n]
             a == queue[n + 1]
  <2>1. n + 1 \in 1..N /\ (n + 1) - 1 = n /\ n + 1 \in 0..N /\ n \in 0..N
    BY <1>2
  <2>2. kept \in Seq(Actions) /\ a \in Actions /\ Good(n)
        /\ f[n + 1] = Keep(kept, a, id)
    BY <1>1, <1>2, <1>4, <2>1
  <2>3. Upto(n + 1) = Upto(n) \cup {a.id}
    <3>1. 1..(n + 1) = (1..n) \cup {n + 1}
      BY <2>1
    <3> QED
      BY <3>1
  <2>4. a.id \notin Upto(n)
    <3>1. ASSUME NEW m \in 1..n, queue[m].id = a.id PROVE FALSE
      <4>1. m \in 1..N /\ m # n + 1
        BY <2>1
      <4> QED
        BY <2>1, <3>1, <4>1 DEF OneEach
    <3> QED
      BY <3>1
  <2> HIDE DEF kept, a, Upto
  <2>5. CASE a.id = id
    <3>1. f[n + 1] = kept
      BY <2>2, <2>5 DEF Keep
    <3> QED
      BY <2>1, <2>2, <2>3, <2>5, <3>1 DEF kept
  <2>6. CASE a.id # id
    <3> DEFINE r == Append(kept, a)
    <3>1. f[n + 1] = r
      BY <2>2, <2>6 DEF Keep
    <3>2. /\ Len(r) = Len(kept) + 1 /\ r[Len(kept) + 1] = a
          /\ \A k \in 1..Len(kept) : r[k] = kept[k]
          /\ ToSet(r) = ToSet(kept) \cup {a} /\ Len(kept) \in Nat
      BY <2>2, AppendProperties, ToSetAppend
    <3> HIDE DEF r
    <3>3. Ids(r) = Ids(kept) \cup {a.id}
      BY <3>2 DEF Ids
    <3>4. a.id \notin Ids(kept) /\ OneEach(kept)
      BY <2>2, <2>4 DEF kept
    <3>5. \A k \in 1..Len(kept) : kept[k].id \in Ids(kept)
      BY <2>2 DEF Ids, ToSet
    <3>6. OneEach(r)
      <4>1. ASSUME NEW i \in 1..(Len(kept) + 1), NEW j \in 1..(Len(kept) + 1),
                   r[i].id = r[j].id
            PROVE  i = j
        <5>1. i \in 1..Len(kept) \/ i = Len(kept) + 1
          BY <3>2
        <5>2. j \in 1..Len(kept) \/ j = Len(kept) + 1
          BY <3>2
        <5> QED
          BY <3>2, <3>4, <3>5, <4>1, <5>1, <5>2 DEF OneEach
      <4> QED
        BY <3>2, <4>1 DEF OneEach
    <3>7. Ids(r) = Upto(n + 1) \ {id}
      BY <2>2, <2>3, <2>6, <3>3 DEF kept
    <3> QED
      BY <2>1, <3>1, <3>6, <3>7
  <2> QED
    BY <2>5, <2>6
<1>5. N \in S
  <2> HIDE DEF S
  <2>1. \A n \in 0..N : n \in S
    BY <1>2, <1>3, <1>4, UpTo
  <2> QED
    BY <1>2, <2>1
<1>6. Ids(queue) = Upto(N)
  BY <1>2 DEF Ids, ToSet
<1>7. N \in 0..N
  BY <1>2
<1> HIDE DEF Upto
<1> QED
  BY <1>1, <1>5, <1>6, <1>7

(* The actions that some events are about.                                 *)
AboutIds(S) == {e.action.id : e \in {x \in S : x.type \in AboutActions}}

(* An action is queued before anything else is said about it.              *)
Fresh(s) ==
  \A n \in 1..Len(s) : \A m \in 1..(n - 1) :
    s[n].type = "action.queued" /\ s[m].type \in AboutActions =>
      s[m].action.id # s[n].action.id

(* A replayed answer makes no action appear twice.                         *)
LEMMA MarkNeat ==
  ASSUME NEW w \in World, NEW a \in Actions, Distinct(w)
  PROVE  /\ Distinct(MarkProcessed(w, a))
         /\ Known(MarkProcessed(w, a)) = Known(w) \cup {a.id}
<1> DEFINE m == MarkProcessed(w, a)
           p == w.processed
           q == w.queued
<1>1. /\ m \in World /\ m.queued = Without(q, a.id)
      /\ m.processed = IF a.id \in ToSet(p) THEN p ELSE Append(p, a.id)
      /\ ToSet(m.processed) = ToSet(p) \cup {a.id}
  BY MarkIs
<1>2. p \in Seq(Submits) /\ q \in Seq(Actions) /\ a.id \in Submits
  BY DEF World, Actions
<1>3. IsInjective(p) /\ OneEach(q) /\ ToSet(p) \cap Ids(q) = {}
  BY DEF Distinct
<1> HIDE DEF m, p, q
<1>4. OneEach(m.queued) /\ Ids(m.queued) = Ids(q) \ {a.id}
  BY <1>1, <1>2, <1>3, WithoutIs
<1>5. IsInjective(m.processed)
  BY <1>1, <1>2, <1>3, InjectiveAppend
<1>6. Distinct(m)
  BY <1>1, <1>3, <1>4, <1>5 DEF Distinct
<1>7. Known(m) = Known(w) \cup {a.id}
  BY <1>1, <1>4 DEF Known, p, q
<1> QED
  BY <1>6, <1>7 DEF m

(* Nor does any other event, if a queued action is new.                    *)
LEMMA ReplayEventNeat ==
  ASSUME NEW w \in World, NEW e \in Event, Distinct(w),
         e.type = "action.queued" => e.action.id \notin Known(w)
  PROVE  /\ Distinct(ReplayEvent(w, e))
         /\ Known(ReplayEvent(w, e)) \subseteq
              Known(w) \cup AboutIds({e})
<1> DEFINE v == ReplayEvent(w, e)
<1>1. e.type \in AboutActions =>
        e.action \in Actions /\ AboutIds({e}) = {e.action.id}
  BY DEF Event, AboutIds
<1>2. CASE e.type = "action.queued"
  <2>1. v = [w EXCEPT !.queued = Append(@, e.action)]
    BY <1>2 DEF ReplayEvent
  <2>2. e.type \in AboutActions
    BY <1>2 DEF AboutActions
  <2>3. e.action \in Actions /\ e.action.id \notin Known(w)
    BY <1>1, <1>2, <2>2
  <2> HIDE DEF v
  <2>4. Distinct(v) /\ Known(v) = Known(w) \cup {e.action.id}
    BY <2>1, <2>3, EnqueueNeat
  <2> QED
    BY <1>1, <2>2, <2>4 DEF v
<1>3. CASE e.type \in Answers
  <2> DEFINE m == MarkProcessed(w, e.action)
  <2>1. e.type \in AboutActions
    BY <1>3 DEF AboutActions, Answers
  <2>2. /\ Distinct(m) /\ Known(m) = Known(w) \cup {e.action.id}
        /\ m \in World
    BY <1>1, <2>1, MarkNeat, MarkIs
  <2>3. v.queued = m.queued /\ v.processed = m.processed
    <3>1. v = m \/ v = [m EXCEPT !.approvals = @ \cup {e.action.id}]
      BY <1>3 DEF ReplayEvent, Answers
    <3> HIDE DEF v, m
    <3> QED
      BY <2>2, <3>1 DEF World
  <2> HIDE DEF v, m
  <2>4. Distinct(v) /\ Known(v) = Known(m)
    BY <2>2, <2>3 DEF Distinct, Known
  <2> QED
    BY <1>1, <2>1, <2>2, <2>4 DEF v
<1>4. CASE e.type \notin Answers \cup {"action.queued"}
  <2>1. \/ v = w \/ v = [w EXCEPT !.value = e.action.id]
        \/ v = [w EXCEPT !.tick = e.arg]
    BY <1>4 DEF ReplayEvent, Answers
  <2>2. v.queued = w.queued /\ v.processed = w.processed
    BY <2>1 DEF World
  <2> HIDE DEF v
  <2>3. Distinct(v) /\ Known(v) = Known(w)
    BY <2>2 DEF Distinct, Known
  <2> QED
    BY <2>3 DEF v
<1> QED
  BY <1>2, <1>3, <1>4

(* The world of a reset holds no action.                                   *)
LEMMA BlankNeat == Distinct(Blank) /\ Known(Blank) = {}
<1>1. Blank.processed = <<>> /\ Blank.queued = <<>>
  BY DEF Blank
<1>2. Len(<<>>) = 0 /\ DOMAIN <<>> = {} /\ ToSet(<<>>) = {} /\ Ids(<<>>) = {}
  BY DEF ToSet, Ids
<1>3. OneEach(<<>>) /\ IsInjective(<<>>)
  BY <1>2 DEF OneEach, IsInjective
<1> QED
  BY <1>1, <1>2, <1>3 DEF Distinct, Known

(* Nor does the replay of a stream that queues no action twice.            *)
LEMMA ReplayNeat ==
  ASSUME NEW s \in Seq(Event), Fresh(s)
  PROVE  Distinct(ReplayOf(s)) /\ Known(ReplayOf(s)) \subseteq AboutIds(ToSet(s))
<1> DEFINE N == Len(s)
           Upto(n) == {s[m] : m \in 1..n}
<1>1. PICK f \in [0..N -> World] :
        /\ f[0] = Blank /\ f[N] = ReplayOf(s)
        /\ \A n \in 1..N : f[n] = ReplayEvent(f[n - 1], s[n])
  BY ReplayTrace
<1> DEFINE Good(n) == Distinct(f[n]) /\ Known(f[n]) \subseteq AboutIds(Upto(n))
           S == {n \in 0..N : Good(n)}
<1>2. N \in Nat /\ DOMAIN s = 1..N /\ \A n \in 1..N : s[n] \in Event
  OBVIOUS
<1>3. 0 \in S
  BY <1>1, <1>2, BlankNeat
<1>4. ASSUME NEW n \in 0..(N - 1), n \in S PROVE n + 1 \in S
  <2> DEFINE e == s[n + 1]
  <2>1. n + 1 \in 1..N /\ (n + 1) - 1 = n /\ n + 1 \in 0..N /\ n \in 0..N
    BY <1>2
  <2>2. /\ e \in Event /\ Good(n) /\ f[n] \in World
        /\ f[n + 1] = ReplayEvent(f[n], e)
    BY <1>1, <1>2, <1>4, <2>1
  <2>3. Upto(n + 1) = Upto(n) \cup {e}
    <3>1. 1..(n + 1) = (1..n) \cup {n + 1}
      BY <2>1
    <3> QED
      BY <3>1
  <2>4. e.type = "action.queued" => e.action.id \notin AboutIds(Upto(n))
    <3>1. ASSUME NEW m \in 1..n, e.type = "action.queued",
                 s[m].type \in AboutActions, s[m].action.id = e.action.id
          PROVE  FALSE
      BY <2>1, <3>1 DEF Fresh
    <3> QED
      BY <3>1 DEF AboutIds
  <2>5. /\ AboutIds(Upto(n + 1)) = AboutIds(Upto(n)) \cup AboutIds({e})
    BY <2>3 DEF AboutIds
  <2> HIDE DEF e, Upto
  <2>6. /\ Distinct(f[n + 1])
        /\ Known(f[n + 1]) \subseteq Known(f[n]) \cup AboutIds({e})
    BY <2>2, <2>4, ReplayEventNeat
  <2> QED
    BY <2>1, <2>2, <2>5, <2>6
<1>5. N \in S
  <2> HIDE DEF S
  <2>1. \A n \in 0..N : n \in S
    BY <1>2, <1>3, <1>4, UpTo
  <2> QED
    BY <1>2, <2>1
<1>6. Upto(N) = ToSet(s)
  BY <1>2 DEF ToSet
<1> HIDE DEF Upto
<1> QED
  BY <1>1, <1>5, <1>6

(* What the events of a tick and of a scan are about.                      *)
Only(K, o) ==
  \A e \in ToSet(o) : /\ e.type # "action.queued"
                      /\ e.type \in AboutActions => e.action.id \in K

(* One more event about the actions in K.                                  *)
LEMMA OnlyAppend ==
  ASSUME NEW K, NEW o \in Seq(Event), NEW e \in Event, Only(K, o),
         e.type # "action.queued", e.type \in AboutActions => e.action.id \in K
  PROVE  Only(K, Append(o, e))
BY ToSetAppend DEF Only

(* A consequence is not about an action,                                   *)
LEMMA FireOnly ==
  ASSUME NEW K, NEW c \in Calls, NEW j \in JobSet, NEW e \in Event,
         Only(K, j.out)
  PROVE  Only(K, Fire(c, j, e).out)
<1>1. CASE Fire(c, j, e) = j
  BY <1>1
<1>2. CASE Fire(c, j, e) # j
  <2> DEFINE x == Consequence(c, j.out, e)
  <2>1. x \in Event /\ Fire(c, j, e).out = Append(j.out, x)
    BY <1>2, Fires
  <2>2. x.type = "consequence.approval_gate" /\ x.type \notin AboutActions
    BY DEF Consequence, AboutActions
  <2>3. j.out \in Seq(Event)
    BY DEF JobSet
  <2> HIDE DEF x
  <2>4. x.type # "action.queued"
    BY <2>2
  <2>5. Only(K, Append(j.out, x))
    BY <2>1, <2>2, <2>3, <2>4, OnlyAppend
  <2> QED
    BY <2>1, <2>5
<1> QED
  BY <1>1, <1>2

(* ... nor are those of a scan;                                            *)
LEMMA ScanOnly ==
  ASSUME NEW K, NEW c \in Calls, NEW job \in JobSet, NEW recent \in Seq(Event),
         Only(K, job.out)
  PROVE  Only(K, ScanConsequences(c, job, recent).out)
<1> DEFINE Good == {j \in JobSet : Only(K, j.out)}
<1>1. Good \in SUBSET JobSet /\ job \in Good
  OBVIOUS
<1>2. \A n \in 1..Len(recent) : recent[n] \in Event
  OBVIOUS
<1>3. \A j \in Good, n \in 1..Len(recent) : Fire(c, j, recent[n]) \in Good
  BY <1>2, FireOnly, FireTyped
<1> HIDE DEF Good
<1>4. ScanConsequences(c, job, recent) \in Good
  BY <1>1, <1>3, ScanKeeps
<1> QED
  BY <1>4 DEF Good

(* an action is answered by events about it;                               *)
LEMMA WorkOnly ==
  ASSUME NEW K, NEW c \in Calls, NEW j \in JobSet, NEW a \in Actions,
         Only(K, j.out), a.id \in K
  PROVE  Only(K, Work(c, j, a).out)
<1> DEFINE o == j.out
           p == Answered(c, o, a)
           e1 == EventOf(c, o, Answer(a), a)
           e2 == EventOf(c, p, Result(a), a)
<1>1. /\ o \in Seq(Event) /\ p \in Seq(Event) /\ e1 \in Event /\ e2 \in Event
  BY AnswerTyped DEF JobSet
<1>2. /\ e1.type = Answer(a) /\ e1.action = a
      /\ e2.type = Result(a) /\ e2.action = a
  BY DEF EventOf
<1>3. Answer(a) # "action.queued" /\ Result(a) # "action.queued"
  BY DEF Answer, Result
<1>4. Work(c, j, a).out = Reported(c, o, a)
  BY WorkParts
<1>5. p = Append(o, e1)
  BY DEF Answered
<1> HIDE DEF p, e1, e2
<1>6. Only(K, p)
  BY <1>1, <1>2, <1>3, <1>5, OnlyAppend
<1>7. Only(K, Append(p, e2))
  BY <1>1, <1>2, <1>3, <1>6, OnlyAppend
<1>8. Reported(c, o, a) \in {p, Append(p, e2)}
  BY DEF Reported, p, e2
<1> HIDE DEF o
<1> QED
  BY <1>4, <1>6, <1>7, <1>8

(* a tick's events are about what was queued.                              *)
LEMMA TickOnly ==
  ASSUME NEW c \in Calls, NEW w \in World
  PROVE  Only(Ids(w.queued), ProcessTick(c, w).out)
<1> DEFINE K == Ids(w.queued)
           Good == {j \in JobSet : Only(K, j.out)}
           start == TickStart(c, w)
           acted == TickActed(c, w)
           scanned == TickScanned(c, w)
<1>1. Good \in SUBSET JobSet
  OBVIOUS
<1>2. start \in Good
  <2>1. /\ start \in JobSet
        /\ start.out = <<[id |-> <<c, 1>>, type |-> "world.tick.started",
                          action |-> NoAction, arg |-> w.tick + 1]>>
    BY TickStartIs
  <2>2. "world.tick.started" \notin AboutActions
    BY DEF AboutActions
  <2>3. Only(K, start.out)
    BY <2>1, <2>2 DEF Only, ToSet
  <2> QED
    BY <2>1, <2>3
<1>3. ASSUME NEW n \in 1..Len(Taken(w))
      PROVE  Taken(w)[n] \in Actions /\ Taken(w)[n].id \in K
  <2>1. /\ Taken(w)[n] = w.queued[n] /\ Taken(w) \in Seq(Actions)
        /\ Len(Taken(w)) \in 0..Len(w.queued)
    BY TakenTyped
  <2>2. w.queued \in Seq(Actions)
    BY DEF World
  <2>3. n \in DOMAIN w.queued /\ Taken(w)[n] \in Actions
    BY <2>1, <2>2
  <2> QED
    BY <2>1, <2>3 DEF Ids, ToSet
<1>4. \A j \in Good, n \in 1..Len(Taken(w)) : Work(c, j, Taken(w)[n]) \in Good
  <2> HIDE DEF K
  <2> QED
    BY <1>3, WorkOnly, WorkTyped
<1>5. acted \in JobSet /\ Only(K, acted.out)
  <2>1. Taken(w) \in Seq(Actions)
    BY TakenTyped
  <2>2. acted = Worked(c, start, Taken(w))
    BY DEF TickActed
  <2> HIDE DEF Good, start, acted
  <2>3. acted \in Good
    BY <1>1, <1>2, <1>4, <2>1, <2>2, WorkKeeps
  <2> QED
    BY <2>3 DEF Good
<1>6. scanned \in JobSet /\ Only(K, scanned.out)
  <2>1. acted.out \in Seq(Event)
    BY <1>5 DEF JobSet
  <2>2. scanned = ScanConsequences(c, acted, acted.out) /\ scanned \in JobSet
    BY TickTyped DEF TickScanned
  <2> HIDE DEF scanned, acted, K
  <2> QED
    BY <1>5, <2>1, <2>2, ScanOnly
<1>7. PICK e \in Event :
        /\ e.type = "world.tick.completed"
        /\ ProcessTick(c, w).out = Append(scanned.out, e)
  BY TickEndIs
<1>8. e.type \notin AboutActions /\ e.type # "action.queued"
  BY <1>7 DEF AboutActions
<1>9. scanned.out \in Seq(Event)
  BY <1>6 DEF JobSet
<1> HIDE DEF scanned, K
<1>10. Only(K, Append(scanned.out, e))
  BY <1>6, <1>8, <1>9, OnlyAppend
<1> QED
  BY <1>7, <1>10 DEF K

-----------------------------------------------------------------------------
(* An action is processed once.                                            *)

Neat(B, w) == Distinct(w) /\ Known(w) \subseteq B

Says(c, B, o) ==
  /\ AboutIds(ToSet(o)) \subseteq B
  /\ \A e \in ToSet(o) :
       e.type = "action.queued" => c \in Submits /\ e.action.id = c

(* A call with nothing left to append,                                     *)
LEMMA SaysNothing == ASSUME NEW c, NEW B PROVE Says(c, B, <<>>)
BY DEF Says, AboutIds, ToSet

(* ... with an event that is not about actions,                            *)
LEMMA SaysOne ==
  ASSUME NEW c, NEW B, NEW e, e.type \notin AboutActions
  PROVE  Says(c, B, <<e>>)
<1>1. ToSet(<<e>>) = {e}
  BY DEF ToSet
<1>2. e.type # "action.queued"
  BY DEF AboutActions
<1> QED
  BY <1>1, <1>2 DEF Says, AboutIds

(* ... or with events about actions already begun.                         *)
LEMMA OnlySays ==
  ASSUME NEW c, NEW B, NEW o, Only(B, o)
  PROVE  Says(c, B, o)
BY DEF Only, Says, AboutIds

(* Neat and Says grow with the actions begun.                              *)
LEMMA NeatMore ==
  ASSUME NEW B, NEW C, B \subseteq C, NEW w, Neat(B, w)
  PROVE  Neat(C, w)
BY DEF Neat

(* The same of Says.                                                       *)
LEMMA SaysMore ==
  ASSUME NEW B, NEW C, B \subseteq C, NEW c, NEW o, Says(c, B, o)
  PROVE  Says(c, C, o)
BY DEF Says

(* What a call plans, from a world, to write and to append.                *)
LEMMA JobNeat ==
  ASSUME NEW c \in Calls, NEW w \in World, stream \in Seq(Event),
         NEW kind \in IF c \in Submits THEN Kinds ELSE {"none"},
         NEW B, Neat(B, w), Fresh(stream), AboutIds(ToSet(stream)) \subseteq B,
         c \in Submits => c \notin B
  PROVE  LET C == B \cup ({c} \cap Submits)
             job == Job(c, kind, w)
         IN  Neat(C, job.world) /\ Says(c, C, job.out)
<1> DEFINE C == B \cup ({c} \cap Submits)
           job == Job(c, kind, w)
<1>0. /\ c \in Submits => job = SubmitAction(c, kind, w)
      /\ c \in Ticks => job = ProcessTick(c, w)
      /\ c \in Scans => job = ScanConsequences(c, Same(w), StreamTail)
      /\ c \in Reconciles => job = Reconcile(c, w)
      /\ c \in Replays => job = Same(ReplayOf(stream))
      /\ c \in Inits => job = Initialize(c, w, FALSE)
      /\ c \in Resets => job = Initialize(c, w, TRUE)
  BY JobOf
<1>1. B \subseteq C /\ Neat(C, w)
  BY NeatMore
<1>2. CASE c \in Submits
  <2> DEFINE a == [id |-> c, kind |-> kind]
  <2>1. kind \in Kinds /\ a \in Actions /\ a.id = c
    BY <1>2 DEF Actions
  <2>0. job = SubmitAction(c, kind, w)
    BY <1>0, <1>2
  <2>2. /\ SubmitAction(c, kind, w).world = [w EXCEPT !.queued = Append(@, a)]
        /\ SubmitAction(c, kind, w).out
              = <<[id |-> <<c, 1>>, type |-> "action.queued",
                   action |-> a, arg |-> 0]>>
    BY <1>2, <2>1, SubmitTyped
  <2> HIDE DEF a
  <2>3. a.id \notin Known(w) /\ Distinct(w)
    BY <1>2, <2>1 DEF Neat
  <2> HIDE DEF job
  <2>4. Distinct(job.world) /\ Known(job.world) = Known(w) \cup {c}
    BY <2>0, <2>1, <2>2, <2>3, EnqueueNeat
  <2>5. Neat(C, job.world)
    BY <1>2, <2>4 DEF Neat
  <2>6. \A e \in ToSet(job.out) : e.action.id = c
    BY <2>0, <2>1, <2>2 DEF ToSet
  <2>7. Says(c, C, job.out)
    BY <1>2, <2>6 DEF Says, AboutIds
  <2> QED
    BY <2>5, <2>7 DEF job
<1>3. CASE c \in Ticks
  <2>1. AllIds(ProcessTick(c, w).world) = AllIds(w)
        /\ ProcessTick(c, w).world \in World
    BY <1>3, TickIds, TickTyped DEF JobSet, Calls
  <2>2. Distinct(ProcessTick(c, w).world) /\ Known(ProcessTick(c, w).world) = Known(w)
    BY <2>1, DistinctIs, KnownIs DEF Neat
  <2>3. Only(Ids(w.queued), ProcessTick(c, w).out) /\ Ids(w.queued) \subseteq B
    BY <1>3, TickOnly DEF Calls, Known, Neat
  <2>4. Only(C, ProcessTick(c, w).out)
    BY <2>3 DEF Only
  <2>5. Says(c, C, ProcessTick(c, w).out)
    BY <2>4, OnlySays
  <2>6. Neat(C, ProcessTick(c, w).world)
    BY <1>1, <2>2 DEF Neat
  <2> QED
    BY <1>0, <1>3, <2>5, <2>6
<1>4. CASE c \in Scans
  <2> DEFINE k == ScanConsequences(c, Same(w), StreamTail)
  <2>1. Same(w) \in JobSet /\ Same(w).world = w /\ Same(w).out = <<>>
    BY SameTyped DEF Same
  <2>2. StreamTail \in Seq(Event)
    BY TailTyped
  <2>3. Only(C, Same(w).out)
    BY <2>1 DEF Only, ToSet
  <2>4. Only(C, k.out)
    BY <2>1, <2>2, <2>3, ScanOnly
  <2>5. k.world = [w EXCEPT !.fired = k.world.fired]
    BY <2>1, <2>2, ScanIs
  <2> HIDE DEF k
  <2>6. k.world.processed = w.processed /\ k.world.queued = w.queued
    BY <2>5 DEF World
  <2>7. Neat(C, k.world)
    BY <1>1, <2>6 DEF Neat, Distinct, Known
  <2>8. Says(c, C, k.out)
    BY <2>4, OnlySays
  <2> QED
    BY <1>0, <1>4, <2>7, <2>8 DEF k
<1>5. CASE c \in Reconciles
  <2>1. /\ Reconcile(c, w).world = [w EXCEPT !.android = TRUE]
        /\ Reconcile(c, w).out = <<[id |-> <<c, 1>>, type |-> "android.reconciled",
                                    action |-> NoAction, arg |-> 0]>>
    BY PlainTyped
  <2>2. Neat(C, Reconcile(c, w).world)
    BY <1>1, <2>1 DEF Neat, Distinct, Known, World
  <2>3. "android.reconciled" \notin AboutActions
    BY DEF AboutActions
  <2>4. Says(c, C, Reconcile(c, w).out)
    BY <2>1, <2>3, SaysOne
  <2> QED
    BY <1>0, <1>5, <2>2, <2>4
<1>6. CASE c \in Replays
  <2> DEFINE r == ReplayOf(stream)
  <2>1. Neat(C, r)
    BY <1>1, ReplayNeat DEF Neat
  <2>2. Same(r).world = r /\ Same(r).out = <<>>
    BY DEF Same
  <2>3. job = Same(r)
    BY <1>0, <1>6
  <2> HIDE DEF r, job
  <2> QED
    BY <2>1, <2>2, <2>3, SaysNothing DEF job
<1>7. CASE c \in Inits \cup Resets
  <2> DEFINE e == [id |-> <<c, 1>>, type |-> "world.initialized",
                   action |-> NoAction, arg |-> 0]
  <2>1. /\ Initialize(c, w, FALSE).world = w /\ Initialize(c, w, FALSE).out = <<e>>
        /\ Initialize(c, w, TRUE).world = Blank /\ Initialize(c, w, TRUE).out = <<e>>
    BY PlainTyped
  <2>2. e.type \notin AboutActions
    BY DEF AboutActions
  <2> HIDE DEF e
  <2>3. Says(c, C, <<e>>)
    BY <2>2, SaysOne
  <2>4. Neat(C, Blank)
    BY BlankNeat DEF Neat
  <2> QED
    BY <1>0, <1>1, <1>7, <2>1, <2>3, <2>4
<1> QED
  BY <1>2, <1>3, <1>4, <1>5, <1>6, <1>7 DEF Calls

(* An event that a call appends.                                           *)
LEMMA FreshAppend ==
  ASSUME NEW s \in Seq(Event), NEW e \in Event, Fresh(s),
         e.type = "action.queued" => e.action.id \notin AboutIds(ToSet(s))
  PROVE  Fresh(Append(s, e))
<1> DEFINE t == Append(s, e)
<1>1. /\ t \in Seq(Event) /\ Len(t) = Len(s) + 1 /\ t[Len(s) + 1] = e
      /\ \A n \in 1..Len(s) : t[n] = s[n]
  BY AppendProperties
<1>2. Len(s) \in Nat /\ DOMAIN s = 1..Len(s)
  OBVIOUS
<1> HIDE DEF t
<1>3. ASSUME NEW n \in 1..(Len(s) + 1), NEW m \in 1..(n - 1),
             t[n].type = "action.queued", t[m].type \in AboutActions
      PROVE  t[m].action.id # t[n].action.id
  <2>1. m \in 1..Len(s) /\ t[m] = s[m] /\ s[m] \in ToSet(s)
    BY <1>1, <1>2 DEF ToSet
  <2>2. CASE n \in 1..Len(s)
    <3>1. t[n] = s[n]
      BY <1>1, <2>2
    <3> QED
      BY <1>3, <2>1, <2>2, <3>1 DEF Fresh
  <2>3. CASE n = Len(s) + 1
    <3>1. t[n] = e
      BY <1>1, <2>3
    <3>2. s[m].action.id \in AboutIds(ToSet(s))
      BY <1>3, <2>1 DEF AboutIds
    <3> QED
      BY <1>3, <2>1, <3>1, <3>2
  <2> QED
    BY <1>2, <2>2, <2>3
<1> QED
  BY <1>1, <1>3 DEF Fresh, t

-----------------------------------------------------------------------------
(* Nothing that was submitted is lost.                                     *)

(* No call but a replay or a reset forgets an action.                      *)
LEMMA JobKnown ==
  ASSUME NEW c \in Calls, c \notin Replays \cup Resets, NEW w \in World,
         stream \in Seq(Event),
         NEW kind \in IF c \in Submits THEN Kinds ELSE {"none"},
         Distinct(w), c \in Submits => c \notin Known(w)
  PROVE  LET job == Job(c, kind, w)
         IN  /\ Known(w) \subseteq Known(job.world)
             /\ c \in Submits => c \in Known(job.world)
             /\ AboutIds(ToSet(job.out)) \subseteq
                  IF c \in SaveFirst THEN Known(job.world) ELSE Known(w)
<1> DEFINE job == Job(c, kind, w)
<1>0. /\ c \in Submits => job = SubmitAction(c, kind, w)
      /\ c \in Ticks => job = ProcessTick(c, w)
      /\ c \in Scans => job = ScanConsequences(c, Same(w), StreamTail)
      /\ c \in Reconciles => job = Reconcile(c, w)
      /\ c \in Inits => job = Initialize(c, w, FALSE)
  BY JobOf
<1> HIDE DEF job
<1>2. CASE c \in Submits
  <2> DEFINE a == [id |-> c, kind |-> kind]
  <2>1. kind \in Kinds /\ a \in Actions /\ a.id = c
    BY <1>2 DEF Actions
  <2>2. /\ SubmitAction(c, kind, w).world = [w EXCEPT !.queued = Append(@, a)]
        /\ SubmitAction(c, kind, w).out
              = <<[id |-> <<c, 1>>, type |-> "action.queued",
                   action |-> a, arg |-> 0]>>
    BY <1>2, <2>1, SubmitTyped
  <2> HIDE DEF a
  <2>3. a.id \notin Known(w)
    BY <1>2, <2>1
  <2>4. Known([w EXCEPT !.queued = Append(@, a)]) = Known(w) \cup {c}
    BY <2>1, <2>3, EnqueueNeat
  <2>5. \A e \in ToSet(job.out) : e.action.id = c
    BY <1>0, <1>2, <2>1, <2>2 DEF ToSet
  <2>6. c \in SaveFirst
    BY <1>2 DEF SaveFirst
  <2>7. Known(job.world) = Known(w) \cup {c}
    BY <1>0, <1>2, <2>2, <2>4
  <2> QED
    BY <2>5, <2>6, <2>7 DEF AboutIds, job
<1>3. CASE c \in Ticks
  <2>1. AllIds(ProcessTick(c, w).world) = AllIds(w)
        /\ ProcessTick(c, w).world \in World
    BY <1>3, TickIds, TickTyped DEF JobSet, Calls
  <2>2. Known(ProcessTick(c, w).world) = Known(w)
    BY <2>1, KnownIs
  <2>3. Only(Ids(w.queued), ProcessTick(c, w).out) /\ Ids(w.queued) \subseteq Known(w)
    BY <1>3, TickOnly DEF Calls, Known
  <2>4. AboutIds(ToSet(ProcessTick(c, w).out)) \subseteq Known(w)
    BY <2>3 DEF Only, AboutIds
  <2>5. c \notin Submits /\ c \notin SaveFirst
    BY <1>3, CallsAssumption DEF SaveFirst
  <2> QED
    BY <1>0, <1>3, <2>2, <2>4, <2>5 DEF job
<1>4. CASE c \in Scans
  <2> DEFINE k == ScanConsequences(c, Same(w), StreamTail)
  <2>1. Same(w) \in JobSet /\ Same(w).world = w /\ Same(w).out = <<>>
    BY SameTyped DEF Same
  <2>2. StreamTail \in Seq(Event)
    BY TailTyped
  <2>3. Only({}, Same(w).out)
    BY <2>1 DEF Only, ToSet
  <2>4. Only({}, k.out)
    BY <2>1, <2>2, <2>3, ScanOnly
  <2>5. k.world = [w EXCEPT !.fired = k.world.fired]
    BY <2>1, <2>2, ScanIs
  <2> HIDE DEF k
  <2>6. k.world.processed = w.processed /\ k.world.queued = w.queued
    BY <2>5 DEF World
  <2>7. Known(k.world) = Known(w)
    BY <2>6 DEF Known
  <2>8. AboutIds(ToSet(k.out)) = {}
    BY <2>4 DEF Only, AboutIds
  <2>9. job = k /\ c \notin Submits
    BY <1>0, <1>4, CallsAssumption DEF k
  <2> QED
    BY <2>7, <2>8, <2>9 DEF job
<1>5. CASE c \in Reconciles \cup Inits
  <2> DEFINE e(type) == [id |-> <<c, 1>>, type |-> type,
                         action |-> NoAction, arg |-> 0]
  <2>1. /\ Reconcile(c, w).world = [w EXCEPT !.android = TRUE]
        /\ Reconcile(c, w).out = <<e("android.reconciled")>>
        /\ Initialize(c, w, FALSE).world = w
        /\ Initialize(c, w, FALSE).out = <<e("world.initialized")>>
    BY PlainTyped
  <2>2. Known([w EXCEPT !.android = TRUE]) = Known(w)
    BY DEF Known, World
  <2>3. Known(job.world) = Known(w)
    BY <1>0, <1>5, <2>1, <2>2
  <2>4. job.out = <<e("android.reconciled")>> \/ job.out = <<e("world.initialized")>>
    BY <1>0, <1>5, <2>1
  <2>5. \A x \in ToSet(job.out) : x.type \notin AboutActions
    BY <2>4 DEF ToSet, AboutActions
  <2>6. AboutIds(ToSet(job.out)) = {}
    BY <2>5 DEF AboutIds
  <2>7. c \notin Submits
    BY <1>5, CallsAssumption
  <2> QED
    BY <2>3, <2>6, <2>7 DEF job
<1> QED
  BY <1>2, <1>3, <1>4, <1>5 DEF Calls

-----------------------------------------------------------------------------
(* The stream together with what a call has yet to append.                 *)

(* Appending after a concatenation.                                        *)
LEMMA ConcatAppend ==
  ASSUME NEW s \in Seq(Event), NEW o \in Seq(Event), NEW e \in Event
  PROVE  s \o Append(o, e) = Append(s \o o, e)
<1> DEFINE t == Append(o, e)
           so == s \o o
           a == s \o t
           b == Append(so, e)
<1>1. /\ t \in Seq(Event) /\ Len(t) = Len(o) + 1 /\ t[Len(o) + 1] = e
      /\ \A n \in 1..Len(o) : t[n] = o[n]
  BY AppendProperties
<1>2. /\ so \in Seq(Event) /\ Len(so) = Len(s) + Len(o)
      /\ \A n \in 1..(Len(s) + Len(o)) :
           so[n] = IF n <= Len(s) THEN s[n] ELSE o[n - Len(s)]
  BY ConcatProperties
<1>3. Len(s) \in Nat /\ Len(o) \in Nat
  OBVIOUS
<1> HIDE DEF t, so
<1>4. /\ a \in Seq(Event) /\ Len(a) = Len(s) + (Len(o) + 1)
      /\ \A n \in 1..(Len(s) + (Len(o) + 1)) :
           a[n] = IF n <= Len(s) THEN s[n] ELSE t[n - Len(s)]
  <2>1. /\ a \in Seq(Event) /\ Len(a) = Len(s) + Len(t)
        /\ \A n \in 1..(Len(s) + Len(t)) :
             a[n] = IF n <= Len(s) THEN s[n] ELSE t[n - Len(s)]
    BY <1>1, ConcatProperties
  <2> HIDE DEF a
  <2> QED
    BY <1>1, <2>1
<1>5. /\ b \in Seq(Event) /\ Len(b) = Len(so) + 1 /\ b[Len(so) + 1] = e
      /\ \A n \in 1..Len(so) : b[n] = so[n]
  BY <1>2, AppendProperties DEF so
<1> HIDE DEF a, b
<1>6. Len(b) = Len(a)
  BY <1>2, <1>3, <1>4, <1>5
<1>7. ASSUME NEW n \in 1..Len(a) PROVE a[n] = b[n]
  <2>1. n \in Nat /\ n <= Len(s) + Len(o) + 1 /\ n >= 1
    BY <1>3, <1>4
  <2>2. CASE n <= Len(s)
    <3>1. n \in 1..(Len(s) + (Len(o) + 1)) /\ n \in 1..(Len(s) + Len(o))
      BY <1>3, <2>1, <2>2
    <3> QED
      BY <1>2, <1>4, <1>5, <2>2, <3>1
  <2>3. CASE n > Len(s) /\ n <= Len(s) + Len(o)
    <3>1. /\ n \in 1..(Len(s) + (Len(o) + 1)) /\ n \in 1..(Len(s) + Len(o))
          /\ n - Len(s) \in 1..Len(o) /\ ~(n <= Len(s))
      BY <1>3, <2>1, <2>3
    <3> QED
      BY <1>1, <1>2, <1>4, <1>5, <3>1
  <2>4. CASE n = Len(s) + Len(o) + 1
    <3>1. /\ n \in 1..(Len(s) + (Len(o) + 1)) /\ ~(n <= Len(s))
          /\ n - Len(s) = Len(o) + 1 /\ n = Len(so) + 1
      BY <1>2, <1>3, <2>1, <2>4
    <3> QED
      BY <1>1, <1>4, <1>5, <3>1
  <2> QED
    BY <1>3, <2>1, <2>2, <2>3, <2>4
<1>8. a = b
  BY <1>4, <1>5, <1>6, <1>7, SeqEqual
<1> QED
  BY <1>8 DEF a, b, t, so

(* Concatenating nothing.                                                  *)
LEMMA ConcatEmpty == ASSUME NEW s \in Seq(Event) PROVE s \o <<>> = s
OBVIOUS

(* An event moves from what is to be appended to the stream.               *)
LEMMA ConcatHead ==
  ASSUME NEW s \in Seq(Event), NEW o \in Seq(Event), o # <<>>
  PROVE  Append(s, Head(o)) \o Tail(o) = s \o o
<1> DEFINE h == Head(o)
           t == Tail(o)
           sh == Append(s, h)
           a == sh \o t
           b == s \o o
<1>1. /\ h \in Event /\ h = o[1] /\ Len(o) \in Nat /\ Len(o) >= 1
      /\ t \in Seq(Event) /\ Len(t) = Len(o) - 1 /\ Len(s) \in Nat
      /\ \A n \in 1..(Len(o) - 1) : t[n] = o[n + 1]
  OBVIOUS
<1> HIDE DEF h, t
<1>2. /\ sh \in Seq(Event) /\ Len(sh) = Len(s) + 1 /\ sh[Len(s) + 1] = h
      /\ \A n \in 1..Len(s) : sh[n] = s[n]
  BY <1>1, AppendProperties
<1> HIDE DEF sh
<1>3. /\ a \in Seq(Event) /\ Len(a) = Len(sh) + Len(t)
      /\ \A n \in 1..(Len(sh) + Len(t)) :
           a[n] = IF n <= Len(sh) THEN sh[n] ELSE t[n - Len(sh)]
  BY <1>1, <1>2, ConcatProperties
<1>4. /\ b \in Seq(Event) /\ Len(b) = Len(s) + Len(o)
      /\ \A n \in 1..(Len(s) + Len(o)) :
           b[n] = IF n <= Len(s) THEN s[n] ELSE o[n - Len(s)]
  BY ConcatProperties
<1> HIDE DEF a, b
<1>5. Len(sh) + Len(t) = Len(s) + Len(o)
  BY <1>1, <1>2
<1>6. ASSUME NEW n \in 1..(Len(s) + Len(o)) PROVE a[n] = b[n]
  <2>1. CASE n <= Len(s)
    <3>1. n <= Len(sh) /\ n \in 1..Len(s) /\ n \in 1..(Len(sh) + Len(t))
      BY <1>1, <1>2, <1>5, <2>1
    <3> QED
      BY <1>2, <1>3, <1>4, <2>1, <3>1
  <2>2. CASE n = Len(s) + 1
    <3>1. /\ n <= Len(sh) /\ n \in 1..(Len(sh) + Len(t)) /\ ~(n <= Len(s))
          /\ n - Len(s) = 1
      BY <1>1, <1>2, <1>5, <2>2
    <3> QED
      BY <1>1, <1>2, <1>3, <1>4, <2>2, <3>1
  <2>3. CASE n > Len(s) + 1
    <3>1. /\ ~(n <= Len(sh)) /\ n \in 1..(Len(sh) + Len(t)) /\ ~(n <= Len(s))
          /\ n - Len(sh) \in 1..(Len(o) - 1) /\ (n - Len(sh)) + 1 = n - Len(s)
      BY <1>1, <1>2, <1>5, <2>3
    <3> QED
      BY <1>1, <1>3, <1>4, <3>1
  <2> QED
    BY <1>1, <2>1, <2>2, <2>3
<1>7. a = b
  BY <1>3, <1>4, <1>5, <1>6, SeqEqual
<1> QED
  BY <1>7 DEF a, b, sh, h, t

(* The elements of a concatenation.                                        *)
LEMMA ToSetConcat ==
  ASSUME NEW s \in Seq(Event), NEW o \in Seq(Event)
  PROVE  ToSet(s \o o) = ToSet(s) \cup ToSet(o)
<1> DEFINE b == s \o o
<1>1. /\ b \in Seq(Event) /\ Len(b) = Len(s) + Len(o)
      /\ \A n \in 1..(Len(s) + Len(o)) :
           b[n] = IF n <= Len(s) THEN s[n] ELSE o[n - Len(s)]
  BY ConcatProperties
<1>2. /\ Len(s) \in Nat /\ Len(o) \in Nat
      /\ DOMAIN s = 1..Len(s) /\ DOMAIN o = 1..Len(o)
  OBVIOUS
<1> HIDE DEF b
<1>3. DOMAIN b = 1..(Len(s) + Len(o))
  BY <1>1
<1>4. ASSUME NEW x \in ToSet(b) PROVE x \in ToSet(s) \cup ToSet(o)
  <2>1. PICK n \in 1..(Len(s) + Len(o)) : x = b[n]
    BY <1>3 DEF ToSet
  <2>2. n <= Len(s) => n \in 1..Len(s)
    BY <1>2
  <2>3. ~(n <= Len(s)) => n - Len(s) \in 1..Len(o)
    BY <1>2
  <2> QED
    BY <1>1, <1>2, <2>1, <2>2, <2>3 DEF ToSet
<1>5. ASSUME NEW n \in 1..Len(s) PROVE s[n] \in ToSet(b)
  <2>1. n \in 1..(Len(s) + Len(o)) /\ n <= Len(s)
    BY <1>2
  <2> QED
    BY <1>1, <1>3, <2>1 DEF ToSet
<1>6. ASSUME NEW n \in 1..Len(o) PROVE o[n] \in ToSet(b)
  <2>1. /\ n + Len(s) \in 1..(Len(s) + Len(o)) /\ ~(n + Len(s) <= Len(s))
        /\ (n + Len(s)) - Len(s) = n
    BY <1>2
  <2> QED
    BY <1>1, <1>3, <2>1 DEF ToSet
<1>7. ToSet(s) \cup ToSet(o) \subseteq ToSet(b)
  BY <1>2, <1>5, <1>6 DEF ToSet
<1>8. ToSet(b) = ToSet(s) \cup ToSet(o)
  BY <1>4, <1>7
<1> QED
  BY <1>8 DEF b

(* The replay of one more event.                                           *)
LEMMA ReplayAppend ==
  ASSUME NEW s \in Seq(Event), NEW e \in Event
  PROVE  ReplayOf(Append(s, e)) = ReplayEvent(ReplayOf(s), e)
<1> DEFINE t == Append(s, e)
           N == Len(s)
<1>1. /\ t \in Seq(Event) /\ Len(t) = N + 1 /\ t[N + 1] = e
      /\ \A n \in 1..N : t[n] = s[n]
  BY AppendProperties
<1> HIDE DEF t
<1>2. N \in Nat /\ N + 1 \in 1..(N + 1) /\ (N + 1) - 1 = N
  OBVIOUS
<1>3. PICK f \in [0..(N + 1) -> World] :
        /\ f[0] = Blank /\ f[N + 1] = ReplayOf(t)
        /\ \A n \in 1..(N + 1) : f[n] = ReplayEvent(f[n - 1], t[n])
  <2>1. \E h \in [0..Len(t) -> World] :
          /\ h[0] = Blank /\ h[Len(t)] = ReplayOf(t)
          /\ \A n \in 1..Len(t) : h[n] = ReplayEvent(h[n - 1], t[n])
    <3>1. t \in Seq(Event)
      BY <1>1
    <3> QED
      BY <3>1, ReplayTrace
  <2>2. Len(t) = N + 1
    BY <1>1
  <2> HIDE DEF N
  <2> QED
    BY <2>1, <2>2
<1>4. PICK g \in [0..N -> World] :
        /\ g[0] = Blank /\ g[N] = ReplayOf(s)
        /\ \A n \in 1..N : g[n] = ReplayEvent(g[n - 1], s[n])
  BY ReplayTrace
<1> DEFINE S == {n \in 0..N : f[n] = g[n]}
<1>5. 0 \in S
  BY <1>2, <1>3, <1>4
<1>6. ASSUME NEW n \in 0..(N - 1), n \in S PROVE n + 1 \in S
  <2>1. /\ n + 1 \in 1..N /\ n + 1 \in 1..(N + 1) /\ (n + 1) - 1 = n
        /\ n + 1 \in 0..N
    BY <1>2
  <2>2. f[n + 1] = ReplayEvent(f[n], s[n + 1]) /\ g[n + 1] = ReplayEvent(g[n], s[n + 1])
    BY <1>1, <1>3, <1>4, <2>1
  <2> QED
    BY <1>6, <2>1, <2>2
<1>7. f[N] = g[N]
  <2> HIDE DEF S
  <2>1. \A n \in 0..N : n \in S
    BY <1>2, <1>5, <1>6, UpTo
  <2> QED
    BY <1>2, <2>1 DEF S
<1>8. ReplayOf(t) = ReplayEvent(ReplayOf(s), e)
  BY <1>1, <1>2, <1>3, <1>4, <1>7
<1> QED
  BY <1>8 DEF t

-----------------------------------------------------------------------------
(* A consequence fires once.                                               *)

IsConsequence(e) == e.type = "consequence.approval_gate"

(* Consequences have an argument each, and it is one of the fired keys.    *)
Single(s, F) ==
  /\ \A i, j \in 1..Len(s) :
       IsConsequence(s[i]) /\ IsConsequence(s[j]) /\ s[i].arg = s[j].arg => i = j
  /\ \A i \in 1..Len(s) : IsConsequence(s[i]) => s[i].arg \in F

(* What calls for a consequence has fired.                                 *)
Served(S, F) == \A e \in S : e.type = "approval.required" => e.id \in F

(* An event that is no consequence fires nothing twice.                    *)
LEMMA SinglePlain ==
  ASSUME NEW s \in Seq(Event), NEW F, Single(s, F), NEW e \in Event,
         ~IsConsequence(e)
  PROVE  Single(Append(s, e), F)
<1> DEFINE t == Append(s, e)
<1>1. /\ t \in Seq(Event) /\ Len(t) = Len(s) + 1 /\ t[Len(s) + 1] = e
      /\ \A n \in 1..Len(s) : t[n] = s[n]
  BY AppendProperties
<1> HIDE DEF t
<1>2. \A n \in 1..Len(t) : n \in 1..Len(s) \/ t[n] = e
  BY <1>1
<1> QED
  BY <1>1, <1>2 DEF Single, t

(* A consequence of something that has not fired is the first.             *)
LEMMA SingleFires ==
  ASSUME NEW s \in Seq(Event), NEW F, Single(s, F), NEW e \in Event,
         e.arg \notin F
  PROVE  Single(Append(s, e), F \cup {e.arg})
<1> DEFINE t == Append(s, e)
<1>1. /\ t \in Seq(Event) /\ Len(t) = Len(s) + 1 /\ t[Len(s) + 1] = e
      /\ \A n \in 1..Len(s) : t[n] = s[n]
  BY AppendProperties
<1> HIDE DEF t
<1>2. \A n \in 1..Len(t) : n \in 1..Len(s) \/ n = Len(s) + 1
  BY <1>1
<1>3. \A i, j \in 1..Len(t) :
        IsConsequence(t[i]) /\ IsConsequence(t[j]) /\ t[i].arg = t[j].arg => i = j
  BY <1>1, <1>2 DEF Single
<1>4. \A i \in 1..Len(t) : IsConsequence(t[i]) => t[i].arg \in F \cup {e.arg}
  BY <1>1, <1>2 DEF Single
<1> QED
  BY <1>3, <1>4 DEF Single, t

(* A job keeps consequences single, whatever the stream it adds to.        *)
SingleJob(s, j) == Single(s \o j.out, j.world.fired)

(* One round of the consequence loop fires nothing twice.                  *)
LEMMA FireSingle ==
  ASSUME NEW c \in Calls, NEW j \in JobSet, NEW e \in Event,
         NEW s \in Seq(Event), SingleJob(s, j), NEW A
  PROVE  LET k == Fire(c, j, e)
         IN  /\ k \in JobSet /\ SingleJob(s, k)
             /\ j.world.fired \subseteq k.world.fired
             /\ e.type = "approval.required" => e.id \in k.world.fired
             /\ ({x \in ToSet(j.out) : x.type = "approval.required"} \subseteq A
                  => {x \in ToSet(k.out) : x.type = "approval.required"}
                       \subseteq A)
<1> DEFINE k == Fire(c, j, e)
<1>1. k \in JobSet /\ j.out \in Seq(Event) /\ j.world \in World
  BY FireTyped DEF JobSet
<1>2. CASE k = j
  <2>1. e.type = "approval.required" => e.id \in j.world.fired
    BY <1>2, FireParts
  <2> HIDE DEF k
  <2> QED
    BY <1>1, <1>2, <2>1 DEF k
<1>3. CASE k # j
  <2> DEFINE x == Consequence(c, j.out, e)
             F == j.world.fired
             o == j.out
  <2>1. /\ e.type = "approval.required" /\ e.id \notin F /\ x \in Event
        /\ k.world = [j.world EXCEPT !.fired = @ \cup {e.id}]
        /\ k.out = Append(o, x)
    BY <1>3, Fires
  <2>2. x.arg = e.id /\ x.type = "consequence.approval_gate"
    BY DEF Consequence
  <2>3. k.world.fired = F \cup {e.id}
    BY <1>1, <2>1 DEF World
  <2> HIDE DEF k, x, F, o
  <2>4. o \in Seq(Event) /\ Single(s \o o, F)
    BY <1>1 DEF SingleJob, F, o
  <2>5. s \o Append(o, x) = Append(s \o o, x) /\ s \o o \in Seq(Event)
    BY <2>1, <2>4, ConcatAppend
  <2>6. Single(Append(s \o o, x), F \cup {x.arg})
    BY <2>1, <2>2, <2>4, <2>5, SingleFires
  <2>7. SingleJob(s, k)
    BY <2>1, <2>2, <2>3, <2>5, <2>6 DEF SingleJob
  <2>8. ToSet(k.out) = ToSet(o) \cup {x}
    BY <2>1, <2>4, ToSetAppend
  <2> QED
    BY <1>1, <2>2, <2>3, <2>7, <2>8 DEF k, F, o
<1> QED
  BY <1>2, <1>3

(* A scan fires nothing twice and leaves nothing unserved.                 *)
LEMMA ScanSingle ==
  ASSUME NEW c \in Calls, NEW job \in JobSet, NEW recent \in Seq(Event),
         NEW s \in Seq(Event), SingleJob(s, job)
  PROVE  LET k == ScanConsequences(c, job, recent)
         IN  /\ k \in JobSet /\ SingleJob(s, k)
             /\ job.world.fired \subseteq k.world.fired
             /\ Served(ToSet(recent), k.world.fired)
             /\ {x \in ToSet(k.out) : x.type = "approval.required"}
                  \subseteq ToSet(job.out)
<1> DEFINE N == Len(recent)
           A == ToSet(job.out)
<1>1. PICK f \in [0..N -> JobSet] :
        /\ f[0] = job /\ f[N] = ScanConsequences(c, job, recent)
        /\ \A n \in 1..N : f[n] = Fire(c, f[n - 1], recent[n])
  BY ScanTrace
<1> DEFINE Good(n) ==
             /\ SingleJob(s, f[n]) /\ job.world.fired \subseteq f[n].world.fired
             /\ \A m \in 1..n : recent[m].type = "approval.required" =>
                                  recent[m].id \in f[n].world.fired
             /\ {x \in ToSet(f[n].out) : x.type = "approval.required"} \subseteq A
           S == {n \in 0..N : Good(n)}
<1>2. N \in Nat /\ DOMAIN recent = 1..N /\ \A n \in 1..N : recent[n] \in Event
  OBVIOUS
<1>3. 0 \in S
  BY <1>1, <1>2
<1>4. ASSUME NEW n \in 0..(N - 1), n \in S PROVE n + 1 \in S
  <2>1. /\ n + 1 \in 1..N /\ (n + 1) - 1 = n /\ n + 1 \in 0..N /\ n \in 0..N
        /\ \A m \in 1..(n + 1) : m \in 1..n \/ m = n + 1
    BY <1>2
  <2> DEFINE j == f[n]
             e == recent[n + 1]
             k == f[n + 1]
  <2>2. j \in JobSet /\ e \in Event /\ Good(n) /\ k = Fire(c, j, e)
    BY <1>1, <1>2, <1>4, <2>1
  <2> HIDE DEF A, j, e, k
  <2>3. /\ k \in JobSet /\ SingleJob(s, k)
        /\ j.world.fired \subseteq k.world.fired
        /\ e.type = "approval.required" => e.id \in k.world.fired
        /\ ({x \in ToSet(j.out) : x.type = "approval.required"} \subseteq A
             => {x \in ToSet(k.out) : x.type = "approval.required"} \subseteq A)
    <3>1. SingleJob(s, j)
      BY <2>2 DEF j
    <3> QED
      BY <2>2, <3>1, FireSingle
  <2>4. Good(n + 1)
    BY <2>1, <2>2, <2>3 DEF j, e, k
  <2> QED
    BY <2>1, <2>4
<1>5. Good(N)
  <2> HIDE DEF S
  <2>1. \A n \in 0..N : n \in S
    BY <1>2, <1>3, <1>4, UpTo
  <2>2. N \in S
    BY <1>2, <2>1
  <2> QED
    BY <2>2 DEF S
<1>6. f[N] \in JobSet
  BY <1>1, <1>2
<1>7. Served(ToSet(recent), f[N].world.fired)
  BY <1>2, <1>5 DEF Served, ToSet
<1> QED
  BY <1>1, <1>5, <1>6, <1>7

(* The events of an action fire nothing.                                   *)
LEMMA WorkSingle ==
  ASSUME NEW c \in Calls, NEW o \in Seq(Event), NEW a \in Actions,
         NEW s \in Seq(Event), NEW F, Single(s \o o, F)
  PROVE  Single(s \o Reported(c, o, a), F)
<1> DEFINE p == Answered(c, o, a)
           e1 == EventOf(c, o, Answer(a), a)
           e2 == EventOf(c, p, Result(a), a)
<1>1. p \in Seq(Event) /\ e1 \in Event /\ e2 \in Event
  BY AnswerTyped
<1>2. ~IsConsequence(e1) /\ ~IsConsequence(e2)
  BY DEF EventOf, Answer, Result, IsConsequence
<1>3. p = Append(o, e1)
  BY DEF Answered
<1>4. Reported(c, o, a) \in {p, Append(p, e2)}
  BY DEF Reported
<1> HIDE DEF p, e1, e2
<1>5. s \o o \in Seq(Event) /\ s \o p \in Seq(Event)
  BY <1>1
<1>6. Single(s \o p, F)
  <2>1. s \o p = Append(s \o o, e1)
    BY <1>1, <1>3, ConcatAppend
  <2> QED
    BY <1>1, <1>2, <1>5, <2>1, SinglePlain
<1>7. Single(s \o Append(p, e2), F)
  <2>1. s \o Append(p, e2) = Append(s \o p, e2)
    BY <1>1, ConcatAppend
  <2> QED
    BY <1>1, <1>2, <1>5, <1>6, <2>1, SinglePlain
<1> QED
  BY <1>4, <1>6, <1>7

(* A tick fires a consequence once for what it does itself.                *)
LEMMA TickSingle ==
  ASSUME NEW c \in Calls, NEW w \in World, NEW s \in Seq(Event),
         Single(s, w.fired), Served(ToSet(s), w.fired)
  PROVE  LET j == ProcessTick(c, w)
         IN  SingleJob(s, j) /\ Served(ToSet(s \o j.out), j.world.fired)
<1> DEFINE start == TickStart(c, w)
           acted == TickActed(c, w)
           scanned == TickScanned(c, w)
           j == ProcessTick(c, w)
           N == Len(Taken(w))
<1>1. Single(s \o start.out, w.fired)
  <2> DEFINE x == [id |-> <<c, 1>>, type |-> "world.tick.started",
                   action |-> NoAction, arg |-> w.tick + 1]
  <2>1. start.out = <<x>> /\ start \in JobSet
    BY TickStartIs
  <2>2. start.out \in Seq(Event) /\ ~IsConsequence(x)
    BY <2>1 DEF JobSet, IsConsequence
  <2> HIDE DEF x, start
  <2>3. x \in Event /\ <<x>> = Append(<<>>, x) /\ <<>> \in Seq(Event)
    <3>1. <<x>>[1] = x /\ 1 \in 1..Len(<<x>>)
      OBVIOUS
    <3>2. x \in Event
      BY <2>1, <2>2, <3>1
    <3> QED
      BY <3>2
  <2>4. s \o Append(<<>>, x) = Append(s \o <<>>, x)
    BY <2>3, ConcatAppend
  <2>5. s \o <<>> = s
    BY ConcatEmpty
  <2>6. Single(Append(s, x), w.fired)
    BY <2>2, <2>3, SinglePlain
  <2> QED
    BY <2>1, <2>3, <2>4, <2>5, <2>6
<1>2. PICK f \in [0..N -> JobSet] :
        /\ f[0] = start /\ f[N] = acted
        /\ \A n \in 1..N :
             /\ w.queued[n] \in Actions
             /\ f[n].world = WorkedWorld(f[n - 1].world, w.queued[n])
             /\ f[n].out = Reported(c, f[n - 1].out, w.queued[n])
  BY TickSteps
<1> DEFINE S == {n \in 0..N : Single(s \o f[n].out, w.fired)}
<1>3. N \in Nat
  BY TakenTyped
<1>4. 0 \in S
  BY <1>1, <1>2, <1>3
<1>5. ASSUME NEW n \in 0..(N - 1), n \in S PROVE n + 1 \in S
  <2>1. n + 1 \in 1..N /\ (n + 1) - 1 = n /\ n + 1 \in 0..N /\ n \in 0..N
    BY <1>3
  <2>2. f[n].out \in Seq(Event) /\ w.queued[n + 1] \in Actions
        /\ f[n + 1].out = Reported(c, f[n].out, w.queued[n + 1])
    BY <1>2, <2>1 DEF JobSet
  <2>3. Single(s \o f[n].out, w.fired)
    BY <1>5
  <2>4. Single(s \o f[n + 1].out, w.fired)
    BY <2>2, <2>3, WorkSingle
  <2> QED
    BY <2>1, <2>4
<1>6. Single(s \o acted.out, w.fired)
  <2> HIDE DEF S, acted
  <2>1. \A n \in 0..N : n \in S
    BY <1>3, <1>4, <1>5, UpTo
  <2>2. N \in S
    BY <1>3, <2>1
  <2> QED
    BY <1>2, <2>2 DEF S
<1>7. acted.world.fired = w.fired /\ acted \in JobSet /\ acted.out \in Seq(Event)
  BY TickWorld, TickTyped DEF JobSet
<1>8. SingleJob(s, acted)
  BY <1>6, <1>7 DEF SingleJob
<1>9. /\ scanned \in JobSet /\ SingleJob(s, scanned)
      /\ w.fired \subseteq scanned.world.fired
      /\ Served(ToSet(acted.out), scanned.world.fired)
      /\ {x \in ToSet(scanned.out) : x.type = "approval.required"}
           \subseteq ToSet(acted.out)
  <2>1. scanned = ScanConsequences(c, acted, acted.out)
    BY DEF TickScanned
  <2> HIDE DEF scanned, acted
  <2> QED
    BY <1>7, <1>8, <2>1, ScanSingle
<1>10. PICK e \in Event :
         /\ e.type = "world.tick.completed" /\ j.out = Append(scanned.out, e)
         /\ j.world = scanned.world
  BY TickEndIs
<1> DEFINE F == scanned.world.fired
           o == scanned.out
<1> HIDE DEF j, scanned, acted, start
<1>11. o \in Seq(Event) /\ s \o o \in Seq(Event) /\ Single(s \o o, F)
  BY <1>9 DEF JobSet, SingleJob
<1> HIDE DEF F, o
<1>12. SingleJob(s, j)
  <2>1. ~IsConsequence(e)
    BY <1>10 DEF IsConsequence
  <2>2. Single(Append(s \o o, e), F)
    BY <1>11, <2>1, SinglePlain
  <2>3. s \o Append(o, e) = Append(s \o o, e)
    BY <1>11, ConcatAppend
  <2> QED
    BY <1>10, <2>2, <2>3 DEF SingleJob, F, o
<1>13. Served(ToSet(s \o j.out), F)
  <2>1. j.out = Append(o, e) /\ j.out \in Seq(Event)
    BY <1>10, <1>11 DEF o
  <2>2. ToSet(j.out) = ToSet(o) \cup {e}
    BY <1>11, <2>1, ToSetAppend
  <2>3. ToSet(s \o j.out) = ToSet(s) \cup (ToSet(o) \cup {e})
    BY <2>1, <2>2, ToSetConcat
  <2>4. Served(ToSet(o), F) /\ Served(ToSet(s), F)
    BY <1>9 DEF Served, F, o
  <2>5. Served({e}, F)
    BY <1>10 DEF Served
  <2> QED
    BY <2>3, <2>4, <2>5 DEF Served
<1> QED
  BY <1>10, <1>12, <1>13 DEF F, j

(* A single event that asks for no approval settles the account.           *)
LEMMA SinglePlainJob ==
  ASSUME NEW s \in Seq(Event), NEW F, Single(s, F), Served(ToSet(s), F),
         NEW e \in Event, e.type \notin {"approval.required",
                                         "consequence.approval_gate"}
  PROVE  Single(s \o <<e>>, F) /\ Served(ToSet(s \o <<e>>), F)
<1>1. <<e>> = Append(<<>>, e) /\ <<>> \in Seq(Event)
  OBVIOUS
<1>2. s \o <<e>> = Append(s, e)
  <2>1. s \o Append(<<>>, e) = Append(s \o <<>>, e)
    BY <1>1, ConcatAppend
  <2>2. s \o <<>> = s
    BY ConcatEmpty
  <2> QED
    BY <1>1, <2>1, <2>2
<1>3. Single(Append(s, e), F)
  BY SinglePlain DEF IsConsequence
<1>4. ToSet(Append(s, e)) = ToSet(s) \cup {e}
  BY ToSetAppend
<1> QED
  BY <1>2, <1>3, <1>4 DEF Served

(* What a call plans keeps consequences single and serves what it finds.   *)
LEMMA JobSingle ==
  ASSUME NEW c \in Calls, c \notin Replays \cup Resets, NEW w \in World,
         stream \in Seq(Event),
         NEW kind \in IF c \in Submits THEN Kinds ELSE {"none"},
         Single(stream, w.fired), Served(ToSet(stream), w.fired)
  PROVE  LET job == Job(c, kind, w)
         IN  SingleJob(stream, job) /\ Served(ToSet(stream \o job.out), job.world.fired)
<1> DEFINE job == Job(c, kind, w)
<1>0. /\ c \in Submits => job = SubmitAction(c, kind, w)
      /\ c \in Ticks => job = ProcessTick(c, w)
      /\ c \in Scans => job = ScanConsequences(c, Same(w), StreamTail)
      /\ c \in Reconciles => job = Reconcile(c, w)
      /\ c \in Inits => job = Initialize(c, w, FALSE)
  BY JobOf
<1>1. job \in JobSet
  BY JobTyped
<1> HIDE DEF job
<1>2. CASE c \in Submits \cup Reconciles \cup Inits
  <2>1. \E e \in Event :
          /\ e.type \notin {"approval.required", "consequence.approval_gate"}
          /\ job.out = <<e>>
    <3>1. \E e : /\ e.type \notin {"approval.required", "consequence.approval_gate"}
                 /\ job.out = <<e>>
      <4>1. CASE c \in Submits
        <5> DEFINE e == [id |-> <<c, 1>>, type |-> "action.queued",
                         action |-> [id |-> c, kind |-> kind], arg |-> 0]
        <5>1. kind \in Kinds
          BY <4>1
        <5>2. SubmitAction(c, kind, w).out = <<e>>
          BY <4>1, <5>1, SubmitTyped
        <5> QED
          BY <1>0, <4>1, <5>2
      <4>2. CASE c \in Reconciles
        <5> DEFINE e == [id |-> <<c, 1>>, type |-> "android.reconciled",
                         action |-> NoAction, arg |-> 0]
        <5>1. Reconcile(c, w).out = <<e>>
          BY PlainTyped
        <5> QED
          BY <1>0, <4>2, <5>1
      <4>3. CASE c \in Inits
        <5> DEFINE e == [id |-> <<c, 1>>, type |-> "world.initialized",
                         action |-> NoAction, arg |-> 0]
        <5>1. Initialize(c, w, FALSE).out = <<e>>
          BY PlainTyped
        <5> QED
          BY <1>0, <4>3, <5>1
      <4> QED
        BY <1>2, <4>1, <4>2, <4>3
    <3>2. PICK e : /\ e.type \notin {"approval.required",
                                     "consequence.approval_gate"}
                   /\ job.out = <<e>>
      BY <3>1
    <3>3. job.out \in Seq(Event)
      BY <1>1 DEF JobSet
    <3>4. <<e>>[1] = e /\ 1 \in 1..Len(<<e>>)
      OBVIOUS
    <3>5. e \in Event
      BY <3>2, <3>3, <3>4
    <3> QED
      BY <3>2, <3>5
  <2>2. job.world.fired = w.fired
    <3>1. CASE c \in Submits
      <4>1. kind \in Kinds
        BY <3>1
      <4>2. SubmitAction(c, kind, w).world
              = [w EXCEPT !.queued = Append(@, [id |-> c, kind |-> kind])]
        BY <3>1, <4>1, SubmitTyped
      <4> QED
        BY <1>0, <3>1, <4>2 DEF World
    <3>2. CASE c \in Reconciles
      <4>1. Reconcile(c, w).world = [w EXCEPT !.android = TRUE]
        BY PlainTyped
      <4> QED
        BY <1>0, <3>2, <4>1 DEF World
    <3>3. CASE c \in Inits
      <4>1. Initialize(c, w, FALSE).world = w
        BY PlainTyped
      <4> QED
        BY <1>0, <3>3, <4>1
    <3> QED
      BY <1>2, <3>1, <3>2, <3>3
  <2> QED
    BY <2>1, <2>2, SinglePlainJob DEF SingleJob, job
<1>3. CASE c \in Ticks
  <2>1. SingleJob(stream, ProcessTick(c, w))
        /\ Served(ToSet(stream \o ProcessTick(c, w).out),
                  ProcessTick(c, w).world.fired)
    BY TickSingle
  <2> QED
    BY <1>0, <1>3, <2>1 DEF job
<1>4. CASE c \in Scans
  <2> DEFINE k == ScanConsequences(c, Same(w), StreamTail)
  <2>1. Same(w) \in JobSet /\ Same(w).world = w /\ Same(w).out = <<>>
    BY SameTyped DEF Same
  <2>2. StreamTail \in Seq(Event)
    BY TailTyped
  <2>3. SingleJob(stream, Same(w))
    BY <2>1, ConcatEmpty DEF SingleJob
  <2>4. /\ k \in JobSet /\ SingleJob(stream, k) /\ w.fired \subseteq k.world.fired
        /\ {x \in ToSet(k.out) : x.type = "approval.required"} \subseteq ToSet(Same(w).out)
    BY <2>1, <2>2, <2>3, ScanSingle
  <2> HIDE DEF k
  <2>5. k.out \in Seq(Event)
    BY <2>4 DEF JobSet
  <2>6. ToSet(stream \o k.out) = ToSet(stream) \cup ToSet(k.out)
    BY <2>5, ToSetConcat
  <2>7. ToSet(Same(w).out) = {}
    BY <2>1 DEF ToSet
  <2>8. Served(ToSet(stream \o k.out), k.world.fired)
    BY <2>4, <2>6, <2>7 DEF Served
  <2>9. job = k
    BY <1>0, <1>4 DEF k
  <2> QED
    BY <2>4, <2>8, <2>9 DEF job
<1> QED
  BY <1>2, <1>3, <1>4 DEF Calls

-----------------------------------------------------------------------------
(* The replay of the stream and of what a call has yet to append is the    *)
(* world that the call has made.                                           *)

(* Removing the first action of a queue without repetitions.               *)
LEMMA WithoutHead ==
  ASSUME NEW queue \in Seq(Actions), queue # <<>>, OneEach(queue)
  PROVE  Without(queue, Head(queue).id) = Tail(queue)
<1> DEFINE N == Len(queue)
           id == Head(queue).id
           Rear(n) == [i \in 1..(n - 1) |-> queue[i + 1]]
<1>1. PICK f \in [0..N -> Seq(Actions)] :
        /\ f[0] = <<>> /\ f[N] = Without(queue, id)
        /\ \A n \in 1..N : f[n] = Keep(f[n - 1], queue[n], id)
  BY WithoutTrace
<1>2. /\ N \in Nat /\ N >= 1 /\ DOMAIN queue = 1..N
      /\ \A n \in 1..N : queue[n] \in Actions
      /\ Head(queue) = queue[1]
  OBVIOUS
<1> DEFINE S == {n \in 0..(N - 1) : f[n + 1] = Rear(n + 1)}
<1>3. 0 \in S
  <2>1. f[1] = Keep(f[0], queue[1], id)
    <3>1. 1 \in 1..N /\ 1 - 1 = 0
      BY <1>2
    <3> QED
      BY <1>1, <3>1
  <2>2. f[1] = <<>>
    BY <1>1, <1>2, <2>1 DEF Keep
  <2>3. Rear(1) = <<>>
    OBVIOUS
  <2> QED
    BY <1>2, <2>2, <2>3
<1>4. ASSUME NEW n \in 0..(N - 1 - 1), n \in S PROVE n + 1 \in S
  <2> DEFINE q == Rear(n + 1)
             a == queue[n + 2]
             r == Rear(n + 2)
  <2>1. /\ n + 2 \in 1..N /\ (n + 2) - 1 = n + 1 /\ n + 1 \in 0..(N - 1)
        /\ (n + 1) + 1 = n + 2 /\ 1 \in 1..N /\ n + 2 # 1 /\ n \in Nat
        /\ n + 1 \in 0..N /\ (n + 1) - 1 = n
    BY <1>2
  <2>2. a.id # id
    BY <1>2, <2>1 DEF OneEach
  <2>3. f[n + 2] = Append(f[n + 1], a)
    BY <1>1, <2>1, <2>2 DEF Keep
  <2>4. /\ f[n + 1] = q /\ q \in Seq(Actions) /\ a \in Actions
    BY <1>1, <1>2, <1>4, <2>1
  <2>5. /\ Len(q) = n /\ \A i \in 1..n : q[i] = queue[i + 1]
    BY <2>1
  <2>6. /\ r \in Seq(Actions) /\ Len(r) = n + 1
        /\ \A i \in 1..(n + 1) : r[i] = queue[i + 1]
    <3>1. (n + 2) - 1 = n + 1 /\ n + 1 \in Nat
      BY <2>1
    <3>2. r = [i \in 1..(n + 1) |-> queue[i + 1]]
      BY <3>1
    <3>3. \A i \in 1..(n + 1) : i + 1 \in 1..N
      BY <2>1
    <3>4. \A i \in 1..(n + 1) : queue[i + 1] \in Actions
      BY <1>2, <3>3
    <3> HIDE DEF r
    <3> QED
      BY <3>1, <3>2, <3>4
  <2> HIDE DEF q, r, a
  <2>7. /\ Append(q, a) \in Seq(Actions) /\ Len(Append(q, a)) = n + 1
        /\ Append(q, a)[n + 1] = a
        /\ \A i \in 1..n : Append(q, a)[i] = q[i]
    BY <2>4, <2>5, AppendProperties
  <2>8. ASSUME NEW i \in 1..(n + 1) PROVE Append(q, a)[i] = r[i]
    <3>1. i \in 1..n \/ i = n + 1
      BY <2>1
    <3>2. queue[(n + 1) + 1] = a
      BY <2>1 DEF a
    <3> QED
      BY <2>5, <2>6, <2>7, <3>1, <3>2
  <2>9. Append(q, a) = r
    BY <2>6, <2>7, <2>8, SeqEqual
  <2> QED
    BY <2>1, <2>3, <2>4, <2>9 DEF r
<1>5. f[N] = Rear(N)
  <2>1. N - 1 \in Nat /\ N - 1 \in 0..(N - 1) /\ (N - 1) + 1 = N
    BY <1>2
  <2> HIDE DEF S
  <2>2. \A n \in 0..(N - 1) : n \in S
    BY <1>3, <1>4, <2>1, UpTo
  <2>3. N - 1 \in S
    BY <2>1, <2>2
  <2> QED
    BY <2>1, <2>3 DEF S
<1>6. Rear(N) = Tail(queue)
  <2> DEFINE t == Tail(queue)
             r == Rear(N)
  <2>1. /\ t \in Seq(Actions) /\ Len(t) = N - 1
        /\ \A i \in 1..(N - 1) : t[i] = queue[i + 1]
    BY <1>2
  <2>2. N - 1 \in Nat /\ \A i \in 1..(N - 1) : queue[i + 1] \in Actions
    BY <1>2
  <2>3. /\ r \in Seq(Actions) /\ Len(r) = N - 1
        /\ \A i \in 1..(N - 1) : r[i] = queue[i + 1]
    BY <2>2
  <2> HIDE DEF t, r
  <2>4. t = r
    BY <2>1, <2>3, SeqEqual
  <2> QED
    BY <2>4 DEF t, r
<1> QED
  BY <1>1, <1>5, <1>6

(* What the replay does with each type of event.                           *)
LEMMA ReplayOn ==
  ASSUME NEW w \in World, NEW e \in Event
  PROVE  /\ e.type = "action.queued" =>
              ReplayEvent(w, e) = [w EXCEPT !.queued = Append(@, e.action)]
         /\ e.type \in {"action.accepted", "action.rejected"} =>
              ReplayEvent(w, e) = MarkProcessed(w, e.action)
         /\ e.type = "approval.required" =>
              ReplayEvent(w, e) = [MarkProcessed(w, e.action) EXCEPT
                                     !.approvals = @ \cup {e.action.id}]
         /\ e.type = "entity.property_set" =>
              ReplayEvent(w, e) = [w EXCEPT !.value = e.action.id]
         /\ e.type = "world.tick.completed" =>
              ReplayEvent(w, e) = [w EXCEPT !.tick = e.arg]
         /\ e.type \in {"effect.failed", "world.note", "world.tick.started",
                        "world.initialized", "android.reconciled",
                        "consequence.approval_gate"} => ReplayEvent(w, e) = w
BY DEF ReplayEvent

(* An action is replayed as it was worked.                                 *)
LEMMA WorkAgrees ==
  ASSUME NEW c \in Calls, NEW s \in Seq(Event), NEW o \in Seq(Event),
         NEW a \in Actions, NEW v \in World,
         Distinct(ReplayOf(s \o o)),
         ReplayOf(s \o o).queued # <<>>, Head(ReplayOf(s \o o).queued) = a,
         ReplayOf(s \o o).processed = v.processed,
         ReplayOf(s \o o).value = v.value,
         ReplayOf(s \o o).approvals = v.approvals
  PROVE  LET t == ReplayOf(s \o Reported(c, o, a))
             u == WorkedWorld(v, a)
         IN  /\ Distinct(t) /\ t.queued = Tail(ReplayOf(s \o o).queued)
             /\ t.tick = ReplayOf(s \o o).tick
             /\ t.processed = u.processed /\ t.value = u.value
             /\ t.approvals = u.approvals
<1> DEFINE r == ReplayOf(s \o o)
           p == Answered(c, o, a)
           e1 == EventOf(c, o, Answer(a), a)
           e2 == EventOf(c, p, Result(a), a)
           r1 == ReplayOf(s \o p)
           r2 == ReplayOf(s \o Append(p, e2))
           m == MarkProcessed(r, a)
           u == WorkedWorld(v, a)
<1>1. p \in Seq(Event) /\ e1 \in Event /\ e2 \in Event /\ s \o o \in Seq(Event)
  BY AnswerTyped
<1>2. /\ e1.type = Answer(a) /\ e1.action = a
      /\ e2.type = Result(a) /\ e2.action = a
  BY DEF EventOf
<1>3. p = Append(o, e1) /\ s \o p \in Seq(Event)
  BY <1>1 DEF Answered
<1>4. Reported(c, o, a) = IF a.kind \in {"unknown", "gated"} THEN p
                          ELSE Append(p, e2)
  BY DEF Reported
<1>5. r \in World
  BY <1>1, ReplayTyped
<1> HIDE DEF p, e1, e2
<1>6. r1 = ReplayEvent(r, e1)
  <2>1. s \o Append(o, e1) = Append(s \o o, e1)
    BY <1>1, ConcatAppend
  <2>2. ReplayOf(Append(s \o o, e1)) = ReplayEvent(r, e1)
    BY <1>1, ReplayAppend
  <2> QED
    BY <1>3, <2>1, <2>2
<1>7. r2 = ReplayEvent(r1, e2) /\ r1 \in World
  <2>1. s \o Append(p, e2) = Append(s \o p, e2)
    BY <1>1, ConcatAppend
  <2>2. ReplayOf(Append(s \o p, e2)) = ReplayEvent(r1, e2)
    BY <1>1, <1>3, ReplayAppend
  <2>3. r1 \in World
    BY <1>3, ReplayTyped
  <2> QED
    BY <2>1, <2>2, <2>3
<1>8. /\ Distinct(r) /\ r.queued # <<>> /\ Head(r.queued) = a
      /\ r.processed = v.processed /\ r.value = v.value
      /\ r.approvals = v.approvals
  OBVIOUS
<1> HIDE DEF r, r1, r2
<1>9. a.id \notin ToSet(r.processed)
  <2>1. r.queued \in Seq(Actions)
    BY <1>5 DEF World
  <2>2. a \in ToSet(r.queued)
    <3>1. 1 \in DOMAIN r.queued /\ Head(r.queued) = r.queued[1]
      BY <1>8, <2>1
    <3> QED
      BY <1>8, <3>1 DEF ToSet
  <2>3. a.id \in Ids(r.queued)
    BY <2>2 DEF Ids
  <2> QED
    BY <1>8, <2>3 DEF Distinct
<1>10. Without(r.queued, a.id) = Tail(r.queued)
  <2>1. r.queued \in Seq(Actions) /\ OneEach(r.queued)
    BY <1>5, <1>8 DEF World, Distinct
  <2>2. Without(r.queued, Head(r.queued).id) = Tail(r.queued)
    BY <1>8, <2>1, WithoutHead
  <2> QED
    BY <1>8, <2>2
<1>11. /\ m \in World /\ Distinct(m) /\ m.queued = Tail(r.queued)
       /\ m.processed = Append(r.processed, a.id)
       /\ m.tick = r.tick /\ m.value = r.value /\ m.approvals = r.approvals
  BY <1>5, <1>8, <1>9, <1>10, MarkIs, MarkNeat
<1>12. /\ u.processed = Append(v.processed, a.id)
       /\ u.approvals = IF a.kind = "gated" THEN v.approvals \cup {a.id}
                        ELSE v.approvals
       /\ u.value = IF a.kind = "mark" THEN a.id ELSE v.value
  BY WorkedWorldIs
<1> HIDE DEF m, u
<1>13. CASE a.kind = "gated"
  <2>1. e1.type = "approval.required"
    BY <1>2, <1>13 DEF Answer
  <2>2. r1 = [m EXCEPT !.approvals = @ \cup {a.id}]
    BY <1>1, <1>2, <1>5, <1>6, <2>1, ReplayOn DEF m
  <2>3. /\ r1.queued = m.queued /\ r1.processed = m.processed
        /\ r1.tick = m.tick /\ r1.value = m.value
        /\ r1.approvals = m.approvals \cup {a.id}
    BY <1>11, <2>2 DEF World
  <2>4. Distinct(r1)
    BY <1>11, <2>3 DEF Distinct
  <2> QED
    BY <1>4, <1>8, <1>11, <1>12, <1>13, <2>3, <2>4 DEF r, r1, u
<1>14. CASE a.kind = "unknown"
  <2>1. e1.type = "action.rejected"
    BY <1>2, <1>14 DEF Answer
  <2>2. r1 = m
    BY <1>1, <1>2, <1>5, <1>6, <2>1, ReplayOn DEF m
  <2> QED
    BY <1>4, <1>8, <1>11, <1>12, <1>14, <2>2 DEF r, r1, u
<1>15. CASE a.kind \notin {"gated", "unknown"}
  <2>1. e1.type = "action.accepted"
    BY <1>2, <1>15 DEF Answer
  <2>2. r1 = m
    BY <1>1, <1>2, <1>5, <1>6, <2>1, ReplayOn DEF m
  <2>3. CASE a.kind = "mark"
    <3>1. e2.type = "entity.property_set"
      BY <1>2, <2>3 DEF Result
    <3>2. r2 = [r1 EXCEPT !.value = a.id]
      BY <1>1, <1>2, <1>7, <3>1, ReplayOn
    <3>3. /\ r2.queued = m.queued /\ r2.processed = m.processed
          /\ r2.tick = m.tick /\ r2.value = a.id
          /\ r2.approvals = m.approvals
      BY <1>11, <2>2, <3>2 DEF World
    <3>4. Distinct(r2)
      BY <1>11, <3>3 DEF Distinct
    <3> QED
      BY <1>4, <1>8, <1>11, <1>12, <2>3, <3>3, <3>4 DEF r, r2, u
  <2>4. CASE a.kind # "mark"
    <3>1. e2.type \in {"effect.failed", "world.note"}
      BY <1>2, <2>4 DEF Result
    <3>2. r2 = m
      BY <1>1, <1>7, <2>2, <3>1, ReplayOn
    <3> QED
      BY <1>4, <1>8, <1>11, <1>12, <1>15, <2>4, <3>2 DEF r, r2, u
  <2> QED
    BY <2>3, <2>4
<1> QED
  BY <1>13, <1>14, <1>15

(* The fields of a world that the stream tells.                            *)
Agrees(w, r) ==
  /\ r.tick = w.tick /\ r.value = w.value /\ r.approvals = w.approvals
  /\ r.queued = w.queued /\ r.processed = w.processed

(* The replay of a stream with one more event.                             *)
LEMMA PlainAgrees ==
  ASSUME NEW s \in Seq(Event), NEW e \in Event
  PROVE  ReplayOf(s \o <<e>>) = ReplayEvent(ReplayOf(s), e)
<1>1. <<e>> = Append(<<>>, e) /\ <<>> \in Seq(Event)
  OBVIOUS
<1>2. s \o Append(<<>>, e) = Append(s \o <<>>, e)
  BY <1>1, ConcatAppend
<1>3. s \o <<>> = s
  BY ConcatEmpty
<1> QED
  BY <1>1, <1>2, <1>3, ReplayAppend

(* A scan adds nothing that a replay looks at.                             *)
LEMMA ScanAgrees ==
  ASSUME NEW c \in Calls, NEW job \in JobSet, NEW recent \in Seq(Event),
         NEW s \in Seq(Event)
  PROVE  ReplayOf(s \o ScanConsequences(c, job, recent).out)
           = ReplayOf(s \o job.out)
<1> DEFINE R == ReplayOf(s \o job.out)
           Good == {j \in JobSet : ReplayOf(s \o j.out) = R}
<1>1. Good \in SUBSET JobSet /\ job \in Good
  OBVIOUS
<1>2. \A n \in 1..Len(recent) : recent[n] \in Event
  OBVIOUS
<1> HIDE DEF R
<1>3. ASSUME NEW j \in Good, NEW n \in 1..Len(recent)
      PROVE  Fire(c, j, recent[n]) \in Good
  <2> DEFINE e == recent[n]
             k == Fire(c, j, e)
             x == Consequence(c, j.out, e)
  <2>1. j \in JobSet /\ e \in Event /\ ReplayOf(s \o j.out) = R
    BY <1>2
  <2>2. k \in JobSet /\ j.out \in Seq(Event)
    BY <2>1, FireTyped DEF JobSet
  <2>3. CASE k = j
    BY <2>1, <2>3
  <2>4. CASE k # j
    <3> HIDE DEF e
    <3>0. /\ Consequence(c, j.out, e) \in Event
          /\ Fire(c, j, e).out = Append(j.out, Consequence(c, j.out, e))
      BY <2>1, <2>4, Fires
    <3>1. x \in Event /\ k.out = Append(j.out, x)
      BY <3>0
    <3>2. x.type = "consequence.approval_gate"
      BY DEF Consequence
    <3> HIDE DEF x, k
    <3>3. /\ s \o j.out \in Seq(Event)
          /\ s \o Append(j.out, x) = Append(s \o j.out, x)
      <4>1. j.out \in Seq(Event) /\ x \in Event
        BY <2>2, <3>1
      <4> QED
        BY ONLY s \in Seq(Event), <4>1, ConcatAppend
    <3>4. ReplayOf(Append(s \o j.out, x)) = ReplayEvent(R, x) /\ R \in World
      BY <2>1, <3>1, <3>3, ReplayAppend, ReplayTyped
    <3>5. ReplayEvent(R, x) = R
      BY <3>1, <3>2, <3>4, ReplayOn
    <3>6. ReplayOf(s \o k.out) = R
      BY <3>1, <3>3, <3>4, <3>5
    <3> QED
      BY <2>2, <3>6 DEF k, e
  <2> QED
    BY <2>3, <2>4
<1> HIDE DEF Good
<1>4. ScanConsequences(c, job, recent) \in Good
  BY <1>1, <1>3, ScanKeeps
<1> QED
  BY <1>4 DEF Good, R

(* What is left of a queue, and of that when its first element goes.       *)
LEMMA LeftTyped ==
  ASSUME NEW q \in Seq(Actions), NEW n \in Nat, n < Len(q)
  PROVE  /\ SubSeq(q, n + 1, Len(q)) # <<>>
         /\ Head(SubSeq(q, n + 1, Len(q))) = q[n + 1]
         /\ Tail(SubSeq(q, n + 1, Len(q))) = SubSeq(q, n + 2, Len(q))
<1> DEFINE L == Len(q)
           a == SubSeq(q, n + 1, L)
           b == SubSeq(q, n + 2, L)
           t == Tail(a)
<1>1. L \in Nat /\ n + 1 <= L
  OBVIOUS
<1>2. /\ a \in Seq(Actions) /\ Len(a) = L - n
      /\ \A i \in 1..(L - n) : a[i] = q[n + i]
  BY <1>1
<1>3. /\ b \in Seq(Actions) /\ Len(b) = L - n - 1
      /\ \A i \in 1..(L - n - 1) : b[i] = q[n + 1 + i]
  BY <1>1
<1> HIDE DEF a, b, L
<1>4. a # <<>> /\ 1 \in 1..(L - n)
  BY <1>1, <1>2
<1>5. Head(a) = a[1] /\ a[1] = q[n + 1]
  BY <1>2, <1>4
<1>6. /\ t \in Seq(Actions) /\ Len(t) = L - n - 1
      /\ \A i \in 1..(L - n - 1) : t[i] = a[i + 1]
  BY <1>1, <1>2, <1>4
<1> HIDE DEF t
<1>7. ASSUME NEW i \in 1..(L - n - 1) PROVE t[i] = b[i]
  <2>1. i + 1 \in 1..(L - n) /\ n + (i + 1) = n + 1 + i
    BY <1>1
  <2> QED
    BY <1>2, <1>3, <1>6, <2>1
<1>8. t = b
  BY <1>3, <1>6, <1>7, SeqEqual
<1> QED
  BY <1>4, <1>5, <1>8 DEF a, b, t, L

(* If the stream replays to the state, it does so after a tick.            *)
LEMMA TickAgrees ==
  ASSUME NEW c \in Calls, NEW w \in World, NEW s \in Seq(Event),
         Distinct(w), Agrees(w, ReplayOf(s))
  PROVE  Agrees(ProcessTick(c, w).world, ReplayOf(s \o ProcessTick(c, w).out))
<1> DEFINE start == TickStart(c, w)
           acted == TickActed(c, w)
           scanned == TickScanned(c, w)
           j == ProcessTick(c, w)
           N == Len(Taken(w))
           q == w.queued
           r == ReplayOf(s)
<1>1. q \in Seq(Actions) /\ N \in Nat /\ N <= Len(q) /\ Len(q) \in Nat
  BY TakenTyped DEF World
<1>2. /\ r \in World /\ Distinct(r)
      /\ r.tick = w.tick /\ r.value = w.value /\ r.approvals = w.approvals
      /\ r.queued = w.queued /\ r.processed = w.processed
  BY ReplayTyped DEF Agrees, Distinct
<1>3. ReplayOf(s \o start.out) = r
  <2> DEFINE x == [id |-> <<c, 1>>, type |-> "world.tick.started",
                   action |-> NoAction, arg |-> w.tick + 1]
  <2>1. start.out = <<x>> /\ start \in JobSet
    BY TickStartIs
  <2>2. start.out \in Seq(Event) /\ x.type = "world.tick.started"
    BY <2>1 DEF JobSet
  <2> HIDE DEF x, start, r
  <2>3. x \in Event
    <3>1. <<x>>[1] = x /\ 1 \in 1..Len(<<x>>)
      OBVIOUS
    <3> QED
      BY <2>1, <2>2, <3>1
  <2>4. ReplayOf(s \o <<x>>) = ReplayEvent(r, x)
    BY <2>3, PlainAgrees DEF r
  <2>5. ReplayEvent(r, x) = r
    BY <1>2, <2>2, <2>3, ReplayOn
  <2> QED
    BY <2>1, <2>4, <2>5
<1>4. PICK f \in [0..N -> JobSet] :
        /\ f[0] = start /\ f[N] = acted
        /\ \A n \in 1..N :
             /\ w.queued[n] \in Actions
             /\ f[n].world = WorkedWorld(f[n - 1].world, w.queued[n])
             /\ f[n].out = Reported(c, f[n - 1].out, w.queued[n])
  BY TickSteps
<1> DEFINE R(n) == ReplayOf(s \o f[n].out)
           Good(n) == /\ Distinct(R(n)) /\ R(n).queued = SubSeq(q, n + 1, Len(q))
                      /\ R(n).tick = w.tick
                      /\ R(n).processed = f[n].world.processed
                      /\ R(n).value = f[n].world.value
                      /\ R(n).approvals = f[n].world.approvals
           S == {n \in 0..N : Good(n)}
<1>5. 0 \in S
  <2>1. R(0) = r
    BY <1>3, <1>4
  <2>2. SubSeq(q, 0 + 1, Len(q)) = q
    BY <1>1
  <2>3. start.world = [w EXCEPT !.tick = @ + 1, !.queued = Rest(w)]
    BY TickStartIs
  <2> HIDE DEF r, R, q, start
  <2>4. /\ start.world.processed = w.processed /\ start.world.value = w.value
        /\ start.world.approvals = w.approvals
    BY <2>3 DEF World
  <2>5. Good(0)
    BY <1>2, <1>4, <2>1, <2>2, <2>4 DEF q
  <2>6. 0 \in 0..N
    BY <1>1
  <2> QED
    BY <2>5, <2>6
<1>6. ASSUME NEW n \in 0..(N - 1), n \in S PROVE n + 1 \in S
  <2> DEFINE a == q[n + 1]
             o == f[n].out
             v == f[n].world
  <2>1. /\ n + 1 \in 1..N /\ (n + 1) - 1 = n /\ n + 1 \in 0..N /\ n \in 0..N
        /\ n \in Nat /\ n < Len(q) /\ (n + 1) + 1 = n + 2
    BY <1>1
  <2>2. /\ o \in Seq(Event) /\ v \in World /\ a \in Actions
        /\ f[n + 1].world = WorkedWorld(v, a)
        /\ f[n + 1].out = Reported(c, o, a)
    BY <1>4, <2>1 DEF JobSet
  <2>3. Good(n)
    BY <1>6
  <2>4. /\ SubSeq(q, n + 1, Len(q)) # <<>>
        /\ Head(SubSeq(q, n + 1, Len(q))) = a
        /\ Tail(SubSeq(q, n + 1, Len(q))) = SubSeq(q, n + 2, Len(q))
    BY <1>1, <2>1, LeftTyped
  <2> DEFINE T == ReplayOf(s \o o)
             U == ReplayOf(s \o Reported(c, o, a))
  <2>5. T = R(n) /\ U = R(n + 1)
    BY <2>2
  <2> HIDE DEF R, o, v, a, q
  <2>6. /\ Distinct(T) /\ T.queued # <<>> /\ Head(T.queued) = a
        /\ T.processed = v.processed /\ T.value = v.value
        /\ T.approvals = v.approvals
    BY <2>3, <2>4, <2>5 DEF v
  <2>7. /\ Distinct(U) /\ U.queued = Tail(T.queued) /\ U.tick = T.tick
        /\ U.processed = WorkedWorld(v, a).processed
        /\ U.value = WorkedWorld(v, a).value
        /\ U.approvals = WorkedWorld(v, a).approvals
    BY <2>2, <2>6, WorkAgrees
  <2> HIDE DEF T, U
  <2>8. Good(n + 1)
    BY <2>1, <2>2, <2>3, <2>4, <2>5, <2>7
  <2> QED
    BY <2>1, <2>8
<1>7. Good(N)
  <2> HIDE DEF S
  <2>1. \A n \in 0..N : n \in S
    BY <1>1, <1>5, <1>6, UpTo
  <2>2. N \in S
    BY <1>1, <2>1
  <2> QED
    BY <2>2 DEF S
<1> DEFINE A == ReplayOf(s \o acted.out)
<1>8. /\ A.queued = Rest(w) /\ A.tick = w.tick
      /\ A.processed = acted.world.processed /\ A.value = acted.world.value
      /\ A.approvals = acted.world.approvals
  BY <1>4, <1>7 DEF Rest
<1>9. acted \in JobSet /\ acted.out \in Seq(Event) /\ scanned \in JobSet
  BY TickTyped DEF JobSet
<1>10. ReplayOf(s \o scanned.out) = A
  <2>1. scanned = ScanConsequences(c, acted, acted.out)
    BY DEF TickScanned
  <2> HIDE DEF scanned, acted
  <2> QED
    BY <1>9, <2>1, ScanAgrees
<1>11. PICK e \in Event :
         /\ e.type = "world.tick.completed" /\ j.out = Append(scanned.out, e)
         /\ e.arg = w.tick + 1
  BY TickEndIs
<1>12. /\ j.world.queued = Rest(w) /\ j.world.tick = w.tick + 1
       /\ j.world = [acted.world EXCEPT !.fired = j.world.fired]
  BY TickWorld
<1> HIDE DEF j, scanned, acted, start, A
<1>13. /\ j.world.processed = acted.world.processed
       /\ j.world.value = acted.world.value
       /\ j.world.approvals = acted.world.approvals
  BY <1>9, <1>12 DEF JobSet, World
<1> DEFINE o == scanned.out
           B == ReplayOf(s \o j.out)
<1>14. o \in Seq(Event) /\ s \o o \in Seq(Event)
  BY <1>9 DEF JobSet
<1>15. B = ReplayEvent(A, e) /\ A \in World
  <2>1. s \o Append(o, e) = Append(s \o o, e)
    BY <1>14, ConcatAppend
  <2>2. ReplayOf(Append(s \o o, e)) = ReplayEvent(ReplayOf(s \o o), e)
    BY <1>14, ReplayAppend
  <2>3. ReplayOf(s \o o) \in World
    BY <1>14, ReplayTyped
  <2> QED
    BY <1>10, <1>11, <2>1, <2>2, <2>3
<1> HIDE DEF B
<1>16. B = [A EXCEPT !.tick = w.tick + 1]
  BY <1>11, <1>15, ReplayOn
<1>17. /\ B.tick = w.tick + 1 /\ B.queued = A.queued
       /\ B.processed = A.processed /\ B.value = A.value
       /\ B.approvals = A.approvals
  BY <1>15, <1>16 DEF World
<1>18. Agrees(j.world, B)
  BY <1>8, <1>12, <1>13, <1>17 DEF Agrees
<1> QED
  BY <1>18 DEF j, B

(* And after any call but a replay or a reset.                             *)
LEMMA JobAgrees ==
  ASSUME NEW c \in Calls, c \notin Replays \cup Resets, NEW w \in World,
         stream \in Seq(Event),
         NEW kind \in IF c \in Submits THEN Kinds ELSE {"none"},
         Distinct(w), Agrees(w, ReplayOf(stream))
  PROVE  LET job == Job(c, kind, w)
         IN  Agrees(job.world, ReplayOf(stream \o job.out))
<1> DEFINE job == Job(c, kind, w)
           r == ReplayOf(stream)
           agreed == Agrees(job.world, ReplayOf(stream \o job.out))
<1>0. /\ c \in Submits => job = SubmitAction(c, kind, w)
      /\ c \in Ticks => job = ProcessTick(c, w)
      /\ c \in Scans => job = ScanConsequences(c, Same(w), StreamTail)
      /\ c \in Reconciles => job = Reconcile(c, w)
      /\ c \in Inits => job = Initialize(c, w, FALSE)
  BY JobOf
<1>1. job.out \in Seq(Event) /\ r \in World
  BY JobTyped, ReplayTyped DEF JobSet
<1> HIDE DEF job
<1>2. /\ r.tick = w.tick /\ r.value = w.value /\ r.approvals = w.approvals
      /\ r.queued = w.queued /\ r.processed = w.processed
  BY DEF Agrees
<1>3. ASSUME NEW e, job.out = <<e>>
      PROVE  e \in Event /\ ReplayOf(stream \o job.out) = ReplayEvent(r, e)
  <2>1. <<e>>[1] = e /\ 1 \in 1..Len(<<e>>)
    OBVIOUS
  <2>2. e \in Event
    BY <1>1, <1>3, <2>1
  <2>3. ReplayOf(stream \o <<e>>) = ReplayEvent(r, e)
    BY <2>2, PlainAgrees
  <2> QED
    BY <1>3, <2>2, <2>3
<1>4. CASE c \in Submits
  <2> DEFINE a == [id |-> c, kind |-> kind]
             e == [id |-> <<c, 1>>, type |-> "action.queued",
                   action |-> a, arg |-> 0]
  <2>1. kind \in Kinds
    BY <1>4
  <2>2. /\ SubmitAction(c, kind, w).world = [w EXCEPT !.queued = Append(@, a)]
        /\ SubmitAction(c, kind, w).out = <<e>>
    BY <1>4, <2>1, SubmitTyped
  <2>3. job.world = [w EXCEPT !.queued = Append(@, a)] /\ job.out = <<e>>
    BY <1>0, <1>4, <2>2
  <2>4. e.type = "action.queued" /\ e.action = a
    OBVIOUS
  <2> HIDE DEF e, a, r
  <2>5. e \in Event /\ ReplayOf(stream \o job.out) = ReplayEvent(r, e)
    BY <1>3, <2>3
  <2>6. ReplayEvent(r, e) = [r EXCEPT !.queued = Append(@, a)]
    BY <1>1, <2>4, <2>5, ReplayOn
  <2> DEFINE u == [w EXCEPT !.queued = Append(@, a)]
             v == [r EXCEPT !.queued = Append(@, a)]
  <2>7. /\ u.queued = Append(w.queued, a) /\ u.tick = w.tick
        /\ u.value = w.value /\ u.approvals = w.approvals
        /\ u.processed = w.processed
    BY DEF World
  <2>8. /\ v.queued = Append(r.queued, a) /\ v.tick = r.tick
        /\ v.value = r.value /\ v.approvals = r.approvals
        /\ v.processed = r.processed
    BY <1>1 DEF World
  <2> HIDE DEF u, v
  <2>9. Agrees(u, v)
    BY <1>2, <2>7, <2>8 DEF Agrees
  <2> QED
    BY <2>3, <2>5, <2>6, <2>9 DEF job, u, v
<1>5. CASE c \in Ticks
  <2>1. Agrees(ProcessTick(c, w).world, ReplayOf(stream \o ProcessTick(c, w).out))
    BY TickAgrees
  <2> QED
    BY <1>0, <1>5, <2>1 DEF job
<1>6. CASE c \in Scans
  <2> DEFINE k == ScanConsequences(c, Same(w), StreamTail)
  <2>1. Same(w) \in JobSet /\ Same(w).world = w /\ Same(w).out = <<>>
    BY SameTyped
  <2>2. StreamTail \in Seq(Event)
    BY TailTyped
  <2>3. ReplayOf(stream \o k.out) = ReplayOf(stream \o Same(w).out)
    BY <2>1, <2>2, ScanAgrees
  <2>4. k.world = [w EXCEPT !.fired = k.world.fired]
    BY <2>1, <2>2, ScanIs
  <2>5. stream \o <<>> = stream
    BY ConcatEmpty
  <2>6. job = k
    BY <1>0, <1>6
  <2> HIDE DEF k, r
  <2>7. /\ k.world.tick = w.tick /\ k.world.value = w.value
        /\ k.world.approvals = w.approvals /\ k.world.queued = w.queued
        /\ k.world.processed = w.processed
    BY <2>4 DEF World
  <2>8. ReplayOf(stream \o job.out) = r
    BY <2>1, <2>3, <2>5, <2>6 DEF r
  <2> QED
    BY <1>2, <2>6, <2>7, <2>8 DEF Agrees, job
<1>7. CASE c \in Reconciles
  <2> DEFINE e == [id |-> <<c, 1>>, type |-> "android.reconciled",
                   action |-> NoAction, arg |-> 0]
  <2>1. /\ Reconcile(c, w).world = [w EXCEPT !.android = TRUE]
        /\ Reconcile(c, w).out = <<e>>
    BY PlainTyped
  <2>2. job.world = [w EXCEPT !.android = TRUE] /\ job.out = <<e>>
    BY <1>0, <1>7, <2>1
  <2>3. e.type = "android.reconciled"
    OBVIOUS
  <2> HIDE DEF e, r
  <2>4. e \in Event /\ ReplayOf(stream \o job.out) = ReplayEvent(r, e)
    BY <1>3, <2>2
  <2>5. ReplayEvent(r, e) = r
    BY <1>1, <2>3, <2>4, ReplayOn
  <2> QED
    BY <1>2, <2>2, <2>4, <2>5 DEF Agrees, World, job
<1>8. CASE c \in Inits
  <2> DEFINE e == [id |-> <<c, 1>>, type |-> "world.initialized",
                   action |-> NoAction, arg |-> 0]
  <2>1. /\ Initialize(c, w, FALSE).world = w
        /\ Initialize(c, w, FALSE).out = <<e>>
    BY PlainTyped
  <2>2. job.world = w /\ job.out = <<e>>
    BY <1>0, <1>8, <2>1
  <2>3. e.type = "world.initialized"
    OBVIOUS
  <2> HIDE DEF e, r
  <2>4. e \in Event /\ ReplayOf(stream \o job.out) = ReplayEvent(r, e)
    BY <1>3, <2>2
  <2>5. ReplayEvent(r, e) = r
    BY <1>1, <2>3, <2>4, ReplayOn
  <2> QED
    BY <1>2, <2>2, <2>4, <2>5 DEF Agrees, World, job
<1> QED
  BY <1>4, <1>5, <1>6, <1>7, <1>8 DEF Calls

-----------------------------------------------------------------------------
(* As long as no call is killed, the stream accounts for the state file in *)
(* full, and with what a call has yet to append for the call's copy.       *)

Account(s, w) ==
  Single(s, w.fired) /\ Served(ToSet(s), w.fired) /\ Agrees(w, ReplayOf(s))

(* Every job settles the account: no consequence twice, none missing, and  *)
(* the stream replays to the state.                                        *)
LEMMA JobAccount ==
  ASSUME NEW c \in Calls, c \notin Replays \cup Resets, NEW w \in World,
         stream \in Seq(Event),
         NEW kind \in IF c \in Submits THEN Kinds ELSE {"none"},
         Distinct(w), Account(stream, w)
  PROVE  LET job == Job(c, kind, w)
         IN  Account(stream \o job.out, job.world)
<1> DEFINE job == Job(c, kind, w)
<1>1. /\ Single(stream, w.fired) /\ Served(ToSet(stream), w.fired)
      /\ Agrees(w, ReplayOf(stream))
  BY DEF Account
<1>2. SingleJob(stream, job) /\ Served(ToSet(stream \o job.out), job.world.fired)
  BY <1>1, JobSingle
<1>3. Agrees(job.world, ReplayOf(stream \o job.out))
  BY <1>1, JobAgrees
<1> QED
  BY <1>2, <1>3 DEF Account, SingleJob

-----------------------------------------------------------------------------
(* The tick that the stream tells of: the state's, or the next one when a  *)
(* tick was killed after its last event.                                   *)

Unending(o) == \A e \in ToSet(o) : e.type # "world.tick.completed"

Ends(o, k) ==
  /\ Len(o) >= 1
  /\ o[Len(o)].type = "world.tick.completed" /\ o[Len(o)].arg = k
  /\ \A n \in 1..(Len(o) - 1) : o[n].type # "world.tick.completed"

(* One more event that ends no tick.                                       *)
LEMMA UnendingAppend ==
  ASSUME NEW o \in Seq(Event), NEW e \in Event, Unending(o),
         e.type # "world.tick.completed"
  PROVE  Unending(Append(o, e))
BY ToSetAppend DEF Unending

(* A single event that ends no tick.                                       *)
LEMMA UnendingOne ==
  ASSUME NEW e, e.type # "world.tick.completed"
  PROVE  Unending(<<e>>)
<1>1. ToSet(<<e>>) = {e}
  BY DEF ToSet
<1> QED
  BY <1>1 DEF Unending

(* A scan completes no tick.                                               *)
LEMMA ScanUnending ==
  ASSUME NEW c \in Calls, NEW job \in JobSet, NEW recent \in Seq(Event),
         Unending(job.out)
  PROVE  Unending(ScanConsequences(c, job, recent).out)
<1> DEFINE Good == {j \in JobSet : Unending(j.out)}
<1>1. Good \in SUBSET JobSet /\ job \in Good
  OBVIOUS
<1>2. \A n \in 1..Len(recent) : recent[n] \in Event
  OBVIOUS
<1>3. ASSUME NEW j \in Good, NEW n \in 1..Len(recent)
      PROVE  Fire(c, j, recent[n]) \in Good
  <2> DEFINE e == recent[n]
             x == Consequence(c, j.out, e)
  <2>1. j \in JobSet /\ e \in Event /\ Unending(j.out)
    BY <1>2
  <2> HIDE DEF e
  <2>2. Fire(c, j, e) \in JobSet /\ j.out \in Seq(Event)
    BY <2>1, FireTyped DEF JobSet
  <2>3. CASE Fire(c, j, e) = j
    BY <2>1, <2>3 DEF e
  <2>4. CASE Fire(c, j, e) # j
    <3>1. x \in Event /\ Fire(c, j, e).out = Append(j.out, x)
      BY <2>1, <2>4, Fires
    <3>2. x.type # "world.tick.completed"
      BY DEF Consequence
    <3> HIDE DEF x
    <3>3. Unending(Append(j.out, x))
      BY <2>1, <2>2, <3>1, <3>2, UnendingAppend
    <3> QED
      BY <2>2, <3>1, <3>3 DEF e
  <2> QED
    BY <2>3, <2>4
<1> HIDE DEF Good
<1>4. ScanConsequences(c, job, recent) \in Good
  BY <1>1, <1>3, ScanKeeps
<1> QED
  BY <1>4 DEF Good

(* Nor does working an action.                                             *)
LEMMA WorkUnending ==
  ASSUME NEW c \in Calls, NEW j \in JobSet, NEW a \in Actions, Unending(j.out)
  PROVE  Unending(Work(c, j, a).out)
<1> DEFINE o == j.out
           p == Answered(c, o, a)
           e1 == EventOf(c, o, Answer(a), a)
           e2 == EventOf(c, p, Result(a), a)
<1>1. /\ o \in Seq(Event) /\ p \in Seq(Event) /\ e1 \in Event /\ e2 \in Event
  BY AnswerTyped DEF JobSet
<1>2. e1.type = Answer(a) /\ e2.type = Result(a)
  BY DEF EventOf
<1>3. /\ Answer(a) # "world.tick.completed"
      /\ Result(a) # "world.tick.completed"
  BY DEF Answer, Result
<1>4. Work(c, j, a).out = Reported(c, o, a)
  BY WorkParts
<1>5. p = Append(o, e1)
  BY DEF Answered
<1> HIDE DEF p, e1, e2
<1>6. Unending(p)
  BY <1>1, <1>2, <1>3, <1>5, UnendingAppend
<1>7. Unending(Append(p, e2))
  BY <1>1, <1>2, <1>3, <1>6, UnendingAppend
<1>8. Reported(c, o, a) \in {p, Append(p, e2)}
  BY DEF Reported, p, e2
<1> HIDE DEF o
<1> QED
  BY <1>4, <1>6, <1>7, <1>8

(* A tick completes once, with its last event.                             *)
LEMMA TickEnds ==
  ASSUME NEW c \in Calls, NEW w \in World
  PROVE  /\ Ends(ProcessTick(c, w).out, w.tick + 1)
         /\ ProcessTick(c, w).world.tick = w.tick + 1
<1> DEFINE Good == {j \in JobSet : Unending(j.out)}
           start == TickStart(c, w)
           acted == TickActed(c, w)
           scanned == TickScanned(c, w)
<1>1. Good \in SUBSET JobSet
  OBVIOUS
<1>2. start \in Good
  <2> DEFINE x == [id |-> <<c, 1>>, type |-> "world.tick.started",
                   action |-> NoAction, arg |-> w.tick + 1]
  <2>1. start \in JobSet /\ start.out = <<x>>
    BY TickStartIs
  <2>2. x.type # "world.tick.completed"
    OBVIOUS
  <2> HIDE DEF x, start
  <2> QED
    BY <2>1, <2>2, UnendingOne
<1>3. \A n \in 1..Len(Taken(w)) : Taken(w)[n] \in Actions
  BY TakenTyped
<1>4. \A j \in Good, n \in 1..Len(Taken(w)) : Work(c, j, Taken(w)[n]) \in Good
  BY <1>3, WorkUnending, WorkTyped
<1>5. acted \in JobSet /\ Unending(acted.out)
  <2>1. Taken(w) \in Seq(Actions)
    BY TakenTyped
  <2>2. acted = Worked(c, start, Taken(w))
    BY DEF TickActed
  <2> HIDE DEF Good, start, acted
  <2>3. acted \in Good
    BY <1>1, <1>2, <1>4, <2>1, <2>2, WorkKeeps
  <2> QED
    BY <2>3 DEF Good
<1>6. scanned \in JobSet /\ Unending(scanned.out)
  <2>1. acted.out \in Seq(Event)
    BY <1>5 DEF JobSet
  <2>2. scanned = ScanConsequences(c, acted, acted.out) /\ scanned \in JobSet
    BY TickTyped DEF TickScanned
  <2> HIDE DEF scanned, acted
  <2> QED
    BY <1>5, <2>1, <2>2, ScanUnending
<1>7. PICK e \in Event :
        /\ e.type = "world.tick.completed" /\ e.arg = w.tick + 1
        /\ ProcessTick(c, w).out = Append(scanned.out, e)
  BY TickEndIs
<1> DEFINE o == scanned.out
           j == ProcessTick(c, w)
<1>8. o \in Seq(Event) /\ Len(o) \in Nat /\ DOMAIN o = 1..Len(o)
  BY <1>6 DEF JobSet
<1>9. /\ Unending(o) /\ j.out = Append(o, e)
  BY <1>6, <1>7
<1>10. j.world.tick = w.tick + 1
  BY TickWorld
<1> HIDE DEF o, j
<1>11. /\ Len(j.out) = Len(o) + 1 /\ j.out[Len(o) + 1] = e
       /\ \A n \in 1..Len(o) : j.out[n] = o[n]
  BY <1>8, <1>9, AppendProperties
<1>12. \A n \in 1..Len(o) : o[n].type # "world.tick.completed"
  BY <1>8, <1>9 DEF Unending, ToSet
<1>13. Len(j.out) - 1 = Len(o) /\ Len(j.out) >= 1
  BY <1>8, <1>11
<1>14. Ends(j.out, w.tick + 1)
  BY <1>7, <1>11, <1>12, <1>13 DEF Ends
<1> QED
  BY <1>10, <1>14 DEF j

(* What a call does to the tick.                                           *)
LEMMA JobEnds ==
  ASSUME NEW c \in Calls, c \notin Replays \cup Resets, NEW w \in World,
         stream \in Seq(Event),
         NEW kind \in IF c \in Submits THEN Kinds ELSE {"none"}
  PROVE  LET job == Job(c, kind, w)
         IN  IF c \in Ticks
               THEN Ends(job.out, w.tick + 1) /\ job.world.tick = w.tick + 1
               ELSE Unending(job.out) /\ job.world.tick = w.tick
<1> DEFINE job == Job(c, kind, w)
           e(type, a) == [id |-> <<c, 1>>, type |-> type,
                          action |-> a, arg |-> 0]
<1>0. /\ c \in Submits => job = SubmitAction(c, kind, w)
      /\ c \in Ticks => job = ProcessTick(c, w)
      /\ c \in Scans => job = ScanConsequences(c, Same(w), StreamTail)
      /\ c \in Reconciles => job = Reconcile(c, w)
      /\ c \in Inits => job = Initialize(c, w, FALSE)
  BY JobOf
<1> HIDE DEF job
<1>1. ASSUME NEW type, NEW a, type # "world.tick.completed"
      PROVE  Unending(<<e(type, a)>>)
  <2>1. e(type, a).type # "world.tick.completed"
    BY <1>1
  <2> HIDE DEF e
  <2> QED
    BY <2>1, UnendingOne
<1>2. CASE c \in Submits
  <2> DEFINE a == [id |-> c, kind |-> kind]
  <2>1. kind \in Kinds /\ c \notin Ticks
    BY <1>2, CallsAssumption
  <2>2. /\ SubmitAction(c, kind, w).world = [w EXCEPT !.queued = Append(@, a)]
        /\ SubmitAction(c, kind, w).out = <<e("action.queued", a)>>
    BY <1>2, <2>1, SubmitTyped
  <2>3. [w EXCEPT !.queued = Append(@, a)].tick = w.tick
    BY DEF World
  <2>4. Unending(<<e("action.queued", a)>>)
    BY <1>1
  <2> HIDE DEF e, a
  <2> QED
    BY <1>0, <1>2, <2>1, <2>2, <2>3, <2>4 DEF job
<1>3. CASE c \in Ticks
  BY <1>0, <1>3, TickEnds DEF job
<1>4. CASE c \in Scans
  <2> DEFINE k == ScanConsequences(c, Same(w), StreamTail)
  <2>1. Same(w) \in JobSet /\ Same(w).world = w /\ Same(w).out = <<>>
    BY SameTyped DEF Same
  <2>2. StreamTail \in Seq(Event)
    BY TailTyped
  <2>3. Unending(Same(w).out)
    BY <2>1 DEF Unending, ToSet
  <2>4. Unending(k.out)
    BY <2>1, <2>2, <2>3, ScanUnending
  <2>5. k.world = [w EXCEPT !.fired = k.world.fired]
    BY <2>1, <2>2, ScanIs
  <2> HIDE DEF k
  <2>6. k.world.tick = w.tick
    BY <2>5 DEF World
  <2>7. job = k /\ c \notin Ticks
    BY <1>0, <1>4, CallsAssumption DEF k
  <2> QED
    BY <2>4, <2>6, <2>7 DEF job
<1>5. CASE c \in Reconciles \cup Inits
  <2>1. /\ Reconcile(c, w).world = [w EXCEPT !.android = TRUE]
        /\ Reconcile(c, w).out = <<e("android.reconciled", NoAction)>>
        /\ Initialize(c, w, FALSE).world = w
        /\ Initialize(c, w, FALSE).out = <<e("world.initialized", NoAction)>>
    BY PlainTyped
  <2>2. [w EXCEPT !.android = TRUE].tick = w.tick
    BY DEF World
  <2>3. /\ Unending(<<e("android.reconciled", NoAction)>>)
        /\ Unending(<<e("world.initialized", NoAction)>>)
    BY <1>1
  <2>4. c \notin Ticks
    BY <1>5, CallsAssumption
  <2> HIDE DEF e
  <2>5. job.world.tick = w.tick /\ Unending(job.out)
    BY <1>0, <1>5, <2>1, <2>2, <2>3
  <2> QED
    BY <2>4, <2>5 DEF job
<1> QED
  BY <1>2, <1>3, <1>4, <1>5 DEF Calls

(* What an event does to the tick of a replay.                             *)
LEMMA ReplayTick ==
  ASSUME NEW s \in Seq(Event), NEW e \in Event
  PROVE  ReplayOf(Append(s, e)).tick =
           IF e.type = "world.tick.completed" THEN e.arg ELSE ReplayOf(s).tick
<1> DEFINE r == ReplayOf(s)
           v == ReplayEvent(r, e)
<1>1. r \in World /\ ReplayOf(Append(s, e)) = v
  BY ReplayTyped, ReplayAppend
<1> HIDE DEF r
<1>2. CASE e.type = "world.tick.completed"
  <2>1. v = [r EXCEPT !.tick = e.arg]
    BY <1>1, <1>2, ReplayOn
  <2> QED
    BY <1>1, <1>2, <2>1 DEF World
<1>3. CASE e.type \in Answers
  <2> DEFINE m == MarkProcessed(r, e.action)
  <2>1. e.action \in Actions
    BY <1>3 DEF Event, AboutActions, Answers
  <2>2. m \in World /\ m.tick = r.tick
    BY <1>1, <2>1, MarkIs
  <2>3. v = m \/ v = [m EXCEPT !.approvals = @ \cup {e.action.id}]
    BY <1>3 DEF ReplayEvent, Answers
  <2> HIDE DEF m, v
  <2>4. v.tick = r.tick
    BY <2>2, <2>3 DEF World
  <2> QED
    BY <1>1, <1>3, <2>4 DEF r, Answers
<1>4. CASE e.type \notin Answers \cup {"world.tick.completed"}
  <2>1. \/ v = r \/ v = [r EXCEPT !.value = e.action.id]
        \/ v = [r EXCEPT !.queued = Append(@, e.action)]
    BY <1>4 DEF ReplayEvent, Answers
  <2> HIDE DEF v
  <2>2. v.tick = r.tick
    BY <1>1, <2>1 DEF World
  <2> QED
    BY <1>1, <1>4, <2>2 DEF r
<1> QED
  BY <1>2, <1>3, <1>4

(* What is left to append still ends the tick.                             *)
LEMMA TailEnds ==
  ASSUME NEW o \in Seq(Event), NEW k, Ends(o, k), Len(o) > 1
  PROVE  Ends(Tail(o), k) /\ Head(o).type # "world.tick.completed"
<1> DEFINE t == Tail(o)
<1>1. Len(o) \in Nat /\ o # <<>> /\ Head(o) = o[1]
  OBVIOUS
<1>2. Len(t) = Len(o) - 1 /\ \A n \in 1..(Len(o) - 1) : t[n] = o[n + 1]
  BY <1>1
<1> HIDE DEF t
<1>3. /\ Len(o) - 1 \in 1..(Len(o) - 1) /\ (Len(o) - 1) + 1 = Len(o)
      /\ 1 \in 1..(Len(o) - 1) /\ Len(t) >= 1
  BY <1>1, <1>2
<1>4. t[Len(t)] = o[Len(o)]
  BY <1>2, <1>3
<1>5. ASSUME NEW n \in 1..(Len(t) - 1)
      PROVE  t[n].type # "world.tick.completed"
  <2>1. n \in 1..(Len(o) - 1) /\ n + 1 \in 1..(Len(o) - 1)
    BY <1>1, <1>2
  <2> QED
    BY <1>2, <2>1 DEF Ends
<1>6. Ends(t, k)
  BY <1>3, <1>4, <1>5 DEF Ends
<1> QED
  BY <1>1, <1>3, <1>6 DEF Ends, t

(* A replay knows every action that the stream answers.                    *)
LEMMA ReplayHas ==
  ASSUME NEW s \in Seq(Event)
  PROVE  \A e \in ToSet(s) :
           e.type \in Answers => e.action.id \in ToSet(ReplayOf(s).processed)
<1> DEFINE N == Len(s)
           Has(n, w) == \A m \in 1..n : s[m].type \in Answers =>
                          s[m].action.id \in ToSet(w.processed)
<1>1. PICK f \in [0..N -> World] :
        /\ f[0] = Blank /\ f[N] = ReplayOf(s)
        /\ \A n \in 1..N : f[n] = ReplayEvent(f[n - 1], s[n])
  BY ReplayTrace
<1>2. N \in Nat /\ DOMAIN s = 1..N /\ \A n \in 1..N : s[n] \in Event
  OBVIOUS
<1> DEFINE S == {n \in 0..N : Has(n, f[n])}
<1>3. 0 \in S
  BY <1>2
<1>4. ASSUME NEW n \in 0..(N - 1), n \in S PROVE n + 1 \in S
  <2> DEFINE e == s[n + 1]
             w == f[n]
             v == f[n + 1]
  <2>1. /\ n + 1 \in 1..N /\ (n + 1) - 1 = n /\ n + 1 \in 0..N /\ n \in 0..N
        /\ \A m \in 1..(n + 1) : m \in 1..n \/ m = n + 1
    BY <1>2
  <2>2. e \in Event /\ w \in World /\ v = ReplayEvent(w, e) /\ Has(n, w)
    BY <1>1, <1>2, <1>4, <2>1
  <2> HIDE DEF w, v
  <2>3. /\ ToSet(w.processed) \subseteq ToSet(v.processed)
        /\ e.type \in Answers => e.action.id \in ToSet(v.processed)
    <3> HIDE DEF e
    <3>1. CASE e.type \in Answers
      <4> DEFINE m == MarkProcessed(w, e.action)
      <4>1. e.action \in Actions
        BY <2>2, <3>1 DEF Event, AboutActions, Answers
      <4>2. /\ m \in World
            /\ ToSet(m.processed) = ToSet(w.processed) \cup {e.action.id}
        BY <2>2, <4>1, MarkIs
      <4>3. v = m \/ v = [m EXCEPT !.approvals = @ \cup {e.action.id}]
        BY <2>2, <3>1 DEF ReplayEvent, Answers
      <4> HIDE DEF m
      <4>4. v.processed = m.processed
        BY <4>2, <4>3 DEF World
      <4> QED
        BY <4>2, <4>4
    <3>2. CASE e.type \notin Answers
      <4>1. \/ v = w \/ v = [w EXCEPT !.value = e.action.id]
            \/ v = [w EXCEPT !.tick = e.arg]
            \/ v = [w EXCEPT !.queued = Append(@, e.action)]
        BY <2>2, <3>2 DEF ReplayEvent, Answers
      <4>2. v.processed = w.processed
        BY <2>2, <4>1 DEF World
      <4> QED
        BY <3>2, <4>2
    <3> QED
      BY <3>1, <3>2
  <2>4. Has(n + 1, v)
    BY <2>1, <2>2, <2>3
  <2> QED
    BY <2>1, <2>4 DEF v
<1>5. Has(N, f[N])
  <2> HIDE DEF S
  <2>1. \A n \in 0..N : n \in S
    BY <1>2, <1>3, <1>4, UpTo
  <2>2. N \in S
    BY <1>2, <2>1
  <2> QED
    BY <2>2 DEF S
<1> QED
  BY <1>1, <1>2, <1>5 DEF ToSet
=============================================================================
