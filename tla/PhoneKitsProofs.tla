--------------------------- MODULE PhoneKitsProofs --------------------------
(***************************************************************************)
(* Proofs about PhoneActions, PhoneScreen, Browser and AppPlanning, in     *)
(* this order, for any number of calls, any choice of tools and dry runs,  *)
(* any screens whose nodes take taps alike where they share a place, any   *)
(* browsers and tabs, any stack of apps, and whatever the phone, its user  *)
(* and its device do meanwhile; then about the four put together.          *)
(***************************************************************************)
EXTENDS PhoneKitsMC, SequenceTheorems, FiniteSetTheorems,
        WellFoundedInduction, TLAPS


-----------------------------------------------------------------------------
(* A call is a record from its start on; "start" is the     *)
(* program counter that the first Proceed replaces.                        *)
Steps == Parts \cup
  {"asking", "finding", "inspecting", "writing", "loading", "drafting"}
Drafted ==
  [tool : ActionTools, dry : BOOLEAN, stamp : Nat,
   artifact : ActionTools \cup {"given"},
   found : ActionCalls \cup {Unset},
   parts : [Parts -> {"none", "taken", "failed"}], linked : BOOLEAN,
   success : BOOLEAN, todo : Seq(Steps),
   pc : Steps \cup {"start", "done", "raised"}]

Begun(c) == acall[c].pc # "idle"
ActionsTyped ==
  /\ second \in 0..MaxSeconds /\ device \in BOOLEAN /\ pngs \in 0..1
  /\ \A f \in bundles :
       /\ f.of \in ActionCalls
       /\ f.parts \in [Parts -> {"none", "taken", "failed"}]
  /\ asked \subseteq ActionCalls \X (ActionCalls \cup {Unset}) \X BOOLEAN
  /\ acall \in [ActionCalls -> Drafted \cup {Dormant}]
  /\ \A c \in ActionCalls : acall[c].pc # "start"

(* The step is done now or later.                                          *)
Later(x, step) == \E i \in 1..Len(x.todo) : x.todo[i] = step
Ahead(x, step) == x.pc = step \/ Later(x, step)
Once(s, step) ==
  \A i, j \in 1..Len(s) : s[i] = step /\ s[j] = step => i = j

(* A sequence of steps that holds neither of the two that a dry run may    *)
(* not take.                                                               *)
IsDry(s) == \A i \in 1..Len(s) : s[i] \notin {"asking", "writing"}

(* Joining sequences joins what they hold.                                 *)
LEMMA Joined ==
  ASSUME NEW s \in Seq(Steps), NEW t \in Seq(Steps)
  PROVE  /\ s \o t \in Seq(Steps) /\ Len(s \o t) = Len(s) + Len(t)
         /\ \A i \in 1..Len(s) : (s \o t)[i] = s[i]
         /\ \A i \in 1..Len(t) : (s \o t)[Len(s) + i] = t[i]
         /\ \A i \in 1..Len(s \o t) :
              i \in 1..Len(s) \/ i - Len(s) \in 1..Len(t)
         /\ IsDry(s) /\ IsDry(t) => IsDry(s \o t)
<1>1. /\ s \o t \in Seq(Steps) /\ Len(s \o t) = Len(s) + Len(t)
      /\ \A i \in 1..Len(s) : (s \o t)[i] = s[i]
      /\ \A i \in 1..Len(t) : (s \o t)[Len(s) + i] = t[i]
  OBVIOUS
<1>2. \A i \in 1..Len(s \o t) : i \in 1..Len(s) \/ i - Len(s) \in 1..Len(t)
  BY <1>1
<1>3. ASSUME IsDry(s), IsDry(t), NEW i \in 1..Len(s \o t)
      PROVE  (s \o t)[i] \notin {"asking", "writing"}
  <2>1. CASE i \in 1..Len(s)
    BY <1>1, <1>3, <2>1 DEF IsDry
  <2>2. CASE i - Len(s) \in 1..Len(t)
    <3>1. PICK j \in 1..Len(t) : j = i - Len(s)
      BY <2>2
    <3>2. i = Len(s) + j
      BY <3>1
    <3> QED
      BY <1>1, <1>3, <3>2 DEF IsDry
  <2> QED
    BY <1>2, <2>1, <2>2
<1> QED
  BY <1>1, <1>2, <1>3 DEF IsDry

(* The pieces of the scripts.                                              *)
LEMMA Pieces ==
  ASSUME NEW dry \in BOOLEAN
  PROVE  /\ Intent(dry) \in Seq(Steps) /\ ShareFallback(dry) \in Seq(Steps)
         /\ Len(Intent(dry)) <= 1 /\ Len(ShareFallback(dry)) <= 1
         /\ dry => IsDry(Intent(dry)) /\ IsDry(ShareFallback(dry))
         /\ IsDry(<<>>) /\ IsDry(<<"finding">>) /\ IsDry(<<"loading">>)
         /\ IsDry(<<"loading", "drafting">>)
BY DEF Intent, ShareFallback, IsDry, Steps

(* What each script is made of.                                            *)
LEMMA Scripts ==
  ASSUME NEW tool \in ActionTools, NEW dry \in BOOLEAN
  PROVE  /\ ActionScript(tool, dry) \in Seq(Steps)
         /\ dry /\ tool \notin AskAnyway => IsDry(ActionScript(tool, dry))
         /\ tool \in Tell => Once(ActionScript(tool, dry), "asking")
<1> DEFINE script == ActionScript(tool, dry)
<1>1. CASE tool \in AskAnyway \cup {"open_url", "intent", "handoff_url",
                                    "handoff_text", "notify"}
  <2>1. /\ script \in {<<"asking">>, Intent(dry), ShareFallback(dry)}
        /\ tool \notin AskAnyway => script \in {Intent(dry), ShareFallback(dry)}
    BY <1>1 DEF ActionScript, AskAnyway
  <2>3. Len(<<"asking">>) = 1 /\ <<"asking">> \in Seq(Steps)
    BY DEF Steps
  <2>2. Len(script) <= 1 /\ script \in Seq(Steps)
    <3>1. CASE script = <<"asking">>
      BY <3>1, <2>3
    <3>2. CASE script = Intent(dry)
      BY <3>2, Pieces
    <3>3. CASE script = ShareFallback(dry)
      BY <3>3, Pieces
    <3> QED
      BY <2>1, <3>1, <3>2, <3>3
  <2> QED
    BY <2>1, <2>2, Pieces DEF Once
<1>2. CASE tool = "handoff_file"
  <2>1. script = <<"finding">> \o Intent(dry)
    BY <1>2 DEF ActionScript, AskAnyway
  <2>2. <<"finding">> \in Seq(Steps) /\ Len(<<"finding">>) = 1
    BY DEF Steps
  <2>3. script \in Seq(Steps) /\ (dry => IsDry(script))
    BY <2>1, <2>2, Pieces, Joined
  <2>4. Len(script) <= 2 /\ script[1] = "finding"
    BY <2>1, <2>2, Pieces, Joined
  <2> QED
    BY <2>3, <2>4 DEF Once
<1>3. CASE tool \in {"draft_and_share", "wizard", "wifi_and_wireless"}
  <2>1. script \in {<<"loading", "drafting">> \o ShareFallback(dry),
                    <<"loading">> \o Intent(dry), Intent(dry) \o Intent(dry)}
    BY <1>3 DEF ActionScript, AskAnyway
  <2>2. <<"loading", "drafting">> \in Seq(Steps) /\ <<"loading">> \in Seq(Steps)
    BY DEF Steps
  <2>3. ASSUME NEW s \in Seq(Steps), NEW t \in Seq(Steps), script = s \o t,
               dry => IsDry(s) /\ IsDry(t)
        PROVE  script \in Seq(Steps) /\ (dry => IsDry(script))
    BY <2>3, Joined
  <2>4. script \in Seq(Steps) /\ (dry => IsDry(script))
    BY <2>1, <2>2, <2>3, Pieces
  <2>5. tool \notin Tell
    BY <1>3 DEF Tell
  <2> QED
    BY <2>4, <2>5
<1>4. CASE tool \in {"capture_screen", "issue_draft", "collect"}
  <2>1. /\ script \in {<<>>, <<"screenshot">>, <<"loading", "drafting">>,
                       Collecting}
        /\ dry => script \in {<<>>, <<"loading", "drafting">>}
    BY <1>4 DEF ActionScript, AskAnyway
  <2>3. /\ <<>> \in Seq(Steps) /\ <<"screenshot">> \in Seq(Steps)
        /\ <<"loading", "drafting">> \in Seq(Steps)
    BY DEF Steps, Parts
  <2>4. Collecting \in Seq(Steps)
    BY DEF Collecting, Steps, Parts
  <2>2. script \in Seq(Steps)
    BY <2>1, <2>3, <2>4
  <2> QED
    BY <1>4, <2>1, <2>2, Pieces DEF Tell
<1>5. CASE tool = "collect_and_share"
  <2>1. script = IF dry THEN <<>> ELSE Collecting \o <<"loading", "asking">>
    BY <1>5 DEF ActionScript, AskAnyway
  <2>2. Collecting \in Seq(Steps) /\ <<"loading", "asking">> \in Seq(Steps)
    BY DEF Collecting, Steps, Parts
  <2>3. script \in Seq(Steps) /\ (dry => script = <<>>)
    BY <2>1, <2>2, Joined
  <2> QED
    BY <1>5, <2>3, Pieces DEF Tell
<1> QED
  BY <1>1, <1>2, <1>3, <1>4, <1>5 DEF ActionTools

(* The next step of a call is the first of those to do.                    *)
LEMMA Proceeds ==
  ASSUME NEW x \in Drafted
  PROVE  /\ Proceed(x) \in Drafted /\ Proceed(x).pc \in Steps \cup {"done"}
         /\ Proceed(x).tool = x.tool /\ Proceed(x).dry = x.dry
         /\ Proceed(x).stamp = x.stamp /\ Proceed(x).artifact = x.artifact
         /\ Proceed(x).found = x.found
         /\ Proceed(x).success = x.success
         /\ IF x.todo = <<>>
              THEN Proceed(x).pc = "done" /\ Proceed(x).todo = <<>>
              ELSE /\ Proceed(x).pc = x.todo[1]
                   /\ Len(Proceed(x).todo) = Len(x.todo) - 1
                   /\ \A i \in 1..Len(Proceed(x).todo) :
                        Proceed(x).todo[i] = x.todo[i + 1]
<1>1. CASE x.todo = <<>>
  BY <1>1 DEF Proceed, Drafted
<1>2. CASE x.todo # <<>>
  <2>1. x.todo \in Seq(Steps) /\ Len(x.todo) \in Nat \ {0}
    BY <1>2 DEF Drafted
  <2>2. /\ Head(x.todo) = x.todo[1] /\ x.todo[1] \in Steps
        /\ Tail(x.todo) \in Seq(Steps) /\ Len(Tail(x.todo)) = Len(x.todo) - 1
        /\ \A i \in 1..Len(Tail(x.todo)) : Tail(x.todo)[i] = x.todo[i + 1]
    BY <1>2, <2>1
  <2>3. Proceed(x) = [x EXCEPT !.pc = Head(x.todo), !.todo = Tail(x.todo)]
    BY <1>2 DEF Proceed
  <2> QED
    BY <1>2, <2>2, <2>3 DEF Drafted
<1> QED
  BY <1>1, <1>2

(* So what is ahead of it was to be done later, and once if it was to be   *)
(* done once.                                                              *)
LEMMA ProceedsAhead ==
  ASSUME NEW x \in Drafted, NEW step \in Steps
  PROVE  /\ Ahead(Proceed(x), step) => Later(x, step)
         /\ Once(x.todo, step) =>
              /\ Once(Proceed(x).todo, step)
              /\ Proceed(x).pc = step => ~Later(Proceed(x), step)
<1> DEFINE y == Proceed(x)
<1>1. CASE x.todo = <<>>
  <2>1. y.pc = "done" /\ y.todo = <<>> /\ Len(y.todo) = 0 /\ "done" # step
    BY <1>1, Proceeds DEF Steps, Parts
  <2> QED
    BY <2>1 DEF Ahead, Later, Once
<1>2. CASE x.todo # <<>>
  <2>1. Len(x.todo) \in Nat /\ Len(x.todo) # 0
    BY <1>2 DEF Drafted
  <2>2. /\ y.pc = x.todo[1] /\ Len(y.todo) = Len(x.todo) - 1
        /\ \A i \in 1..Len(y.todo) : y.todo[i] = x.todo[i + 1]
    BY <1>2, Proceeds
  <2>3. /\ 1 \in 1..Len(x.todo)
        /\ \A i \in 1..Len(y.todo) : i + 1 \in 1..Len(x.todo) /\ i + 1 # 1
    BY <2>1, <2>2
  <2>4. Ahead(y, step) => Later(x, step)
    BY <2>2, <2>3 DEF Ahead, Later
  <2>5. ASSUME Once(x.todo, step), NEW i \in 1..Len(y.todo),
               NEW j \in 1..Len(y.todo), y.todo[i] = step, y.todo[j] = step
        PROVE  i = j
    <3>1. i + 1 = j + 1
      BY <2>2, <2>3, <2>5 DEF Once
    <3> QED
      BY <2>1, <2>2, <3>1
  <2>6. ASSUME Once(x.todo, step), y.pc = step PROVE ~Later(y, step)
    BY <2>2, <2>3, <2>6 DEF Later, Once
  <2> QED
    BY <2>4, <2>5, <2>6 DEF Once
<1> QED
  BY <1>1, <1>2

-----------------------------------------------------------------------------
Answers(c) == {a \in asked : a[1] = c}
Made(c) == {f \in bundles : f.of = c}

(* Nothing of a call precedes its start.                                   *)
Fresh(c) == ~Begun(c) => Answers(c) = {} /\ Made(c) = {}

(* A dry run neither asks nor writes, and has nothing of the kind to do.   *)
StaysDry(c) ==
  Begun(c) /\ acall[c].dry /\ acall[c].tool \notin AskAnyway =>
    /\ Answers(c) = {} /\ Made(c) = {}
    /\ ~Ahead(acall[c], "asking") /\ ~Ahead(acall[c], "writing")

(* A tool that tells what was answered asks once, and is a success before. *)
Tells(c) ==
  Begun(c) /\ acall[c].tool \in Tell =>
    /\ Once(acall[c].todo, "asking")
    /\ acall[c].pc = "asking" => ~Later(acall[c], "asking")
    /\ Answers(c) = {} /\ acall[c].pc # "done" => acall[c].success
    /\ Answers(c) # {} =>
         /\ ~Ahead(acall[c], "asking")
         /\ acall[c].success <=> \E a \in Answers(c) : a[3]

(* collect_and_share loads a bundle after it has collected one, and asks   *)
(* after it has loaded one.                                                *)
CollectSteps == Parts \cup {"inspecting", "writing"}
Collects(s) ==
  /\ Len(s) >= 2 /\ s[Len(s) - 1] = "loading" /\ s[Len(s)] = "asking"
  /\ \A i \in 1..(Len(s) - 2) : s[i] \in CollectSteps
OnPlan(x) ==
  /\ x.pc \in CollectSteps => Collects(x.todo)
  /\ x.pc = "loading" => Len(x.todo) = 1 /\ x.todo[1] = "asking"
  /\ x.pc = "asking" => Len(x.todo) = 0
  /\ x.pc \in CollectSteps \cup {"loading", "asking", "done", "raised"}

(* What it found is its own bundle, unless another call has the same name. *)
Owned(c) ==
  \/ acall[c].found = c
  \/ \E d \in ActionCalls \ {c} :
       Begun(d) /\ BundleName(acall[d]) = BundleName(acall[c])
Shares(c) ==
  Begun(c) /\ acall[c].tool = "collect_and_share" /\ ~acall[c].dry =>
    /\ OnPlan(acall[c])
    /\ acall[c].pc # "done" => Answers(c) = {}
    /\ acall[c].pc = "asking" => Owned(c)
    /\ \A a \in Answers(c) : a[2] = acall[c].found /\ Owned(c)

BundlesNamed ==
  \A f \in bundles : Begun(f.of) /\ f.name = BundleName(acall[f.of])

Kept(c) == Fresh(c) /\ StaysDry(c) /\ Tells(c) /\ Shares(c)
ActionsInv == ActionsTyped /\ BundlesNamed /\ \A c \in ActionCalls : Kept(c)

(* A call that has not begun is Dormant.                                   *)
LEMMA BegunDrafted ==
  ASSUME ActionsTyped, NEW c \in ActionCalls
  PROVE  /\ Begun(c) => acall[c] \in Drafted
         /\ ~Begun(c) => acall[c].tool = "none"
<1>1. acall[c] \in Drafted => acall[c].pc # "idle"
  BY DEF Drafted, Steps, Parts
<1> QED
  BY <1>1 DEF ActionsTyped, Begun, Dormant

(* A step of call c that answers no other call, and writes no bundle of    *)
(* another.                                                                *)
ActionStep(c, y) ==
  /\ acall' = [acall EXCEPT ![c] = y] /\ y \in Drafted
  /\ y.pc \notin {"start", "idle"}
  /\ Begun(c) => y.artifact = acall[c].artifact /\ y.stamp = acall[c].stamp
  /\ \A o \in ActionCalls \ {c} :
       Answers(o)' = Answers(o) /\ Made(o)' \subseteq Made(o)

(* It leaves the other calls as they were.                                 *)
LEMMA OtherCalls ==
  ASSUME ActionsTyped, NEW c \in ActionCalls, NEW y, ActionStep(c, y),
         NEW o \in ActionCalls \ {c}, Kept(o)
  PROVE  Kept(o)'
<1>1. /\ acall'[o] = acall[o] /\ Answers(o)' = Answers(o)
      /\ Made(o)' \subseteq Made(o)
  BY DEF ActionStep, ActionsTyped
<1>2. \A d \in ActionCalls : Begun(d) =>
        Begun(d)' /\ BundleName(acall'[d]) = BundleName(acall[d])
  BY DEF ActionStep, ActionsTyped, Begun, BundleName
<1>3. BundleName(acall'[o]) = BundleName(acall[o])
  BY <1>1
<1>4. Owned(o) => Owned(o)'
  BY <1>1, <1>2, <1>3 DEF Owned
<1>5. Fresh(o)' /\ StaysDry(o)' /\ Tells(o)'
  BY <1>1 DEF Kept, Fresh, StaysDry, Tells, Begun, Ahead, Later
<1>6. Shares(o)'
  BY <1>1, <1>4 DEF Kept, Shares, Begun
<1> QED
  BY <1>5, <1>6 DEF Kept

(* What has to be shown of a step of call c.                               *)
LEMMA ActionKeeps ==
  ASSUME ActionsInv, NEW c \in ActionCalls, NEW y, ActionStep(c, y),
         second' \in 0..MaxSeconds, device' \in BOOLEAN, pngs' \in 0..1,
         asked' \subseteq ActionCalls \X (ActionCalls \cup {Unset}) \X BOOLEAN,
         \A f \in bundles' : f \in bundles \/
            (f.of = c /\ f.parts \in [Parts -> {"none", "taken", "failed"}]
               /\ f.name = <<y.artifact, y.stamp>>),
         Kept(c)'
  PROVE  ActionsInv'
<1>1. ActionsTyped'
  BY DEF ActionsInv, ActionsTyped, ActionStep
<1>2. /\ acall'[c] = y /\ Begun(c)'
      /\ \A d \in ActionCalls \ {c} : acall'[d] = acall[d]
  BY DEF ActionsInv, ActionsTyped, ActionStep, Begun
<1>3. BundlesNamed'
  <2> SUFFICES ASSUME NEW f \in bundles'
               PROVE  acall'[f.of].pc # "idle"
                      /\ f.name = <<acall'[f.of].artifact, acall'[f.of].stamp>>
    BY DEF BundlesNamed, Begun, BundleName
  <2>1. CASE f \in bundles
    <3>1. /\ f.of \in ActionCalls /\ acall[f.of].pc # "idle"
          /\ f.name = <<acall[f.of].artifact, acall[f.of].stamp>>
      BY <2>1 DEF ActionsInv, ActionsTyped, BundlesNamed, Begun, BundleName
    <3>2. CASE f.of = c
      BY <1>2, <3>1, <3>2 DEF ActionStep, Begun
    <3>3. CASE f.of # c
      BY <1>2, <3>1, <3>3
    <3> QED
      BY <3>2, <3>3
  <2>2. CASE f.of = c /\ f.name = <<y.artifact, y.stamp>>
    BY <1>2, <2>2 DEF Begun
  <2> QED
    BY <2>1, <2>2
<1>4. \A o \in ActionCalls : Kept(o)'
  BY OtherCalls DEF ActionsInv
<1> QED
  BY <1>1, <1>3, <1>4 DEF ActionsInv

(* A step of a call that has begun and does not ask, and that writes no    *)
(* bundle but in the step for it: the call proceeds.                       *)
LEMMA ProceedKeeps ==
  ASSUME ActionsInv, NEW c \in ActionCalls, Begun(c),
         NEW x \in Drafted,
         x.tool = acall[c].tool, x.dry = acall[c].dry,
         x.stamp = acall[c].stamp, x.artifact = acall[c].artifact,
         x.success = acall[c].success, x.todo = acall[c].todo,
         x.found = acall[c].found \/ acall[c].pc = "loading",
         acall[c].pc = "loading" /\ x.tool = "collect_and_share" /\ ~x.dry =>
           x.found = c \/ \E d \in ActionCalls \ {c} :
                            Begun(d) /\ BundleName(acall[d]) = BundleName(x),
         acall[c].pc \notin {"asking", "done", "raised"},
         UNCHANGED asked,
         \A o \in ActionCalls : Made(o)' \subseteq Made(o)
                                \/ (o = c /\ acall[c].pc = "writing"),
         acall' = [acall EXCEPT ![c] = Proceed(x)]
  PROVE  ActionStep(c, Proceed(x)) /\ Kept(c)'
<1> DEFINE y == Proceed(x)
<1>1. /\ y \in Drafted /\ y.pc \in Steps \cup {"done"}
      /\ y.tool = x.tool /\ y.dry = x.dry /\ y.stamp = x.stamp
      /\ y.artifact = x.artifact
      /\ y.found = x.found /\ y.success = x.success
  BY Proceeds
<1>2. Answers(c)' = Answers(c)
      /\ \A o \in ActionCalls \ {c} :
           Answers(o)' = Answers(o) /\ Made(o)' \subseteq Made(o)
  BY DEF Answers
<1>3. y.pc \notin {"start", "idle"}
  BY <1>1 DEF Steps, Parts
<1>4. ActionStep(c, y)
  BY <1>1, <1>2, <1>3 DEF ActionStep
<1>5. acall'[c] = y /\ Kept(c)
      /\ \A d \in ActionCalls \ {c} : acall'[d] = acall[d]
  BY DEF ActionsInv, ActionsTyped
<1>6. Fresh(c)'
  BY <1>3, <1>5 DEF Fresh, Begun
<1>7. \A step \in Steps : Ahead(y, step) => Ahead(acall[c], step)
  BY ProceedsAhead DEF Ahead, Later
<1>8. StaysDry(c)'
  <2> SUFFICES ASSUME x.dry, x.tool \notin AskAnyway
               PROVE  /\ Answers(c) = {} /\ Made(c)' = {}
                      /\ ~Ahead(y, "asking") /\ ~Ahead(y, "writing")
    BY <1>1, <1>2, <1>5 DEF StaysDry
  <2>1. /\ Answers(c) = {} /\ Made(c) = {}
        /\ ~Ahead(acall[c], "asking") /\ ~Ahead(acall[c], "writing")
    BY <1>5 DEF Kept, StaysDry
  <2>2. Made(c)' \subseteq Made(c)
    BY <2>1 DEF Ahead
  <2> QED
    BY <1>7, <2>1, <2>2 DEF Steps
<1>9. Tells(c)'
  <2> SUFFICES ASSUME x.tool \in Tell
               PROVE  /\ Once(y.todo, "asking")
                      /\ y.pc = "asking" => ~Later(y, "asking")
                      /\ Answers(c) = {} /\ y.pc # "done" => y.success
                      /\ Answers(c) # {} =>
                           /\ ~Ahead(y, "asking")
                           /\ y.success <=> \E a \in Answers(c) : a[3]
    BY <1>1, <1>2, <1>5 DEF Tells
  <2>1. /\ Once(x.todo, "asking")
        /\ Answers(c) = {} => x.success
        /\ Answers(c) # {} =>
             /\ ~Ahead(acall[c], "asking")
             /\ x.success <=> \E a \in Answers(c) : a[3]
    BY <1>5 DEF Kept, Tells
  <2>2. "asking" \in Steps
    BY DEF Steps
  <2> QED
    BY <1>1, <1>7, <2>1, <2>2, ProceedsAhead
<1>10. Shares(c)'
  <2> SUFFICES ASSUME x.tool = "collect_and_share", ~x.dry
               PROVE  /\ OnPlan(y) /\ Answers(c) = {}
                      /\ y.pc = "asking" => Owned(c)'
    BY <1>1, <1>2, <1>5 DEF Shares
  <2>1. OnPlan(acall[c]) /\ Answers(c) = {}
    BY <1>5 DEF Kept, Shares
  <2>2. acall[c].pc \in CollectSteps \cup {"loading"}
    BY <2>1 DEF OnPlan
  <2>3. x.todo \in Seq(Steps) /\ Len(x.todo) \in Nat
    BY DEF Drafted
  <2>4. x.todo # <<>>
    BY <2>1, <2>2 DEF OnPlan, Collects
  <2>5. /\ y.pc = x.todo[1] /\ Len(y.todo) = Len(x.todo) - 1
        /\ \A i \in 1..Len(y.todo) : y.todo[i] = x.todo[i + 1]
    BY <2>4, Proceeds
  <2>6. CASE acall[c].pc = "loading"
    <3>1. y.pc = "asking" /\ Len(y.todo) = 0
      BY <2>1, <2>5, <2>6 DEF OnPlan
    <3>2. OnPlan(y)
      BY <3>1 DEF OnPlan, CollectSteps, Parts
    <3>3. Owned(c)'
      BY <1>1, <1>5, <2>6 DEF Owned, Begun, BundleName
    <3> QED
      BY <2>1, <3>2, <3>3
  <2>7. CASE acall[c].pc \in CollectSteps
    <3>1. Collects(x.todo)
      BY <2>1, <2>7 DEF OnPlan
    <3>2. CASE Len(x.todo) = 2
      <4>1. y.pc = "loading" /\ Len(y.todo) = 1 /\ y.todo[1] = "asking"
        BY <2>5, <3>1, <3>2 DEF Collects
      <4> QED
        BY <2>1, <4>1 DEF OnPlan, CollectSteps, Parts
    <3>3. CASE Len(x.todo) # 2
      <4> DEFINE n == Len(x.todo)
      <4>1. /\ n \in Nat /\ n >= 3
            /\ x.todo[n - 1] = "loading" /\ x.todo[n] = "asking"
            /\ \A i \in 1..(n - 2) : x.todo[i] \in CollectSteps
        <5>1. /\ n >= 2 /\ x.todo[n - 1] = "loading" /\ x.todo[n] = "asking"
              /\ \A i \in 1..(n - 2) : x.todo[i] \in CollectSteps
          BY <3>1 DEF Collects
        <5>2. PICK k \in Nat : k = n
          BY <2>3
        <5>3. k >= 2 /\ k # 2
          BY <3>3, <5>1, <5>2
        <5>4. k >= 3
          BY <5>3
        <5> QED
          BY <5>1, <5>2, <5>4
      <4>2. y.pc \in CollectSteps
        <5>1. 1 \in 1..(n - 2)
          BY <4>1
        <5> QED
          BY <2>5, <4>1, <5>1
      <4>3. Len(y.todo) = n - 1
        BY <2>5
      <4>4. y.todo[n - 2] = "loading" /\ y.todo[n - 1] = "asking"
        <5>1. /\ n - 2 \in 1..(n - 1) /\ (n - 2) + 1 = n - 1
              /\ n - 1 \in 1..(n - 1) /\ (n - 1) + 1 = n
          BY <4>1
        <5> QED
          BY <2>5, <4>1, <4>3, <5>1
      <4>5. ASSUME NEW i \in 1..(n - 3) PROVE y.todo[i] \in CollectSteps
        <5>1. i \in 1..(n - 1) /\ i + 1 \in 1..(n - 2)
          BY <4>1
        <5> QED
          BY <2>5, <4>1, <4>3, <5>1
      <4>6. Collects(y.todo)
        <5>1. /\ Len(y.todo) >= 2 /\ Len(y.todo) - 1 = n - 2
              /\ Len(y.todo) - 2 = n - 3
          BY <4>1, <4>3
        <5> QED
          BY <4>3, <4>4, <4>5, <5>1 DEF Collects
      <4> QED
        BY <2>1, <4>2, <4>6 DEF OnPlan, CollectSteps, Parts
    <3> QED
      BY <3>2, <3>3
  <2> QED
    BY <2>2, <2>6, <2>7
<1> QED
  BY <1>4, <1>6, <1>8, <1>9, <1>10 DEF Kept

(* A call that has begun and finds no file ends with an error.             *)
LEMMA RaiseKeeps ==
  ASSUME ActionsInv, NEW c \in ActionCalls,
         acall[c].pc \in {"finding", "loading"}, UNCHANGED <<asked, bundles>>,
         acall' = [acall EXCEPT ![c] = [acall[c] EXCEPT !.pc = "raised"]]
  PROVE  ActionStep(c, [acall[c] EXCEPT !.pc = "raised"]) /\ Kept(c)'
<1> DEFINE y == [acall[c] EXCEPT !.pc = "raised"]
<1>1. Begun(c) /\ acall[c] \in Drafted /\ Kept(c) /\ acall'[c] = y
  BY BegunDrafted DEF ActionsInv, ActionsTyped, Begun
<1>2. /\ y \in Drafted /\ y.pc = "raised" /\ y.todo = acall[c].todo
      /\ y.tool = acall[c].tool /\ y.dry = acall[c].dry
      /\ y.stamp = acall[c].stamp /\ y.artifact = acall[c].artifact
      /\ y.found = acall[c].found /\ y.success = acall[c].success
  BY <1>1 DEF Drafted
<1>3. \A o \in ActionCalls : Answers(o)' = Answers(o) /\ Made(o)' = Made(o)
  BY DEF Answers, Made
<1>4. ActionStep(c, y)
  BY <1>2, <1>3 DEF ActionStep
<1>5. \A step : Ahead(y, step) => step = "raised" \/ Ahead(acall[c], step)
  BY <1>2 DEF Ahead, Later
<1>6. Fresh(c)' /\ StaysDry(c)'
  BY <1>1, <1>2, <1>3, <1>5 DEF Kept, Fresh, StaysDry, Begun
<1>7. Tells(c)'
  BY <1>1, <1>2, <1>3, <1>5 DEF Kept, Tells, Begun
<1>8. Shares(c)'
  BY <1>1, <1>2, <1>3 DEF Kept, Shares, OnPlan, CollectSteps, Parts
<1> QED
  BY <1>4, <1>6, <1>7, <1>8 DEF Kept

(* At its start a call has its whole script to do.                         *)
LEMMA StartKeeps ==
  ASSUME ActionsInv, ActionsAssumption, NEW c \in ActionCalls, StartAction(c)
  PROVE  ActionsInv'
<1>1. PICK tool \in ActionKit, dry \in BOOLEAN, lacking \in BOOLEAN,
           named \in BOOLEAN :
        /\ tool = "issue_draft" => ~dry
        /\ lacking => tool \in MayLackMeans
        /\ named => tool \in {"collect", "collect_and_share"} /\ ~dry
        /\ LET call == [tool |-> tool, dry |-> dry, stamp |-> second,
                        artifact |-> IF named THEN "given" ELSE tool,
                        found |-> Unset, parts |-> NoParts, linked |-> FALSE,
                        success |-> TRUE, todo |-> ActionScript(tool, dry),
                        pc |-> "start"]
           IN  SetAction(c, IF lacking THEN GiveUp(call) ELSE Proceed(call))
  BY DEF StartAction
<1>2. PICK x : x = [tool |-> tool, dry |-> dry, stamp |-> second,
                    artifact |-> IF named THEN "given" ELSE tool,
                    found |-> Unset, parts |-> NoParts, linked |-> FALSE,
                    success |-> TRUE, todo |-> ActionScript(tool, dry),
                    pc |-> "start"]
  OBVIOUS
<1>3. PICK y : y = IF lacking THEN GiveUp(x) ELSE Proceed(x)
  OBVIOUS
<1>4. acall' = [acall EXCEPT ![c] = y]
  BY <1>1, <1>2, <1>3 DEF SetAction
<1>5. tool \in ActionTools /\ second \in Nat
  BY DEF ActionsAssumption, ActionsInv, ActionsTyped
<1>6. /\ x.todo \in Seq(Steps)
      /\ dry /\ tool \notin AskAnyway => IsDry(x.todo)
      /\ tool \in Tell => Once(x.todo, "asking")
  BY <1>2, <1>5, Scripts
<1>7. NoParts \in [Parts -> {"none", "taken", "failed"}]
  BY DEF NoParts
<1>8. /\ x \in Drafted /\ x.pc = "start" /\ x.tool = tool /\ x.dry = dry
      /\ x.success /\ x.found = Unset
  BY <1>2, <1>5, <1>6, <1>7 DEF Drafted
<1>9. /\ y \in Drafted /\ y.tool = tool /\ y.dry = dry
      /\ y.pc \in Steps \cup {"done"} /\ (y.pc # "done" => y.success)
  <2>1. CASE lacking
    BY <1>3, <1>8, <2>1 DEF GiveUp, Drafted
  <2>2. CASE ~lacking
    BY <1>3, <1>8, <2>2, Proceeds
  <2> QED
    BY <2>1, <2>2
<1>10. ~Begun(c) /\ Answers(c) = {} /\ Made(c) = {}
  BY DEF StartAction, Begun, ActionsInv, Kept, Fresh
<1>11. \A o \in ActionCalls : Answers(o)' = Answers(o) /\ Made(o)' = Made(o)
  BY DEF Answers, Made, StartAction
<1>12. y.pc \notin {"start", "idle"}
  BY <1>9 DEF Steps, Parts
<1>13. ActionStep(c, y)
  BY <1>4, <1>9, <1>10, <1>11, <1>12 DEF ActionStep
<1>14. acall'[c] = y /\ Answers(c)' = {} /\ Made(c)' = {}
  BY <1>4, <1>10, <1>11 DEF ActionsInv, ActionsTyped
<1>15. \A step \in Steps :
         /\ Ahead(y, step) => Later(x, step)
         /\ Once(x.todo, step) =>
              Once(y.todo, step) /\ (y.pc = step => ~Later(y, step))
  <2>1. CASE lacking
    <3>1. y.pc = "done" /\ y.todo = x.todo
      BY <1>3, <1>8, <2>1 DEF GiveUp, Drafted
    <3> QED
      BY <3>1 DEF Ahead, Later, Steps, Parts
  <2>2. CASE ~lacking
    BY <1>3, <1>8, <2>2, ProceedsAhead
  <2> QED
    BY <2>1, <2>2
<1>16. Fresh(c)'
  BY <1>14 DEF Fresh
<1>17. StaysDry(c)'
  <2> SUFFICES ASSUME dry, tool \notin AskAnyway
               PROVE  ~Ahead(y, "asking") /\ ~Ahead(y, "writing")
    BY <1>9, <1>14 DEF StaysDry
  <2>1. ~Later(x, "asking") /\ ~Later(x, "writing")
    BY <1>6 DEF IsDry, Later
  <2> QED
    BY <1>15, <2>1 DEF Steps
<1>18. Tells(c)'
  <2>1. "asking" \in Steps
    BY DEF Steps
  <2> QED
    BY <1>6, <1>9, <1>14, <1>15, <2>1 DEF Tells
<1>19. Shares(c)'
  <2> SUFFICES ASSUME tool = "collect_and_share", ~dry PROVE OnPlan(y)
                                                    /\ y.pc # "asking"
    BY <1>9, <1>14 DEF Shares
  <2>1. ~lacking /\ y = Proceed(x)
    BY <1>1, <1>3 DEF MayLackMeans
  <2>2. x.todo = Collecting \o <<"loading", "asking">>
    BY <1>2 DEF ActionScript, AskAnyway
  <2>3. /\ Collecting \in Seq(Steps) /\ <<"loading", "asking">> \in Seq(Steps)
        /\ Len(Collecting) = 5 /\ Len(<<"loading", "asking">>) = 2
        /\ Collecting[1] = "inspecting"
        /\ \A i \in 1..5 : Collecting[i] \in CollectSteps
    BY DEF Collecting, Steps, Parts, CollectSteps
  <2>4. /\ Len(x.todo) = 7 /\ \A i \in 1..5 : x.todo[i] = Collecting[i]
        /\ x.todo[6] = "loading" /\ x.todo[7] = "asking"
    <3>0. PICK last : last = <<"loading", "asking">>
      OBVIOUS
    <3>1. /\ Len(x.todo) = Len(Collecting) + Len(last)
          /\ \A i \in 1..Len(Collecting) : x.todo[i] = Collecting[i]
          /\ \A i \in 1..Len(last) : x.todo[Len(Collecting) + i] = last[i]
      <4>1. /\ x.todo = Collecting \o last /\ last \in Seq(Steps)
            /\ Collecting \in Seq(Steps)
        BY <2>2, <2>3, <3>0
      <4> QED
        BY <4>1, Joined
    <3>2. x.todo[5 + 1] = last[1] /\ x.todo[5 + 2] = last[2]
      BY <2>3, <3>0, <3>1
    <3> QED
      BY <2>3, <3>0, <3>1, <3>2
  <2>5. x.todo # <<>>
    BY <2>4
  <2>6. /\ y.pc = x.todo[1] /\ Len(y.todo) = 6
        /\ \A i \in 1..6 : y.todo[i] = x.todo[i + 1]
    <3>1. /\ y.pc = x.todo[1] /\ Len(y.todo) = Len(x.todo) - 1
          /\ \A i \in 1..Len(y.todo) : y.todo[i] = x.todo[i + 1]
      BY <1>8, <2>1, <2>5, Proceeds
    <3> QED
      BY <2>4, <3>1
  <2>7. y.todo[5] = "loading" /\ y.todo[6] = "asking"
    BY <2>4, <2>6
  <2>8. ASSUME NEW i \in 1..4 PROVE y.todo[i] \in CollectSteps
    <3>1. i \in 1..6 /\ i + 1 \in 1..5
      OBVIOUS
    <3> QED
      BY <2>3, <2>4, <2>6, <3>1
  <2>9. y.pc = "inspecting"
    BY <2>3, <2>4, <2>6
  <2>10. Collects(y.todo)
    BY <2>6, <2>7, <2>8 DEF Collects
  <2> QED
    BY <2>9, <2>10 DEF OnPlan, CollectSteps
<1>20. Kept(c)'
  BY <1>16, <1>17, <1>18, <1>19 DEF Kept
<1> QED
  BY <1>13, <1>20, ActionKeeps DEF StartAction, ActionsInv, ActionsTyped

(* The phone is asked at most once by a tool that tells what it answered,  *)
(* and by no dry run that is dry.                                          *)
LEMMA AskKeeps ==
  ASSUME ActionsInv, NEW c \in ActionCalls, Ask(c)
  PROVE  ActionsInv'
<1>1. PICK accepted \in BOOLEAN :
        /\ asked' = asked \cup {<<c, acall[c].found, accepted>>}
        /\ SetAction(c, Proceed([acall[c] EXCEPT
             !.success = @ /\ (accepted \/ acall[c].tool \notin Tell)]))
  BY DEF Ask
<1>2. /\ Begun(c) /\ acall[c].pc = "asking" /\ acall[c] \in Drafted /\ Kept(c)
  BY BegunDrafted DEF Ask, ActionsInv, Begun
<1>3. PICK x : x = [acall[c] EXCEPT
                      !.success = @ /\ (accepted \/ acall[c].tool \notin Tell)]
  OBVIOUS
<1>4. PICK y : y = Proceed(x)
  OBVIOUS
<1>5. /\ x \in Drafted /\ x.tool = acall[c].tool /\ x.dry = acall[c].dry
      /\ x.stamp = acall[c].stamp /\ x.artifact = acall[c].artifact
      /\ x.found = acall[c].found /\ x.todo = acall[c].todo
      /\ x.success = (acall[c].success
                        /\ (accepted \/ acall[c].tool \notin Tell))
  <2>1. (acall[c].success /\ (accepted \/ acall[c].tool \notin Tell))
          \in BOOLEAN
    OBVIOUS
  <2> QED
    BY <1>2, <1>3, <2>1 DEF Drafted
<1>6. /\ y \in Drafted /\ y.pc \in Steps \cup {"done"}
      /\ y.tool = x.tool /\ y.dry = x.dry /\ y.stamp = x.stamp
      /\ y.artifact = x.artifact
      /\ y.found = x.found /\ y.success = x.success
  BY <1>4, <1>5, Proceeds
<1>7. acall' = [acall EXCEPT ![c] = y] /\ acall'[c] = y
      /\ \A d \in ActionCalls \ {c} : acall'[d] = acall[d]
  BY <1>1, <1>3, <1>4 DEF SetAction, ActionsInv, ActionsTyped
<1>8. PICK answer : answer = <<c, acall[c].found, accepted>>
  OBVIOUS
<1>9. /\ Answers(c)' = Answers(c) \cup {answer}
      /\ answer[1] = c /\ answer[2] = acall[c].found /\ answer[3] = accepted
      /\ \A o \in ActionCalls \ {c} : Answers(o)' = Answers(o)
  BY <1>1, <1>8 DEF Answers
<1>10. \A o \in ActionCalls : Made(o)' = Made(o)
  BY DEF Ask, Made
<1>11. y.pc \notin {"start", "idle"}
  BY <1>6 DEF Steps, Parts
<1>12. ActionStep(c, y)
  BY <1>5, <1>6, <1>7, <1>9, <1>10, <1>11 DEF ActionStep
<1>13. Ahead(acall[c], "asking")
  BY <1>2 DEF Ahead
<1>14. Fresh(c)' /\ StaysDry(c)'
  <2>1. ~(acall[c].dry /\ acall[c].tool \notin AskAnyway)
    BY <1>2, <1>13 DEF Kept, StaysDry
  <2> QED
    BY <1>5, <1>6, <1>7, <1>11, <2>1 DEF Fresh, StaysDry, Begun
<1>15. Tells(c)'
  <2> SUFFICES ASSUME x.tool \in Tell
               PROVE  /\ Once(y.todo, "asking") /\ ~Ahead(y, "asking")
                      /\ y.success <=> \E a \in Answers(c)' : a[3]
    BY <1>6, <1>7, <1>9 DEF Tells, Ahead
  <2>1. /\ Once(x.todo, "asking") /\ ~Later(acall[c], "asking")
        /\ Answers(c) = {} /\ acall[c].success
    BY <1>2, <1>5, <1>13 DEF Kept, Tells
  <2>2. "asking" \in Steps /\ ~Later(x, "asking")
    BY <1>5, <2>1 DEF Steps, Later
  <2>3. Once(y.todo, "asking") /\ ~Ahead(y, "asking")
    BY <1>4, <1>5, <2>1, <2>2, ProceedsAhead
  <2>4. y.success = accepted
    BY <1>5, <1>6, <2>1
  <2> QED
    BY <1>9, <2>1, <2>3, <2>4
<1>16. Shares(c)'
  <2> SUFFICES ASSUME x.tool = "collect_and_share", ~x.dry
               PROVE  /\ OnPlan(y) /\ y.pc = "done"
                      /\ \A a \in Answers(c)' : a[2] = y.found /\ Owned(c)'
    BY <1>6, <1>7 DEF Shares
  <2>1. OnPlan(acall[c]) /\ Answers(c) = {} /\ Owned(c)
    BY <1>2, <1>5 DEF Kept, Shares
  <2>2. x.todo = <<>>
    BY <1>2, <1>5, <2>1 DEF OnPlan, CollectSteps, Parts, Drafted
  <2>3. y.pc = "done"
    BY <1>4, <1>5, <2>2, Proceeds
  <2>4. OnPlan(y)
    BY <2>3 DEF OnPlan, CollectSteps, Parts
  <2>5. Owned(c)'
    BY <1>5, <1>6, <1>7, <2>1 DEF Owned, Begun, BundleName
  <2> QED
    BY <1>5, <1>6, <1>9, <2>1, <2>3, <2>4, <2>5
<1>17. Kept(c)'
  BY <1>14, <1>15, <1>16 DEF Kept
<1>18. asked' \subseteq ActionCalls \X (ActionCalls \cup {Unset}) \X BOOLEAN
  <2>1. acall[c].found \in ActionCalls \cup {Unset}
    BY <1>2 DEF Drafted
  <2> QED
    BY <1>1, <2>1 DEF ActionsInv, ActionsTyped
<1> QED
  BY <1>12, <1>17, <1>18, ActionKeeps DEF Ask, ActionsInv, ActionsTyped

(* So do the steps that only proceed.                                      *)
LEMMA OthersKeep ==
  ASSUME ActionsInv, NEW c \in ActionCalls,
         FindFile(c) \/ Inspect(c) \/ TakePart(c) \/ WriteDraft(c)
  PROVE  ActionsInv'
<1> DEFINE call == acall[c]
<1>1. /\ Begun(c) /\ call \in Drafted
      /\ call.pc \in Parts \cup {"finding", "inspecting", "drafting"}
  BY BegunDrafted DEF FindFile, Inspect, TakePart, WriteDraft, ActionsInv,
                      Begun, Parts
<1>2. /\ UNCHANGED <<asked, bundles, second, device>> /\ pngs' \in 0..1
      /\ \A o \in ActionCalls : Made(o)' \subseteq Made(o)
  BY DEF FindFile, Inspect, TakePart, WriteDraft, ActionsInv, ActionsTyped, Made
<1>3. call.pc \notin {"asking", "done", "raised", "loading"}
  BY <1>1 DEF Parts
<1>4. CASE acall' = [acall EXCEPT ![c] = [call EXCEPT !.pc = "raised"]]
           /\ FindFile(c)
  <2>1. /\ ActionStep(c, [call EXCEPT !.pc = "raised"]) /\ Kept(c)'
    BY <1>2, <1>4, RaiseKeeps DEF FindFile
  <2> QED
    BY <1>2, <2>1, ActionKeeps DEF ActionsInv, ActionsTyped
<1>5. ASSUME NEW x \in Drafted, acall' = [acall EXCEPT ![c] = Proceed(x)],
             x.tool = call.tool, x.dry = call.dry, x.stamp = call.stamp,
             x.artifact = call.artifact,
             x.success = call.success, x.todo = call.todo, x.found = call.found
      PROVE  ActionsInv'
  <2>1. ActionStep(c, Proceed(x)) /\ Kept(c)'
    BY <1>1, <1>2, <1>3, <1>5, ProceedKeeps
  <2> QED
    BY <1>2, <2>1, ActionKeeps DEF ActionsInv, ActionsTyped
<1>6. CASE FindFile(c) \/ WriteDraft(c)
  BY <1>1, <1>4, <1>5, <1>6 DEF FindFile, WriteDraft, SetAction
<1>7. CASE Inspect(c)
  <2>1. PICK x : x = [call EXCEPT !.linked = device]
    OBVIOUS
  <2>2. /\ x \in Drafted /\ x.tool = call.tool /\ x.dry = call.dry
        /\ x.stamp = call.stamp /\ x.artifact = call.artifact
        /\ x.success = call.success
        /\ x.todo = call.todo /\ x.found = call.found
    BY <1>1, <2>1 DEF Drafted, ActionsInv, ActionsTyped
  <2> QED
    BY <1>5, <1>7, <2>1, <2>2 DEF Inspect, SetAction
<1>8. CASE TakePart(c)
  <2>1. PICK tried : tried = (call.linked \/ call.tool = "capture_screen")
    OBVIOUS
  <2>2. PICK result : result = CASE ~tried -> "none"
                                 [] tried /\ device -> "taken"
                                 [] OTHER -> "failed"
    OBVIOUS
  <2>3. PICK x : x = [call EXCEPT !.parts[call.pc] = result]
    OBVIOUS
  <2>4. acall' = [acall EXCEPT ![c] = Proceed(x)]
    BY <1>8, <2>1, <2>2, <2>3 DEF TakePart, SetAction
  <2>5. result \in {"none", "taken", "failed"}
    BY <2>1, <2>2 DEF ActionsInv, ActionsTyped
  <2>6. /\ x \in Drafted /\ x.tool = call.tool /\ x.dry = call.dry
        /\ x.stamp = call.stamp /\ x.artifact = call.artifact
        /\ x.success = call.success
        /\ x.todo = call.todo /\ x.found = call.found
    BY <1>1, <2>3, <2>5 DEF Drafted
  <2> QED
    BY <1>5, <2>4, <2>6
<1> QED
  BY <1>6, <1>7, <1>8

(* A bundle of the name this one has is replaced.                          *)
LEMMA WriteKeeps ==
  ASSUME ActionsInv, NEW c \in ActionCalls, WriteBundle(c)
  PROVE  ActionsInv'
<1> DEFINE call == acall[c]
<1>1. Begun(c) /\ call \in Drafted /\ call.pc = "writing"
  BY BegunDrafted DEF WriteBundle, ActionsInv, Begun
<1>2. PICK written : written = Newer(bundles)
  OBVIOUS
<1>3. PICK bundle : bundle = [name |-> BundleName(call), of |-> c,
                              parts |-> call.parts, written |-> written]
  OBVIOUS
<1>4. /\ bundle.of = c /\ bundle.name = BundleName(call)
      /\ bundle.parts = call.parts
  BY <1>3
<1>5. bundles' = {f \in bundles : f.name # BundleName(call)} \cup {bundle}
  BY <1>2, <1>3 DEF WriteBundle
<1>6. \A o \in ActionCalls : Made(o)' \subseteq Made(o) \/ o = c
  BY <1>4, <1>5 DEF Made
<1>7. acall' = [acall EXCEPT ![c] = Proceed(call)] /\ UNCHANGED asked
  BY DEF WriteBundle, SetAction
<1>8. ActionStep(c, Proceed(call)) /\ Kept(c)'
  BY <1>1, <1>6, <1>7, ProceedKeeps
<1>9. /\ Proceed(call).artifact = call.artifact
      /\ Proceed(call).stamp = call.stamp
  BY <1>1, Proceeds
<1>10. call.parts \in [Parts -> {"none", "taken", "failed"}]
  BY <1>1 DEF Drafted
<1>11. \A f \in bundles' : f \in bundles \/
         (f.of = c /\ f.parts \in [Parts -> {"none", "taken", "failed"}]
            /\ f.name = <<Proceed(call).artifact, Proceed(call).stamp>>)
  BY <1>4, <1>5, <1>9, <1>10 DEF BundleName
<1> QED
  BY <1>8, <1>11, ActionKeeps DEF WriteBundle, ActionsInv, ActionsTyped

(* collect_and_share loads a bundle that has the name of its own.          *)
LEMMA LoadKeeps ==
  ASSUME ActionsInv, NEW c \in ActionCalls, LoadBundle(c)
  PROVE  ActionsInv'
<1> DEFINE call == acall[c]
<1>1. Begun(c) /\ call \in Drafted /\ call.pc = "loading"
  BY BegunDrafted DEF LoadBundle, ActionsInv, Begun
<1>2. UNCHANGED <<asked, bundles, second, device, pngs>>
      /\ \A o \in ActionCalls : Made(o)' \subseteq Made(o)
  BY DEF LoadBundle, Made
<1>3. CASE ToldPath(call) = {}
  <2>1. ActionStep(c, [call EXCEPT !.pc = "raised"]) /\ Kept(c)'
    BY <1>1, <1>2, <1>3, RaiseKeeps DEF LoadBundle, SetAction
  <2> QED
    BY <1>2, <2>1, ActionKeeps DEF ActionsInv, ActionsTyped
<1>4. CASE ToldPath(call) # {}
  <2>1. PICK f \in ToldPath(call) : f = CHOOSE g \in ToldPath(call) : TRUE
    BY <1>4
  <2>2. f \in bundles
        /\ (call.tool = "collect_and_share" => f.name = BundleName(call))
    BY <2>1 DEF ToldPath, Newest
  <2>3. PICK x : x = [call EXCEPT !.found = f.of]
    OBVIOUS
  <2>4. acall' = [acall EXCEPT ![c] = Proceed(x)]
    BY <1>4, <2>1, <2>3 DEF LoadBundle, SetAction
  <2>5. f.of \in ActionCalls /\ Begun(f.of) /\ f.name = BundleName(acall[f.of])
    BY <2>2 DEF ActionsInv, ActionsTyped, BundlesNamed
  <2>6. /\ x \in Drafted /\ x.tool = call.tool /\ x.dry = call.dry
        /\ x.stamp = call.stamp /\ x.artifact = call.artifact
        /\ x.success = call.success
        /\ x.todo = call.todo /\ x.found = f.of
    BY <1>1, <2>3, <2>5 DEF Drafted
  <2>7. x.tool = "collect_and_share" =>
          x.found = c \/ \E d \in ActionCalls \ {c} :
                           Begun(d) /\ BundleName(acall[d]) = BundleName(x)
    <3>1. BundleName(x) = BundleName(call)
      BY <2>6 DEF BundleName
    <3> QED
      BY <2>2, <2>5, <2>6, <3>1
  <2>8. ActionStep(c, Proceed(x)) /\ Kept(c)'
    BY <1>1, <1>2, <2>4, <2>6, <2>7, ProceedKeeps
  <2> QED
    BY <1>2, <2>8, ActionKeeps DEF ActionsInv, ActionsTyped
<1> QED
  BY <1>3, <1>4

(* The clock and the device are of no call.                                *)
LEMMA PhoneKeeps ==
  ASSUME ActionsInv, ActionsAssumption,
         ClockTicks \/ DeviceComesOrGoes \/ UNCHANGED actionVars
  PROVE  ActionsInv'
<1>1. /\ UNCHANGED <<bundles, pngs, acall, asked>>
      /\ second' \in 0..MaxSeconds /\ device' \in BOOLEAN
  <2>1. CASE ClockTicks
    BY <2>1 DEF ClockTicks, ActionsInv, ActionsTyped, ActionsAssumption
  <2>2. CASE DeviceComesOrGoes
    BY <2>2 DEF DeviceComesOrGoes, ActionsInv, ActionsTyped
  <2>3. CASE UNCHANGED actionVars
    BY <2>3 DEF actionVars, ActionsInv, ActionsTyped
  <2> QED
    BY <2>1, <2>2, <2>3
<1>2. ActionsTyped'
  BY <1>1 DEF ActionsInv, ActionsTyped
<1>3. BundlesNamed'
  BY <1>1 DEF ActionsInv, BundlesNamed, Begun, BundleName
<1>4. \A c \in ActionCalls : Kept(c)'
  BY <1>1 DEF ActionsInv, Kept, Fresh, StaysDry, Tells, Shares, Begun, Answers,
              Made, Ahead, Later, Once, OnPlan, Collects, Owned
<1> QED
  BY <1>2, <1>3, <1>4 DEF ActionsInv

(* The invariant holds at first, and after every step.                     *)
LEMMA ActionsInvAlways == ActionsSpec => []ActionsInv
<1>1. ActionsInit => ActionsInv
  <2> SUFFICES ASSUME ActionsInit PROVE ActionsInv
    OBVIOUS
  <2>1. \A c \in ActionCalls : acall[c].pc = "idle" /\ acall[c] = Dormant
    BY DEF ActionsInit, Dormant
  <2>2. ActionsTyped
    BY <2>1, ActionsAssumption DEF ActionsTyped, ActionsInit, ActionsAssumption
  <2>3. BundlesNamed
    BY DEF BundlesNamed, ActionsInit
  <2>4. ASSUME NEW c \in ActionCalls PROVE Kept(c)
    BY <2>1 DEF Kept, Fresh, StaysDry, Tells, Shares, Begun, Answers, Made,
                ActionsInit
  <2> QED
    BY <2>2, <2>3, <2>4 DEF ActionsInv
<1>2. ActionsInv /\ [ActionsNext]_actionVars => ActionsInv'
  <2> SUFFICES ASSUME ActionsInv, [ActionsNext]_actionVars PROVE ActionsInv'
    OBVIOUS
  <2>1. CASE ClockTicks \/ DeviceComesOrGoes \/ UNCHANGED actionVars
    BY <2>1, ActionsAssumption, PhoneKeeps
  <2>2. ASSUME NEW c \in ActionCalls,
               \/ StartAction(c) \/ Ask(c) \/ FindFile(c) \/ Inspect(c)
               \/ TakePart(c) \/ WriteBundle(c) \/ LoadBundle(c)
               \/ WriteDraft(c)
        PROVE  ActionsInv'
    BY <2>2, ActionsAssumption, StartKeeps, AskKeeps, OthersKeep, WriteKeeps,
       LoadKeeps
  <2> QED
    BY <2>1, <2>2 DEF ActionsNext
<1> QED
  BY <1>1, <1>2, PTL DEF ActionsSpec

-----------------------------------------------------------------------------
(* Of whatever tools are called, and however their calls overlap: the      *)
(* variables keep their types.                                             *)
THEOREM ActionsKeepTypes == ActionsSpec => []ActionsTypeOK
<1>1. ActionsInv => ActionsTypeOK
  <2> SUFFICES ASSUME ActionsInv PROVE ActionsTypeOK
    OBVIOUS
  <2>1. ASSUME NEW c \in ActionCalls
        PROVE  acall[c].pc \in Steps \cup {"idle", "done", "raised"}
    <3>1. acall[c].pc # "start" /\ acall[c] \in Drafted \cup {Dormant}
      BY DEF ActionsInv, ActionsTyped
    <3> QED
      BY <3>1 DEF Drafted, Dormant
  <2> QED
    BY <2>1 DEF ActionsTypeOK, ActionsInv, ActionsTyped, Steps
<1> QED
  BY <1>1, ActionsInvAlways, PTL

(* A dry run of any tool but the three that ask anyway has asked nothing   *)
(* of the phone when it ends and has left no bundle, through all the       *)
(* layers that hand dry_run on; and a tool that tells what the phone       *)
(* answered says success exactly if it accepted.                           *)
THEOREM DryRunsAreDry == ActionsSpec => []DryRunIsDry
<1>1. ActionsInv => DryRunIsDry
  <2> SUFFICES ASSUME ActionsInv, NEW c \in ActionCalls,
                      acall[c].pc \in {"done", "raised"}
               PROVE  /\ acall[c].dry /\ acall[c].tool \notin AskAnyway =>
                           Answers(c) = {} /\ Made(c) = {}
                      /\ Answers(c) # {} /\ acall[c].tool \in Tell =>
                           (acall[c].success <=> \E a \in Answers(c) : a[3])
    BY DEF DryRunIsDry, Answers, Made
  <2>1. Begun(c) /\ StaysDry(c) /\ Tells(c)
    BY DEF ActionsInv, Kept, Begun
  <2> QED
    BY <2>1 DEF StaysDry, Tells
<1> QED
  BY <1>1, ActionsInvAlways, PTL

(* What collect_and_share tells others about is the bundle it collected,   *)
(* whatever other calls write meanwhile, unless one that was started in    *)
(* the same second has the same artifact_name, given or default.           *)
THEOREM OwnBundleIsShared == ActionsSpec => []SharesOwnBundle
<1>1. ActionsInv => SharesOwnBundle
  <2> SUFFICES ASSUME ActionsInv, NEW c \in ActionCalls,
                      acall[c].tool = "collect_and_share",
                      acall[c].pc = "done", ~acall[c].dry,
                      \A d \in ActionCalls \ {c} :
                        acall[d].pc # "idle" =>
                          BundleName(acall[d]) # BundleName(acall[c]),
                      NEW a \in asked, a[1] = c
               PROVE  a[2] = c
    BY DEF SharesOwnBundle
  <2>1. Begun(c) /\ Shares(c)
    BY DEF ActionsInv, Kept, Begun
  <2>2. a \in Answers(c)
    BY DEF Answers
  <2>3. a[2] = acall[c].found /\ Owned(c)
    BY <2>1, <2>2 DEF Shares
  <2> QED
    BY <2>3 DEF Owned, Begun
<1> QED
  BY <1>1, ActionsInvAlways, PTL


-----------------------------------------------------------------------------
(* PhoneScreen.  A call is a record from its start on.                     *)
Nodes == UNION {{Layout[s][i] : i \in DOMAIN Layout[s]} : s \in Screens}
ScreenActs == {"find", "tap", "type", "swipe", "key", "shot", "record"}
ScreenPCs ==
  {"dumping", "reading", "tapping", "typing", "sending", "capturing",
   "pulling", "removing", "done", "raised"}
Called ==
  [tool : ScreenActs, dry : BOOLEAN, query : Queries, only : BOOLEAN,
   index : 0..1, submit : BOOLEAN, attempt : Nat,
   node : Nodes \cup {Nowhere}, on : Screens \cup {Nowhere},
   tapped : BOOLEAN, success : BOOLEAN, calm : BOOLEAN, pc : ScreenPCs]

ScreenTyped ==
  /\ screen \in Screens /\ dumpFile \in Screens
  /\ focus \in Places \cup {Nowhere}
  /\ scall \in [ScreenCalls -> Called \cup {Rest}]
  /\ touched \cup typed \subseteq
       ScreenCalls \X Screens \X (Places \cup {Nowhere})
  /\ recordings \in [ScreenCalls -> SUBSET {"local", "phone"}]

(* The steps of each tool.                                                 *)
Path(call) ==
  CASE call.tool = "find" -> {"dumping", "reading", "done", "raised"}
    [] call.tool = "tap" -> {"dumping", "reading", "tapping", "done", "raised"}
    [] call.tool = "type" -> {"dumping", "reading", "tapping", "typing",
                              "sending", "done", "raised"}
    [] call.tool \in {"swipe", "key"} -> {"sending", "done"}
    [] call.tool \in {"shot", "record"} ->
         {"capturing", "pulling", "removing", "done"}

(* A dry run never gets to the steps that touch the phone.                 *)
DryPath == {"dumping", "reading", "done", "raised"}
TouchedNothing(c) ==
  recordings[c] = {} /\ \A t \in touched \cup typed : t[1] # c

(* Where the node that was picked comes from.                              *)
Aimed(call) ==
  /\ call.on \in Screens
  /\ \E i \in DOMAIN Layout[call.on] : call.node = Layout[call.on][i]

(* As long as nothing comes in between, what the dump said is so when it   *)
(* is read and when it is acted on.                                        *)
StillSo(call) ==
  /\ call.pc = "reading" => dumpFile = screen
  /\ call.pc = "tapping" => screen = call.on
  /\ call.pc = "typing" /\ call.tapped /\ call.node.takes = "focus" =>
       screen = call.on /\ focus = call.node.at

CallKept(c) ==
  /\ scall[c].pc = "idle" => TouchedNothing(c)
  /\ scall[c].pc # "idle" =>
    /\ scall[c].pc \in Path(scall[c])
    /\ scall[c].dry => scall[c].pc \in DryPath /\ TouchedNothing(c)
    /\ scall[c].pc \in {"tapping", "typing"} => Aimed(scall[c])
    /\ scall[c].pc \in {"dumping", "reading", "tapping"} =>
         ~scall[c].tapped /\ ~scall[c].success
    /\ scall[c].calm => StillSo(scall[c])
    /\ scall[c].pc \in {"sending", "removing", "done"} /\ scall[c].success
       /\ ~scall[c].dry => DidWhatItSays(c)

ScreenInv == ScreenTyped /\ \A c \in ScreenCalls : CallKept(c)

(* A call that is under way, or has been, is a record.                     *)
LEMMA CalledRecord ==
  ASSUME ScreenTyped, NEW c \in ScreenCalls
  PROVE  /\ scall[c].pc # "idle" => scall[c] \in Called
         /\ CallUnderWay(c) => scall[c].pc # "idle"
<1>1. scall[c] = Rest => scall[c].pc = "idle"
  BY DEF Rest
<1> QED
  BY <1>1 DEF ScreenTyped, CallUnderWay

(* A call that moves at most from calm to not calm keeps what is kept of   *)
(* it, if others only add to the history and a calm call under way finds   *)
(* the screen as it was.                                                   *)
LEMMA Bystander ==
  ASSUME ScreenTyped, NEW d \in ScreenCalls, CallKept(d),
         scall'[d] \in {scall[d], [scall[d] EXCEPT !.calm = FALSE]},
         CallUnderWay(d) => \/ scall'[d] = [scall[d] EXCEPT !.calm = FALSE]
                            \/ UNCHANGED <<screen, focus, dumpFile>>,
         ~CallUnderWay(d) => scall'[d] = scall[d],
         recordings'[d] = recordings[d],
         touched \subseteq touched', typed \subseteq typed',
         \A t \in (touched' \ touched) \cup (typed' \ typed) : t[1] # d
  PROVE  CallKept(d)'
<1>1. CASE scall[d].pc = "idle"
  BY <1>1 DEF CallUnderWay, CallKept, TouchedNothing
<1>2. CASE scall[d].pc # "idle"
  <2>1. scall[d] \in Called
    BY <1>2, CalledRecord
  <2>2. PICK y : y = scall'[d]
    OBVIOUS
  <2>3. PICK x : x = scall[d]
    OBVIOUS
  <2>4. /\ y.tool = x.tool /\ y.dry = x.dry /\ y.node = x.node /\ y.on = x.on
        /\ y.tapped = x.tapped /\ y.success = x.success /\ y.pc = x.pc
        /\ y.calm => x.calm
    BY <2>1, <2>2, <2>3 DEF Called
  <2>5. Path(y) = Path(x) /\ (Aimed(x) => Aimed(y))
    BY <2>4 DEF Path, Aimed
  <2>6. TouchedNothing(d) => TouchedNothing(d)'
    BY DEF TouchedNothing
  <2>7. DidWhatItSays(d) => DidWhatItSays(d)'
    BY <2>2, <2>3, <2>4 DEF DidWhatItSays
  <2>8. y.calm /\ x.pc \in {"reading", "tapping", "typing"} =>
          UNCHANGED <<screen, focus, dumpFile>>
    BY <2>1, <2>2, <2>3 DEF CallUnderWay, Called
  <2>9. StillSo(x) /\ y.calm => StillSo(y)'
    BY <2>4, <2>8 DEF StillSo
  <2> QED
    BY <1>2, <2>2, <2>3, <2>4, <2>5, <2>6, <2>7, <2>9 DEF CallKept
<1> QED
  BY <1>1, <1>2

(* The call of a step is as the step sets it.                              *)
LEMMA SetOwn ==
  ASSUME ScreenTyped, NEW c \in ScreenCalls, NEW y, SetCall(c, y)
  PROVE  scall'[c] = y
BY DEF SetCall, Disturb, ScreenTyped

(* What has to be shown of a step of call c.                               *)
LEMMA ScreenKeeps ==
  ASSUME ScreenInv, NEW c \in ScreenCalls, NEW y \in Called, SetCall(c, y),
         screen' \in Screens, dumpFile' \in Screens,
         focus' \in Places \cup {Nowhere},
         touched' \cup typed' \subseteq
           ScreenCalls \X Screens \X (Places \cup {Nowhere}),
         touched \subseteq touched', typed \subseteq typed',
         \A t \in (touched' \ touched) \cup (typed' \ typed) : t[1] = c,
         recordings' \in [ScreenCalls -> SUBSET {"local", "phone"}],
         \A d \in ScreenCalls \ {c} : recordings'[d] = recordings[d],
         CallKept(c)'
  PROVE  ScreenInv'
<1>1. scall' = [d \in ScreenCalls |->
                  IF d # c /\ CallUnderWay(d)
                    THEN [[scall EXCEPT ![c] = y][d] EXCEPT !.calm = FALSE]
                    ELSE [scall EXCEPT ![c] = y][d]]
  BY DEF SetCall, Disturb
<1>2. scall'[c] = y
      /\ \A d \in ScreenCalls \ {c} :
           scall'[d] = IF CallUnderWay(d) THEN [scall[d] EXCEPT !.calm = FALSE]
                       ELSE scall[d]
  BY <1>1 DEF ScreenInv, ScreenTyped
<1>3. ASSUME NEW d \in ScreenCalls \ {c}, CallUnderWay(d)
      PROVE  [scall[d] EXCEPT !.calm = FALSE] \in Called
  BY <1>3, CalledRecord DEF ScreenInv, Called
<1>4. \A d \in ScreenCalls : scall'[d] \in Called \cup {Rest}
  <2>1. ASSUME NEW d \in ScreenCalls \ {c}
        PROVE  scall'[d] \in Called \cup {Rest}
    <3>1. CASE CallUnderWay(d)
      <4>1. scall'[d] = [scall[d] EXCEPT !.calm = FALSE]
        BY <1>2, <3>1
      <4> QED
        BY <1>3, <3>1, <4>1
    <3>2. CASE ~CallUnderWay(d)
      <4>1. scall'[d] = scall[d]
        BY <1>2, <3>2
      <4> QED
        BY <4>1 DEF ScreenInv, ScreenTyped
    <3> QED
      BY <3>1, <3>2
  <2> QED
    BY <1>2, <2>1
<1>5. ScreenTyped'
  BY <1>1, <1>4 DEF ScreenTyped
<1>6. ASSUME NEW d \in ScreenCalls \ {c} PROVE CallKept(d)'
  BY <1>2, Bystander DEF ScreenInv
<1> QED
  BY <1>5, <1>6 DEF ScreenInv

(* A step that leaves the phone alone.                                     *)
LEMMA QuietKeeps ==
  ASSUME ScreenInv, NEW c \in ScreenCalls, NEW y \in Called, SetCall(c, y),
         UNCHANGED <<screen, focus, touched, typed, recordings>>,
         dumpFile' \in Screens, CallKept(c)'
  PROVE  ScreenInv'
BY ScreenKeeps DEF ScreenInv, ScreenTyped

(* A call starts with the first of its steps.                              *)
LEMMA ScreenStarts ==
  ASSUME ScreenInv, ScreenMarkerAssumption, ScreenToolsAssumption,
         NEW c \in ScreenCalls, StartCall(c)
  PROVE  ScreenInv'
<1>1. PICK tool \in ScreenKit, dry \in BOOLEAN, q \in Queries,
           only \in BOOLEAN, index \in 0..1, submit \in BOOLEAN :
        /\ tool \in {"tap", "type"} \/ (q = CHOOSE x \in Queries : TRUE)
        /\ tool \in {"tap", "type"} \/ (~only /\ index = 0)
        /\ tool = "type" \/ ~submit
        /\ scall' = [scall EXCEPT ![c] =
          [tool |-> tool, dry |-> dry, query |-> q, only |-> only,
           index |-> index, submit |-> submit, attempt |-> 1,
           node |-> Nowhere, on |-> Nowhere, tapped |-> FALSE,
           success |-> tool \in {"swipe", "key", "shot", "record"} /\ dry,
           calm |-> \A d \in ScreenCalls : ~CallUnderWay(d),
           pc |-> FirstStep(tool, dry)]]
  BY DEF StartCall
<1>2. PICK y :
        y = [tool |-> tool, dry |-> dry, query |-> q, only |-> only,
             index |-> index, submit |-> submit, attempt |-> 1,
             node |-> Nowhere, on |-> Nowhere, tapped |-> FALSE,
             success |-> tool \in {"swipe", "key", "shot", "record"} /\ dry,
             calm |-> \A d \in ScreenCalls : ~CallUnderWay(d),
             pc |-> FirstStep(tool, dry)]
  OBVIOUS
<1> tool \in ScreenActs
  BY DEF ScreenToolsAssumption, ScreenActs
<1>3. /\ tool \in {"find", "tap", "type"} => FirstStep(tool, dry) = "dumping"
      /\ tool \in {"swipe", "key"} =>
           FirstStep(tool, dry) = IF dry THEN "done" ELSE "sending"
      /\ tool \in {"shot", "record"} =>
           FirstStep(tool, dry) = IF dry THEN "done" ELSE "capturing"
  BY DEF FirstStep
<1>4. PICK well \in BOOLEAN :
        well = (tool \in {"swipe", "key", "shot", "record"} /\ dry)
  OBVIOUS
<1>5. PICK calm \in BOOLEAN :
        calm = \A d \in ScreenCalls : ~CallUnderWay(d)
  OBVIOUS
<1>6. /\ y \in Called /\ y.tool = tool /\ y.dry = dry /\ y.success = well
      /\ y.pc = FirstStep(tool, dry) /\ y.tapped = FALSE
  <2>1. FirstStep(tool, dry) \in ScreenPCs
    BY <1>3 DEF ScreenActs, ScreenPCs
  <2> QED
    BY <1>2, <1>4, <1>5, <2>1 DEF Called
<1>7. /\ scall' = [scall EXCEPT ![c] = y] /\ scall'[c] = y
      /\ \A d \in ScreenCalls \ {c} : scall'[d] = scall[d]
  BY <1>1, <1>2 DEF ScreenInv, ScreenTyped
<1>8. UNCHANGED <<screen, focus, dumpFile, touched, typed, recordings>>
  BY DEF StartCall
<1>9. ScreenTyped'
  BY <1>6, <1>7, <1>8 DEF ScreenInv, ScreenTyped
<1>10. ASSUME NEW d \in ScreenCalls \ {c} PROVE CallKept(d)'
  BY <1>7, <1>8, Bystander DEF ScreenInv
<1>11. TouchedNothing(c)'
  BY <1>8 DEF StartCall, ScreenInv, CallKept, TouchedNothing
<1>12. y.pc \in {"dumping", "sending", "capturing", "done"}
       /\ (y.pc = "done" => y.dry) /\ (y.dry => y.pc \in DryPath)
       /\ (y.pc = "dumping" => ~y.success)
  BY <1>3, <1>4, <1>6 DEF ScreenActs, DryPath
<1>13. y.pc \in Path(y)
  BY <1>3, <1>6 DEF Path, ScreenActs
<1>14. y.pc = "sending" => ~y.success
  BY <1>3, <1>4, <1>6 DEF ScreenActs
<1>15. CallKept(c)'
  BY <1>6, <1>7, <1>11, <1>12, <1>13, <1>14 DEF CallKept, StillSo
<1> QED
  BY <1>9, <1>10, <1>15 DEF ScreenInv

(* Which tool is in which step.                                            *)
LEMMA Paths ==
  ASSUME NEW x \in Called, x.pc \in Path(x)
  PROVE  /\ x.pc \in {"dumping", "reading"} => x.tool \in {"find", "tap", "type"}
         /\ x.pc = "tapping" => x.tool \in {"tap", "type"}
         /\ x.pc = "typing" => x.tool = "type"
         /\ x.pc = "sending" => x.tool \in {"type", "swipe", "key"}
         /\ x.pc \in {"capturing", "pulling", "removing"} =>
              x.tool \in {"shot", "record"}
BY DEF Path, Called, ScreenActs

(* What is read is read from the dump that was made of what is shown, as   *)
(* long as nothing comes in between.                                       *)
LEMMA DumpKeeps ==
  ASSUME ScreenInv, NEW c \in ScreenCalls, DumpScreen(c) \/ DumpFails(c)
  PROVE  ScreenInv'
<1>1. PICK x : x = scall[c]
  OBVIOUS
<1>2. x.pc \in {"dumping", "reading"} /\ x \in Called /\ CallKept(c)
  BY <1>1, CalledRecord DEF DumpScreen, DumpFails, ScreenInv
<1>3. PICK y : /\ SetCall(c, y)
               /\ \/ /\ y = [x EXCEPT !.pc = "reading"] /\ dumpFile' = screen
                  \/ /\ y = [x EXCEPT !.attempt = @ + 1,
                               !.pc = IF x.attempt < 3 THEN "dumping"
                                                       ELSE "raised"]
                     /\ dumpFile' = dumpFile
  BY <1>1 DEF DumpScreen, DumpFails
<1>4. /\ y \in Called /\ y.tool = x.tool /\ y.dry = x.dry
      /\ y.tapped = x.tapped /\ y.success = x.success
      /\ y.pc \in {"dumping", "reading", "raised"}
      /\ y.pc = "reading" => dumpFile' = screen
  <2>1. CASE y = [x EXCEPT !.pc = "reading"] /\ dumpFile' = screen
    BY <1>2, <2>1 DEF Called, ScreenPCs
  <2>2. CASE y = [x EXCEPT !.attempt = @ + 1,
                    !.pc = IF x.attempt < 3 THEN "dumping" ELSE "raised"]
    <3>1. PICK attempt \in Nat : attempt = x.attempt + 1
      BY <1>2 DEF Called
    <3>2. PICK pc \in {"dumping", "raised"} :
            pc = IF x.attempt < 3 THEN "dumping" ELSE "raised"
      OBVIOUS
    <3>3. y = [x EXCEPT !.attempt = attempt, !.pc = pc]
      BY <2>2, <3>1, <3>2
    <3> QED
      BY <1>2, <3>3 DEF Called, ScreenPCs
  <2> QED
    BY <1>3, <2>1, <2>2
<1>5. UNCHANGED <<screen, focus, touched, typed, recordings>>
      /\ dumpFile' \in Screens
  BY <1>3 DEF DumpScreen, DumpFails, ScreenInv, ScreenTyped
<1>6. scall'[c] = y
  BY <1>3, SetOwn DEF ScreenInv
<1>7. y.pc \in Path(y)
  BY <1>1, <1>2, <1>4, Paths DEF CallKept, Path
<1>8. x.dry => TouchedNothing(c)'
  BY <1>1, <1>2, <1>5 DEF CallKept, TouchedNothing
<1>9. CallKept(c)'
  BY <1>1, <1>2, <1>4, <1>5, <1>6, <1>7, <1>8 DEF CallKept, StillSo, DryPath
<1> QED
  BY <1>3, <1>4, <1>5, <1>9, QuietKeeps

(* What is picked is a node of the dump.                                   *)
LEMMA ReadKeeps ==
  ASSUME ScreenInv, NEW c \in ScreenCalls, ReadDump(c)
  PROVE  ScreenInv'
<1>1. PICK x : x = scall[c]
  OBVIOUS
<1>2. x.pc = "reading" /\ x \in Called /\ CallKept(c)
  BY <1>1, CalledRecord DEF ReadDump, ScreenInv
<1>3. UNCHANGED <<screen, focus, dumpFile, touched, typed, recordings>>
  BY DEF ReadDump
<1>4. x.tool \in {"find", "tap", "type"} /\ (x.dry => TouchedNothing(c)')
  BY <1>1, <1>2, <1>3, Paths DEF CallKept, TouchedNothing
<1>5. CASE \/ x.tool = "find" /\ SetCall(c, [x EXCEPT !.pc = "done",
                                                      !.success = TRUE])
           \/ x.tool # "find" /\ SetCall(c, [x EXCEPT !.pc = "raised"])
  <2>1. PICK y : /\ SetCall(c, y)
                 /\ \/ x.tool = "find" /\ y = [x EXCEPT !.pc = "done",
                                                        !.success = TRUE]
                    \/ x.tool # "find" /\ y = [x EXCEPT !.pc = "raised"]
    BY <1>5
  <2>2. /\ y \in Called /\ y.tool = x.tool /\ y.dry = x.dry
        /\ y.pc \in {"done", "raised"} /\ (y.pc = "done" => y.tool = "find")
    BY <1>2, <2>1 DEF Called, ScreenPCs
  <2>3. scall'[c] = y
    BY <2>1, SetOwn DEF ScreenInv
  <2>4. y.pc \in Path(y)
    BY <1>4, <2>2 DEF Path
  <2>5. y.tool = "find" => DidWhatItSays(c)'
    BY <2>3 DEF DidWhatItSays
  <2>6. CallKept(c)'
    BY <1>4, <2>2, <2>3, <2>4, <2>5 DEF CallKept, StillSo, DryPath
  <2> QED
    BY <1>3, <2>1, <2>2, <2>6, QuietKeeps DEF ScreenInv, ScreenTyped
<1>6. ASSUME NEW i \in DOMAIN Layout[dumpFile], x.tool # "find",
             SetCall(c, [x EXCEPT
               !.node = Layout[dumpFile][i], !.on = dumpFile,
               !.tapped = x.dry, !.success = x.dry,
               !.pc = IF x.dry THEN "done" ELSE "tapping"])
      PROVE  ScreenInv'
  <2>1. PICK y : y = [x EXCEPT
               !.node = Layout[dumpFile][i], !.on = dumpFile,
               !.tapped = x.dry, !.success = x.dry,
               !.pc = IF x.dry THEN "done" ELSE "tapping"]
    OBVIOUS
  <2>2. dumpFile \in Screens /\ Layout[dumpFile][i] \in Nodes
    BY DEF ScreenInv, ScreenTyped, Nodes
  <2>3. /\ y \in Called /\ y.tool = x.tool /\ y.dry = x.dry /\ y.calm = x.calm
        /\ y.node = Layout[dumpFile][i] /\ y.on = dumpFile
        /\ y.tapped = x.dry /\ y.success = x.dry
        /\ y.pc = IF x.dry THEN "done" ELSE "tapping"
    BY <1>2, <2>1, <2>2 DEF Called, ScreenPCs
  <2>4. scall'[c] = y /\ SetCall(c, y)
    BY <1>6, <2>1, SetOwn DEF ScreenInv
  <2>5. y.pc \in Path(y) /\ Aimed(y)
    BY <1>4, <1>6, <2>2, <2>3 DEF Path, Aimed
  <2>6. y.calm => StillSo(y)'
    BY <1>1, <1>2, <1>3, <2>3 DEF CallKept, StillSo
  <2>7. y.dry => TouchedNothing(c)' /\ y.pc \in DryPath
    BY <1>4, <2>3 DEF DryPath
  <2>8. ~y.dry => y.pc = "tapping" /\ ~y.tapped /\ ~y.success
    BY <2>3
  <2>9. y.dry => y.pc = "done"
    BY <2>3
  <2>10. CallKept(c)'
    BY <2>4, <2>5, <2>6, <2>7, <2>8, <2>9 DEF CallKept
  <2> QED
    BY <1>3, <2>3, <2>4, <2>10, QuietKeeps DEF ScreenInv, ScreenTyped
<1>7. \A i \in Picked(x) : i \in DOMAIN Layout[dumpFile]
  BY DEF Picked, Matches
<1> QED
  BY <1>1, <1>5, <1>6, <1>7 DEF ReadDump

(* A tap reaches what the dump showed, and gives it the focus if it takes  *)
(* it, as long as nothing comes in between.                                *)
LEMMA TapKeeps ==
  ASSUME ScreenInv, LayoutAssumption, NEW c \in ScreenCalls,
         TapReaches(c) \/ TapFails(c)
  PROVE  ScreenInv'
<1>1. PICK x : x = scall[c]
  OBVIOUS
<1>2. x.pc = "tapping" /\ x \in Called /\ CallKept(c)
  BY <1>1, CalledRecord DEF TapReaches, TapFails, ScreenInv
<1>3. /\ x.tool \in {"tap", "type"} /\ ~x.dry /\ Aimed(x)
      /\ ~x.tapped /\ ~x.success
      /\ (x.calm => screen = x.on)
  BY <1>1, <1>2, Paths DEF CallKept, DryPath, StillSo
<1>4. AfterTap(x) = IF x.tool = "tap" THEN "done" ELSE "typing"
  BY DEF AfterTap
<1>5. PICK place : place = x.node.at
  OBVIOUS
<1>6. /\ x.node \in Nodes /\ place \in Places
  BY <1>3, <1>5 DEF Aimed, Nodes, Places
<1>7. CASE TapFails(c)
  <2>1. PICK y : y = [x EXCEPT !.pc = AfterTap(x)]
    OBVIOUS
  <2>2. /\ y \in Called /\ y.tool = x.tool /\ y.dry = x.dry /\ y.calm = x.calm
        /\ y.node = x.node /\ y.on = x.on /\ ~y.tapped /\ ~y.success
        /\ y.pc = IF x.tool = "tap" THEN "done" ELSE "typing"
    BY <1>2, <1>3, <1>4, <2>1 DEF Called, ScreenPCs
  <2>3. scall'[c] = y /\ SetCall(c, y)
    BY <1>1, <1>7, <2>1, SetOwn DEF TapFails, ScreenInv
  <2>4. y.pc \in Path(y) /\ Aimed(y)
    BY <1>3, <2>2 DEF Path, Aimed
  <2>5. CallKept(c)'
    BY <1>3, <2>2, <2>3, <2>4 DEF CallKept, StillSo
  <2> QED
    BY <1>7, <2>2, <2>3, <2>5, QuietKeeps DEF TapFails, ScreenInv, ScreenTyped
<1>8. CASE TapReaches(c)
  <2>1. PICK y : y = [x EXCEPT !.tapped = TRUE, !.success = x.tool = "tap",
                               !.pc = AfterTap(x)]
    OBVIOUS
  <2>2. PICK won \in BOOLEAN : won = (x.tool = "tap")
    OBVIOUS
  <2>3. /\ y \in Called /\ y.tool = x.tool /\ y.dry = x.dry /\ y.calm = x.calm
        /\ y.node = x.node /\ y.on = x.on /\ y.tapped /\ y.success = won
        /\ y.pc = IF x.tool = "tap" THEN "done" ELSE "typing"
    BY <1>2, <1>3, <1>4, <2>1, <2>2 DEF Called, ScreenPCs
  <2>4. scall'[c] = y /\ SetCall(c, y)
    BY <1>1, <1>8, <2>1, SetOwn DEF TapReaches, ScreenInv
  <2>5. y.pc \in Path(y) /\ Aimed(y)
    BY <1>3, <2>3 DEF Path, Aimed
  <2>6. /\ touched' = touched \cup {<<c, screen, place>>}
        /\ UNCHANGED <<dumpFile, typed, recordings>>
        /\ \/ \E n \in NodeAt(screen, place) :
                n.takes = "focus" /\ focus' = place /\ screen' = screen
           \/ \E n \in NodeAt(screen, place) :
                n.takes = "press" /\ focus' = Nowhere /\ screen' \in Screens
           \/ /\ \A n \in NodeAt(screen, place) : n.takes = "nothing"
              /\ UNCHANGED <<screen, focus>>
    BY <1>1, <1>5, <1>8 DEF TapReaches
  <2>7. /\ screen' \in Screens /\ focus' \in Places \cup {Nowhere}
        /\ touched' \cup typed' \subseteq
             ScreenCalls \X Screens \X (Places \cup {Nowhere})
    BY <1>6, <2>6 DEF ScreenInv, ScreenTyped
  <2>8. ASSUME y.calm, y.node.takes = "focus"
        PROVE  screen' = y.on /\ focus' = y.node.at
    <3>1. screen = x.on /\ x.node.takes = "focus" /\ screen \in Screens
      BY <1>3, <2>3, <2>8 DEF ScreenInv, ScreenTyped
    <3>2. x.node \in NodeAt(screen, place)
      BY <1>3, <1>5, <3>1 DEF Aimed, NodeAt
    <3>3. \A n \in NodeAt(screen, place) : n.takes = "focus"
      BY <1>3, <1>5, <3>1 DEF Aimed, NodeAt, LayoutAssumption
    <3> QED
      BY <1>5, <2>3, <2>6, <3>1, <3>2, <3>3
  <2>9. y.calm => StillSo(y)'
    BY <2>3, <2>8 DEF StillSo
  <2>10. x.tool = "tap" => DidWhatItSays(c)'
    BY <1>3, <1>5, <2>3, <2>4, <2>6 DEF DidWhatItSays
  <2>11. CallKept(c)'
    BY <1>3, <2>3, <2>4, <2>5, <2>9, <2>10 DEF CallKept
  <2>12. \A t \in (touched' \ touched) \cup (typed' \ typed) : t[1] = c
    BY <2>6
  <2> QED
    BY <2>3, <2>4, <2>6, <2>7, <2>11, <2>12, ScreenKeeps
    DEF ScreenInv, ScreenTyped
<1> QED
  BY <1>7, <1>8

(* The text goes to what has the focus.                                    *)
LEMMA TypeKeeps ==
  ASSUME ScreenInv, NEW c \in ScreenCalls, TypeText(c)
  PROVE  ScreenInv'
<1>1. PICK x : x = scall[c]
  OBVIOUS
<1>2. x.pc = "typing" /\ x \in Called /\ CallKept(c)
  BY <1>1, CalledRecord DEF TypeText, ScreenInv
<1>3. /\ x.tool = "type" /\ ~x.dry /\ Aimed(x)
      /\ x.calm /\ x.tapped /\ x.node.takes = "focus" =>
           screen = x.on /\ focus = x.node.at
  BY <1>1, <1>2, Paths DEF CallKept, DryPath, StillSo
<1>4. PICK sent \in BOOLEAN :
        /\ typed' = IF sent THEN typed \cup {<<c, screen, focus>>} ELSE typed
        /\ SetCall(c, [x EXCEPT !.success = TextSuccess(x, sent),
                                !.pc = AfterText(x)])
  BY <1>1 DEF TypeText
<1>5. PICK won \in BOOLEAN : won = TextSuccess(x, sent)
  BY <1>2 DEF TextSuccess, Called
<1>6. PICK after \in {"sending", "done"} : after = AfterText(x)
  BY DEF AfterText
<1>7. PICK y : y = [x EXCEPT !.success = won, !.pc = after]
  OBVIOUS
<1>8. /\ y \in Called /\ y.tool = x.tool /\ y.dry = x.dry /\ y.calm = x.calm
      /\ y.node = x.node /\ y.on = x.on /\ y.success = won /\ y.pc = after
  BY <1>2, <1>7 DEF Called, ScreenPCs
<1>9. scall'[c] = y /\ SetCall(c, y)
  BY <1>4, <1>5, <1>6, <1>7, SetOwn DEF ScreenInv
<1>10. won => x.tapped /\ typed' = typed \cup {<<c, screen, focus>>}
  BY <1>4, <1>5 DEF TextSuccess
<1>11. won => DidWhatItSays(c)'
  BY <1>3, <1>8, <1>9, <1>10 DEF DidWhatItSays
<1>12. y.pc \in Path(y)
  BY <1>3, <1>8 DEF Path
<1>13. CallKept(c)'
  BY <1>3, <1>8, <1>9, <1>11, <1>12 DEF CallKept, StillSo
<1>14. UNCHANGED <<screen, focus, dumpFile, touched, recordings>>
  BY DEF TypeText
<1>15. /\ touched' \cup typed' \subseteq
            ScreenCalls \X Screens \X (Places \cup {Nowhere})
       /\ touched \subseteq touched' /\ typed \subseteq typed'
       /\ \A t \in (touched' \ touched) \cup (typed' \ typed) : t[1] = c
  BY <1>4, <1>14 DEF ScreenInv, ScreenTyped
<1> QED
  BY <1>8, <1>9, <1>13, <1>14, <1>15, ScreenKeeps DEF ScreenInv, ScreenTyped

(* A key leaves what was typed before it.                                  *)
LEMMA KeyKeeps ==
  ASSUME ScreenInv, NEW c \in ScreenCalls, SendKey(c)
  PROVE  ScreenInv'
<1>1. PICK x : x = scall[c]
  OBVIOUS
<1>2. x.pc = "sending" /\ x \in Called /\ CallKept(c)
  BY <1>1, CalledRecord DEF SendKey, ScreenInv
<1>3. /\ x.tool \in {"type", "swipe", "key"} /\ ~x.dry
      /\ x.success => DidWhatItSays(c)
  BY <1>1, <1>2, Paths DEF CallKept, DryPath
<1>4. PICK sent \in BOOLEAN :
        /\ screen' \in (IF sent THEN Screens ELSE {screen})
        /\ focus' = IF screen' = screen THEN focus ELSE Nowhere
        /\ SetCall(c, [x EXCEPT !.pc = "done",
             !.success = IF x.tool = "type" THEN @ ELSE sent])
  BY <1>1 DEF SendKey
<1>5. PICK won \in BOOLEAN : won = IF x.tool = "type" THEN x.success ELSE sent
  BY <1>2 DEF Called
<1>6. PICK y : y = [x EXCEPT !.pc = "done", !.success = won]
  OBVIOUS
<1>7. /\ y \in Called /\ y.tool = x.tool /\ y.dry = x.dry /\ y.calm = x.calm
      /\ y.node = x.node /\ y.on = x.on /\ y.success = won /\ y.pc = "done"
  BY <1>2, <1>6 DEF Called, ScreenPCs
<1>8. [x EXCEPT !.pc = "done", !.success = IF x.tool = "type" THEN @ ELSE sent]
        = y
  BY <1>2, <1>5, <1>6 DEF Called
<1>9. scall'[c] = y /\ SetCall(c, y)
  BY <1>4, <1>8, SetOwn DEF ScreenInv
<1>10. UNCHANGED <<dumpFile, touched, typed, recordings>>
  BY DEF SendKey
<1>11. won => DidWhatItSays(c)'
  BY <1>1, <1>3, <1>5, <1>7, <1>9, <1>10 DEF DidWhatItSays
<1>12. y.pc \in Path(y)
  BY <1>3, <1>7 DEF Path
<1>13. CallKept(c)'
  BY <1>3, <1>7, <1>9, <1>11, <1>12 DEF CallKept, StillSo
<1>14. screen' \in Screens /\ focus' \in Places \cup {Nowhere}
  BY <1>4 DEF ScreenInv, ScreenTyped
<1> QED
  BY <1>7, <1>9, <1>10, <1>13, <1>14, ScreenKeeps DEF ScreenInv, ScreenTyped

(* A picture is here when it is made, a recording when it is pulled.       *)
LEMMA CaptureKeeps ==
  ASSUME ScreenInv, NEW c \in ScreenCalls,
         Capture(c) \/ Pull(c) \/ RemoveRemote(c)
  PROVE  ScreenInv'
<1>1. PICK x : x = scall[c]
  OBVIOUS
<1>2. x.pc \in {"capturing", "pulling", "removing"} /\ x \in Called
      /\ CallKept(c)
  BY <1>1, CalledRecord DEF Capture, Pull, RemoveRemote, ScreenInv
<1>3. x.tool \in {"shot", "record"} /\ ~x.dry
  BY <1>1, <1>2, Paths DEF CallKept, DryPath
<1>4. /\ recordings[c] \in SUBSET {"local", "phone"}
      /\ UNCHANGED <<screen, focus, dumpFile, touched, typed>>
  BY DEF ScreenInv, ScreenTyped, Capture, Pull, RemoveRemote
<1>5. ASSUME NEW y \in Called, NEW kept \in SUBSET {"local", "phone"},
             SetCall(c, y), recordings' = [recordings EXCEPT ![c] = kept],
             y.tool = x.tool, y.dry = x.dry,
             y.pc \in {"pulling", "removing", "done"},
             y.pc \in {"removing", "done"} /\ y.success => "local" \in kept
      PROVE  ScreenInv'
  <2>1. scall'[c] = y
    BY <1>5, SetOwn DEF ScreenInv
  <2>2. /\ recordings' \in [ScreenCalls -> SUBSET {"local", "phone"}]
        /\ recordings'[c] = kept
        /\ \A d \in ScreenCalls \ {c} : recordings'[d] = recordings[d]
    BY <1>5 DEF ScreenInv, ScreenTyped
  <2>3. y.pc \in Path(y)
    BY <1>3, <1>5 DEF Path
  <2>4. "local" \in kept => DidWhatItSays(c)'
    BY <1>3, <1>5, <2>1, <2>2 DEF DidWhatItSays
  <2>5. CallKept(c)'
    BY <1>3, <1>5, <2>1, <2>3, <2>4 DEF CallKept, StillSo
  <2> QED
    BY <1>4, <1>5, <2>2, <2>5, ScreenKeeps DEF ScreenInv, ScreenTyped
<1>6. CASE Capture(c)
  <2>1. PICK made \in BOOLEAN :
          LET shot == x.tool = "shot"
          IN  /\ recordings' = [recordings EXCEPT ![c] =
                   IF ~made THEN {} ELSE IF shot THEN {"local"} ELSE {"phone"}]
              /\ SetCall(c, [x EXCEPT
                   !.success = made /\ shot,
                   !.pc = IF made /\ ~shot THEN "pulling" ELSE "done"])
    BY <1>1, <1>6 DEF Capture
  <2>2. PICK shot \in BOOLEAN : shot = (x.tool = "shot")
    OBVIOUS
  <2>3. PICK kept : kept = IF ~made THEN {}
                           ELSE IF shot THEN {"local"} ELSE {"phone"}
    OBVIOUS
  <2>4. PICK won \in BOOLEAN : won = (made /\ shot)
    OBVIOUS
  <2>5. PICK after : after = IF made /\ ~shot THEN "pulling" ELSE "done"
    OBVIOUS
  <2>6. PICK y : y = [x EXCEPT !.success = won, !.pc = after]
    OBVIOUS
  <2>7. SetCall(c, y) /\ recordings' = [recordings EXCEPT ![c] = kept]
    BY <2>1, <2>2, <2>3, <2>4, <2>5, <2>6
  <2>8. after \in {"pulling", "done"} /\ kept \in SUBSET {"local", "phone"}
        /\ (won => "local" \in kept)
    BY <2>3, <2>4, <2>5
  <2>9. /\ y \in Called /\ y.tool = x.tool /\ y.dry = x.dry
        /\ y.success = won /\ y.pc = after
    BY <1>2, <2>6, <2>8 DEF Called, ScreenPCs
  <2> QED
    BY <1>5, <2>7, <2>8, <2>9
<1>7. CASE Pull(c)
  <2>1. PICK pulled \in BOOLEAN :
          /\ recordings' = [recordings EXCEPT ![c] =
               @ \cup (IF pulled THEN {"local"} ELSE {})]
          /\ SetCall(c, [x EXCEPT !.success = pulled, !.pc = "removing"])
    BY <1>1, <1>7 DEF Pull
  <2>2. PICK kept : kept = recordings[c] \cup (IF pulled THEN {"local"} ELSE {})
    OBVIOUS
  <2>3. PICK y : y = [x EXCEPT !.success = pulled, !.pc = "removing"]
    OBVIOUS
  <2>4. recordings' = [recordings EXCEPT ![c] = kept] /\ SetCall(c, y)
    BY <2>1, <2>2, <2>3 DEF ScreenInv, ScreenTyped
  <2>5. kept \in SUBSET {"local", "phone"} /\ (pulled => "local" \in kept)
    BY <1>4, <2>2
  <2>6. /\ y \in Called /\ y.tool = x.tool /\ y.dry = x.dry
        /\ y.success = pulled /\ y.pc = "removing"
    BY <1>2, <2>3 DEF Called, ScreenPCs
  <2> QED
    BY <1>5, <2>4, <2>5, <2>6
<1>8. CASE RemoveRemote(c)
  <2>1. PICK removed \in BOOLEAN :
          recordings' = [recordings EXCEPT ![c] =
            IF removed THEN @ \ {"phone"} ELSE @]
    BY <1>8 DEF RemoveRemote
  <2>2. PICK kept : kept = IF removed THEN recordings[c] \ {"phone"}
                           ELSE recordings[c]
    OBVIOUS
  <2>3. PICK y : y = [x EXCEPT !.pc = "done"]
    OBVIOUS
  <2>4. recordings' = [recordings EXCEPT ![c] = kept] /\ SetCall(c, y)
    BY <1>1, <1>8, <2>1, <2>2, <2>3
    DEF RemoveRemote, ScreenInv, ScreenTyped
  <2>5. kept \in SUBSET {"local", "phone"}
        /\ ("local" \in recordings[c] => "local" \in kept)
    BY <1>4, <2>2
  <2>6. /\ y \in Called /\ y.tool = x.tool /\ y.dry = x.dry
        /\ y.success = x.success /\ y.pc = "done"
    BY <1>2, <2>3 DEF Called, ScreenPCs
  <2>7. x.success => "local" \in recordings[c]
    BY <1>1, <1>2, <1>3, <1>8 DEF RemoveRemote, CallKept, DidWhatItSays
  <2> QED
    BY <1>5, <2>4, <2>5, <2>6, <2>7
<1> QED
  BY <1>6, <1>7, <1>8

(* The screen moves on: no call under way is calm then.                    *)
LEMMA MoveKeeps ==
  ASSUME ScreenInv, ScreenMarkerAssumption, ScreenMoves
  PROVE  ScreenInv'
<1>1. \A d \in ScreenCalls :
        scall'[d] = IF CallUnderWay(d) THEN [scall[d] EXCEPT !.calm = FALSE]
                    ELSE scall[d]
  BY DEF ScreenMoves, Disturb, ScreenMarkerAssumption
<1>2. ASSUME NEW d \in ScreenCalls
      PROVE  scall'[d] \in Called \cup {Rest}
  <2>1. CASE CallUnderWay(d)
    <3>1. scall[d] \in Called
      BY <2>1, CalledRecord DEF ScreenInv
    <3>2. [scall[d] EXCEPT !.calm = FALSE] \in Called
      BY <3>1 DEF Called
    <3> QED
      BY <1>1, <2>1, <3>2
  <2>2. CASE ~CallUnderWay(d)
    <3>1. scall'[d] = scall[d]
      BY <1>1, <2>2
    <3> QED
      BY <3>1 DEF ScreenInv, ScreenTyped
  <2> QED
    BY <2>1, <2>2
<1>3. /\ screen' \in Screens /\ focus' = Nowhere
      /\ UNCHANGED <<dumpFile, touched, typed, recordings>>
      /\ \E g : scall' = [d \in ScreenCalls |-> g[d]]
  <2>1. PICK g : g = [d \in ScreenCalls |-> scall'[d]]
    OBVIOUS
  <2>2. scall' = [d \in ScreenCalls |-> g[d]]
    BY <2>1 DEF ScreenMoves, Disturb
  <2> QED
    BY <2>2 DEF ScreenMoves
<1>4. ScreenTyped'
  BY <1>2, <1>3 DEF ScreenInv, ScreenTyped
<1>5. ASSUME NEW d \in ScreenCalls PROVE CallKept(d)'
  BY <1>1, <1>3, Bystander DEF ScreenInv
<1> QED
  BY <1>4, <1>5 DEF ScreenInv

(* The invariant holds at first, and after every step.                     *)
LEMMA ScreenInvAlways == ScreenSpec => []ScreenInv
<1>1. ScreenInit => ScreenInv
  <2> SUFFICES ASSUME ScreenInit PROVE ScreenInv
    OBVIOUS
  <2>1. screen \in Screens
    BY LayoutAssumption DEF LayoutAssumption, ScreenInit
  <2>2. ScreenTyped
    BY <2>1 DEF ScreenInit, ScreenTyped
  <2>3. \A c \in ScreenCalls : CallKept(c)
    BY DEF ScreenInit, CallKept, TouchedNothing, Rest
  <2> QED
    BY <2>2, <2>3 DEF ScreenInv
<1>2. ScreenInv /\ [ScreenNext]_screenVars => ScreenInv'
  <2> SUFFICES ASSUME ScreenInv, [ScreenNext]_screenVars PROVE ScreenInv'
    OBVIOUS
  <2>1. CASE ScreenMoves
    BY <2>1, ScreenMarkerAssumption, MoveKeeps
  <2>2. ASSUME NEW c \in ScreenCalls, ScreenStep(c) PROVE ScreenInv'
    BY <2>2, ScreenMarkerAssumption, ScreenToolsAssumption, LayoutAssumption,
       ScreenStarts, DumpKeeps, ReadKeeps, TapKeeps, TypeKeeps, KeyKeeps,
       CaptureKeeps
    DEF ScreenStep
  <2>3. CASE UNCHANGED screenVars
    <3>1. ScreenTyped'
      BY <2>3 DEF screenVars, ScreenInv, ScreenTyped
    <3>2. ASSUME NEW d \in ScreenCalls PROVE CallKept(d)'
      BY <2>3, Bystander DEF screenVars, ScreenInv
    <3> QED
      BY <3>1, <3>2 DEF ScreenInv
  <2> QED
    BY <2>1, <2>2, <2>3 DEF ScreenNext
<1> QED
  BY <1>1, <1>2, PTL DEF ScreenSpec

-----------------------------------------------------------------------------
(* Whatever is called, fails and moves: the variables keep their types.    *)
THEOREM ScreenKeepsTypes == ScreenSpec => []ScreenTypeOK
<1>1. ScreenInv => ScreenTypeOK
  <2> SUFFICES ASSUME ScreenInv PROVE ScreenTypeOK
    OBVIOUS
  <2>1. ASSUME NEW c \in ScreenCalls
        PROVE  scall[c].pc \in ScreenPCs \cup {"idle"}
    <3>1. scall[c] \in Called \cup {Rest}
      BY DEF ScreenInv, ScreenTyped
    <3> QED
      BY <3>1 DEF Called, Rest
  <2> QED
    BY <2>1 DEF ScreenTypeOK, ScreenInv, ScreenTyped, ScreenPCs
<1> QED
  BY <1>1, ScreenInvAlways, PTL

(* A call that reports success has done what it was asked to, unless the   *)
(* screen moved or another call came in between; and a dry run has touched *)
(* nothing.  Of any layout in which nodes at one place take a tap alike.   *)
THEOREM SuccessIsTrue == ScreenSpec => []ScreenSuccessIsTrue
<1>1. ScreenInv => ScreenSuccessIsTrue
  BY DEF ScreenInv, CallKept, TouchedNothing, ScreenSuccessIsTrue
<1> QED
  BY <1>1, ScreenInvAlways, PTL

-----------------------------------------------------------------------------
(* Browser.  A call is a record from its start on.                         *)
Visiting == {"looking", "capturing", "acting"}
Connecting == {"pairing", "kicking", "connecting"}
Settled == Visiting \cup {"listing", "going"}
BrowserSteps == Settled \cup Connecting \cup {"removing"}
TabRecord == [id : TabIds, page : Pages, next : Pages \cup {Nothere}]
Driven ==
  [tool : BrowserTools, want : Wanted \cup {Nothere},
   url : Urls \cup {Nothere}, lock : TabIds \cup {Nothere},
   tab : TabIds \cup {Nothere}, candidate : 1..Len(Sockets), ok : BOOLEAN,
   success : BOOLEAN, visited : SUBSET (SocketSet \X TabIds),
   calm : BOOLEAN, todo : Seq(BrowserSteps),
   pc : BrowserSteps \cup
          {"start", "forwarding", "asking", "cleaning", "done", "raised"}]

BrowserTyped ==
  /\ adb \in {"missing", "unpaired", "offline", "device"}
  /\ running \subseteq SocketSet
  /\ port \in SocketSet \cup {Nothere}
  /\ tabs \in [SocketSet -> Seq(TabRecord)]
  /\ bcall \in [BrowserCalls -> Driven \cup {AtRest}]
  /\ browserUpsets \in 0..MaxBrowserUpsets

(* A tab is found by a filter again only before the call did anything in   *)
(* one, or went somewhere: from there on it is found by its id.            *)
GoesFirst(s) ==
  \A i, j \in 1..Len(s) : i < j /\ s[i] \in Visiting /\ s[j] = "listing" =>
    \E k \in 1..Len(s) : k < i /\ s[k] = "going"
Linked(s) ==
  \A i, j \in 1..Len(s) : i < j /\ s[i] \in Connecting => s[j] = "connecting"
OneTab(x) ==
  /\ x.lock \in {Nothere, x.tab}
  /\ \A v \in x.visited : v[2] = x.tab
OnScript(x) ==
  /\ OneTab(x) /\ Linked(x.todo)
  /\ x.pc \in Connecting => \A i \in 1..Len(x.todo) : x.todo[i] = "connecting"
  /\ x.pc # "raised" /\ x.lock = Nothere =>
       /\ x.pc = "going" \/ GoesFirst(x.todo)
       /\ x.pc \in Visiting \/ x.visited # {} => ~Ahead(x, "listing")

(* The first browser of the list that runs is the one that is found.       *)
NoneBefore(k) == \A j \in 1..Len(Sockets) : j < k => Sockets[j] \notin running
IsFirst(s) ==
  \E k \in 1..Len(Sockets) : Sockets[k] = s /\ s \in running /\ NoneBefore(k)
FindsFirst(x) ==
  adb = "device" =>
    /\ x.pc \in {"removing", "forwarding", "asking"} => NoneBefore(x.candidate)
    /\ x.pc = "asking" => x.ok /\ port = Sockets[x.candidate]
    /\ x.pc = "cleaning" /\ ~x.ok => NoneBefore(x.candidate + 1)
    /\ x.pc \in Settled /\ port \in running => IsFirst(port)

(* Click and fill act once, and say so.                                    *)
ActsOnce(c, x) ==
  /\ Once(x.todo, "acting")
  /\ x.pc \in {"acting", "done"} => ~Later(x, "acting")
  /\ IF Ahead(x, "acting") THEN <<c, x.tool>> \notin acts
     ELSE x.pc # "raised" => (x.success <=> <<c, x.tool>> \in acts)

DrivenWell(c, x) ==
  /\ OnScript(x)
  /\ x.calm => \A v, w \in x.visited : v = w
  /\ x.calm /\ x.pc \notin {"done", "raised"} =>
       FindsFirst(x) /\ \A v \in x.visited : IsFirst(v[1])
  /\ x.tool \in {"click", "fill"} => ActsOnce(c, x)

BrowserKept(c) ==
  IF bcall[c].pc = "idle" THEN \A a \in acts : a[1] # c
  ELSE bcall[c].pc # "start" /\ DrivenWell(c, bcall[c])

BrowserInv == BrowserTyped /\ \A c \in BrowserCalls : BrowserKept(c)

(* What a step may be followed by.                                         *)
Unlinked(s) == \A i \in 1..Len(s) : s[i] \notin Connecting
Going(s) == Len(s) > 2 /\ s[1] = "removing" /\ s[2] = "listing" /\ s[3] = "going"

(* Joining scripts joins what they hold.                                   *)
LEMMA ScriptsJoined ==
  ASSUME NEW s \in Seq(BrowserSteps), NEW t \in Seq(BrowserSteps)
  PROVE  /\ s \o t \in Seq(BrowserSteps) /\ Len(s \o t) = Len(s) + Len(t)
         /\ \A i \in 1..Len(s) : (s \o t)[i] = s[i]
         /\ \A i \in 1..Len(t) : (s \o t)[Len(s) + i] = t[i]
         /\ \A i \in 1..Len(s \o t) :
              i \in 1..Len(s) \/ \E j \in 1..Len(t) : i = Len(s) + j
         /\ Unlinked(s) /\ Unlinked(t) => Unlinked(s \o t)
         /\ Going(s) => Going(s \o t)
<1>1. /\ s \o t \in Seq(BrowserSteps) /\ Len(s \o t) = Len(s) + Len(t)
      /\ \A i \in 1..Len(s) : (s \o t)[i] = s[i]
      /\ \A i \in 1..Len(t) : (s \o t)[Len(s) + i] = t[i]
  OBVIOUS
<1>2. PICK m \in Nat : m = Len(s)
  OBVIOUS
<1>3. PICK n \in Nat : n = Len(t)
  OBVIOUS
<1>4. \A i \in 1..Len(s \o t) :
        i \in 1..Len(s) \/ \E j \in 1..Len(t) : i = Len(s) + j
  <2> TAKE i \in 1..Len(s \o t)
  <2>1. CASE i > m
    <3>1. i - m \in 1..n /\ i = m + (i - m)
      BY <1>1, <1>2, <1>3, <2>1
    <3> QED
      BY <1>2, <1>3, <3>1
  <2> QED
    BY <1>1, <1>2, <1>3, <2>1
<1>5. Unlinked(s) /\ Unlinked(t) => Unlinked(s \o t)
  BY <1>1, <1>4 DEF Unlinked
<1>6. Going(s) => Going(s \o t)
  BY <1>1, <1>2, <1>3 DEF Going
<1> QED
  BY <1>1, <1>4, <1>5, <1>6

(* What such a script does is in order.                                    *)
LEMMA InOrder ==
  ASSUME NEW s \in Seq(BrowserSteps), Unlinked(s)
  PROVE  /\ Linked(s)
         /\ Going(s) => GoesFirst(s)
         /\ (Len(s) > 0 => s[1] = "removing")
            /\ (\A j \in 1..Len(s) : s[j] = "listing" => j = 2) =>
              GoesFirst(s)
<1>1. Linked(s)
  BY DEF Linked, Unlinked
<1>2. ASSUME Going(s), NEW i \in 1..Len(s), s[i] \in Visiting
      PROVE  3 \in 1..Len(s) /\ 3 < i /\ s[3] = "going"
  <2>1. i \notin {1, 2, 3}
    BY <1>2 DEF Going, Visiting
  <2> QED
    BY <1>2, <2>1 DEF Going
<1>3. Going(s) => GoesFirst(s)
  BY <1>2 DEF GoesFirst
<1>4. ASSUME Len(s) > 0 => s[1] = "removing",
             \A j \in 1..Len(s) : s[j] = "listing" => j = 2,
             NEW i \in 1..Len(s), NEW j \in 1..Len(s), i < j,
             s[i] \in Visiting, s[j] = "listing"
      PROVE  FALSE
  <2>1. i = 1 /\ s[1] = "removing"
    BY <1>4
  <2> QED
    BY <1>4, <2>1 DEF Visiting
<1> QED
  BY <1>1, <1>3, <1>4 DEF GoesFirst

(* The scripts' pieces.                                                    *)
LEMMA ShortScript ==
  ASSUME NEW t \in Seq(BrowserSteps), Unlinked(t),
         \A i \in 1..Len(t) : t[i] # "listing"
  PROVE  LET s == Resolve \o t
         IN  /\ s \in Seq(BrowserSteps) /\ Len(s) = 2 + Len(t)
             /\ s[1] = "removing" /\ s[2] = "listing"
             /\ \A i \in 1..Len(t) : s[2 + i] = t[i]
             /\ \A i \in 1..Len(s) :
                  i \in {1, 2} \/ \E j \in 1..Len(t) : i = 2 + j
             /\ Unlinked(s) /\ Linked(s) /\ GoesFirst(s)
<1>1. PICK r : r = Resolve
  OBVIOUS
<1>2. /\ r \in Seq(BrowserSteps) /\ Len(r) = 2
      /\ r[1] = "removing" /\ r[2] = "listing" /\ Unlinked(r)
  BY <1>1 DEF Resolve, BrowserSteps, Settled, Visiting, Connecting, Unlinked
<1>3. PICK n \in Nat : n = Len(t)
  OBVIOUS
<1>4. /\ r \o t \in Seq(BrowserSteps) /\ Len(r \o t) = 2 + n
      /\ (r \o t)[1] = "removing" /\ (r \o t)[2] = "listing"
      /\ \A i \in 1..n : (r \o t)[2 + i] = t[i]
      /\ \A i \in 1..Len(r \o t) : i \in {1, 2} \/ \E j \in 1..n : i = 2 + j
      /\ Unlinked(r \o t)
  <2>1. /\ r \o t \in Seq(BrowserSteps) /\ Len(r \o t) = Len(r) + Len(t)
        /\ \A i \in 1..Len(r) : (r \o t)[i] = r[i]
        /\ \A i \in 1..Len(t) : (r \o t)[Len(r) + i] = t[i]
        /\ \A i \in 1..Len(r \o t) :
             i \in 1..Len(r) \/ \E j \in 1..Len(t) : i = Len(r) + j
        /\ Unlinked(r \o t)
    BY <1>2, ScriptsJoined
  <2>2. \A i \in 1..Len(r \o t) : i \in {1, 2} \/ \E j \in 1..n : i = 2 + j
    BY <1>2, <1>3, <2>1
  <2> QED
    BY <1>2, <1>3, <2>1, <2>2
<1>5. \A i \in 1..Len(r \o t) : (r \o t)[i] = "listing" => i = 2
  BY <1>3, <1>4
<1>6. Linked(r \o t) /\ GoesFirst(r \o t)
  BY <1>4, <1>5, InOrder
<1> QED
  BY <1>1, <1>3, <1>4, <1>6

(* The scripts that go somewhere go there third.                           *)
LEMMA LongScripts ==
  LET s == Resolve \o <<"going">> \o Resolve \o <<"looking">>
      t == s \o Resolve \o <<"looking">>
  IN  /\ s \in Seq(BrowserSteps) /\ Going(s) /\ Unlinked(s)
      /\ t \in Seq(BrowserSteps) /\ Going(t) /\ Unlinked(t)
<1>1. PICK r : r = Resolve
  OBVIOUS
<1>2. r \in Seq(BrowserSteps) /\ Len(r) = 2 /\ Unlinked(r)
      /\ r[1] = "removing" /\ r[2] = "listing"
  BY <1>1 DEF Resolve, BrowserSteps, Settled, Visiting, Connecting, Unlinked
<1>3. PICK g : g = <<"going">>
  OBVIOUS
<1>4. g \in Seq(BrowserSteps) /\ Len(g) = 1 /\ g[1] = "going" /\ Unlinked(g)
  BY <1>3 DEF BrowserSteps, Settled, Visiting, Connecting, Unlinked
<1>5. PICK l : l = <<"looking">>
  OBVIOUS
<1>6. l \in Seq(BrowserSteps) /\ Unlinked(l)
  BY <1>5 DEF BrowserSteps, Settled, Visiting, Connecting, Unlinked
<1>7. r \o g \in Seq(BrowserSteps) /\ Unlinked(r \o g) /\ Going(r \o g)
  <2>1. /\ r \o g \in Seq(BrowserSteps) /\ Unlinked(r \o g)
        /\ Len(r \o g) = 3 /\ (r \o g)[1] = r[1] /\ (r \o g)[2] = r[2]
        /\ (r \o g)[3] = g[1]
    <3>1. /\ r \o g \in Seq(BrowserSteps) /\ Unlinked(r \o g)
          /\ Len(r \o g) = Len(r) + Len(g)
          /\ \A i \in 1..Len(r) : (r \o g)[i] = r[i]
          /\ \A i \in 1..Len(g) : (r \o g)[Len(r) + i] = g[i]
      BY <1>2, <1>4, ScriptsJoined
    <3>2. (r \o g)[2 + 1] = g[1] /\ 2 + 1 = 3
      BY <1>2, <1>4, <3>1
    <3> QED
      BY <1>2, <1>4, <3>1, <3>2
  <2> QED
    BY <1>2, <1>4, <2>1 DEF Going
<1>8. PICK a : a = r \o g
  OBVIOUS
<1>9. PICK b : b = a \o r
  OBVIOUS
<1>10. b \in Seq(BrowserSteps) /\ Unlinked(b) /\ Going(b)
  BY <1>2, <1>7, <1>8, <1>9, ScriptsJoined
<1>11. PICK s : s = b \o l
  OBVIOUS
<1>12. s \in Seq(BrowserSteps) /\ Unlinked(s) /\ Going(s)
  BY <1>6, <1>10, <1>11, ScriptsJoined
<1>13. PICK d : d = s \o r
  OBVIOUS
<1>14. d \in Seq(BrowserSteps) /\ Unlinked(d) /\ Going(d)
  BY <1>2, <1>12, <1>13, ScriptsJoined
<1>15. PICK t : t = d \o l
  OBVIOUS
<1>16. t \in Seq(BrowserSteps) /\ Unlinked(t) /\ Going(t)
  BY <1>6, <1>14, <1>15, ScriptsJoined
<1> QED
  BY <1>1, <1>3, <1>5, <1>8, <1>9, <1>11, <1>12, <1>13, <1>15, <1>16

(* What each tool does first, and what it does later.                      *)
LEMMA BrowserScripts ==
  ASSUME NEW tool \in BrowserTools, NEW url
  PROVE  LET s == Script(tool, url)
         IN  /\ s \in Seq(BrowserSteps)
             /\ Len(s) > 0 /\ s[1] \in {"removing"} \cup Connecting
             /\ GoesFirst(s) /\ Linked(s)
             /\ tool \in {"click", "fill"} =>
                  /\ Once(s, "acting")
                  /\ \E i \in 1..Len(s) : s[i] = "acting"
<1> USE DEF BrowserSteps, Settled, Visiting, Connecting
<1>1. CASE tool = "probe"
  <2>1. PICK s : s = <<"removing">>
    OBVIOUS
  <2>2. s \in Seq(BrowserSteps) /\ Len(s) = 1 /\ s[1] = "removing"
    BY <2>1
  <2>3. GoesFirst(s) /\ Linked(s)
    BY <2>2 DEF GoesFirst, Linked
  <2> QED
    BY <1>1, <2>1, <2>2, <2>3 DEF Script
<1>2. CASE tool = "list"
  <2>1. PICK s : s = Resolve
    OBVIOUS
  <2>2. /\ s \in Seq(BrowserSteps) /\ Len(s) = 2
        /\ s[1] = "removing" /\ s[2] = "listing"
    BY <2>1 DEF Resolve
  <2>3. GoesFirst(s) /\ Linked(s)
    BY <2>2 DEF GoesFirst, Linked
  <2> QED
    BY <1>2, <2>1, <2>2, <2>3 DEF Script
<1>3. ASSUME NEW w \in {"looking", "capturing", "acting"}, tool # "click",
             Script(tool, url) = Resolve \o <<w>>, tool = "fill" => w = "acting"
      PROVE  LET s == Script(tool, url)
             IN  /\ s \in Seq(BrowserSteps)
                 /\ Len(s) > 0 /\ s[1] \in {"removing"} \cup Connecting
                 /\ GoesFirst(s) /\ Linked(s)
                 /\ tool \in {"click", "fill"} =>
                      /\ Once(s, "acting")
                      /\ \E i \in 1..Len(s) : s[i] = "acting"
  <2>1. PICK t : t = <<w>>
    OBVIOUS
  <2>2. /\ t \in Seq(BrowserSteps) /\ Len(t) = 1 /\ t[1] = w /\ Unlinked(t)
        /\ \A i \in 1..Len(t) : t[i] # "listing"
    BY <2>1 DEF Unlinked
  <2>3. PICK s : s = Resolve \o t
    OBVIOUS
  <2>4. /\ s \in Seq(BrowserSteps) /\ Len(s) = 3
        /\ s[1] = "removing" /\ s[2] = "listing" /\ s[3] = w
        /\ Linked(s) /\ GoesFirst(s)
    <3>1. /\ s \in Seq(BrowserSteps) /\ Len(s) = 2 + Len(t)
          /\ s[1] = "removing" /\ s[2] = "listing"
          /\ \A i \in 1..Len(t) : s[2 + i] = t[i]
          /\ Linked(s) /\ GoesFirst(s)
      BY <2>2, <2>3, ShortScript
    <3>2. s[2 + 1] = t[1]
      BY <2>2, <3>1
    <3> QED
      BY <2>2, <3>1, <3>2
  <2>5. Once(s, "acting") /\ (w = "acting" => \E i \in 1..Len(s) : s[i] = "acting")
    BY <2>4 DEF Once
  <2> QED
    BY <1>3, <2>1, <2>3, <2>4, <2>5
<1>4. CASE \/ tool \in {"info", "read", "eval", "screenshot", "fill"}
           \/ tool = "test_element" /\ url = Nothere
  BY <1>3, <1>4 DEF Script, Read
<1>5. CASE tool = "click"
  <2>1. PICK t : t = <<"acting", "looking">>
    OBVIOUS
  <2>2. /\ t \in Seq(BrowserSteps) /\ Len(t) = 2 /\ Unlinked(t)
        /\ t[1] = "acting" /\ t[2] = "looking"
        /\ \A i \in 1..Len(t) : t[i] # "listing"
    BY <2>1 DEF Unlinked
  <2>3. PICK s : s = Resolve \o t
    OBVIOUS
  <2>4. /\ s \in Seq(BrowserSteps) /\ Len(s) = 4 /\ s[1] = "removing"
        /\ s[2] = "listing" /\ s[3] = "acting" /\ s[4] = "looking"
        /\ Linked(s) /\ GoesFirst(s)
    <3>1. /\ s \in Seq(BrowserSteps) /\ Len(s) = 2 + Len(t)
          /\ s[1] = "removing" /\ s[2] = "listing"
          /\ \A i \in 1..Len(t) : s[2 + i] = t[i]
          /\ Linked(s) /\ GoesFirst(s)
      BY <2>2, <2>3, ShortScript
    <3>2. s[2 + 1] = t[1] /\ s[2 + 2] = t[2]
      BY <2>2, <3>1
    <3> QED
      BY <2>2, <3>1, <3>2
  <2>5. Once(s, "acting") /\ \E i \in 1..Len(s) : s[i] = "acting"
    BY <2>4 DEF Once
  <2> QED
    BY <1>5, <2>1, <2>3, <2>4, <2>5 DEF Script
<1>6. CASE tool = "navigate" \/ (tool = "test_element" /\ url # Nothere)
  <2>1. PICK s : s = Script(tool, url)
    OBVIOUS
  <2>2. s \in Seq(BrowserSteps) /\ Going(s) /\ Unlinked(s)
    BY <1>6, <2>1, LongScripts DEF Script
  <2> QED
    BY <1>6, <2>1, <2>2, InOrder DEF Going
<1>7. CASE tool \in {"reconnect_quick", "reconnect_full", "wireless_helper"}
  <2>1. PICK s : s = Script(tool, url)
    OBVIOUS
  <2>2. s = <<"kicking", "connecting">> \/ s = <<"pairing", "connecting">>
    BY <1>7, <2>1 DEF Script
  <2>3. /\ s \in Seq(BrowserSteps) /\ Len(s) = 2
        /\ s[1] \in {"kicking", "pairing"} /\ s[2] = "connecting"
    BY <2>2
  <2>4. GoesFirst(s) /\ Linked(s)
    BY <2>3 DEF GoesFirst, Linked
  <2> QED
    BY <1>7, <2>1, <2>3, <2>4
<1> QED
  BY <1>1, <1>2, <1>4, <1>5, <1>6, <1>7 DEF BrowserTools

(* A step of its script takes a call to the next.                          *)
LEMMA StepsOn ==
  ASSUME NEW x \in Driven, SocketsAssumption
  PROVE  /\ StepOn(x) \in Driven
         /\ StepOn(x).pc \in BrowserSteps \cup {"done"}
         /\ StepOn(x).tool = x.tool /\ StepOn(x).lock = x.lock
         /\ StepOn(x).tab = x.tab /\ StepOn(x).visited = x.visited
         /\ StepOn(x).success = x.success /\ StepOn(x).calm = x.calm
         /\ IF x.todo = <<>>
              THEN StepOn(x).pc = "done" /\ StepOn(x).todo = <<>>
              ELSE /\ StepOn(x).pc = x.todo[1] /\ StepOn(x).candidate = 1
                   /\ Len(StepOn(x).todo) = Len(x.todo) - 1
                   /\ \A i \in 1..Len(StepOn(x).todo) :
                        StepOn(x).todo[i] = x.todo[i + 1]
<1>1. CASE x.todo = <<>>
  BY <1>1 DEF StepOn, Driven
<1>2. CASE x.todo # <<>>
  <2>1. x.todo \in Seq(BrowserSteps) /\ Len(x.todo) \in Nat \ {0}
    BY <1>2 DEF Driven
  <2>2. /\ Head(x.todo) = x.todo[1] /\ x.todo[1] \in BrowserSteps
        /\ Tail(x.todo) \in Seq(BrowserSteps)
        /\ Len(Tail(x.todo)) = Len(x.todo) - 1
        /\ \A i \in 1..Len(Tail(x.todo)) : Tail(x.todo)[i] = x.todo[i + 1]
    BY <1>2, <2>1
  <2>3. StepOn(x) = [x EXCEPT !.pc = Head(x.todo), !.todo = Tail(x.todo),
                              !.candidate = 1]
    BY <1>2 DEF StepOn
  <2>4. 1 \in 1..Len(Sockets)
    BY DEF SocketsAssumption
  <2> QED
    BY <1>2, <2>2, <2>3, <2>4 DEF Driven
<1> QED
  BY <1>1, <1>2

(* So what it does next was to be done later.                              *)
LEMMA StepsAhead ==
  ASSUME NEW x \in Driven, NEW step \in BrowserSteps, SocketsAssumption
  PROVE  /\ Ahead(StepOn(x), step) <=> Later(x, step)
         /\ StepOn(x).pc = "done" => ~Later(StepOn(x), step)
         /\ Once(x.todo, step) =>
              /\ Once(StepOn(x).todo, step)
              /\ StepOn(x).pc = step => ~Later(StepOn(x), step)
<1> DEFINE y == StepOn(x)
<1>1. CASE x.todo = <<>>
  <2>1. /\ y.pc = "done" /\ y.todo = <<>> /\ Len(y.todo) = 0 /\ "done" # step
        /\ Len(x.todo) = 0
    BY <1>1, StepsOn DEF BrowserSteps, Settled, Visiting, Connecting
  <2> QED
    BY <2>1 DEF Ahead, Later, Once
<1>2. CASE x.todo # <<>>
  <2>1. Len(x.todo) \in Nat /\ Len(x.todo) # 0
    BY <1>2 DEF Driven
  <2>2. /\ y.pc = x.todo[1] /\ Len(y.todo) = Len(x.todo) - 1
        /\ \A i \in 1..Len(y.todo) : y.todo[i] = x.todo[i + 1]
    BY <1>2, StepsOn
  <2>3. /\ 1 \in 1..Len(x.todo)
        /\ \A i \in 1..Len(y.todo) : i + 1 \in 1..Len(x.todo) /\ i + 1 # 1
    BY <2>1, <2>2
  <2>8. y.pc # "done"
    BY <2>2, <2>3 DEF Driven, BrowserSteps, Settled, Visiting, Connecting
  <2>4. Ahead(y, step) => Later(x, step)
    BY <2>2, <2>3 DEF Ahead, Later
  <2>5. ASSUME NEW i \in 1..Len(x.todo), x.todo[i] = step
        PROVE  Ahead(y, step)
    <3>1. CASE i = 1
      BY <2>2, <2>5, <3>1 DEF Ahead
    <3>2. CASE i # 1
      <4>1. PICK j \in 1..Len(y.todo) : i = j + 1
        <5>1. i - 1 \in 1..Len(y.todo) /\ i = (i - 1) + 1
          BY <2>1, <2>2, <3>2
        <5> QED
          BY <5>1
      <4> QED
        BY <2>2, <2>5, <4>1 DEF Ahead, Later
    <3> QED
      BY <3>1, <3>2
  <2>6. ASSUME Once(x.todo, step), NEW i \in 1..Len(y.todo),
               NEW j \in 1..Len(y.todo), y.todo[i] = step, y.todo[j] = step
        PROVE  i = j
    <3>1. i + 1 = j + 1
      BY <2>2, <2>3, <2>6 DEF Once
    <3> QED
      BY <2>1, <2>2, <3>1
  <2>7. ASSUME Once(x.todo, step), y.pc = step PROVE ~Later(y, step)
    BY <2>2, <2>3, <2>7 DEF Later, Once
  <2> QED
    BY <2>4, <2>5, <2>6, <2>7, <2>8 DEF Later, Once
<1> QED
  BY <1>1, <1>2

(* What a call has to have done before it goes on with its script.         *)
Ready(x) ==
  /\ OneTab(x) /\ Linked(x.todo)
  /\ x.lock = Nothere =>
       GoesFirst(x.todo) /\ (x.visited # {} => ~Later(x, "listing"))

LEMMA StepsOnScript ==
  ASSUME NEW x \in Driven, Ready(x), SocketsAssumption
  PROVE  OnScript(StepOn(x))
<1> DEFINE y == StepOn(x)
<1>1. /\ y.lock = x.lock /\ y.tab = x.tab /\ y.visited = x.visited
      /\ OneTab(y)
  BY StepsOn DEF OneTab, Ready
<1>2. CASE x.todo = <<>>
  <2>1. y.pc = "done" /\ Len(y.todo) = 0
    BY <1>2, StepsOn
  <2> QED
    BY <1>1, <2>1 DEF OnScript, Linked, GoesFirst, Ahead, Later, Visiting,
                      Connecting
<1>3. CASE x.todo # <<>>
  <2>1. PICK n \in Nat : n = Len(x.todo) /\ n # 0
    BY <1>3 DEF Driven
  <2>2. /\ y.pc = x.todo[1] /\ Len(y.todo) = n - 1
        /\ \A i \in 1..(n - 1) : y.todo[i] = x.todo[i + 1]
    BY <1>3, <2>1, StepsOn
  <2>3. /\ 1 \in 1..n
        /\ \A i \in 1..(n - 1) : i + 1 \in 1..n /\ 1 < i + 1
        /\ \A i, j \in 1..(n - 1) : i < j => i + 1 < j + 1
    BY <2>1
  <2>4. ASSUME NEW i \in 1..(n - 1), NEW j \in 1..(n - 1), i < j,
               y.todo[i] \in Connecting
        PROVE  y.todo[j] = "connecting"
    <3>1. /\ i + 1 \in 1..Len(x.todo) /\ j + 1 \in 1..Len(x.todo)
          /\ i + 1 < j + 1 /\ x.todo[i + 1] \in Connecting
          /\ y.todo[j] = x.todo[j + 1]
      BY <2>1, <2>2, <2>3, <2>4
    <3> QED
      BY <3>1 DEF Linked, Ready
  <2>5. y.pc \in Connecting => \A i \in 1..Len(y.todo) : y.todo[i] = "connecting"
    BY <2>1, <2>2, <2>3 DEF Linked, Ready
  <2>6. ASSUME x.lock = Nothere, y.pc # "going",
               NEW i \in 1..(n - 1), NEW j \in 1..(n - 1), i < j,
               y.todo[i] \in Visiting, y.todo[j] = "listing"
        PROVE  \E k \in 1..(n - 1) : k < i /\ y.todo[k] = "going"
    <3>0. /\ i + 1 \in 1..Len(x.todo) /\ j + 1 \in 1..Len(x.todo)
          /\ i + 1 < j + 1 /\ x.todo[i + 1] \in Visiting
          /\ x.todo[j + 1] = "listing"
      BY <2>1, <2>2, <2>3, <2>6
    <3>1. PICK m \in 1..n : m < i + 1 /\ x.todo[m] = "going"
      BY <2>1, <2>6, <3>0 DEF GoesFirst, Ready
    <3>2. m # 1
      BY <2>2, <2>6, <3>1
    <3>3. PICK k \in 1..(n - 1) : m = k + 1
      <4>1. m - 1 \in 1..(n - 1) /\ m = (m - 1) + 1
        BY <2>1, <3>1, <3>2
      <4> QED
        BY <4>1
    <3>4. k < i /\ y.todo[k] = "going"
      BY <2>2, <3>1, <3>3
    <3> QED
      BY <3>4
  <2>7. ASSUME x.lock = Nothere, y.pc \in Visiting
        PROVE  ~Ahead(y, "listing")
    <3>1. ASSUME NEW i \in 1..(n - 1), y.todo[i] = "listing" PROVE FALSE
      <4>1. PICK k \in 1..n : k < 1
        BY <2>1, <2>2, <2>3, <2>7, <3>1 DEF GoesFirst, Ready
      <4> QED
        BY <4>1
    <3> QED
      BY <2>2, <2>7, <3>1 DEF Ahead, Later, Visiting
  <2>8. x.lock = Nothere /\ x.visited # {} => ~Ahead(y, "listing")
    BY StepsAhead DEF Ready, BrowserSteps, Settled
  <2>9. x.lock = Nothere /\ y.pc # "going" => GoesFirst(y.todo)
    BY <2>2, <2>6 DEF GoesFirst
  <2> QED
    BY <1>1, <2>2, <2>4, <2>5, <2>7, <2>8, <2>9 DEF OnScript, Linked
<1> QED
  BY <1>2, <1>3

(* A call on its script may go on with it, except after it went somewhere. *)
LEMMA ReadyAlong ==
  ASSUME NEW x, OnScript(x), x.pc \notin {"going", "raised"}
  PROVE  Ready(x)
BY DEF OnScript, Ready, Ahead

(* There is one first browser.                                             *)
LEMMA OneFirst ==
  ASSUME NEW s, NEW t, IsFirst(s), IsFirst(t), SocketsAssumption
  PROVE  s = t
<1>1. PICK k \in 1..Len(Sockets) :
        Sockets[k] = s /\ s \in running /\ NoneBefore(k)
  BY DEF IsFirst
<1>2. PICK l \in 1..Len(Sockets) :
        Sockets[l] = t /\ t \in running /\ NoneBefore(l)
  BY DEF IsFirst
<1>3. ~(k < l) /\ ~(l < k)
  BY <1>1, <1>2 DEF NoneBefore
<1>4. k = l
  BY <1>3
<1> QED
  BY <1>1, <1>2, <1>4

(* A call that goes to one tab of the first browser is at one place.       *)
LEMMA AllOne ==
  ASSUME NEW z \in Driven, OneTab(z), SocketsAssumption,
         \A v \in z.visited : IsFirst(v[1])
  PROVE  \A v, w \in z.visited : v = w
<1>1. ASSUME NEW v \in z.visited, NEW w \in z.visited PROVE v = w
  <2>1. v[1] = w[1] /\ v[2] = w[2]
    BY <1>1, OneFirst DEF OneTab
  <2>2. PICK s \in SocketSet, t \in TabIds : v = <<s, t>>
    BY DEF Driven
  <2>3. PICK r \in SocketSet, u \in TabIds : w = <<r, u>>
    BY DEF Driven
  <2> QED
    BY <2>1, <2>2, <2>3
<1> QED
  BY <1>1

(* A call that is under way, or has been, is a record.                     *)
LEMMA DrivenRecord ==
  ASSUME BrowserTyped, NEW c \in BrowserCalls
  PROVE  /\ bcall[c].pc # "idle" => bcall[c] \in Driven
         /\ BrowserBusy(c) => bcall[c].pc # "idle"
<1>1. bcall[c] = AtRest => bcall[c].pc = "idle"
  BY DEF AtRest
<1> QED
  BY <1>1 DEF BrowserTyped, BrowserBusy

(* A call that moves at most from calm to not calm keeps what is kept of   *)
(* it, if others only add to the history, and a calm call under way finds  *)
(* the browsers and the port as they were, or no device any more.          *)
LEMMA OtherCall ==
  ASSUME BrowserTyped, NEW d \in BrowserCalls, BrowserKept(d),
         bcall'[d] \in {bcall[d], [bcall[d] EXCEPT !.calm = FALSE]},
         BrowserBusy(d) =>
           \/ bcall'[d] = [bcall[d] EXCEPT !.calm = FALSE]
           \/ running' = running /\ (UNCHANGED <<adb, port>> \/ adb' # "device"),
         ~BrowserBusy(d) => bcall'[d] = bcall[d],
         acts \subseteq acts', \A a \in acts' \ acts : a[1] # d
  PROVE  BrowserKept(d)'
<1>1. CASE bcall[d].pc = "idle"
  BY <1>1 DEF BrowserBusy, BrowserKept
<1>2. CASE bcall[d].pc # "idle"
  <2>1. bcall[d] \in Driven
    BY <1>2, DrivenRecord
  <2>2. PICK y : y = bcall'[d]
    OBVIOUS
  <2>3. PICK x : x = bcall[d]
    OBVIOUS
  <2>4. /\ y.tool = x.tool /\ y.lock = x.lock /\ y.tab = x.tab
        /\ y.candidate = x.candidate /\ y.ok = x.ok
        /\ y.success = x.success /\ y.visited = x.visited
        /\ y.todo = x.todo /\ y.pc = x.pc /\ (y.calm => x.calm)
    BY <2>1, <2>2, <2>3 DEF Driven
  <2>5. OnScript(x) => OnScript(y)
    BY <2>4 DEF OnScript, OneTab, Ahead, Later
  <2>6. <<d, x.tool>> \in acts' <=> <<d, x.tool>> \in acts
    OBVIOUS
  <2>7. ActsOnce(d, x) => ActsOnce(d, y)'
    BY <2>4, <2>6 DEF ActsOnce, Ahead, Later
  <2>8. y.calm /\ y.pc \notin {"done", "raised"} =>
          running' = running /\ (UNCHANGED <<adb, port>> \/ adb' # "device")
    BY <1>2, <2>1, <2>2, <2>3, <2>4 DEF BrowserBusy, Driven
  <2>9. ASSUME running' = running
        PROVE  /\ \A s : IsFirst(s) => IsFirst(s)'
               /\ \A k : NoneBefore(k) => NoneBefore(k)'
    BY <2>9 DEF IsFirst, NoneBefore
  <2>10. ASSUME running' = running, UNCHANGED <<adb, port>> \/ adb' # "device",
                FindsFirst(x)
         PROVE  FindsFirst(y)'
    BY <2>4, <2>9, <2>10 DEF FindsFirst
  <2>11. DrivenWell(d, x) => DrivenWell(d, y)'
    BY <2>4, <2>5, <2>7, <2>8, <2>9, <2>10 DEF DrivenWell
  <2> QED
    BY <1>2, <2>2, <2>3, <2>4, <2>11 DEF BrowserKept
<1> QED
  BY <1>1, <1>2

(* The call of a step is as the step sets it, the others are unsettled.    *)
LEMMA SetsBrowserCall ==
  ASSUME BrowserTyped, NEW c \in BrowserCalls, NEW y, SetBrowserCall(c, y)
  PROVE  /\ bcall' \in [BrowserCalls -> UNION {{bcall'[d]} : d \in BrowserCalls}]
         /\ bcall'[c] = y
         /\ \A d \in BrowserCalls \ {c} :
              bcall'[d] = IF BrowserBusy(d) THEN [bcall[d] EXCEPT !.calm = FALSE]
                          ELSE bcall[d]
<1>1. bcall' = [d \in BrowserCalls |->
                  IF d # c /\ BrowserBusy(d)
                    THEN [[bcall EXCEPT ![c] = y][d] EXCEPT !.calm = FALSE]
                    ELSE [bcall EXCEPT ![c] = y][d]]
  BY DEF SetBrowserCall, Unsettle
<1> QED
  BY <1>1 DEF BrowserTyped

(* What has to be shown of a step of call c.                               *)
LEMMA DriveKeeps ==
  ASSUME BrowserInv, NEW c \in BrowserCalls, NEW y \in Driven,
         SetBrowserCall(c, y), y.pc # "start",
         adb' \in {"missing", "unpaired", "offline", "device"},
         running' = running, port' \in SocketSet \cup {Nothere},
         tabs' \in [SocketSet -> Seq(TabRecord)],
         browserUpsets' \in 0..MaxBrowserUpsets,
         acts \subseteq acts', \A a \in acts' \ acts : a[1] = c,
         DrivenWell(c, y)'
  PROVE  BrowserInv'
<1>1. BrowserTyped
  BY DEF BrowserInv
<1>2. /\ bcall' \in [BrowserCalls -> UNION {{bcall'[d]} : d \in BrowserCalls}]
      /\ bcall'[c] = y
      /\ \A d \in BrowserCalls \ {c} :
           bcall'[d] = IF BrowserBusy(d) THEN [bcall[d] EXCEPT !.calm = FALSE]
                       ELSE bcall[d]
  BY <1>1, SetsBrowserCall
<1>3. ASSUME NEW d \in BrowserCalls
      PROVE  bcall'[d] \in Driven \cup {AtRest}
  <2>1. CASE d = c
    BY <1>2, <2>1
  <2>2. CASE d # c /\ BrowserBusy(d)
    <3>1. bcall[d] \in Driven
      BY <1>1, <2>2, DrivenRecord
    <3>2. [bcall[d] EXCEPT !.calm = FALSE] \in Driven
      BY <3>1 DEF Driven
    <3> QED
      BY <1>2, <2>2, <3>2
  <2>3. CASE d # c /\ ~BrowserBusy(d)
    BY <1>1, <1>2, <2>3 DEF BrowserTyped
  <2> QED
    BY <2>1, <2>2, <2>3
<1>4. BrowserTyped'
  BY <1>1, <1>2, <1>3 DEF BrowserTyped
<1>5. ASSUME NEW d \in BrowserCalls \ {c} PROVE BrowserKept(d)'
  <2>1. BrowserKept(d)
    BY DEF BrowserInv
  <2> QED
    BY <1>1, <1>2, <2>1, OtherCall
<1>6. BrowserKept(c)'
  <2>1. y.pc # "idle"
    BY DEF Driven, BrowserSteps, Settled, Visiting, Connecting
  <2> QED
    BY <1>2, <2>1 DEF BrowserKept
<1> QED
  BY <1>4, <1>5, <1>6 DEF BrowserInv

(* A call that does something in the browser it found.                     *)
Searching == {"removing", "forwarding", "asking", "cleaning"}
LEMMA SearchKeeps ==
  ASSUME BrowserInv, NEW c \in BrowserCalls, NEW x, x = bcall[c],
         NEW y \in Driven, SetBrowserCall(c, y),
         x.pc \in Searching, y.pc \in Searching \cup {"done", "raised"},
         y.tool = x.tool, y.lock = x.lock, y.tab = x.tab,
         y.visited = x.visited, y.calm = x.calm, y.todo = x.todo,
         y.tool = "probe" \/ (y.success = x.success /\ y.pc # "done"),
         UNCHANGED <<adb, running, tabs, acts, browserUpsets>>,
         port' \in SocketSet \cup {Nothere},
         x.calm /\ FindsFirst(x) => FindsFirst(y)'
  PROVE  BrowserInv'
<1>1. BrowserTyped /\ DrivenWell(c, x)
  BY DEF BrowserInv, BrowserKept, Searching
<1>2. OnScript(y)
  BY <1>1 DEF DrivenWell, OnScript, OneTab, Ahead, Later, Searching, Visiting,
              Connecting
<1>3. y.tool \in {"click", "fill"} => ActsOnce(c, y)'
  BY <1>1 DEF DrivenWell, ActsOnce, Ahead, Later, Searching
<1>4. \A s : IsFirst(s) => IsFirst(s)'
  BY DEF IsFirst, NoneBefore
<1>5. DrivenWell(c, y)'
  BY <1>1, <1>2, <1>3, <1>4 DEF DrivenWell, Searching
<1>6. y.pc # "start"
  BY DEF Searching
<1> QED
  BY <1>1, <1>5, <1>6, DriveKeeps DEF BrowserTyped

(* A call that goes on with its script.                                    *)
LEMMA NextKeeps ==
  ASSUME BrowserInv, SocketsAssumption, NEW c \in BrowserCalls,
         NEW z \in Driven, SetBrowserCall(c, StepOn(z)), Ready(z),
         adb' \in {"missing", "unpaired", "offline", "device"},
         running' = running, port' \in SocketSet \cup {Nothere},
         tabs' \in [SocketSet -> Seq(TabRecord)],
         browserUpsets' \in 0..MaxBrowserUpsets,
         acts \subseteq acts', \A a \in acts' \ acts : a[1] = c,
         z.calm => \A v \in z.visited : IsFirst(v[1]),
         z.calm /\ adb' = "device" /\ port' \in running
           /\ StepOn(z).pc \in Settled => IsFirst(port'),
         z.tool \in {"click", "fill"} =>
           /\ Once(z.todo, "acting")
           /\ IF Later(z, "acting") THEN <<c, z.tool>> \notin acts'
              ELSE z.success <=> <<c, z.tool>> \in acts'
  PROVE  BrowserInv'
<1>1. PICK y : y = StepOn(z)
  OBVIOUS
<1>2. /\ y \in Driven /\ y.pc \in BrowserSteps \cup {"done"}
      /\ y.tool = z.tool /\ y.tab = z.tab /\ y.visited = z.visited
      /\ y.success = z.success /\ y.calm = z.calm
      /\ y.pc = "removing" => y.candidate = 1
  BY <1>1, StepsOn
<1>3. OnScript(y)
  BY <1>1, StepsOnScript
<1>4. \A s : IsFirst(s) <=> IsFirst(s)'
  BY DEF IsFirst, NoneBefore
<1>5. y.calm => \A v, w \in y.visited : v = w
  BY <1>2, <1>3, AllOne DEF OnScript
<1>6. ASSUME y.calm PROVE FindsFirst(y)'
  <2>1. NoneBefore(1)'
    BY DEF NoneBefore
  <2>2. port' \in running /\ adb' = "device" /\ y.pc \in Settled =>
          IsFirst(port)'
    <3>1. port' \in running /\ adb' = "device" /\ y.pc \in Settled =>
            IsFirst(port')
      BY <1>1, <1>2, <1>6
    <3> QED
      BY <3>1 DEF IsFirst, NoneBefore
  <2> QED
    BY <1>2, <2>1, <2>2 DEF FindsFirst, BrowserSteps, Settled, Visiting,
                            Connecting
<1>7. y.tool \in {"click", "fill"} => ActsOnce(c, y)'
  <2>1. "acting" \in BrowserSteps
    BY DEF BrowserSteps, Settled, Visiting
  <2>2. /\ Ahead(y, "acting") <=> Later(z, "acting")
        /\ y.pc = "done" => ~Later(y, "acting")
    BY <1>1, <2>1, StepsAhead
  <2>3. Once(z.todo, "acting") =>
          /\ Once(y.todo, "acting")
          /\ y.pc = "acting" => ~Later(y, "acting")
    BY <1>1, <2>1, StepsAhead
  <2> QED
    BY <1>2, <2>2, <2>3 DEF ActsOnce
<1>8. DrivenWell(c, y)'
  BY <1>2, <1>3, <1>4, <1>5, <1>6, <1>7 DEF DrivenWell
<1>9. y.pc # "start"
  BY <1>2 DEF BrowserSteps, Settled, Visiting, Connecting
<1> QED
  BY <1>1, <1>2, <1>8, <1>9, DriveKeeps

(* A call that raises does nothing any more.                               *)
LEMMA RaisesKeeps ==
  ASSUME BrowserInv, NEW c \in BrowserCalls, BrowserBusy(c),
         SetBrowserCall(c, Raise(bcall[c])),
         UNCHANGED <<adb, running, tabs, acts, browserUpsets>>,
         port' \in SocketSet \cup {Nothere}
  PROVE  BrowserInv'
<1>1. PICK x : x = bcall[c]
  OBVIOUS
<1>2. BrowserTyped /\ DrivenWell(c, x) /\ x \in Driven
  BY <1>1, DrivenRecord DEF BrowserInv, BrowserKept, BrowserBusy
<1>3. PICK y : y = Raise(x)
  OBVIOUS
<1>4. /\ y \in Driven /\ y.pc = "raised" /\ y.tool = x.tool
      /\ y.lock = x.lock /\ y.tab = x.tab /\ y.visited = x.visited
      /\ y.todo = x.todo /\ y.calm = x.calm
  BY <1>2, <1>3 DEF Raise, Driven
<1>5. OnScript(y)
  BY <1>2, <1>4 DEF DrivenWell, OnScript, OneTab, Connecting
<1>6. y.tool \in {"click", "fill"} => ActsOnce(c, y)'
  BY <1>2, <1>4 DEF DrivenWell, ActsOnce, Ahead, Later
<1>7. DrivenWell(c, y)'
  BY <1>2, <1>4, <1>5, <1>6 DEF DrivenWell
<1> QED
  BY <1>1, <1>2, <1>3, <1>4, <1>7, DriveKeeps DEF BrowserTyped

(* A call that has not begun is given its script.                          *)
LEMMA BrowserStarts ==
  ASSUME BrowserInv, SocketsAssumption, TabsAssumption,
         BrowserCallsAssumption, NEW c \in BrowserCalls, StartBrowserCall(c)
  PROVE  BrowserInv'
<1>1. PICK tool \in BrowserKit, want \in Wanted \cup {Nothere},
           url \in Urls \cup {Nothere}, dry \in BOOLEAN :
       /\ tool \in ConnectTools \/ ~dry
       /\ tool = "navigate" => url # Nothere
       /\ tool \notin {"navigate", "test_element"} => url = Nothere
       /\ IF NeedAdb(tool) \/ tool = "list" THEN want = Nothere ELSE want \in Wanted
       /\ LET noAdb == NeedAdb(tool) /\ adb = "missing"
              call == [tool |-> tool, want |-> want, url |-> url,
                       lock |-> Nothere, tab |-> Nothere, candidate |-> 1,
                       ok |-> TRUE, success |-> ~noAdb, visited |-> {},
                       calm |-> \A d \in BrowserCalls : ~BrowserBusy(d),
                       todo |-> IF noAdb \/ dry THEN <<>> ELSE Script(tool, url),
                       pc |-> "start"]
          IN  bcall' = [bcall EXCEPT ![c] = StepOn(call)]
  BY DEF StartBrowserCall
<1> tool \in BrowserTools
  BY DEF BrowserCallsAssumption
<1>2. PICK noAdb \in BOOLEAN : noAdb = (NeedAdb(tool) /\ adb = "missing")
  OBVIOUS
<1>3. PICK calm \in BOOLEAN : calm = \A d \in BrowserCalls : ~BrowserBusy(d)
  OBVIOUS
<1>4. PICK s : s = IF noAdb \/ dry THEN <<>> ELSE Script(tool, url)
  OBVIOUS
<1>5. /\ s \in Seq(BrowserSteps) /\ GoesFirst(s) /\ Linked(s)
      /\ s = <<>> \/ s[1] \in {"removing"} \cup Connecting
      /\ tool \in {"click", "fill"} =>
           /\ Once(s, "acting")
           /\ \E i \in 1..Len(s) : s[i] = "acting"
  <2>1. tool \in {"click", "fill"} => ~noAdb /\ ~dry
    BY <1>1, <1>2 DEF NeedAdb, ConnectTools
  <2>2. CASE noAdb \/ dry
    <3>1. s = <<>> /\ Len(s) = 0
      BY <1>4, <2>2
    <3> QED
      BY <2>1, <2>2, <3>1 DEF GoesFirst, Linked
  <2>3. CASE ~(noAdb \/ dry)
    BY <1>4, <2>3, BrowserScripts
  <2> QED
    BY <2>2, <2>3
<1>6. PICK z : z = [tool |-> tool, want |-> want, url |-> url,
                    lock |-> Nothere, tab |-> Nothere, candidate |-> 1,
                    ok |-> TRUE, success |-> ~noAdb, visited |-> {},
                    calm |-> calm, todo |-> s, pc |-> "start"]
  OBVIOUS
<1>7. bcall' = [bcall EXCEPT ![c] = StepOn(z)]
  BY <1>1, <1>2, <1>3, <1>4, <1>6
<1>8. z \in Driven /\ z.tool = tool /\ z.visited = {} /\ z.todo = s
      /\ z.lock = Nothere /\ z.tab = Nothere
  <2>1. 1 \in 1..Len(Sockets)
    BY DEF SocketsAssumption
  <2> QED
    BY <1>5, <1>6, <2>1 DEF Driven
<1>9. PICK y : y = StepOn(z)
  OBVIOUS
<1>10. /\ y \in Driven /\ y.tool = tool /\ y.visited = {}
       /\ y.pc \in {"removing", "done"} \cup Connecting
       /\ y.pc = "removing" => y.candidate = 1
  BY <1>5, <1>8, <1>9, StepsOn
<1>11. OnScript(y)
  <2>1. Ready(z)
    BY <1>5, <1>8 DEF Ready, OneTab
  <2> QED
    BY <1>8, <1>9, <2>1, StepsOnScript
<1>12. BrowserTyped /\ UNCHANGED <<adb, running, port, tabs, acts, browserUpsets>>
       /\ \A a \in acts : a[1] # c
  BY DEF BrowserInv, BrowserKept, StartBrowserCall
<1>13. y.tool \in {"click", "fill"} => ActsOnce(c, y)'
  <2>1. "acting" \in BrowserSteps
    BY DEF BrowserSteps, Settled, Visiting
  <2>2. y.tool \in {"click", "fill"} =>
          /\ Ahead(y, "acting") /\ Once(y.todo, "acting")
          /\ y.pc \in {"acting", "done"} => ~Later(y, "acting")
    <3>1. tool \in {"click", "fill"} =>
            Later(z, "acting") /\ Once(z.todo, "acting")
      BY <1>5, <1>8 DEF Later
    <3>2. /\ Ahead(y, "acting") <=> Later(z, "acting")
          /\ y.pc = "done" => ~Later(y, "acting")
          /\ Once(z.todo, "acting") =>
               /\ Once(y.todo, "acting")
               /\ y.pc \in {"acting", "done"} => ~Later(y, "acting")
      BY <1>8, <1>9, <2>1, StepsAhead
    <3> QED
      BY <1>10, <3>1, <3>2
  <2>3. <<c, y.tool>> \notin acts'
    BY <1>12
  <2> QED
    BY <2>2, <2>3 DEF ActsOnce
<1>14. FindsFirst(y)'
  BY <1>10 DEF FindsFirst, NoneBefore, Settled, Visiting, Connecting
<1>15. DrivenWell(c, y)'
  BY <1>10, <1>11, <1>13, <1>14 DEF DrivenWell
<1>16. bcall'[c] = y /\ \A d \in BrowserCalls \ {c} : bcall'[d] = bcall[d]
  BY <1>7, <1>9, <1>12 DEF BrowserTyped
<1>17. BrowserTyped'
  BY <1>7, <1>9, <1>10, <1>12 DEF BrowserTyped
<1>18. BrowserKept(c)'
  BY <1>10, <1>15, <1>16 DEF BrowserKept, Connecting
<1>19. ASSUME NEW d \in BrowserCalls \ {c} PROVE BrowserKept(d)'
  <2>1. BrowserKept(d)
    BY DEF BrowserInv
  <2> QED
    BY <1>12, <1>16, <2>1, OtherCall
<1> QED
  BY <1>17, <1>18, <1>19 DEF BrowserInv

(* What the next try of a call is.                                         *)
LEMMA TriesNext ==
  ASSUME NEW x \in Driven, x.pc \in Searching, SocketsAssumption
  PROVE  LET y == TryNext(x)
         IN  /\ y \in Driven /\ y.pc \in {"removing", "done", "raised"}
             /\ y.tool = x.tool /\ y.lock = x.lock /\ y.tab = x.tab
             /\ y.visited = x.visited /\ y.calm = x.calm /\ y.todo = x.todo
             /\ y.tool = "probe" \/ (y.success = x.success /\ y.pc # "done")
             /\ y.pc = "removing" => y.candidate = x.candidate + 1
<1>1. CASE x.candidate < Len(Sockets)
  <2>1. PICK n \in 1..Len(Sockets) : n = x.candidate + 1
    BY <1>1 DEF Driven, SocketsAssumption
  <2>2. TryNext(x) = [x EXCEPT !.candidate = n, !.pc = "removing"]
    BY <1>1, <2>1 DEF TryNext
  <2> QED
    BY <2>1, <2>2 DEF Driven, BrowserSteps
<1>2. CASE ~(x.candidate < Len(Sockets)) /\ x.tool = "probe"
  BY <1>2 DEF TryNext, Driven
<1>3. CASE ~(x.candidate < Len(Sockets)) /\ x.tool # "probe"
  BY <1>3 DEF TryNext, Raise, Driven
<1> QED
  BY <1>1, <1>2, <1>3

(* The port leads nowhere until it is forwarded again.                     *)
LEMMA RemoveForwardKeeps ==
  ASSUME BrowserInv, NEW c \in BrowserCalls, RemoveForward(c)
  PROVE  BrowserInv'
<1>1. PICK x : x = bcall[c]
  OBVIOUS
<1>2. x.pc = "removing" /\ x \in Driven
  BY <1>1, DrivenRecord DEF RemoveForward, BrowserInv
<1>3. CASE adb = "missing"
  BY <1>1, <1>2, <1>3, RaisesKeeps DEF RemoveForward, BrowserBusy
<1>4. CASE adb # "missing"
  <2>1. PICK y : y = [x EXCEPT !.pc = "forwarding"]
    OBVIOUS
  <2>2. /\ y \in Driven /\ y.pc = "forwarding" /\ y.tool = x.tool
        /\ y.lock = x.lock /\ y.tab = x.tab /\ y.visited = x.visited
        /\ y.calm = x.calm /\ y.todo = x.todo /\ y.success = x.success
        /\ y.candidate = x.candidate
    BY <1>2, <2>1 DEF Driven
  <2>3. SetBrowserCall(c, y) /\ port' = Nothere
        /\ UNCHANGED <<adb, running, tabs, acts, browserUpsets>>
    BY <1>1, <1>4, <2>1 DEF RemoveForward
  <2>4. FindsFirst(x) => FindsFirst(y)'
    BY <1>2, <2>2, <2>3 DEF FindsFirst, NoneBefore, Settled, Visiting
  <2> QED
    BY <1>1, <1>2, <2>2, <2>3, <2>4, SearchKeeps DEF Searching
<1> QED
  BY <1>3, <1>4

(* With a device, the port leads where the call has it lead.               *)
LEMMA AddForwardKeeps ==
  ASSUME BrowserInv, SocketsAssumption, NEW c \in BrowserCalls, AddForward(c)
  PROVE  BrowserInv'
<1>1. PICK x : x = bcall[c]
  OBVIOUS
<1>2. x.pc = "forwarding" /\ x \in Driven
  BY <1>1, DrivenRecord DEF AddForward, BrowserInv
<1>3. PICK ok \in BOOLEAN : ok = (adb = "device")
  OBVIOUS
<1>4. PICK y : y = [x EXCEPT !.ok = ok, !.pc = "asking"]
  OBVIOUS
<1>5. /\ y \in Driven /\ y.pc = "asking" /\ y.tool = x.tool
      /\ y.lock = x.lock /\ y.tab = x.tab /\ y.visited = x.visited
      /\ y.calm = x.calm /\ y.todo = x.todo /\ y.success = x.success
      /\ y.candidate = x.candidate /\ y.ok = ok
  BY <1>2, <1>4 DEF Driven
<1>6. /\ SetBrowserCall(c, y)
      /\ port' = IF adb = "device" THEN Sockets[x.candidate] ELSE port
      /\ UNCHANGED <<adb, running, tabs, acts, browserUpsets>>
  BY <1>1, <1>3, <1>4 DEF AddForward
<1>7. port' \in SocketSet \cup {Nothere}
  <2>1. Sockets[x.candidate] \in SocketSet
    BY <1>2 DEF Driven, SocketsAssumption
  <2> QED
    BY <1>6, <2>1 DEF BrowserInv, BrowserTyped
<1>8. FindsFirst(x) => FindsFirst(y)'
  BY <1>2, <1>3, <1>5, <1>6 DEF FindsFirst, NoneBefore, Settled, Visiting
<1> QED
  BY <1>1, <1>2, <1>5, <1>6, <1>7, <1>8, SearchKeeps DEF Searching

(* What a call that does not act yet leaves as it was.                     *)
LEMMA NotYet ==
  ASSUME NEW c, NEW x, ActsOnce(c, x), x.pc \notin {"acting", "raised"}
  PROVE  /\ Once(x.todo, "acting")
         /\ IF Later(x, "acting") THEN <<c, x.tool>> \notin acts
            ELSE x.success <=> <<c, x.tool>> \in acts
BY DEF ActsOnce, Ahead

(* A browser that answers is the first that runs; one that does not, on a  *)
(* port that was forwarded to it, does not run.                            *)
LEMMA AskVersionKeeps ==
  ASSUME BrowserInv, SocketsAssumption, NEW c \in BrowserCalls, AskVersion(c)
  PROVE  BrowserInv'
<1>1. PICK x : x = bcall[c]
  OBVIOUS
<1>2. /\ x.pc = "asking" /\ x \in Driven /\ BrowserTyped /\ DrivenWell(c, x)
      /\ UNCHANGED <<adb, running, port, tabs, acts, browserUpsets>>
  BY <1>1, DrivenRecord DEF AskVersion, BrowserInv, BrowserKept
<1>3. PICK answered \in BOOLEAN : answered = (x.ok /\ Reached # {})
  OBVIOUS
<1>4. SetBrowserCall(c,
        IF x.tool = "probe" THEN [x EXCEPT !.ok = answered, !.pc = "cleaning"]
        ELSE IF answered THEN StepOn(x) ELSE TryNext(x))
  BY <1>1, <1>3 DEF AskVersion
<1>5. FindsFirst(x) /\ ~answered =>
        (adb = "device" => NoneBefore(x.candidate + 1))
  <2>1. ASSUME FindsFirst(x), ~answered, adb = "device",
               NEW j \in 1..Len(Sockets), j < x.candidate + 1
        PROVE  Sockets[j] \notin running
    <3>1. NoneBefore(x.candidate) /\ x.ok /\ port = Sockets[x.candidate]
      BY <1>2, <2>1 DEF FindsFirst
    <3>2. port \notin running
      BY <1>3, <2>1, <3>1 DEF Reached
    <3>3. x.candidate \in Int /\ (j < x.candidate \/ j = x.candidate)
      BY <1>2, <2>1 DEF Driven
    <3> QED
      BY <3>1, <3>2, <3>3 DEF NoneBefore
  <2> QED
    BY <2>1 DEF NoneBefore
<1>6. CASE x.tool = "probe"
  <2>1. PICK y : y = [x EXCEPT !.ok = answered, !.pc = "cleaning"]
    OBVIOUS
  <2>2. /\ y \in Driven /\ y.pc = "cleaning" /\ y.tool = "probe"
        /\ y.tool = x.tool /\ y.lock = x.lock /\ y.tab = x.tab
        /\ y.visited = x.visited /\ y.calm = x.calm /\ y.todo = x.todo
        /\ y.candidate = x.candidate /\ y.ok = answered
    BY <1>2, <1>6, <2>1 DEF Driven
  <2>3. SetBrowserCall(c, y)
    BY <1>4, <1>6, <2>1
  <2>4. FindsFirst(x) => FindsFirst(y)'
    BY <1>2, <1>5, <2>2 DEF FindsFirst, NoneBefore, Settled, Visiting
  <2> QED
    BY <1>1, <1>2, <2>2, <2>3, <2>4, SearchKeeps DEF Searching, BrowserTyped
<1>7. CASE x.tool # "probe" /\ ~answered
  <2>1. PICK y : y = TryNext(x)
    OBVIOUS
  <2>2. /\ y \in Driven /\ y.pc \in {"removing", "done", "raised"}
        /\ y.tool = x.tool /\ y.lock = x.lock /\ y.tab = x.tab
        /\ y.visited = x.visited /\ y.calm = x.calm /\ y.todo = x.todo
        /\ y.tool = "probe" \/ (y.success = x.success /\ y.pc # "done")
        /\ y.pc = "removing" => y.candidate = x.candidate + 1
    BY <1>2, <2>1, TriesNext DEF Searching
  <2>3. SetBrowserCall(c, y)
    BY <1>4, <1>7, <2>1
  <2>4. FindsFirst(x) => FindsFirst(y)'
    BY <1>2, <1>5, <1>7, <2>2 DEF FindsFirst, NoneBefore, Settled, Visiting
  <2> QED
    BY <1>1, <1>2, <2>2, <2>3, <2>4, SearchKeeps DEF Searching, BrowserTyped
<1>8. CASE x.tool # "probe" /\ answered
  <2>1. SetBrowserCall(c, StepOn(x))
    BY <1>4, <1>8
  <2>2. Ready(x)
    BY <1>2, ReadyAlong DEF DrivenWell
  <2>3. x.calm => IsFirst(port) /\ \A v \in x.visited : IsFirst(v[1])
    <3>1. adb = "device" /\ port \in running
      BY <1>3, <1>8 DEF Reached
    <3>2. x.calm => /\ \A v \in x.visited : IsFirst(v[1])
                    /\ NoneBefore(x.candidate) /\ port = Sockets[x.candidate]
      BY <1>2, <3>1 DEF DrivenWell, FindsFirst
    <3>3. x.candidate \in 1..Len(Sockets)
      BY <1>2 DEF Driven
    <3> QED
      BY <3>1, <3>2, <3>3 DEF IsFirst
  <2>4. x.tool \in {"click", "fill"} =>
          /\ Once(x.todo, "acting")
          /\ IF Later(x, "acting") THEN <<c, x.tool>> \notin acts
             ELSE x.success <=> <<c, x.tool>> \in acts
    BY <1>2, NotYet DEF DrivenWell
  <2> QED
    BY <1>2, <2>1, <2>2, <2>3, <2>4, NextKeeps DEF BrowserTyped
<1> QED
  BY <1>6, <1>7, <1>8

(* A probe takes the forward away again.                                   *)
LEMMA CleanForwardKeeps ==
  ASSUME BrowserInv, SocketsAssumption, NEW c \in BrowserCalls, CleanForward(c)
  PROVE  BrowserInv'
<1>1. PICK x : x = bcall[c]
  OBVIOUS
<1>2. /\ x.pc = "cleaning" /\ x \in Driven /\ BrowserTyped /\ DrivenWell(c, x)
      /\ UNCHANGED <<adb, running, tabs, acts, browserUpsets>>
      /\ port' = Nothere /\ Nothere \notin running
  BY <1>1, DrivenRecord DEF CleanForward, BrowserInv, BrowserKept, BrowserTyped,
                            SocketsAssumption
<1>3. CASE ~x.ok
  <2>1. PICK y : y = TryNext(x)
    OBVIOUS
  <2>2. /\ y \in Driven /\ y.pc \in {"removing", "done", "raised"}
        /\ y.tool = x.tool /\ y.lock = x.lock /\ y.tab = x.tab
        /\ y.visited = x.visited /\ y.calm = x.calm /\ y.todo = x.todo
        /\ y.tool = "probe" \/ (y.success = x.success /\ y.pc # "done")
        /\ y.pc = "removing" => y.candidate = x.candidate + 1
    BY <1>2, <2>1, TriesNext DEF Searching
  <2>3. SetBrowserCall(c, y)
    BY <1>1, <1>3, <2>1 DEF CleanForward
  <2>4. FindsFirst(x) => FindsFirst(y)'
    BY <1>2, <1>3, <2>2 DEF FindsFirst, NoneBefore, Settled, Visiting
  <2> QED
    BY <1>1, <1>2, <2>2, <2>3, <2>4, SearchKeeps DEF Searching
<1>4. CASE x.ok
  <2>1. SetBrowserCall(c, StepOn(x))
    BY <1>1, <1>4 DEF CleanForward
  <2>2. Ready(x)
    BY <1>2, ReadyAlong DEF DrivenWell
  <2>3. x.calm => \A v \in x.visited : IsFirst(v[1])
    BY <1>2 DEF DrivenWell
  <2>4. x.tool \in {"click", "fill"} =>
          /\ Once(x.todo, "acting")
          /\ IF Later(x, "acting") THEN <<c, x.tool>> \notin acts
             ELSE x.success <=> <<c, x.tool>> \in acts
    BY <1>2, NotYet DEF DrivenWell
  <2> QED
    BY <1>2, <2>1, <2>2, <2>3, <2>4, NextKeeps DEF BrowserTyped
<1> QED
  BY <1>3, <1>4

(* A tab is picked by its id once the call went somewhere; before that it  *)
(* has not been in any.                                                    *)
LEMMA ListTargetsKeeps ==
  ASSUME BrowserInv, SocketsAssumption, NEW c \in BrowserCalls, ListTargets(c)
  PROVE  BrowserInv'
<1>1. PICK x : x = bcall[c]
  OBVIOUS
<1>2. /\ x.pc = "listing" /\ x \in Driven /\ BrowserTyped /\ DrivenWell(c, x)
      /\ UNCHANGED <<adb, running, port, tabs, acts, browserUpsets>>
  BY <1>1, DrivenRecord DEF ListTargets, BrowserInv, BrowserKept
<1>3. /\ x.calm => \A v \in x.visited : IsFirst(v[1])
      /\ x.calm /\ adb = "device" /\ port \in running => IsFirst(port)
  BY <1>2 DEF DrivenWell, FindsFirst, Settled
<1>4. x.tool \in {"click", "fill"} =>
        /\ Once(x.todo, "acting")
        /\ IF Later(x, "acting") THEN <<c, x.tool>> \notin acts
           ELSE x.success <=> <<c, x.tool>> \in acts
  BY <1>2, NotYet DEF DrivenWell
<1>5. CASE SetBrowserCall(c, Raise(bcall[c]))
  BY <1>1, <1>2, <1>5, RaisesKeeps DEF BrowserBusy, BrowserTyped
<1>6. CASE SetBrowserCall(c, StepOn(x))
  <2>1. Ready(x)
    BY <1>2, ReadyAlong DEF DrivenWell
  <2> QED
    BY <1>2, <1>3, <1>4, <1>6, <2>1, NextKeeps DEF BrowserTyped
<1>7. ASSUME NEW i \in Fitting(x),
             SetBrowserCall(c, StepOn([x EXCEPT !.tab = tabs[port][i].id]))
      PROVE  BrowserInv'
  <2>1. port \in SocketSet /\ i \in DOMAIN tabs[port] /\ Fits(x, tabs[port][i])
    BY <1>2, <1>7 DEF Fitting, Reached, BrowserTyped
  <2>2. PICK tab : tab = tabs[port][i].id
    OBVIOUS
  <2>3. tab \in TabIds
    <3>1. tabs[port] \in Seq(TabRecord)
      BY <1>2, <2>1 DEF BrowserTyped
    <3>2. tabs[port][i] \in TabRecord
      BY <2>1, <3>1
    <3> QED
      BY <2>2, <3>2 DEF TabRecord
  <2>4. PICK z : z = [x EXCEPT !.tab = tab]
    OBVIOUS
  <2>5. /\ z \in Driven /\ z.tab = tab /\ z.tool = x.tool /\ z.lock = x.lock
        /\ z.visited = x.visited /\ z.calm = x.calm /\ z.todo = x.todo
        /\ z.success = x.success
    BY <1>2, <2>3, <2>4 DEF Driven
  <2>6. Ready(x)
    BY <1>2, ReadyAlong DEF DrivenWell
  <2>7. Ready(z)
    <3>1. x.lock # Nothere => x.tab = tab
      BY <2>1, <2>2, <2>6 DEF Fits, Ready, OneTab
    <3>2. x.lock = Nothere => x.visited = {}
      BY <1>2 DEF DrivenWell, OnScript, Ahead
    <3> QED
      BY <2>5, <2>6, <3>1, <3>2 DEF Ready, OneTab, Later
  <2>8. SetBrowserCall(c, StepOn(z))
    BY <1>7, <2>2, <2>4
  <2>9. Later(z, "acting") <=> Later(x, "acting")
    BY <2>5 DEF Later
  <2> QED
    BY <1>2, <1>3, <1>4, <2>5, <2>7, <2>8, <2>9, NextKeeps DEF BrowserTyped
<1> QED
  BY <1>1, <1>5, <1>6, <1>7 DEF ListTargets

(* A tab is changed in its place.                                          *)
LEMMA TabSet ==
  ASSUME BrowserTyped, NEW s \in SocketSet, NEW i \in DOMAIN tabs[s],
         NEW page \in Pages \cup {Nothere},
         tabs' = [tabs EXCEPT ![s][i].next = page]
  PROVE  tabs' \in [SocketSet -> Seq(TabRecord)]
<1>1. PICK q \in Seq(TabRecord) : q = tabs[s]
  BY DEF BrowserTyped
<1>2. PICK t \in TabRecord : t = q[i]
  BY <1>1
<1>3. PICK u \in TabRecord : u = [t EXCEPT !.next = page]
  BY DEF TabRecord
<1>4. PICK r \in Seq(TabRecord) : r = [q EXCEPT ![i] = u]
  <2>1. i \in 1..Len(q)
    BY <1>1
  <2>2. [q EXCEPT ![i] = u] \in Seq(TabRecord)
    BY <2>1, ExceptSeq
  <2> QED
    BY <2>2
<1>5. tabs' = [tabs EXCEPT ![s] = r]
  BY <1>1, <1>2, <1>3, <1>4
<1> QED
  BY <1>5 DEF BrowserTyped

(* A call that is in its tab is in the one it picked, of the first browser *)
(* that runs unless something came in between.                             *)
LEMMA InTab ==
  ASSUME BrowserInv, TabsAssumption, SocketsAssumption,
         NEW c \in BrowserCalls, NEW x, x = bcall[c],
         x.pc \in Visiting \cup {"going"}, Positions(c) # {}
  PROVE  LET z == Visit(x)
         IN  /\ x \in Driven /\ z \in Driven /\ port \in SocketSet
             /\ x.tab \in TabIds /\ z.tab = x.tab /\ z.tool = x.tool
             /\ z.todo = x.todo /\ z.lock = x.lock /\ z.calm = x.calm
             /\ z.success = x.success /\ z.pc = x.pc /\ z.url = x.url
             /\ OneTab(z) /\ Linked(z.todo)
             /\ x.pc \in Visiting => Ready(z)
             /\ x.calm => /\ IsFirst(port)
                          /\ \A v \in z.visited : IsFirst(v[1])
<1>1. BrowserTyped /\ x \in Driven /\ DrivenWell(c, x)
  BY DrivenRecord DEF BrowserInv, BrowserKept, Visiting
<1>2. port \in running /\ adb = "device" /\ port \in SocketSet
  BY <1>1 DEF Positions, Reached, BrowserTyped
<1>3. x.tab \in TabIds
  <2>1. PICK i \in DOMAIN tabs[port] : tabs[port][i].id = x.tab
    BY <1>2 DEF Positions, Reached
  <2>2. tabs[port] \in Seq(TabRecord)
    BY <1>1, <1>2 DEF BrowserTyped
  <2>3. tabs[port][i] \in TabRecord
    BY <2>1, <2>2
  <2> QED
    BY <2>1, <2>3 DEF TabRecord
<1>4. PICK w : w = x.visited \cup {<<port, x.tab>>}
  OBVIOUS
<1>5. PICK z : z = Visit(x)
  OBVIOUS
<1>6. /\ z \in Driven /\ z.tab = x.tab /\ z.tool = x.tool
      /\ z.todo = x.todo /\ z.lock = x.lock /\ z.calm = x.calm
      /\ z.success = x.success /\ z.pc = x.pc /\ z.url = x.url
      /\ z.visited = w
  <2>1. z = [x EXCEPT !.visited = w]
    BY <1>4, <1>5 DEF Visit
  <2>2. w \in SUBSET (SocketSet \X TabIds)
    BY <1>1, <1>2, <1>3, <1>4 DEF Driven
  <2> QED
    BY <1>1, <2>1, <2>2 DEF Driven
<1>7. OneTab(z)
  BY <1>1, <1>4, <1>6 DEF DrivenWell, OnScript, OneTab
<1>8. x.pc \in Visiting => Ready(z)
  BY <1>1, <1>6, <1>7 DEF DrivenWell, OnScript, Ready, Ahead, Later, Visiting
<1>9. x.calm => IsFirst(port) /\ \A v \in x.visited : IsFirst(v[1])
  BY <1>1, <1>2 DEF DrivenWell, FindsFirst, Settled, Visiting
<1>10. x.calm => \A v \in w : IsFirst(v[1])
  BY <1>4, <1>9
<1>11. Linked(z.todo)
  BY <1>1, <1>6 DEF DrivenWell, OnScript
<1> QED
  BY <1>1, <1>2, <1>3, <1>5, <1>6, <1>7, <1>8, <1>9, <1>10, <1>11

(* Looking and taking a picture change no tab.                             *)
LEMMA LookAtKeeps ==
  ASSUME BrowserInv, TabsAssumption, SocketsAssumption,
         NEW c \in BrowserCalls, LookAt(c) \/ Screenshot(c)
  PROVE  BrowserInv'
<1>1. PICK x : x = bcall[c]
  OBVIOUS
<1>2. /\ x.pc \in {"looking", "capturing"} /\ Positions(c) # {}
      /\ UNCHANGED <<adb, running, port, tabs, browserUpsets>>
      /\ BrowserTyped /\ DrivenWell(c, x)
  BY <1>1 DEF LookAt, Screenshot, BrowserInv, BrowserKept
<1>3. PICK z : z = Visit(x)
  OBVIOUS
<1>4. /\ x \in Driven /\ z \in Driven /\ z.tool = x.tool
      /\ z.todo = x.todo /\ z.calm = x.calm /\ z.success = x.success
      /\ Ready(z)
      /\ z.calm => IsFirst(port) /\ \A v \in z.visited : IsFirst(v[1])
  BY <1>1, <1>2, <1>3, InTab DEF Visiting
<1>5. PICK u : /\ SetBrowserCall(c, StepOn(u))
               /\ \/ u = z
                  \/ /\ u = [z EXCEPT !.success = FALSE]
                     /\ z.tool \in {"eval", "test_element"}
  <2>1. CASE Screenshot(c)
    BY <1>1, <1>3, <2>1 DEF Screenshot
  <2>2. CASE LookAt(c)
    <3>1. PICK threw \in BOOLEAN :
            /\ threw => x.tool \in {"eval", "test_element"}
            /\ SetBrowserCall(c, StepOn([z EXCEPT !.success = @ /\ ~threw]))
      BY <1>1, <1>3, <2>2 DEF LookAt
    <3>2. CASE threw
      <4>1. [z EXCEPT !.success = @ /\ ~threw] = [z EXCEPT !.success = FALSE]
        BY <3>2
      <4> QED
        BY <1>4, <3>1, <3>2, <4>1
    <3>3. CASE ~threw
      <4>1. (z.success /\ ~threw) = z.success
        BY <1>4, <3>3 DEF Driven
      <4>2. [z EXCEPT !.success = @ /\ ~threw] = z
        BY <1>4, <4>1 DEF Driven
      <4> QED
        BY <3>1, <4>2
    <3> QED
      BY <3>2, <3>3
  <2> QED
    BY <2>1, <2>2
<1>6. /\ u \in Driven /\ u.tool = x.tool /\ u.todo = x.todo
      /\ u.calm = z.calm /\ u.visited = z.visited
      /\ u.tool \in {"click", "fill"} => u.success = x.success
      /\ u.lock = z.lock /\ u.tab = z.tab
  <2>1. CASE u = z
    BY <1>4, <2>1
  <2>2. CASE /\ u = [z EXCEPT !.success = FALSE]
             /\ z.tool \in {"eval", "test_element"}
    BY <1>4, <2>2 DEF Driven
  <2> QED
    BY <1>5, <2>1, <2>2
<1>7. Ready(u)
  BY <1>4, <1>6 DEF Ready, OneTab, Later
<1>8. /\ acts \subseteq acts' /\ \A a \in acts' \ acts : a[1] = c
      /\ x.tool \in {"click", "fill"} =>
           (<<c, x.tool>> \in acts' <=> <<c, x.tool>> \in acts)
  BY DEF LookAt, Screenshot
<1>9. u.tool \in {"click", "fill"} =>
        /\ Once(u.todo, "acting")
        /\ IF Later(u, "acting") THEN <<c, u.tool>> \notin acts'
           ELSE u.success <=> <<c, u.tool>> \in acts'
  <2>1. Later(u, "acting") <=> Later(x, "acting")
    BY <1>6 DEF Later
  <2> QED
    BY <1>2, <1>6, <1>8, <2>1, NotYet DEF DrivenWell
<1> QED
  BY <1>2, <1>4, <1>5, <1>6, <1>7, <1>8, <1>9, NextKeeps DEF BrowserTyped

(* A call that went somewhere finds its tab by the id from then on.        *)
LEMMA NavigateKeeps ==
  ASSUME BrowserInv, TabsAssumption, SocketsAssumption,
         NEW c \in BrowserCalls, Navigate(c)
  PROVE  BrowserInv'
<1>1. PICK x : x = bcall[c]
  OBVIOUS
<1>2. PICK i \in Positions(c) : Leads(i, x.url)
  BY <1>1 DEF Navigate
<1>3. /\ x.pc = "going" /\ Positions(c) # {} /\ BrowserTyped
      /\ UNCHANGED <<adb, running, port, acts, browserUpsets>>
      /\ DrivenWell(c, x)
  BY <1>1, <1>2 DEF Navigate, BrowserInv, BrowserKept
<1>4. PICK z : z = Visit(x)
  OBVIOUS
<1>5. /\ x \in Driven /\ z \in Driven /\ port \in SocketSet
      /\ x.tab \in TabIds /\ z.tab = x.tab /\ z.tool = x.tool
      /\ z.todo = x.todo /\ z.calm = x.calm /\ z.success = x.success
      /\ OneTab(z) /\ Linked(z.todo)
      /\ z.calm => IsFirst(port) /\ \A v \in z.visited : IsFirst(v[1])
  BY <1>1, <1>3, <1>4, InTab
<1>6. PICK u : u = LockedTo(z)
  OBVIOUS
<1>7. /\ u \in Driven /\ u.tool = x.tool /\ u.todo = x.todo
      /\ u.calm = z.calm /\ u.visited = z.visited /\ u.success = x.success
      /\ u.lock = z.tab /\ u.tab = z.tab
  BY <1>5, <1>6 DEF LockedTo, Driven
<1>8. Ready(u)
  <2>1. u.lock # Nothere
    BY <1>5, <1>7 DEF TabsAssumption
  <2> QED
    BY <1>5, <1>7, <2>1 DEF Ready, OneTab
<1>9. u.tool \in {"click", "fill"} =>
        /\ Once(u.todo, "acting")
        /\ IF Later(u, "acting") THEN <<c, u.tool>> \notin acts
           ELSE u.success <=> <<c, u.tool>> \in acts
  <2>1. Later(u, "acting") <=> Later(x, "acting")
    BY <1>7 DEF Later
  <2> QED
    BY <1>3, <1>7, <2>1, NotYet DEF DrivenWell
<1>10. tabs' \in [SocketSet -> Seq(TabRecord)]
  <2>1. i \in DOMAIN tabs[port]
    BY <1>2 DEF Positions
  <2>2. x.url \in Pages \cup {Nothere}
    BY <1>5 DEF Driven, TabsAssumption
  <2> QED
    BY <1>2, <1>3, <1>5, <2>1, <2>2, TabSet DEF Leads
<1>11. SetBrowserCall(c, StepOn(u))
  BY <1>1, <1>4, <1>6 DEF Navigate
<1> QED
  BY <1>3, <1>5, <1>7, <1>8, <1>9, <1>10, <1>11, NextKeeps DEF BrowserTyped

(* The tabs a browser starts with are tabs.                                *)
LEMMA TabsWiden ==
  ASSUME NEW q \in Seq([id : TabIds, page : Pages, next : {Nothere}])
  PROVE  q \in Seq(TabRecord)
<1>1. q \in [1..Len(q) -> [id : TabIds, page : Pages, next : {Nothere}]]
      /\ Len(q) \in Nat
  BY LenProperties
<1>2. q \in [1..Len(q) -> TabRecord]
  BY <1>1 DEF TabRecord
<1>3. Seq(TabRecord) = UNION {[1..n -> TabRecord] : n \in Nat}
  BY SeqDef
<1> QED
  BY <1>1, <1>2, <1>3

(* What is clicked or filled is what the answer says, unless it is lost.   *)
LEMMA ActKeeps ==
  ASSUME BrowserInv, TabsAssumption, SocketsAssumption,
         NEW c \in BrowserCalls, Act(c)
  PROVE  BrowserInv'
<1>1. PICK x : x = bcall[c]
  OBVIOUS
<1>2. PICK i \in Positions(c) :
        \/ /\ acts' = acts \cup {<<c, x.tool>>}
           /\ \E p \in Pages \cup {tabs[port][i].next} : Leads(i, p)
        \/ UNCHANGED <<tabs, acts>>
  BY <1>1 DEF Act
<1>3. /\ x.pc = "acting" /\ Positions(c) # {} /\ BrowserTyped
      /\ UNCHANGED <<adb, running, port, browserUpsets>>
      /\ DrivenWell(c, x)
  BY <1>1, <1>2 DEF Act, BrowserInv, BrowserKept
<1>4. PICK z : z = Visit(x)
  OBVIOUS
<1>5. /\ x \in Driven /\ z \in Driven /\ port \in SocketSet
      /\ z.tab = x.tab /\ z.tool = x.tool
      /\ z.todo = x.todo /\ z.calm = x.calm /\ Ready(z)
      /\ z.calm => IsFirst(port) /\ \A v \in z.visited : IsFirst(v[1])
  BY <1>1, <1>3, <1>4, InTab DEF Visiting
<1>6. PICK did \in BOOLEAN : did = (acts' # acts)
  OBVIOUS
<1>7. PICK u : u = [z EXCEPT !.success = did]
  OBVIOUS
<1>8. /\ u \in Driven /\ u.tool = x.tool /\ u.todo = x.todo
      /\ u.calm = z.calm /\ u.visited = z.visited /\ u.success = did
      /\ u.lock = z.lock /\ u.tab = z.tab
  BY <1>5, <1>7 DEF Driven
<1>9. Ready(u)
  BY <1>5, <1>8 DEF Ready, OneTab, Later
<1>10. u.tool \in {"click", "fill"} =>
         /\ Once(u.todo, "acting")
         /\ IF Later(u, "acting") THEN <<c, u.tool>> \notin acts'
            ELSE u.success <=> <<c, u.tool>> \in acts'
  <2>1. Later(u, "acting") <=> Later(x, "acting")
    BY <1>8 DEF Later
  <2>2. x.tool \in {"click", "fill"} =>
          /\ Once(x.todo, "acting") /\ ~Later(x, "acting")
          /\ <<c, x.tool>> \notin acts
    BY <1>3 DEF DrivenWell, ActsOnce, Ahead
  <2>3. acts' \in {acts, acts \cup {<<c, x.tool>>}}
    BY <1>2
  <2> QED
    BY <1>6, <1>8, <2>1, <2>2, <2>3
<1>11. tabs' \in [SocketSet -> Seq(TabRecord)]
  <2>1. i \in DOMAIN tabs[port]
    BY <1>2 DEF Positions
  <2>2. tabs[port][i].next \in Pages \cup {Nothere}
    <3>1. tabs[port] \in Seq(TabRecord)
      BY <1>3, <1>5 DEF BrowserTyped
    <3>2. tabs[port][i] \in TabRecord
      BY <2>1, <3>1
    <3> QED
      BY <3>2 DEF TabRecord
  <2>3. CASE UNCHANGED tabs
    BY <1>3, <2>3 DEF BrowserTyped
  <2>4. ASSUME NEW p \in Pages \cup {tabs[port][i].next}, Leads(i, p)
        PROVE  tabs' \in [SocketSet -> Seq(TabRecord)]
    BY <1>3, <1>5, <2>1, <2>2, <2>4, TabSet DEF Leads
  <2> QED
    BY <1>2, <2>3, <2>4
<1>12. SetBrowserCall(c, StepOn(u))
  BY <1>1, <1>4, <1>6, <1>7 DEF Act
<1>13. acts \subseteq acts' /\ \A a \in acts' \ acts : a[1] = c
  BY <1>2
<1> QED
  BY <1>3, <1>5, <1>8, <1>9, <1>10, <1>11, <1>12, <1>13, NextKeeps
     DEF BrowserTyped

(* A lost answer is no success, whatever was done.                         *)
LEMMA AnswerLostKeeps ==
  ASSUME BrowserInv, TabsAssumption, SocketsAssumption,
         BrowserCallsAssumption, NEW c \in BrowserCalls, AnswerLost(c)
  PROVE  BrowserInv'
<1>1. PICK x : x = bcall[c]
  OBVIOUS
<1>2. PICK i \in Positions(c) :
        /\ Leads(i, IF x.pc = "going" THEN x.url ELSE tabs[port][i].next)
        /\ acts' = IF x.pc = "acting"
                     THEN acts \cup {<<c, x.tool>>} ELSE acts
  BY <1>1 DEF AnswerLost
<1>3. /\ x.pc \in {"going", "acting"} /\ Positions(c) # {} /\ BrowserTyped
      /\ UNCHANGED <<adb, running, port>> /\ DrivenWell(c, x)
      /\ browserUpsets' \in 0..MaxBrowserUpsets
  BY <1>1, <1>2 DEF AnswerLost, BrowserInv, BrowserKept, BrowserTyped, Upset,
                    BrowserCallsAssumption
<1>4. PICK z : z = Visit(x)
  OBVIOUS
<1>5. /\ x \in Driven /\ z \in Driven /\ port \in SocketSet
      /\ z.tab = x.tab /\ z.tool = x.tool
      /\ z.todo = x.todo /\ z.calm = x.calm
      /\ OneTab(z) /\ Linked(z.todo)
      /\ z.calm => IsFirst(port) /\ \A v \in z.visited : IsFirst(v[1])
  <2>1. x.pc \in Visiting \cup {"going"} /\ Positions(c) # {}
    BY <1>3 DEF Visiting
  <2>2. x \in Driven /\ Visit(x) \in Driven
    BY <1>1, <2>1, InTab
  <2>3. port \in SocketSet /\ Visit(x).tool = x.tool
    BY <1>1, <2>1, InTab
  <2>8. Visit(x).tab = x.tab /\ Visit(x).todo = x.todo
    BY <2>2 DEF Visit, Driven
  <2>4. OneTab(Visit(x)) /\ Linked(Visit(x).todo)
    BY <1>1, <2>1, InTab
  <2>5. Visit(x).calm = x.calm
    BY <1>1, <2>1, InTab
  <2>6. x.calm => IsFirst(port)
    BY <1>1, <2>1, InTab
  <2>7. x.calm => \A v \in Visit(x).visited : IsFirst(v[1])
    BY <1>1, <2>1, InTab
  <2> QED
    BY <1>4, <2>2, <2>3, <2>4, <2>5, <2>6, <2>7, <2>8
<1>6. PICK y : y = Raise(z)
  OBVIOUS
<1>7. /\ y \in Driven /\ y.pc = "raised" /\ y.tool = x.tool
      /\ y.lock = z.lock /\ y.tab = z.tab /\ y.visited = z.visited
      /\ y.todo = x.todo /\ y.calm = z.calm
  BY <1>5, <1>6 DEF Raise, Driven
<1>8. OnScript(y)
  BY <1>5, <1>7 DEF OnScript, OneTab, Connecting
<1>9. y.calm => \A v, w \in y.visited : v = w
  BY <1>5, <1>7, <1>8, AllOne DEF OnScript
<1>10. y.tool \in {"click", "fill"} => ActsOnce(c, y)'
  <2>1. CASE x.pc = "going"
    BY <1>2, <1>3, <1>7, <2>1 DEF DrivenWell, ActsOnce, Ahead, Later
  <2>2. CASE x.pc = "acting"
    BY <1>3, <1>7, <2>2 DEF DrivenWell, ActsOnce, Ahead, Later
  <2> QED
    BY <1>3, <2>1, <2>2
<1>11. DrivenWell(c, y)'
  BY <1>7, <1>8, <1>9, <1>10 DEF DrivenWell
<1>12. tabs' \in [SocketSet -> Seq(TabRecord)]
  <2>1. i \in DOMAIN tabs[port]
    BY <1>2 DEF Positions
  <2>2. tabs[port][i].next \in Pages \cup {Nothere}
    <3>1. tabs[port] \in Seq(TabRecord)
      BY <1>3, <1>5 DEF BrowserTyped
    <3>2. tabs[port][i] \in TabRecord
      BY <2>1, <3>1
    <3> QED
      BY <3>2 DEF TabRecord
  <2>3. x.url \in Pages \cup {Nothere}
    BY <1>5 DEF Driven, TabsAssumption
  <2>4. PICK p \in Pages \cup {Nothere} :
          p = IF x.pc = "going" THEN x.url ELSE tabs[port][i].next
    BY <2>2, <2>3
  <2>5. Leads(i, p)
    BY <1>2, <2>4
  <2> QED
    BY <1>3, <1>5, <2>1, <2>5, TabSet DEF Leads
<1>13. SetBrowserCall(c, y)
  BY <1>1, <1>4, <1>6 DEF AnswerLost
<1>14. acts \subseteq acts' /\ \A a \in acts' \ acts : a[1] = c
  BY <1>2
<1> QED
  BY <1>3, <1>7, <1>11, <1>12, <1>13, <1>14, DriveKeeps DEF BrowserTyped

(* The tools that connect adb have nothing to do with the browsers.        *)
LEMMA ConnectsKeeps ==
  ASSUME BrowserInv, SocketsAssumption, NEW c \in BrowserCalls,
         Pair(c) \/ KickOffline(c) \/ Connect(c)
  PROVE  BrowserInv'
<1>1. PICK x : x = bcall[c]
  OBVIOUS
<1>2. /\ x.pc \in Connecting /\ x.pc # "idle"
      /\ UNCHANGED <<running, port, tabs, acts, browserUpsets>>
  BY <1>1 DEF Pair, KickOffline, Connect, Connecting
<1>3. BrowserTyped /\ DrivenWell(c, x) /\ x \in Driven
  BY <1>1, <1>2, DrivenRecord DEF BrowserInv, BrowserKept
<1>4. adb' \in {"missing", "unpaired", "offline", "device"}
  BY <1>3 DEF Pair, KickOffline, Connect, BrowserTyped
<1>5. PICK fine \in BOOLEAN : Ran(c, fine)
  BY DEF Pair, KickOffline, Connect
<1>6. PICK well \in BOOLEAN :
        well = (x.success /\ (fine \/ x.tool # "wireless_helper"))
  OBVIOUS
<1>7. PICK z : z = [x EXCEPT !.success = well]
  OBVIOUS
<1>8. /\ z \in Driven /\ z.tool = x.tool /\ z.todo = x.todo
      /\ z.calm = x.calm /\ z.visited = x.visited /\ z.success = well
      /\ z.lock = x.lock /\ z.tab = x.tab
  BY <1>3, <1>7 DEF Driven
<1>9. Ready(z)
  <2>1. Ready(x)
    BY <1>2, <1>3, ReadyAlong DEF DrivenWell, Connecting
  <2> QED
    BY <1>8, <2>1 DEF Ready, OneTab, Later
<1>10. SetBrowserCall(c, StepOn(z))
  BY <1>1, <1>5, <1>6, <1>7 DEF Ran
<1>11. StepOn(z).pc \notin Settled
  <2>1. StepOn(z).pc = "done" \/ (x.todo # <<>> /\ StepOn(z).pc = x.todo[1])
    BY <1>8, StepsOn
  <2>2. x.todo # <<>> => 1 \in 1..Len(x.todo)
    BY <1>3 DEF Driven
  <2>3. \A i \in 1..Len(x.todo) : x.todo[i] = "connecting"
    BY <1>2, <1>3 DEF DrivenWell, OnScript
  <2> QED
    BY <2>1, <2>2, <2>3 DEF Settled, Visiting
<1>12. z.calm => \A v \in z.visited : IsFirst(v[1])
  BY <1>2, <1>3, <1>8 DEF DrivenWell, Connecting
<1>13. z.tool \in {"click", "fill"} =>
         /\ Once(z.todo, "acting")
         /\ IF Later(z, "acting") THEN <<c, z.tool>> \notin acts
            ELSE z.success <=> <<c, z.tool>> \in acts
  <2>1. Later(z, "acting") <=> Later(x, "acting")
    BY <1>8 DEF Later
  <2>2. x.tool \in {"click", "fill"} => well = x.success
    BY <1>3, <1>6 DEF Driven
  <2>3. x.pc \notin {"acting", "raised"}
    BY <1>2 DEF Connecting
  <2> QED
    BY <1>3, <1>8, <2>1, <2>2, <2>3, NotYet DEF DrivenWell
<1> QED
  BY <1>2, <1>3, <1>4, <1>8, <1>9, <1>10, <1>11, <1>12, <1>13, NextKeeps
     DEF BrowserTyped

(* The phone and its user leave the calls to find out.                     *)
LEMMA LeftAlone ==
  ASSUME BrowserInv, UNCHANGED <<running, bcall, acts>>,
         UNCHANGED <<adb, port>> \/ (adb' # "device" /\ port' = Nothere),
         adb' \in {"missing", "unpaired", "offline", "device"},
         tabs' \in [SocketSet -> Seq(TabRecord)],
         browserUpsets' \in 0..MaxBrowserUpsets
  PROVE  BrowserInv'
<1>1. BrowserTyped
  BY DEF BrowserInv
<1>2. ASSUME NEW d \in BrowserCalls PROVE BrowserKept(d)'
  <2>1. BrowserKept(d)
    BY DEF BrowserInv
  <2> QED
    BY <1>1, <2>1, OtherCall
<1> QED
  BY <1>1, <1>2 DEF BrowserInv, BrowserTyped

(* Tabs load, close and are sent elsewhere.                                *)
LEMMA TabsMove ==
  ASSUME BrowserInv, BrowserCallsAssumption, TabsAssumption,
         PageLoads \/ UserClosesTab \/ UserGoesTo
  PROVE  BrowserInv'
<1>1. BrowserTyped /\ UNCHANGED <<adb, running, port, bcall, acts>>
      /\ browserUpsets' \in 0..MaxBrowserUpsets
  BY DEF BrowserInv, BrowserTyped, PageLoads, UserClosesTab, UserGoesTo, Upset,
         BrowserCallsAssumption
<1>2. \A s \in running : s \in SocketSet /\ tabs[s] \in Seq(TabRecord)
  BY <1>1 DEF BrowserTyped
<1>3. CASE PageLoads
  <2>0. PICK s \in running : \E i \in DOMAIN tabs[s] :
          /\ tabs[s][i].next # Nothere
          /\ tabs' = [tabs EXCEPT ![s][i] = Tab(@.id, @.next)]
    BY <1>3 DEF PageLoads
  <2>1. PICK i \in DOMAIN tabs[s] :
          /\ tabs[s][i].next # Nothere
          /\ tabs' = [tabs EXCEPT ![s][i] = Tab(@.id, @.next)]
    BY <2>0
  <2>2. PICK q \in Seq(TabRecord) : q = tabs[s]
    BY <1>2
  <2>3. PICK t \in TabRecord : t = q[i]
    BY <2>1, <2>2
  <2>4. PICK u \in TabRecord : u = Tab(t.id, t.next)
    BY <2>1, <2>2, <2>3 DEF TabRecord, Tab
  <2>5. PICK r \in Seq(TabRecord) : r = [q EXCEPT ![i] = u]
    <3>1. i \in 1..Len(q)
      BY <2>1, <2>2
    <3>2. [q EXCEPT ![i] = u] \in Seq(TabRecord)
      BY <3>1, ExceptSeq
    <3> QED
      BY <3>2
  <2>6. tabs' = [tabs EXCEPT ![s] = r]
    BY <2>1, <2>2, <2>3, <2>4, <2>5
  <2>7. tabs' \in [SocketSet -> Seq(TabRecord)]
    BY <1>1, <2>5, <2>6 DEF BrowserTyped
  <2> QED
    BY <1>1, <2>7, LeftAlone DEF BrowserTyped
<1>4. CASE UserClosesTab
  <2>0. PICK s \in running : \E i \in DOMAIN tabs[s] :
          tabs' = [tabs EXCEPT ![s] = RemoveAt(@, i)]
    BY <1>4 DEF UserClosesTab
  <2>1. PICK i \in DOMAIN tabs[s] : tabs' = [tabs EXCEPT ![s] = RemoveAt(@, i)]
    BY <2>0
  <2>2. PICK q \in Seq(TabRecord) : q = tabs[s]
    BY <1>2
  <2>3. PICK r \in Seq(TabRecord) : r = RemoveAt(q, i)
    <3>1. i \in 1..Len(q) /\ Len(q) \in Nat
      BY <2>1, <2>2
    <3>2. /\ \A j \in 1..(i - 1) : q[j] \in TabRecord
          /\ \A j \in (i + 1)..Len(q) : q[j] \in TabRecord
      BY <3>1
    <3>3. SubSeq(q, 1, i - 1) \in Seq(TabRecord)
      BY <3>1, <3>2, SubSeqProperties
    <3>4. SubSeq(q, i + 1, Len(q)) \in Seq(TabRecord)
      BY <3>1, <3>2, SubSeqProperties
    <3>5. SubSeq(q, 1, i - 1) \o SubSeq(q, i + 1, Len(q)) \in Seq(TabRecord)
      BY <3>3, <3>4, ConcatProperties
    <3> QED
      BY <3>5 DEF RemoveAt
  <2>4. tabs' = [tabs EXCEPT ![s] = r]
    BY <2>1, <2>2, <2>3
  <2>5. tabs' \in [SocketSet -> Seq(TabRecord)]
    BY <1>1, <2>4 DEF BrowserTyped
  <2> QED
    BY <1>1, <2>5, LeftAlone DEF BrowserTyped
<1>5. CASE UserGoesTo
  <2>0. PICK s \in running, p \in Pages : \E i \in DOMAIN tabs[s] :
          tabs' = [tabs EXCEPT ![s][i].next = p]
    BY <1>5 DEF UserGoesTo
  <2>1. PICK i \in DOMAIN tabs[s] : tabs' = [tabs EXCEPT ![s][i].next = p]
    BY <2>0
  <2>2. tabs' \in [SocketSet -> Seq(TabRecord)]
    BY <1>1, <1>2, <2>1, TabSet
  <2> QED
    BY <1>1, <2>2, LeftAlone DEF BrowserTyped
<1> QED
  BY <1>3, <1>4, <1>5

(* A browser that comes or goes unsettles every call.                      *)
LEMMA BrowsersMove ==
  ASSUME BrowserInv, BrowserCallsAssumption, SocketsAssumption,
         TabsAssumption, BrowserSwitched \/ DeviceLost
  PROVE  BrowserInv'
<1>1. BrowserTyped /\ browserUpsets' \in 0..MaxBrowserUpsets
  BY DEF BrowserInv, BrowserTyped, BrowserSwitched, DeviceLost, Upset,
         BrowserCallsAssumption
<1>2. CASE DeviceLost
  BY <1>1, <1>2, LeftAlone DEF DeviceLost, BrowserTyped
<1>3. CASE BrowserSwitched
  <2>1. PICK s \in SocketSet :
          /\ running' = IF s \in running THEN running \ {s} ELSE running \cup {s}
          /\ tabs' = [tabs EXCEPT ![s] = IF s \in running THEN <<>>
                                         ELSE FirstTabs[s]]
    BY <1>3 DEF BrowserSwitched
  <2>2. /\ bcall' = [d \in BrowserCalls |->
                       IF BrowserBusy(d) THEN [bcall[d] EXCEPT !.calm = FALSE]
                       ELSE bcall[d]]
        /\ UNCHANGED <<adb, port, acts>>
    BY <1>3 DEF BrowserSwitched
  <2>3. ASSUME NEW d \in BrowserCalls
        PROVE  BrowserKept(d)' /\ bcall'[d] \in Driven \cup {AtRest}
    <3>1. BrowserKept(d)
      BY DEF BrowserInv
    <3>2. BrowserKept(d)'
      BY <1>1, <2>2, <3>1, OtherCall
    <3>3. CASE BrowserBusy(d)
      <4>1. bcall[d] \in Driven
        BY <1>1, <3>3, DrivenRecord
      <4>2. [bcall[d] EXCEPT !.calm = FALSE] \in Driven
        BY <4>1 DEF Driven
      <4> QED
        BY <2>2, <3>2, <3>3, <4>2
    <3>4. CASE ~BrowserBusy(d)
      BY <1>1, <2>2, <3>2, <3>4 DEF BrowserTyped
    <3> QED
      BY <3>3, <3>4
  <2>4. running' \subseteq SocketSet
    BY <1>1, <2>1 DEF BrowserTyped
  <2>5. PICK r : r = IF s \in running THEN <<>> ELSE FirstTabs[s]
    OBVIOUS
  <2>8. r \in Seq(TabRecord)
    <3>1. PICK q \in Seq([id : TabIds, page : Pages, next : {Nothere}]) :
            q = FirstTabs[s]
      BY DEF TabsAssumption
    <3>3. q \in Seq(TabRecord)
      BY TabsWiden
    <3>4. <<>> \in Seq(TabRecord)
      OBVIOUS
    <3> QED
      BY <2>5, <3>1, <3>3, <3>4
  <2>6. tabs' = [tabs EXCEPT ![s] = r]
    BY <2>1, <2>5
  <2>7. tabs' \in [SocketSet -> Seq(TabRecord)]
    BY <1>1, <2>6, <2>8 DEF BrowserTyped
  <2> QED
    BY <1>1, <2>2, <2>3, <2>4, <2>7 DEF BrowserInv, BrowserTyped
<1> QED
  BY <1>2, <1>3

(* Every step keeps it.                                                    *)
LEMMA BrowserKeeps == BrowserInv /\ [BrowserNext]_browserVars => BrowserInv'
<1> SUFFICES ASSUME BrowserInv, [BrowserNext]_browserVars PROVE BrowserInv'
  OBVIOUS
<1> USE SocketsAssumption, TabsAssumption, BrowserCallsAssumption
<1>1. ASSUME NEW c \in BrowserCalls,
             \/ StartBrowserCall(c) \/ RemoveForward(c) \/ AddForward(c)
             \/ AskVersion(c) \/ CleanForward(c) \/ ListTargets(c)
      PROVE  BrowserInv'
  BY <1>1, BrowserStarts, RemoveForwardKeeps, AddForwardKeeps,
     AskVersionKeeps, CleanForwardKeeps, ListTargetsKeeps
<1>2. ASSUME NEW c \in BrowserCalls, ConnectionFails(c) PROVE BrowserInv'
  BY <1>2, RaisesKeeps
     DEF ConnectionFails, BrowserBusy, BrowserInv, BrowserTyped
<1>3. ASSUME NEW c \in BrowserCalls,
             \/ LookAt(c) \/ Screenshot(c) \/ Navigate(c) \/ Act(c)
             \/ AnswerLost(c) \/ Pair(c) \/ KickOffline(c) \/ Connect(c)
      PROVE  BrowserInv'
  BY <1>3, LookAtKeeps, NavigateKeeps, ActKeeps, AnswerLostKeeps, ConnectsKeeps
<1>4. CASE \/ PageLoads \/ UserClosesTab \/ UserGoesTo
           \/ BrowserSwitched \/ DeviceLost
  BY <1>4, TabsMove, BrowsersMove
<1>5. CASE UNCHANGED browserVars
  BY <1>5, LeftAlone DEF browserVars, BrowserInv, BrowserTyped
<1> QED
  BY <1>1, <1>2, <1>3, <1>4, <1>5 DEF BrowserNext

(* And it holds from the start.                                            *)
LEMMA BrowserInvAlways == BrowserSpec => []BrowserInv
<1>1. BrowserInit => BrowserInv
  <2> SUFFICES ASSUME BrowserInit PROVE BrowserInv
    OBVIOUS
  <2>1. tabs \in [SocketSet -> Seq(TabRecord)]
    <3>1. ASSUME NEW s \in SocketSet PROVE FirstTabs[s] \in Seq(TabRecord)
      <4>1. PICK q \in Seq([id : TabIds, page : Pages, next : {Nothere}]) :
              q = FirstTabs[s]
        BY TabsAssumption DEF TabsAssumption
      <4>2. q \in Seq(TabRecord)
        BY <4>1, TabsWiden
      <4> QED
        BY <4>1, <4>2
    <3>2. tabs = FirstTabs /\ DOMAIN FirstTabs = SocketSet
          /\ FirstTabs = [s \in SocketSet |-> FirstTabs[s]]
      BY TabsAssumption DEF TabsAssumption, BrowserInit, BrowserRests
    <3> QED
      BY <3>1, <3>2
  <2>2. BrowserTyped
    BY <2>1, SocketsAssumption, BrowserCallsAssumption
       DEF BrowserTyped, BrowserInit, BrowserRests, SocketsAssumption,
           BrowserCallsAssumption
  <2>3. \A c \in BrowserCalls : BrowserKept(c)
    BY DEF BrowserInit, BrowserRests, BrowserKept, AtRest
  <2> QED
    BY <2>2, <2>3 DEF BrowserInv
<1> QED
  BY <1>1, BrowserKeeps, PTL DEF BrowserSpec

(* The variables of the browser kits keep their types, and a call that is  *)
(* on its way to a browser goes to one of the list, whatever tools are     *)
(* called, and however they overlap with each other and with the user      *)
(* (android_cdp_bridge/tooling.py:175, android_cdp_client/tooling.py:181). *)
THEOREM BrowserKeepsTypes == BrowserSpec => []BrowserTypeOK
<1>1. BrowserInv => BrowserTypeOK
  <2> SUFFICES ASSUME BrowserInv PROVE BrowserTypeOK
    OBVIOUS
  <2>1. BrowserTyped
    BY DEF BrowserInv
  <2>2. ASSUME NEW s \in SocketSet, NEW i \in DOMAIN tabs[s]
        PROVE  tabs[s][i].page \in Pages
               /\ tabs[s][i].next \in Pages \cup {Nothere}
    <3>1. tabs[s] \in Seq(TabRecord)
      BY <2>1 DEF BrowserTyped
    <3>2. tabs[s][i] \in TabRecord
      BY <2>2, <3>1
    <3> QED
      BY <3>2 DEF TabRecord
  <2>3. ASSUME NEW c \in BrowserCalls
        PROVE  /\ bcall[c].pc \in
                  {"idle", "removing", "forwarding", "asking", "cleaning",
                   "listing", "looking", "capturing", "acting", "going",
                   "pairing", "kicking", "connecting", "done", "raised"}
               /\ bcall[c].pc # "idle" => bcall[c].candidate \in DOMAIN Sockets
    <3>1. CASE bcall[c].pc = "idle"
      BY <3>1
    <3>2. CASE bcall[c].pc # "idle"
      <4>1. bcall[c] \in Driven /\ bcall[c].pc # "start"
        BY <2>1, <3>2, DrivenRecord DEF BrowserInv, BrowserKept
      <4>2. DOMAIN Sockets = 1..Len(Sockets)
        BY SocketsAssumption DEF SocketsAssumption
      <4> QED
        BY <4>1, <4>2 DEF Driven, BrowserSteps, Settled, Visiting, Connecting
    <3> QED
      BY <3>1, <3>2
  <2> QED
    BY <2>1, <2>2, <2>3 DEF BrowserTypeOK, BrowserTyped
<1> QED
  BY <1>1, BrowserInvAlways, PTL

(* A call stays with the tab it picked: what it navigates is what it looks *)
(* at and reports, even when the page that comes no longer fits the filter *)
(* the tab was found by (android_edge_kit/tooling.py:108), and in one      *)
(* browser as long as no other call and no browser came in between; and    *)
(* click and fill are a success exactly if something was clicked or        *)
(* filled.                                                                 *)
THEOREM TabIsKept == BrowserSpec => []OneTabPerCall
<1>1. BrowserInv => OneTabPerCall
  <2> SUFFICES ASSUME BrowserInv, NEW c \in BrowserCalls,
                      bcall[c].pc \in {"done", "raised"}
               PROVE  /\ Cardinality({v[2] : v \in bcall[c].visited}) <= 1
                      /\ bcall[c].calm => Cardinality(bcall[c].visited) <= 1
                      /\ (bcall[c].pc = "done"
                            /\ bcall[c].tool \in {"click", "fill"}) =>
                         (bcall[c].success <=> <<c, bcall[c].tool>> \in acts)
    BY DEF OneTabPerCall
  <2>1. PICK x : x = bcall[c]
    OBVIOUS
  <2>2. DrivenWell(c, x) /\ x \in Driven
    BY <2>1, DrivenRecord DEF BrowserInv, BrowserKept
  <2>3. ASSUME NEW S, \A v, w \in S : v = w PROVE Cardinality(S) <= 1
    <3>1. CASE S = {}
      BY <3>1, FS_EmptySet
    <3>2. ASSUME NEW v \in S PROVE Cardinality(S) <= 1
      <4>1. S = {v}
        BY <2>3, <3>2
      <4> QED
        BY <4>1, FS_Singleton
    <3> QED
      BY <3>1, <3>2
  <2>4. \A v, w \in {u[2] : u \in x.visited} : v = w
    BY <2>2 DEF DrivenWell, OnScript, OneTab
  <2>5. Cardinality({v[2] : v \in x.visited}) <= 1
    BY <2>3, <2>4
  <2>6. x.calm => Cardinality(x.visited) <= 1
    BY <2>2, <2>3 DEF DrivenWell
  <2>7. x.pc = "done" /\ x.tool \in {"click", "fill"} =>
          (x.success <=> <<c, x.tool>> \in acts)
    BY <2>2 DEF DrivenWell, ActsOnce, Ahead
  <2> QED
    BY <2>1, <2>5, <2>6, <2>7
<1> QED
  BY <1>1, BrowserInvAlways, PTL

-----------------------------------------------------------------------------
(* The planning kits.  Flattening is a recursive function: what it returns *)
(* follows by induction on the number of sequences, with a set in place of *)
(* the predicate.                                                          *)

LEMMA LeastNatural ==
  ASSUME NEW S \in SUBSET Nat, S # {}
  PROVE  \E m \in S : \A k \in S : m <= k
<1> DEFINE R == OpToRel(<, Nat)
<1>1. \A a, b \in Nat : <<a, b>> \in R <=> a < b
  BY DEF OpToRel
<1>2. IsWellFoundedOn(R, Nat)
  BY NatLessThanWellFounded
<1> HIDE DEF R
<1>3. PICK m \in S : \A y \in S : ~(<<y, m>> \in R)
  BY <1>2, WFMin
<1>4. \A k \in S : m \in Nat /\ k \in Nat /\ ~(k < m)
  BY <1>1, <1>3
<1> QED
  BY <1>4

LEMMA UpTo ==
  ASSUME NEW N \in Nat, NEW S, 0 \in S, \A n \in 0..(N - 1) : n \in S => n + 1 \in S
  PROVE  N \in S
<1>1. SUFFICES ASSUME (0..N) \ S # {} PROVE FALSE
  OBVIOUS
<1>2. PICK m \in (0..N) \ S : \A k \in (0..N) \ S : m <= k
  <2>1. (0..N) \ S \in SUBSET Nat
    OBVIOUS
  <2> QED
    BY <1>1, <2>1, LeastNatural
<1>3. m # 0 /\ m - 1 \in 0..(N - 1) /\ m - 1 \in 0..N /\ (m - 1) + 1 = m
  BY <1>2
<1>4. m - 1 \in S
  BY <1>2, <1>3
<1> QED
  BY <1>2, <1>3, <1>4

(* A flattened sequence holds what its parts hold, and nothing else.       *)
Holds(s, x) == \E i \in 1..Len(s) : s[i] = x

LEMMA JoinHolds ==
  ASSUME NEW S, NEW s \in Seq(S), NEW t \in Seq(S)
  PROVE  /\ s \o t \in Seq(S)
         /\ \A x : Holds(s \o t, x) <=> Holds(s, x) \/ Holds(t, x)
<1>1. /\ s \o t \in Seq(S) /\ Len(s \o t) = Len(s) + Len(t)
      /\ \A i \in 1..Len(s) : (s \o t)[i] = s[i] /\ i \in 1..Len(s \o t)
      /\ \A i \in 1..Len(t) : (s \o t)[Len(s) + i] = t[i]
                              /\ Len(s) + i \in 1..Len(s \o t)
  OBVIOUS
<1>2. \A i \in 1..Len(s \o t) :
        \/ i \in 1..Len(s) /\ (s \o t)[i] = s[i]
        \/ i - Len(s) \in 1..Len(t) /\ (s \o t)[i] = t[i - Len(s)]
  <2> SUFFICES ASSUME NEW i \in 1..Len(s \o t), i \notin 1..Len(s)
               PROVE  i - Len(s) \in 1..Len(t) /\ (s \o t)[i] = t[i - Len(s)]
    BY <1>1
  <2>1. i - Len(s) \in 1..Len(t) /\ Len(s) + (i - Len(s)) = i
    BY <1>1
  <2> QED
    BY <1>1, <2>1
<1>3. ASSUME NEW x, Holds(s \o t, x) PROVE Holds(s, x) \/ Holds(t, x)
  BY <1>2, <1>3 DEF Holds
<1>4. ASSUME NEW x, Holds(s, x) PROVE Holds(s \o t, x)
  BY <1>1, <1>4 DEF Holds
<1>5. ASSUME NEW x, Holds(t, x) PROVE Holds(s \o t, x)
  <2>1. PICK i \in 1..Len(t) : t[i] = x
    BY <1>5 DEF Holds
  <2> QED
    BY <1>1, <2>1 DEF Holds
<1> QED
  BY <1>1, <1>3, <1>4, <1>5

LEMMA Flattened ==
  ASSUME NEW S, NEW n \in Nat, NEW ss \in [1..n -> Seq(S)]
  PROVE  /\ FlattenSeq(ss) \in Seq(S)
         /\ \A x : Holds(FlattenSeq(ss), x) <=> \E i \in 1..n : Holds(ss[i], x)
         /\ \A T \in SUBSET Seq(S) :
              /\ n # 0 /\ \A i \in 1..n : ss[i] \in T
              /\ \A a, b \in T : a \o b \in T
              => FlattenSeq(ss) \in T
<1>1. Len(ss) = n
  OBVIOUS
<1>2. CASE n = 0
  <2>1. FlattenSeq(ss) = ss /\ ss = << >> /\ 1..n = {}
    BY <1>1, <1>2 DEF FlattenSeq
  <2> QED
    BY <1>2, <2>1 DEF Holds
<1>3. CASE n # 0
  <2> DEFINE Flat(g, m) ==
               g = [i \in 1..m |-> IF i = 1 THEN ss[i] ELSE g[i - 1] \o ss[i]]
             Exist == {m \in 0..n : \E g \in [1..m -> Seq(S)] : Flat(g, m)}
  <2>1. n \in Exist
    <3>1. 0 \in Exist
      <4>1. [i \in 1..0 |-> << >>] \in [1..0 -> Seq(S)]
            /\ Flat([i \in 1..0 |-> << >>], 0)
        OBVIOUS
      <4>2. 0 \in 0..n
        OBVIOUS
      <4> HIDE DEF Flat
      <4> QED
        BY <4>1, <4>2
    <3>2. ASSUME NEW m \in 0..(n - 1), m \in Exist PROVE m + 1 \in Exist
      <4>1. PICK g \in [1..m -> Seq(S)] : Flat(g, m)
        BY <3>2
      <4> DEFINE h == [i \in 1..(m + 1) |->
                         IF i = 1 THEN ss[i]
                         ELSE IF i = m + 1 THEN g[m] \o ss[i] ELSE g[i]]
      <4>2. ss[m + 1] \in Seq(S) /\ ss[1] \in Seq(S) /\ m \in Nat
        OBVIOUS
      <4>3. m # 0 => g[m] \in Seq(S) /\ g[m] \o ss[m + 1] \in Seq(S)
        BY <4>2
      <4>4. ASSUME NEW i \in 1..(m + 1) PROVE h[i] \in Seq(S)
        BY <4>2, <4>3
      <4>5. h \in [1..(m + 1) -> Seq(S)]
        BY <4>4
      <4>6. ASSUME NEW i \in 1..(m + 1), i # 1
            PROVE  h[i] = h[i - 1] \o ss[i]
        <5>1. i - 1 \in 1..m /\ i - 1 # m + 1
          BY <4>6
        <5>2. h[i - 1] = g[i - 1]
          <6>1. g[1] = ss[1]
            BY <4>1, <5>1
          <6> QED
            BY <5>1, <6>1
        <5>3. h[i] = g[i - 1] \o ss[i]
          <6>1. CASE i = m + 1
            <7>1. i - 1 = m /\ i # 1
              BY <4>6, <6>1
            <7> QED
              BY <6>1, <7>1
          <6>2. CASE i # m + 1
            <7>1. i \in 1..m
              BY <6>2
            <7>2. g[i] = g[i - 1] \o ss[i]
              BY <4>1, <4>6, <7>1
            <7> QED
              BY <4>6, <6>2, <7>2
          <6> QED
            BY <6>1, <6>2
        <5> QED
          BY <5>2, <5>3
      <4>7. h[1] = ss[1]
        BY <4>2
      <4>8. Flat(h, m + 1)
        <5>1. \A i \in 1..(m + 1) :
                h[i] = IF i = 1 THEN ss[i] ELSE h[i - 1] \o ss[i]
          BY <4>6, <4>7
        <5> HIDE DEF h
        <5> QED
          BY <4>5, <5>1
      <4> HIDE DEF h, Flat
      <4> QED
        BY <4>5, <4>8
    <3> HIDE DEF Exist
    <3> QED
      BY <3>1, <3>2, UpTo
  <2> DEFINE flat == CHOOSE g : Flat(g, n)
  <2>2. Flat(flat, n)
    <3> HIDE DEF Flat
    <3> QED
      BY <2>1
  <2>3. FlattenSeq(ss) = flat[n]
    BY <1>1, <1>3 DEF FlattenSeq
  <2> HIDE DEF flat
  <2>4. \A i \in 1..n : flat[i] = IF i = 1 THEN ss[i] ELSE flat[i - 1] \o ss[i]
    BY <2>2
  <2> DEFINE Good(m) ==
               m # 0 =>
                 /\ flat[m] \in Seq(S)
                 /\ \A x : Holds(flat[m], x) <=> \E i \in 1..m : Holds(ss[i], x)
             Goods == {m \in 0..n : Good(m)}
  <2>5. 0 \in Goods
    OBVIOUS
  <2>6. ASSUME NEW m \in 0..(n - 1), m \in Goods PROVE m + 1 \in Goods
    <3>1. m + 1 \in 1..n /\ ss[m + 1] \in Seq(S) /\ (m + 1) - 1 = m
          /\ 1..(m + 1) = 1..m \cup {m + 1} /\ m + 1 # 0
      OBVIOUS
    <3>2. CASE m = 0
      <4>1. flat[m + 1] = ss[m + 1] /\ 1..(m + 1) = {m + 1}
        BY <2>4, <3>1, <3>2
      <4>2. \A x : Holds(flat[m + 1], x) <=> \E i \in 1..(m + 1) : Holds(ss[i], x)
        BY <4>1
      <4>3. flat[m + 1] \in Seq(S) /\ m + 1 \in 0..n
        BY <3>1, <4>1
      <4> QED
        BY <4>2, <4>3
    <3>3. CASE m # 0
      <4>1. flat[m + 1] = flat[m] \o ss[m + 1]
        <5>1. m + 1 # 1
          BY <3>3
        <5>2. flat[m + 1] = flat[(m + 1) - 1] \o ss[m + 1]
          BY <2>4, <3>1, <5>1
        <5> QED
          BY <3>1, <5>2
      <4>2. /\ flat[m] \in Seq(S)
            /\ \A x : Holds(flat[m], x) <=> \E i \in 1..m : Holds(ss[i], x)
        BY <2>6, <3>3
      <4>3. /\ flat[m + 1] \in Seq(S)
            /\ \A x : Holds(flat[m + 1], x)
                      <=> Holds(flat[m], x) \/ Holds(ss[m + 1], x)
        BY <3>1, <4>1, <4>2, JoinHolds
      <4>4. \A x : Holds(flat[m + 1], x) <=> \E i \in 1..(m + 1) : Holds(ss[i], x)
        BY <3>1, <4>2, <4>3
      <4> QED
        BY <3>1, <4>3, <4>4
    <3> QED
      BY <3>2, <3>3
  <2>7. n \in Goods
    <3> HIDE DEF Goods
    <3> QED
      BY <2>5, <2>6, UpTo
  <2>8. ASSUME NEW T \in SUBSET Seq(S), \A i \in 1..n : ss[i] \in T,
               \A a, b \in T : a \o b \in T
        PROVE  FlattenSeq(ss) \in T
    <3> DEFINE Within == {m \in 0..n : m # 0 => flat[m] \in T}
    <3>1. 0 \in Within
      OBVIOUS
    <3>2. ASSUME NEW m \in 0..(n - 1), m \in Within PROVE m + 1 \in Within
      <4>1. m + 1 \in 1..n /\ m + 1 \in 0..n /\ ss[m + 1] \in T /\ (m + 1) - 1 = m
        BY <2>8
      <4>2. flat[m + 1] \in T
        <5>1. CASE m = 0
          BY <2>4, <4>1, <5>1
        <5>2. CASE m # 0
          <6>1. flat[m] \in T /\ m + 1 # 1
            BY <3>2, <5>2
          <6>2. flat[m + 1] = flat[m] \o ss[m + 1]
            BY <2>4, <4>1, <6>1
          <6> QED
            BY <2>8, <4>1, <6>1, <6>2
        <5> QED
          BY <5>1, <5>2
      <4> QED
        BY <4>1, <4>2
    <3> HIDE DEF Within
    <3>3. n \in Within
      BY <3>1, <3>2, UpTo
    <3> QED
      BY <1>3, <2>3, <3>3 DEF Within
  <2> QED
    BY <1>3, <2>3, <2>7, <2>8
<1> QED
  BY <1>2, <1>3

(* Wherever the sequence has a member of A, it has had what g is of it: so  *)
(* it is of two sequences of that kind put together.                       *)
Preceded(s, A, g) ==
  \A i \in 1..Len(s) : s[i] \in A => \E j \in 1..(i - 1) : s[j] = g[s[i]]

LEMMA JoinPreceded ==
  ASSUME NEW S, NEW s \in Seq(S), NEW t \in Seq(S), NEW A, NEW g,
         Preceded(s, A, g), Preceded(t, A, g)
  PROVE  Preceded(s \o t, A, g)
<1>1. /\ s \o t \in Seq(S) /\ Len(s \o t) = Len(s) + Len(t)
      /\ Len(s) \in Nat /\ Len(t) \in Nat
      /\ \A i \in 1..Len(s) : (s \o t)[i] = s[i] /\ i \in 1..Len(s \o t)
      /\ \A i \in 1..Len(t) : (s \o t)[Len(s) + i] = t[i]
                              /\ Len(s) + i \in 1..Len(s \o t)
  OBVIOUS
<1> SUFFICES ASSUME NEW i \in 1..Len(s \o t), (s \o t)[i] \in A
             PROVE  \E j \in 1..(i - 1) : (s \o t)[j] = g[(s \o t)[i]]
  BY DEF Preceded
<1> DEFINE u == s \o t
<1>2. CASE i \in 1..Len(s)
  <2>1. u[i] = s[i]
    BY <1>1, <1>2
  <2>2. PICK j \in 1..(i - 1) : s[j] = g[s[i]]
    BY <1>2, <2>1 DEF Preceded
  <2>3. j \in 1..Len(s)
    BY <1>2
  <2> QED
    BY <1>1, <2>1, <2>2, <2>3
<1>3. CASE i \notin 1..Len(s)
  <2>1. i - Len(s) \in 1..Len(t) /\ Len(s) + (i - Len(s)) = i
    BY <1>1, <1>3
  <2>2. u[i] = t[i - Len(s)]
    BY <1>1, <2>1
  <2>3. PICK j \in 1..((i - Len(s)) - 1) : t[j] = g[t[i - Len(s)]]
    BY <2>1, <2>2 DEF Preceded
  <2>4. j \in 1..Len(t) /\ Len(s) + j \in 1..(i - 1)
    BY <1>1, <2>1
  <2>5. u[Len(s) + j] = t[j]
    BY <1>1, <2>4
  <2> QED
    BY <2>2, <2>3, <2>4, <2>5
<1> QED
  BY <1>2, <1>3

(* The commands of a call, each asked of a survey and an app: of every     *)
(* survey and app all that a profile asks, and whether it is installed     *)
(* before what is skipped of one that is not.                              *)
Words == {"installed", "thirdParty", "launcher", "url", "text", "asLauncher",
          "asUrl", "asText", "asImages"} \cup ScreenTools
ProfileWords == {"installed", "thirdParty", "launcher", "url", "text"}
Skippable == {"thirdParty", "launcher", "url", "text"}
Commands ==
  {r \in Nat \X (Packages \cup {Whole}) \X Words :
     r[3] \in {"url", "text"} => r[2] \in Packages}
SurveyKinds == {"assess", "uiAudit", "intents"}
WordFirst == [w \in Words |-> "installed"]
Skips == {r \in Commands : r[3] \in Skippable}
AskedFirst == [r \in Commands |-> <<r[1], r[2], "installed">>]
Asked(s) == Preceded(s, Skips, AskedFirst)

LEMMA SurveyWords ==
  ASSUME NEW k \in SurveyKinds
  PROVE  /\ SurveyReads[k] \in Seq(Words)
         /\ \A w \in ProfileWords : Holds(SurveyReads[k], w)
         /\ Preceded(SurveyReads[k], Skippable, WordFirst)
<1>1. /\ ProfileReads \in Seq(Words) /\ SurfaceReads \in Seq(Words)
      /\ ReadinessReads \in Seq(Words)
  <2>1. ProfileReads \in Seq(Words)
    BY DEF ProfileReads, Words
  <2>2. SurfaceReads \in Seq(Words)
    BY DEF SurfaceReads, Words
  <2>3. ReadinessReads \in Seq(Words)
    <3>1. ScreenTools \subseteq Words
      BY DEF Words
    <3>2. ReadinessReads \in Seq(ScreenTools)
      BY DEF ReadinessReads, ScreenTools
    <3> QED
      BY <3>1, <3>2
  <2> QED
    BY <2>1, <2>2, <2>3
<1>2. /\ \A w \in ProfileWords : Holds(ProfileReads, w)
      /\ Preceded(ProfileReads, Skippable, WordFirst)
      /\ Preceded(ReadinessReads, Skippable, WordFirst)
      /\ Preceded(SurfaceReads, Skippable, WordFirst)
  <2>1. /\ Len(ProfileReads) = 5 /\ ProfileReads[1] = "installed"
        /\ ProfileReads[2] = "thirdParty" /\ ProfileReads[3] = "launcher"
        /\ ProfileReads[4] = "url" /\ ProfileReads[5] = "text"
    BY DEF ProfileReads
  <2>2. 1 \in 1..5 /\ 2 \in 1..5 /\ 3 \in 1..5 /\ 4 \in 1..5 /\ 5 \in 1..5
    OBVIOUS
  <2>3. \A w \in ProfileWords : Holds(ProfileReads, w)
    BY <2>1, <2>2 DEF Holds, ProfileWords
  <2>4. \A w \in Skippable : WordFirst[w] = "installed"
    BY DEF WordFirst, Words, Skippable
  <2>5. Preceded(ProfileReads, Skippable, WordFirst)
    <3> SUFFICES ASSUME NEW i \in 1..5, ProfileReads[i] \in Skippable
                 PROVE  \E j \in 1..(i - 1) : ProfileReads[j] = "installed"
      BY <2>1, <2>4 DEF Preceded
    <3>1. i # 1
      BY <2>1 DEF Skippable
    <3>2. 1 \in 1..(i - 1)
      BY <3>1
    <3> QED
      BY <2>1, <3>2
  <2>6. \A i \in 1..Len(ReadinessReads) : ReadinessReads[i] \notin Skippable
    BY DEF ReadinessReads, Skippable
  <2>7. \A i \in 1..Len(SurfaceReads) : SurfaceReads[i] \notin Skippable
    BY DEF SurfaceReads, Skippable
  <2> QED
    BY <2>3, <2>5, <2>6, <2>7 DEF Preceded
<1>3. CASE k = "assess"
  BY <1>1, <1>2, <1>3 DEF SurveyReads
<1>4. CASE k = "uiAudit"
  <2>1. SurveyReads[k] = ReadinessReads \o ProfileReads
    BY <1>4 DEF SurveyReads
  <2> QED
    BY <1>1, <1>2, <2>1, JoinHolds, JoinPreceded
<1>5. CASE k = "intents"
  <2>1. SurveyReads[k] = ProfileReads \o SurfaceReads
    BY <1>5 DEF SurveyReads
  <2> QED
    BY <1>1, <1>2, <2>1, JoinHolds, JoinPreceded
<1> QED
  BY <1>3, <1>4, <1>5 DEF SurveyKinds

(* The apps of a survey, one after the other.                              *)
LEMMA SurveyCommands ==
  ASSUME NEW n \in Nat, NEW k \in SurveyKinds
  PROVE  /\ ReadsOf(n, k) \in Seq(Commands)
         /\ \A p \in Packages, w \in ProfileWords :
              Holds(ReadsOf(n, k), <<n, p, w>>)
         /\ Asked(ReadsOf(n, k))
<1> DEFINE m == Len(SurveyReads[k])
           about(i) == [j \in DOMAIN SurveyReads[k] |->
                          <<n, Stack[i], SurveyReads[k][j]>>]
           ss == [i \in DOMAIN Stack |-> about(i)]
           tail == IF k = "uiAudit"
                     THEN [j \in DOMAIN ReadinessReads |->
                             <<n, Whole, ReadinessReads[j]>>]
                     ELSE << >>
<1>1. /\ Len(Stack) \in Nat /\ DOMAIN Stack = 1..Len(Stack)
      /\ \A i \in DOMAIN Stack : Stack[i] \in Packages
  BY PlanningAssumption DEF Packages, Range
<1>2. m \in Nat /\ DOMAIN SurveyReads[k] = 1..m
      /\ \A j \in 1..m : SurveyReads[k][j] \in Words
  BY SurveyWords
<1>3. ASSUME NEW i \in DOMAIN Stack
      PROVE  /\ about(i) \in Seq(Commands)
             /\ \A w \in ProfileWords : Holds(about(i), <<n, Stack[i], w>>)
             /\ Asked(about(i))
  <2>1. Stack[i] \in Packages
    BY <1>1
  <2>2. \A j \in 1..m : <<n, Stack[i], SurveyReads[k][j]>> \in Commands
    BY <1>2, <2>1 DEF Commands
  <2>3. about(i) = [j \in 1..m |-> <<n, Stack[i], SurveyReads[k][j]>>]
    BY <1>2
  <2> HIDE DEF about, m
  <2>4. about(i) \in Seq(Commands) /\ Len(about(i)) = m
    <3>1. about(i) \in [1..m -> Commands]
      BY <2>2, <2>3
    <3> QED
      BY <1>2, <3>1
  <2>5. ASSUME NEW w \in ProfileWords PROVE Holds(about(i), <<n, Stack[i], w>>)
    <3>1. PICK j \in 1..m : SurveyReads[k][j] = w
      BY SurveyWords DEF Holds, m
    <3>2. about(i)[j] = <<n, Stack[i], w>>
      BY <2>3, <3>1
    <3> QED
      BY <2>4, <3>1, <3>2 DEF Holds
  <2>6. Asked(about(i))
    <3> SUFFICES ASSUME NEW l \in 1..m, about(i)[l] \in Skips
                 PROVE  \E j \in 1..(l - 1) :
                          about(i)[j] = AskedFirst[about(i)[l]]
      BY <2>4 DEF Asked, Preceded
    <3>1. about(i)[l] = <<n, Stack[i], SurveyReads[k][l]>>
          /\ about(i)[l] \in Commands /\ SurveyReads[k][l] \in Skippable
      BY <2>2, <2>3 DEF Skips
    <3>2. PICK j \in 1..(l - 1) :
            SurveyReads[k][j] = WordFirst[SurveyReads[k][l]]
      BY <3>1, SurveyWords DEF Preceded, m
    <3>3. j \in 1..m /\ SurveyReads[k][j] = "installed"
      BY <1>2, <3>2 DEF WordFirst
    <3>4. about(i)[j] = <<n, Stack[i], "installed">>
      BY <2>3, <3>3
    <3>5. AskedFirst[about(i)[l]] = <<n, Stack[i], "installed">>
      BY <3>1 DEF AskedFirst
    <3> QED
      BY <3>2, <3>4, <3>5
  <2> QED
    BY <2>4, <2>5, <2>6
<1>4. tail \in Seq(Commands) /\ Asked(tail)
  <2>1. CASE k = "uiAudit"
    <3>1. \A j \in DOMAIN ReadinessReads :
            <<n, Whole, ReadinessReads[j]>> \in Commands
      <4>1. \A j \in DOMAIN ReadinessReads : ReadinessReads[j] \in ScreenTools
        BY DEF ReadinessReads, ScreenTools
      <4>2. \A w \in ScreenTools : w \in Words /\ w \notin {"url", "text"}
        BY DEF Words, ScreenTools
      <4> QED
        BY <4>1, <4>2 DEF Commands
    <3>2. DOMAIN ReadinessReads = 1..3
      BY DEF ReadinessReads
    <3>3. tail = [j \in 1..3 |-> <<n, Whole, ReadinessReads[j]>>]
      BY <2>1, <3>2
    <3>4. tail \in Seq(Commands) /\ Len(tail) = 3
      BY <3>1, <3>2, <3>3
    <3>5. \A j \in 1..3 : tail[j] \notin Skips
      <4>1. \A j \in 1..3 : ReadinessReads[j] \notin Skippable
        BY <3>2 DEF ReadinessReads, Skippable
      <4> QED
        BY <3>3, <4>1 DEF Skips
    <3> HIDE DEF tail
    <3> QED
      BY <3>4, <3>5 DEF Asked, Preceded
  <2>2. CASE k # "uiAudit"
    BY <2>2 DEF Asked, Preceded
  <2> QED
    BY <2>1, <2>2
<1>5. ss \in [1..Len(Stack) -> Seq(Commands)]
  BY <1>1, <1>3
<1> HIDE DEF about, tail
<1>6. /\ FlattenSeq(ss) \in Seq(Commands)
      /\ \A x : Holds(FlattenSeq(ss), x) <=>
                \E i \in 1..Len(Stack) : Holds(ss[i], x)
      /\ Asked(FlattenSeq(ss))
  <2>1. \A i \in 1..Len(Stack) : Asked(ss[i])
    BY <1>1, <1>3
  <2> HIDE DEF ss
  <2>2. Len(Stack) # 0
    BY PlanningAssumption
  <2> DEFINE T == {s \in Seq(Commands) : Asked(s)}
  <2>3. \A a, b \in T : a \o b \in T
    BY JoinHolds, JoinPreceded DEF Asked
  <2>4. T \in SUBSET Seq(Commands) /\ \A i \in 1..Len(Stack) : ss[i] \in T
    BY <1>5, <2>1
  <2>5. \A s \in T : Asked(s)
    OBVIOUS
  <2> HIDE DEF T
  <2> QED
    BY <1>1, <1>5, <2>2, <2>3, <2>4, <2>5, Flattened
<1>7. ReadsOf(n, k) = FlattenSeq(ss) \o tail
  BY DEF ReadsOf, about, tail
<1>8. ASSUME NEW p \in Packages, NEW w \in ProfileWords
      PROVE  Holds(FlattenSeq(ss), <<n, p, w>>)
  <2>1. PICK i \in DOMAIN Stack : Stack[i] = p
    BY DEF Packages, Range
  <2>2. Holds(ss[i], <<n, p, w>>)
    BY <1>3, <2>1
  <2> HIDE DEF ss
  <2> QED
    BY <1>1, <1>6, <2>1, <2>2
<1> HIDE DEF ss
<1> QED
  BY <1>4, <1>6, <1>7, <1>8, JoinHolds, JoinPreceded DEF Asked

LEMMA CallCommands ==
  ASSUME NEW t \in PlanTools
  PROVE  /\ Reads[t] \in Seq(Commands) /\ Len(Reads[t]) > 0
         /\ \A n \in DOMAIN Surveys[t], p \in Packages, w \in ProfileWords :
              Holds(Reads[t], <<n, p, w>>)
         /\ Asked(Reads[t])
<1>1. t \in DOMAIN Surveys
  BY PlanningAssumption
<1>2. /\ Surveys[t] \in Seq(SurveyKinds) /\ Len(Surveys[t]) > 0
  <2>1. /\ <<"assess">> \in Seq(SurveyKinds) /\ <<"uiAudit">> \in Seq(SurveyKinds)
        /\ <<"intents">> \in Seq(SurveyKinds)
        /\ <<"assess", "assess">> \in Seq(SurveyKinds)
        /\ <<"assess", "assess", "assess", "assess", "uiAudit">> \in Seq(SurveyKinds)
    BY DEF SurveyKinds
  <2>2. Surveys[t] \in {<<"assess">>, <<"uiAudit">>, <<"intents">>,
                        <<"assess", "assess">>,
                        <<"assess", "assess", "assess", "assess", "uiAudit">>}
    BY <1>1 DEF Surveys
  <2>3. Surveys[t] \in Seq(SurveyKinds)
    BY <2>1, <2>2
  <2>4. Surveys[t] # << >>
    BY <2>2
  <2> QED
    BY <2>3, <2>4
<1> DEFINE m == Len(Surveys[t])
           ss == [n \in DOMAIN Surveys[t] |-> ReadsOf(n, Surveys[t][n])]
<1>3. m \in Nat /\ m > 0 /\ DOMAIN Surveys[t] = 1..m
      /\ \A n \in 1..m : Surveys[t][n] \in SurveyKinds
  BY <1>2
<1>4. Reads[t] = FlattenSeq(ss)
  BY <1>1 DEF Reads
<1> HIDE DEF m
<1>5. \A n \in 1..m :
        /\ ss[n] \in Seq(Commands) /\ Asked(ss[n])
        /\ \A p \in Packages, w \in ProfileWords : Holds(ss[n], <<n, p, w>>)
  BY <1>3, SurveyCommands
<1>6. ss \in [1..m -> Seq(Commands)]
  BY <1>3, <1>5
<1> HIDE DEF ss
<1>7. /\ Reads[t] \in Seq(Commands)
      /\ \A x : Holds(Reads[t], x) <=> \E n \in 1..m : Holds(ss[n], x)
      /\ Asked(Reads[t])
  <2> DEFINE T == {s \in Seq(Commands) : Asked(s)}
  <2>1. \A a, b \in T : a \o b \in T
    BY JoinHolds, JoinPreceded DEF Asked
  <2>2. T \in SUBSET Seq(Commands) /\ \A n \in 1..m : ss[n] \in T
    BY <1>5
  <2>3. \A s \in T : Asked(s)
    OBVIOUS
  <2>4. m \in Nat /\ m # 0
    BY <1>3
  <2> HIDE DEF T
  <2> QED
    BY <1>4, <1>6, <2>1, <2>2, <2>3, <2>4, Flattened
<1>8. \A n \in DOMAIN Surveys[t], p \in Packages, w \in ProfileWords :
        Holds(Reads[t], <<n, p, w>>)
  BY <1>3, <1>5, <1>7
<1>9. Len(Reads[t]) > 0
  <2>1. Stack[1] \in Packages
    BY PlanningAssumption DEF Packages, Range
  <2>2. Holds(Reads[t], <<1, Stack[1], "url">>)
    <3>1. 1 \in DOMAIN Surveys[t] /\ "url" \in ProfileWords
      BY <1>3 DEF ProfileWords
    <3> QED
      BY <1>8, <2>1, <3>1
  <2> QED
    BY <1>7, <2>2 DEF Holds
<1> QED
  BY <1>7, <1>8, <1>9

-----------------------------------------------------------------------------
(* The order of a stack: it is total, and every set of its apps has a      *)
(* first one.                                                              *)
LEMMA StackOrder ==
  /\ IsFiniteSet(Packages) /\ Packages # {}
  /\ DOMAIN Stack = 1..Len(Stack) /\ Len(Stack) \in Nat \ {0}
  /\ \A p, q : Before(p, q) => p # q /\ ~Before(q, p)
<1>1. /\ Stack \in [1..Len(Stack) -> Packages] /\ Len(Stack) \in Nat \ {0}
      /\ DOMAIN Stack = 1..Len(Stack)
      /\ \A p \in Packages : \E i \in 1..Len(Stack) : Stack[i] = p
  BY PlanningAssumption DEF Packages, Range
<1>2. Stack \in Surjection(1..Len(Stack), Packages)
  BY <1>1 DEF Surjection
<1>3. IsFiniteSet(Packages)
  BY <1>1, <1>2, FS_Interval, FS_Surjection
<1>4. ASSUME NEW p, NEW q, Before(p, q) PROVE p # q /\ ~Before(q, p)
  <2>1. PICK i, j \in 1..Len(Stack) : i < j /\ Stack[i] = p /\ Stack[j] = q
    BY <1>1, <1>4 DEF Before
  <2>2. p # q
    BY <1>1, <2>1, PlanningAssumption
  <2>3. ASSUME NEW k \in 1..Len(Stack), NEW l \in 1..Len(Stack),
               k < l, Stack[k] = q, Stack[l] = p
        PROVE  FALSE
    <3>1. k = j /\ l = i
      BY <1>1, <2>1, <2>3, PlanningAssumption
    <3> QED
      BY <2>1, <2>3, <3>1
  <2> QED
    BY <1>1, <2>2, <2>3 DEF Before
<1>5. Packages # {}
  <2>1. 1 \in 1..Len(Stack)
    BY <1>1
  <2> QED
    BY <1>1, <2>1
<1> QED
  BY <1>1, <1>3, <1>4, <1>5

LEMMA FirstExists ==
  ASSUME NEW S \in SUBSET Packages, S # {}
  PROVE  /\ FirstOf(S) \in S
         /\ \A q \in S \ {FirstOf(S)} : Before(FirstOf(S), q)
<1> DEFINE at == {i \in 1..Len(Stack) : Stack[i] \in S}
<1>1. at \in SUBSET Nat /\ at # {}
  BY StackOrder DEF Packages, Range
<1>2. PICK m \in at : \A k \in at : m <= k
  BY <1>1, LeastNatural
<1>3. ASSUME NEW q \in S \ {Stack[m]} PROVE Before(Stack[m], q)
  <2>1. PICK k \in at : Stack[k] = q
    BY StackOrder DEF Packages, Range
  <2>2. m < k /\ m \in DOMAIN Stack /\ k \in DOMAIN Stack
    BY <1>2, <1>3, <2>1, StackOrder
  <2> QED
    BY <2>1, <2>2 DEF Before
<1>4. Stack[m] \in S
  OBVIOUS
<1> QED
  BY <1>3, <1>4 DEF FirstOf

(* The first of some apps is among the first two.                          *)
LEMMA FirstIsAmong ==
  ASSUME NEW S \in SUBSET Packages, S # {}
  PROVE  FirstOf(S) \in FirstFew(S, 2)
<1>1. {q \in S : Before(q, FirstOf(S))} = {}
  BY FirstExists, StackOrder
<1>2. Cardinality({q \in S : Before(q, FirstOf(S))}) < 2
  BY <1>1, FS_EmptySet
<1> QED
  BY <1>2, FirstExists DEF FirstFew

(* What a survey says of an app of which every command has told the truth, *)
(* and what follows from it.                                               *)
Told(s, w) ==
  IF w = "installed" THEN s.installed
  ELSE IF w = "launcher" THEN IF s.installed THEN s.launcher ELSE "none"
  ELSE IF ~s.installed THEN FALSE
  ELSE IF w = "thirdParty" THEN s.thirdParty
  ELSE IF w = "url" THEN s.url ELSE s.text
ModeOf(s) ==
  IF ~s.installed THEN "missing"
  ELSE IF s.launcher = "reactivate" THEN "reactivation_or_restore"
  ELSE IF s.url \/ s.text THEN "direct_handoff"
  ELSE IF s.launcher = "launch" THEN "ui_steering" ELSE "unknown"
ScoreOf(s) ==
  IF ~s.installed THEN 0
  ELSE Clamp(Points(s.launcher # "none", 40)
             + Points(s.url, 30) + Points(s.text, 20) + Points(s.thirdParty, 5)
             - Points(s.launcher = "reactivate", 35))
CanBeUsed(s) == ModeOf(s) \in {"direct_handoff", "ui_steering"}

(* An app that can be used has at least 20 points, any other at most 10.   *)
LEMMA ScoresPart ==
  ASSUME NEW s \in AppStates
  PROVE  ScoreOf(s) \in IF CanBeUsed(s) THEN 20..100 ELSE 0..10
<1>1. /\ s.installed \in BOOLEAN /\ s.thirdParty \in BOOLEAN
      /\ s.launcher \in {"none", "launch", "reactivate"}
      /\ s.url \in BOOLEAN /\ s.text \in BOOLEAN
      /\ s.url \/ s.text => s.installed /\ s.launcher # "reactivate"
  BY HandlersAssumption
<1>2. CASE ~s.installed
  BY <1>2 DEF ScoreOf, CanBeUsed, ModeOf
<1>3. CASE s.installed /\ s.launcher = "reactivate"
  <2>1. ~s.url /\ ~s.text /\ ~CanBeUsed(s)
    BY <1>1, <1>3 DEF CanBeUsed, ModeOf
  <2> QED
    BY <1>1, <1>3, <2>1 DEF ScoreOf, Points, Clamp
<1>4. CASE s.installed /\ s.launcher = "launch"
  <2>1. CanBeUsed(s)
    BY <1>1, <1>4 DEF CanBeUsed, ModeOf
  <2> QED
    BY <1>1, <1>4, <2>1 DEF ScoreOf, Points, Clamp
<1>5. CASE s.installed /\ s.launcher = "none"
  <2>1. CanBeUsed(s) <=> s.url \/ s.text
    BY <1>1, <1>5 DEF CanBeUsed, ModeOf
  <2> QED
    BY <1>1, <1>5, <2>1 DEF ScoreOf, Points, Clamp
<1> QED
  BY <1>1, <1>2, <1>3, <1>4, <1>5

(* An order by points, equal ones by their place in the stack, has one     *)
(* that is before all others, and no two of an app each before the other.  *)
Beats(f, p, q) == f[p] > f[q] \/ (f[p] = f[q] /\ Before(p, q))

LEMMA BestExists ==
  ASSUME NEW f \in [Packages -> 0..100]
  PROVE  \E b \in Packages : \A q \in Packages \ {b} : Beats(f, b, q)
<1> DEFINE missing == {100 - f[p] : p \in Packages}
<1>1. missing \in SUBSET Nat /\ missing # {}
  <2>1. \A p \in Packages : f[p] \in 0..100 /\ 100 - f[p] \in Nat
    OBVIOUS
  <2> QED
    BY <2>1, StackOrder
<1>2. PICK m \in missing : \A k \in missing : m <= k
  BY <1>1, LeastNatural
<1> DEFINE best == {p \in Packages : f[p] = 100 - m}
<1>3. best \in SUBSET Packages /\ best # {}
  <2>1. PICK p \in Packages : m = 100 - f[p]
    BY <1>2
  <2>2. f[p] \in 0..100
    OBVIOUS
  <2>3. f[p] = 100 - m
    BY <2>1, <2>2
  <2> QED
    BY <2>3
<1> DEFINE b == FirstOf(best)
<1>4. b \in best /\ \A q \in best \ {b} : Before(b, q)
  BY <1>3, FirstExists
<1>5. ASSUME NEW q \in Packages \ {b} PROVE Beats(f, b, q)
  <2>1. 100 - f[q] \in missing /\ f[q] \in 0..100 /\ m \in Nat
    BY <1>1
  <2>2. m <= 100 - f[q]
    BY <1>2, <2>1
  <2>3. f[b] = 100 - m
    BY <1>4
  <2>4. CASE f[q] = 100 - m
    <3>1. q \in best \ {b}
      BY <2>4
    <3> QED
      BY <1>4, <2>3, <2>4, <3>1 DEF Beats
  <2>5. CASE f[q] # 100 - m
    <3>1. f[q] < 100 - m
      BY <2>1, <2>2, <2>5
    <3> QED
      BY <2>1, <2>3, <3>1 DEF Beats
  <2> QED
    BY <2>4, <2>5
<1> QED
  BY <1>4, <1>5

LEMMA BestIsOne ==
  ASSUME NEW f \in [Packages -> 0..100], NEW p \in Packages, NEW q \in Packages,
         Beats(f, p, q)
  PROVE  p # q /\ ~Beats(f, q, p)
<1>1. f[p] \in 0..100 /\ f[q] \in 0..100
  OBVIOUS
<1>2. CASE f[p] > f[q]
  BY <1>1, <1>2 DEF Beats
<1>3. CASE f[p] = f[q]
  <2>1. Before(p, q)
    BY <1>1, <1>3 DEF Beats
  <2>2. p # q /\ ~Before(q, p)
    BY <2>1, StackOrder
  <2> QED
    BY <1>1, <1>3, <2>2 DEF Beats
<1> QED
  BY <1>2, <1>3 DEF Beats

(* PartsAgree of a document that need not be the call's yet; and that all  *)
(* five surveys of a capture say what is so.                               *)
AgreeOf(doc) ==
  LET pilots == doc.blueprint.pilots
      usable == {p \in Packages : \E k \in {"direct_handoff", "ui_guided"} :
                                    <<k, p>> \in pilots}
  IN  /\ doc.pilot[2] # Whole =>
           /\ doc.pilot \in pilots
           /\ doc.audit[doc.pilot[2]].pattern \notin
                {"unavailable", "repair_before_ui", "unknown"}
      /\ usable # {} => doc.blueprint.entry = Head(doc.report.summary.best)
      /\ \A r \in doc.blueprint.risks :
           r[1] = "high" => r[2] \notin usable
Truthful ==
  \A n \in 1..5, p \in Packages, w \in ProfileWords :
    Seen(n, p, w) = Told(apps[p], w)

(* A survey that says what is so finds the mode and the score of an app.   *)
LEMMA SurveysAgree ==
  ASSUME apps \in [Packages -> AppStates], Truthful,
         NEW n \in 1..5, NEW p \in Packages
  PROVE  /\ InteractionMode(n, p) = ModeOf(apps[p])
         /\ ReadinessScore(n, p) = ScoreOf(apps[p])
<1> DEFINE s == apps[p]
<1>1. /\ s \in AppStates
      /\ s.installed \in BOOLEAN /\ s.thirdParty \in BOOLEAN
      /\ s.launcher \in {"none", "launch", "reactivate"}
      /\ s.url \in BOOLEAN /\ s.text \in BOOLEAN
  BY HandlersAssumption
<1>2. /\ Seen(n, p, "installed") = Told(s, "installed")
      /\ Seen(n, p, "launcher") = Told(s, "launcher")
      /\ Seen(n, p, "thirdParty") = Told(s, "thirdParty")
      /\ Seen(n, p, "url") = Told(s, "url")
      /\ Seen(n, p, "text") = Told(s, "text")
  BY DEF Truthful, ProfileWords
<1>3. Seen(n, p, "installed") = s.installed
  BY <1>2 DEF Told
<1>4. s.installed => /\ Seen(n, p, "launcher") = s.launcher
                     /\ Seen(n, p, "thirdParty") = s.thirdParty
                     /\ Seen(n, p, "url") = s.url
                     /\ Seen(n, p, "text") = s.text
  BY <1>2 DEF Told
<1> HIDE DEF s
<1>5. InteractionMode(n, p) = ModeOf(s)
  <2>1. CASE ~s.installed
    <3>1. /\ Seen(n, p, "launcher") = "none"
          /\ Seen(n, p, "url") = FALSE /\ Seen(n, p, "text") = FALSE
      BY <1>2, <2>1 DEF Told
    <3>2. ~Handles(n, p)
      BY <3>1 DEF Handles
    <3> QED
      BY <1>3, <2>1, <3>1, <3>2 DEF InteractionMode, ModeOf
  <2>2. CASE s.installed /\ s.launcher = "reactivate"
    <3>1. ~s.url /\ ~s.text
      BY <1>1, <2>2, HandlersAssumption
    <3> QED
      BY <1>1, <1>3, <1>4, <2>2, <3>1 DEF InteractionMode, ModeOf, Handles
  <2>3. CASE s.installed /\ s.launcher # "reactivate"
    <3>1. Handles(n, p) <=> s.url \/ s.text
      BY <1>4, <2>3 DEF Handles
    <3>2. CASE s.url \/ s.text
      BY <1>1, <1>3, <1>4, <2>3, <3>1, <3>2 DEF InteractionMode, ModeOf
    <3>3. CASE ~(s.url \/ s.text)
      BY <1>1, <1>3, <1>4, <2>3, <3>1, <3>3 DEF InteractionMode, ModeOf
    <3> QED
      BY <3>2, <3>3
  <2> QED
    BY <2>1, <2>2, <2>3
<1>6. ReadinessScore(n, p) = ScoreOf(s)
  BY <1>1, <1>3, <1>4 DEF ReadinessScore, ScoreOf
<1> QED
  BY <1>5, <1>6 DEF s

(* What each of the surveys then finds: the apps of a mode, those that can *)
(* be used, and the points of each.                                        *)
Those(m) == {p \in Packages : ModeOf(apps[p]) = m}
Use == {p \in Packages : CanBeUsed(apps[p])}
Marks == [p \in Packages |-> ScoreOf(apps[p])]

LEMMA SurveysRank ==
  ASSUME apps \in [Packages -> AppStates], Truthful, NEW n \in 1..5
  PROVE  /\ \A m : Named(n, m) = Those(m)
         /\ Usable(n) = Use
         /\ Marks \in [Packages -> 0..100]
         /\ \A p, q \in Packages : Better(n, p, q) <=> Beats(Marks, p, q)
<1>1. \A m : Named(n, m) = Those(m)
  BY SurveysAgree DEF Named, Those
<1>2. Usable(n) = Use
  BY <1>1 DEF Usable, Use, Those, CanBeUsed
<1>3. \A p \in Packages : ScoreOf(apps[p]) \in 0..100
  <2> TAKE p \in Packages
  <2>1. apps[p] \in AppStates
    OBVIOUS
  <2> QED
    BY <2>1, ScoresPart
<1>4. \A p, q \in Packages : Better(n, p, q) <=> Beats(Marks, p, q)
  BY SurveysAgree DEF Better, Beats, Marks
<1> QED
  BY <1>1, <1>2, <1>3, <1>4 DEF Marks

(* The entry app and the best of the candidates are one app, if any app    *)
(* can be used.                                                            *)
LEMMA EntryIsBest ==
  ASSUME apps \in [Packages -> AppStates], Truthful, Use # {}
  PROVE  PreferredEntryApp(2) = Head(Upto(Ranked(3), 3))
<1>1. /\ Marks \in [Packages -> 0..100] /\ Usable(2) = Use
      /\ \A p, q \in Packages : Better(2, p, q) <=> Beats(Marks, p, q)
      /\ \A p, q \in Packages : Better(3, p, q) <=> Beats(Marks, p, q)
  BY SurveysRank
<1>2. PICK b \in Packages : \A q \in Packages \ {b} : Beats(Marks, b, q)
  BY <1>1, BestExists
<1>3. \A p \in Packages \ {b} : ~Beats(Marks, p, b)
  BY <1>1, <1>2, BestIsOne
<1>4. ~Beats(Marks, b, b)
  BY <1>1, BestIsOne
<1>5. b \in Use
  <2>1. PICK u \in Use : TRUE
    OBVIOUS
  <2>2. SUFFICES ASSUME b \notin Use PROVE FALSE
    OBVIOUS
  <2>3. u \in Packages \ {b} /\ apps[u] \in AppStates /\ apps[b] \in AppStates
    BY <2>1, <2>2 DEF Use
  <2>4. Marks[u] \in 20..100 /\ Marks[b] \in 0..10
    BY <2>1, <2>2, <2>3, ScoresPart DEF Use, Marks
  <2>5. Beats(Marks, b, u)
    BY <1>2, <2>3
  <2> QED
    BY <2>4, <2>5 DEF Beats
<1>6. PreferredEntryApp(2) = b
  <2>1. b \in Usable(2) /\ \A q \in Usable(2) \ {b} : Better(2, b, q)
    BY <1>1, <1>2, <1>5 DEF Use
  <2>2. ASSUME NEW p \in Usable(2), \A q \in Usable(2) \ {p} : Better(2, p, q)
        PROVE  p = b
    BY <1>1, <1>3, <2>1, <2>2 DEF Use
  <2> QED
    BY <2>1, <2>2 DEF PreferredEntryApp
<1>7. Ranked(3)[1] = b
  <2> DEFINE over(p) == {q \in Packages : Better(3, q, p)}
  <2>1. over(b) = {}
    BY <1>1, <1>3, <1>4
  <2>2. Cardinality(over(b)) = 1 - 1
    BY <2>1, FS_EmptySet
  <2>3. ASSUME NEW p \in Packages, p # b PROVE Cardinality(over(p)) # 1 - 1
    <3>1. b \in over(p)
      BY <1>1, <1>2, <2>3
    <3>2. IsFiniteSet(over(p))
      BY StackOrder, FS_Subset
    <3> HIDE DEF over
    <3> QED
      BY <3>1, <3>2, FS_EmptySet
  <2>4. 1 \in DOMAIN Stack
    BY StackOrder
  <2>5. Ranked(3)[1] = CHOOSE p \in Packages : Cardinality(over(p)) = 1 - 1
    BY <2>4 DEF Ranked
  <2> HIDE DEF over
  <2> QED
    BY <2>2, <2>3, <2>5
<1>8. Head(Upto(Ranked(3), 3)) = Ranked(3)[1]
  <2> DEFINE s == Ranked(3)
             k == IF Len(s) < 3 THEN Len(s) ELSE 3
  <2> DEFINE place(i) == CHOOSE p \in Packages :
                         Cardinality({q \in Packages : Better(3, q, p)}) = i - 1
  <2>1. s = [i \in 1..Len(Stack) |-> place(i)] /\ Len(Stack) \in Nat \ {0}
    BY StackOrder DEF Ranked
  <2> HIDE DEF s, place
  <2>2. Len(s) = Len(Stack)
    BY <2>1
  <2>3. k \in 1..3
    BY <2>1, <2>2
  <2>4. Upto(s, 3) = SubSeq(s, 1, k)
    BY DEF Upto
  <2> HIDE DEF k
  <2>5. Head(SubSeq(s, 1, k)) = s[1]
    BY <2>1, <2>2, <2>3
  <2> QED
    BY <2>4, <2>5 DEF s
<1> QED
  BY <1>6, <1>7, <1>8

(* So the parts of the document agree.                                     *)
LEMMA CaptureAgrees ==
  ASSUME apps \in [Packages -> AppStates], Truthful
  PROVE  AgreeOf(WorkflowCapture)
<1> DEFINE doc == WorkflowCapture
           pilots == PilotWorkflows(2)
           usable == {p \in Packages : \E k \in {"direct_handoff", "ui_guided"} :
                                         <<k, p>> \in pilots}
<1>1. /\ doc.blueprint.pilots = pilots /\ doc.pilot = RecommendedPilot
      /\ doc.blueprint.entry = PreferredEntryApp(2)
      /\ doc.blueprint.risks = RiskRegister(2)
      /\ doc.report.summary.best = Upto(Ranked(3), 3)
      /\ \A p \in Packages : doc.audit[p].pattern = UiPattern(5, p)
  BY DEF WorkflowCapture, Blueprint, StackReport, ExecutiveSummary, UiAudit
<1> HIDE DEF doc, pilots
<1>2. /\ \A n \in 1..5 : \A m : Named(n, m) = Those(m)
      /\ \A p \in Packages : InteractionMode(5, p) = ModeOf(apps[p])
  BY SurveysRank, SurveysAgree
<1>3. pilots = About("direct_handoff", FirstFew(Those("direct_handoff"), 2))
        \cup About("ui_guided", FirstFew(Those("ui_steering"), 2))
        \cup {<<"reactivation_repair_lane", Whole>> :
                p \in Those("reactivation_or_restore")}
        \cup {<<"support_bundle_outbound", Whole>>}
        \cup (IF plan.goal THEN {<<"goal_validation_loop", Whole>>} ELSE {})
  BY <1>2 DEF pilots, PilotWorkflows
<1>4. usable \subseteq Use
  BY <1>3 DEF About, FirstFew, Those, Use, CanBeUsed
<1>5. ASSUME doc.pilot[2] # Whole
      PROVE  /\ doc.pilot \in pilots
             /\ doc.audit[doc.pilot[2]].pattern \notin
                  {"unavailable", "repair_before_ui", "unknown"}
  <2> DEFINE direct == Those("direct_handoff")
             ui == Those("ui_steering")
  <2>1. doc.pilot = IF direct # {} THEN <<"direct_handoff", FirstOf(direct)>>
                    ELSE IF ui # {} THEN <<"ui_guided", FirstOf(ui)>>
                    ELSE <<"support_first", Whole>>
    BY <1>1, <1>2 DEF RecommendedPilot
  <2>2. direct \in SUBSET Packages /\ ui \in SUBSET Packages
    BY DEF Those
  <2>3. PICK k \in {"direct_handoff", "ui_guided"}, S \in {direct, ui} :
          /\ S # {} /\ doc.pilot = <<k, FirstOf(S)>>
          /\ About(k, FirstFew(S, 2)) \subseteq pilots
    BY <1>3, <1>5, <2>1
  <2>4. FirstOf(S) \in S /\ FirstOf(S) \in FirstFew(S, 2) /\ S \subseteq Packages
    BY <2>2, <2>3, FirstExists, FirstIsAmong
  <2>5. doc.pilot \in pilots
    BY <2>3, <2>4 DEF About
  <2>6. UiPattern(5, FirstOf(S)) \notin
          {"unavailable", "repair_before_ui", "unknown"}
    <3>1. InteractionMode(5, FirstOf(S)) \in {"direct_handoff", "ui_steering"}
      BY <1>2, <2>3, <2>4 DEF Those
    <3> QED
      BY <3>1 DEF UiPattern
  <2> QED
    BY <1>1, <2>3, <2>4, <2>5, <2>6
<1>6. ASSUME usable # {}
      PROVE  doc.blueprint.entry = Head(doc.report.summary.best)
  BY <1>1, <1>4, <1>6, EntryIsBest
<1>7. ASSUME NEW r \in doc.blueprint.risks, r[1] = "high"
      PROVE  r[2] \notin usable
  <2>1. r[2] \in Those("reactivation_or_restore") \cup Those("missing")
    BY <1>1, <1>2, <1>7 DEF RiskRegister, About
  <2> QED
    BY <1>4, <2>1 DEF Those, Use, CanBeUsed
<1> QED
  BY <1>1, <1>5, <1>6, <1>7 DEF AgreeOf, doc
-----------------------------------------------------------------------------
(* The calls of the planning kits.                                         *)

(* A link or text that an app is said to take was taken by it, installed,  *)
(* at some moment of the call.                                             *)
Witness(states, r, answer) ==
  r[3] \in {"url", "text"} /\ answer = TRUE =>
    \E s \in states[r[2]] : s.installed /\ (s.url \/ s.text)

(* A call is a record from its start on, it has asked for what comes       *)
(* before plan.at, and only the tools that write documents come to the     *)
(* steps that write them.                                                  *)
Documents == {"blueprint", "report", "capture"}
Commanded(x) == Reads[x.tool]
Planned ==
  /\ plan = [tool |-> plan.tool, dry |-> plan.dry, goal |-> plan.goal,
             pc |-> plan.pc,
             at |-> plan.at, seen |-> plan.seen, quiet |-> plan.quiet,
             doc |-> plan.doc]
  /\ plan.tool \in PlanTools /\ plan.at \in Nat \ {0} /\ plan.quiet \in BOOLEAN
  /\ plan.pc \in {"reading", "concluding", "json", "markdown", "done"}
  /\ plan.pc \in {"json", "markdown"} => plan.tool \in Documents
  /\ IF plan.pc = "reading" THEN plan.at <= Len(Commanded(plan))
     ELSE plan.at = Len(Commanded(plan)) + 1
  /\ DOMAIN plan.seen = {Commanded(plan)[i] : i \in 1..(plan.at - 1)}
  /\ \A r \in DOMAIN plan.seen : Witness(during, r, plan.seen[r])

Phone ==
  /\ apps \in [Packages -> AppStates] /\ ready \subseteq ScreenTools
  /\ during \in [Packages -> SUBSET AppStates]
  /\ planFiles \subseteq Documents \X {"json", "md"}

Watched == \A p \in Packages : apps[p] \in during[p]

(* As long as nothing changed and no command failed, a profile says what   *)
(* is so, of an app that is not installed as well; and then the parts of a *)
(* captured workflow agree from its conclusion on.                         *)
Profiled(r) == r[2] \in Packages /\ r[3] \in ProfileWords
Quietly ==
  plan.quiet =>
    \A r \in DOMAIN plan.seen :
      Profiled(r) => plan.seen[r] = Told(apps[r[2]], r[3])
Concluded ==
  plan.pc \in {"json", "markdown", "done"} /\ plan.tool = "capture" /\ plan.quiet
    => AgreeOf(plan.doc)

PlanInv == Phone /\ (plan # NoPlan => Planned /\ Watched /\ Quietly /\ Concluded)

LEMMA PlanStarts == PlanInit => PlanInv
  BY DEF PlanInit, PlanInv, Phone, ScreenTools

(* A command adds its answer to what has been seen, and nothing else.      *)
LEMMA AnswerKeeps ==
  ASSUME PlanInv, plan # NoPlan, plan.pc = "reading",
         NEW answer, NEW quiet, ReadNext(answer, quiet),
         UNCHANGED <<apps, ready, during, planFiles>>,
         Witness(during, Commanded(plan)[plan.at], answer), quiet \in BOOLEAN,
         plan.quiet /\ quiet /\ Profiled(Commanded(plan)[plan.at]) =>
           answer = Told(apps[Commanded(plan)[plan.at][2]],
                         Commanded(plan)[plan.at][3])
  PROVE  PlanInv'
<1> DEFINE t == plan.tool
           at == plan.at
           read == Reads[t][at]
           pc == IF at < Len(Reads[t]) THEN "reading" ELSE "concluding"
           seen == [r \in DOMAIN plan.seen \cup {read} |->
                      IF r = read THEN answer ELSE plan.seen[r]]
<1>1. Planned /\ Watched /\ Phone /\ Quietly
  BY DEF PlanInv
<1>2. /\ t \in PlanTools /\ at \in Nat \ {0} /\ at <= Len(Reads[t])
      /\ Reads[t] \in Seq(Commands) /\ Len(Reads[t]) \in Nat
  BY <1>1, CallCommands DEF Planned, Commanded
<1>3. plan' = [tool |-> t, dry |-> plan.dry, goal |-> plan.goal, pc |-> pc,
               at |-> at + 1,
               seen |-> seen, quiet |-> (plan.quiet /\ quiet),
               doc |-> plan.doc]
  BY <1>1 DEF ReadNext, Planned
<1>4. {Reads[t][i] : i \in 1..at} = {read} \cup {Reads[t][i] : i \in 1..(at - 1)}
  <2>1. 1..at = {at} \cup 1..(at - 1)
    BY <1>2
  <2> QED
    BY <2>1
<1>5. DOMAIN seen = {Reads[t][i] : i \in 1..at}
  BY <1>1, <1>4 DEF Planned, Commanded
<1>6. \A r \in DOMAIN seen : Witness(during, r, seen[r])
  <2> SUFFICES ASSUME NEW r \in DOMAIN seen PROVE Witness(during, r, seen[r])
    OBVIOUS
  <2>1. CASE r = read
    BY <2>1 DEF Commanded
  <2>2. CASE r # read
    BY <1>1, <2>2 DEF Planned
  <2> QED
    BY <2>1, <2>2
<1>a. ASSUME plan.quiet, quiet, NEW r \in DOMAIN seen, Profiled(r)
      PROVE  seen[r] = Told(apps[r[2]], r[3])
  <2>1. CASE r = read
    BY <1>a, <2>1 DEF Commanded
  <2>2. CASE r # read
    BY <1>1, <1>a, <2>2 DEF Quietly
  <2> QED
    BY <2>1, <2>2
<1>7. /\ pc \in {"reading", "concluding"} /\ at + 1 \in Nat \ {0}
      /\ (at + 1) - 1 = at
      /\ IF pc = "reading" THEN at + 1 <= Len(Reads[t])
         ELSE at + 1 = Len(Reads[t]) + 1
  BY <1>2
<1> HIDE DEF seen, pc, read
<1>8. /\ plan'.tool = t /\ plan'.dry = plan.dry /\ plan'.pc = pc
      /\ plan'.at = at + 1 /\ plan'.seen = seen
      /\ plan'.quiet = (plan.quiet /\ quiet)
      /\ plan' = [tool |-> plan'.tool, dry |-> plan'.dry,
                  goal |-> plan'.goal, pc |-> plan'.pc,
                  at |-> plan'.at, seen |-> plan'.seen,
                  quiet |-> plan'.quiet, doc |-> plan'.doc]
  BY <1>3
<1>9. Planned'
  <2>1. Commanded(plan)' = Reads[t]
    BY <1>8 DEF Commanded
  <2>2. \A r \in DOMAIN plan'.seen : Witness(during', r, plan'.seen[r])
    BY <1>6, <1>8
  <2>3. plan'.quiet \in BOOLEAN
    BY <1>1, <1>8 DEF Planned
  <2> QED
    BY <1>2, <1>5, <1>7, <1>8, <2>1, <2>2, <2>3 DEF Planned
<1>10. Quietly' /\ Concluded'
  <2>1. plan'.quiet => plan.quiet /\ quiet
    BY <1>8
  <2>2. ASSUME plan'.quiet, NEW r \in DOMAIN plan'.seen, Profiled(r)
        PROVE  plan'.seen[r] = Told(apps'[r[2]], r[3])
    <3>1. seen[r] = Told(apps[r[2]], r[3])
      BY <1>8, <1>a, <2>1, <2>2
    <3> QED
      BY <1>8, <3>1 DEF Told
  <2>3. plan'.pc \notin {"json", "markdown", "done"}
    BY <1>7, <1>8
  <2> QED
    BY <2>2, <2>3 DEF Quietly, Concluded, Profiled
<1> QED
  BY <1>1, <1>9, <1>10 DEF PlanInv, Phone, Watched

(* What a step that only moves on leaves as it is.                         *)
LEMMA PlanMoves ==
  ASSUME PlanInv, plan # NoPlan, UNCHANGED <<apps, ready, during>>,
         planFiles' \subseteq Documents \X {"json", "md"},
         NEW pc, NEW doc, plan' = [plan EXCEPT !.pc = pc, !.doc = doc],
         plan.pc # "reading", pc \in {"json", "markdown", "done"},
         pc \in {"json", "markdown"} => plan.tool \in Documents,
         plan.tool = "capture" /\ plan.quiet => AgreeOf(doc)
  PROVE  PlanInv'
<1>1. Planned /\ Watched /\ Phone /\ Quietly
  BY DEF PlanInv
<1>2. /\ plan'.tool = plan.tool /\ plan'.pc = pc /\ plan'.at = plan.at
      /\ plan'.seen = plan.seen /\ plan'.quiet = plan.quiet /\ plan'.doc = doc
      /\ plan' = [tool |-> plan'.tool, dry |-> plan'.dry,
                  goal |-> plan'.goal, pc |-> plan'.pc,
                  at |-> plan'.at, seen |-> plan'.seen,
                  quiet |-> plan'.quiet, doc |-> plan'.doc]
  BY <1>1 DEF Planned
<1>3. Planned'
  <2>1. Commanded(plan)' = Commanded(plan)
    BY <1>2 DEF Commanded
  <2>2. \A r \in DOMAIN plan'.seen : Witness(during', r, plan'.seen[r])
    BY <1>1, <1>2 DEF Planned
  <2> QED
    BY <1>1, <1>2, <2>1, <2>2 DEF Planned
<1>4. Quietly'
  <2>1. ASSUME plan'.quiet, NEW r \in DOMAIN plan'.seen, Profiled(r)
        PROVE  plan'.seen[r] = Told(apps'[r[2]], r[3])
    <3>1. apps' = apps /\ r \in DOMAIN plan.seen /\ plan.quiet
      BY <1>2, <2>1
    <3>2. plan.seen[r] = Told(apps[r[2]], r[3])
      BY <1>1, <2>1, <3>1 DEF Quietly
    <3> QED
      BY <1>2, <3>1, <3>2
  <2> QED
    BY <2>1 DEF Quietly, Profiled
<1>5. Concluded'
  BY <1>2 DEF Concluded, AgreeOf
<1> QED
  BY <1>1, <1>3, <1>4, <1>5 DEF PlanInv, Phone, Watched

(* The phone may change under a call, which sees one more state of it.     *)
LEMMA PhoneMoves ==
  ASSUME PlanInv, ChangeApp \/ ChangeReadiness
  PROVE  PlanInv'
<1>1. Planned /\ Watched /\ Phone /\ plan # NoPlan
  BY DEF PlanInv, ChangeApp, ChangeReadiness
<1>2. /\ plan' = [plan EXCEPT !.quiet = FALSE]
      /\ planFiles' = planFiles
  BY DEF ChangeApp, ChangeReadiness
<1>3. /\ plan'.tool = plan.tool /\ plan'.pc = plan.pc /\ plan'.at = plan.at
      /\ plan'.seen = plan.seen /\ plan'.quiet = FALSE
      /\ plan' = [tool |-> plan'.tool, dry |-> plan'.dry,
                  goal |-> plan'.goal, pc |-> plan'.pc,
                  at |-> plan'.at, seen |-> plan'.seen,
                  quiet |-> plan'.quiet, doc |-> plan'.doc]
  BY <1>1, <1>2 DEF Planned
<1>4. /\ Phone' /\ Watched'
      /\ \A p \in Packages : during[p] \subseteq during'[p]
  <2>1. CASE ChangeApp
    <3>1. PICK p \in Packages, s \in AppStates :
            /\ apps' = [apps EXCEPT ![p] = s]
            /\ during' = [during EXCEPT ![p] = @ \cup {s}]
      BY <2>1 DEF ChangeApp
    <3> QED
      BY <1>1, <1>2, <2>1, <3>1 DEF ChangeApp, Phone, Watched
  <2>2. CASE ChangeReadiness
    <3>1. ready' \subseteq ScreenTools /\ UNCHANGED <<apps, during>>
      BY <2>2 DEF ChangeReadiness, ScreenTools
    <3> QED
      BY <1>1, <1>2, <3>1 DEF Phone, Watched
  <2> QED
    BY <2>1, <2>2
<1>5. \A r \in DOMAIN plan.seen :
        r[3] \in {"url", "text"} => r[2] \in Packages
  <2>1. Reads[plan.tool] \in Seq(Commands)
    BY <1>1, CallCommands DEF Planned
  <2>2. \A i \in 1..(plan.at - 1) : i \in 1..Len(Reads[plan.tool])
    BY <1>1, <2>1 DEF Planned, Commanded
  <2>3. \A r \in DOMAIN plan.seen : r \in Commands
    BY <1>1, <2>1, <2>2 DEF Planned, Commanded
  <2> QED
    BY <2>3 DEF Commands
<1>6. \A r \in DOMAIN plan'.seen : Witness(during', r, plan'.seen[r])
  <2> SUFFICES ASSUME NEW r \in DOMAIN plan.seen, r[3] \in {"url", "text"},
                      plan.seen[r] = TRUE
               PROVE  \E s \in during'[r[2]] : s.installed /\ (s.url \/ s.text)
    BY <1>3 DEF Witness
  <2>1. PICK s \in during[r[2]] : s.installed /\ (s.url \/ s.text)
    BY <1>1 DEF Planned, Witness
  <2> QED
    BY <1>4, <1>5, <2>1
<1>7. Planned'
  <2>1. Commanded(plan)' = Commanded(plan)
    BY <1>3 DEF Commanded
  <2> QED
    BY <1>1, <1>3, <1>6, <2>1 DEF Planned
<1>8. Quietly' /\ Concluded'
  BY <1>3 DEF Quietly, Concluded
<1> QED
  BY <1>4, <1>7, <1>8 DEF PlanInv

(* A call that has run its commands has the profile of every app from      *)
(* each of its surveys.                                                    *)
LEMMA AllSeen ==
  ASSUME Planned, plan.pc # "reading",
         NEW n \in DOMAIN Surveys[plan.tool], NEW p \in Packages,
         NEW w \in ProfileWords
  PROVE  <<n, p, w>> \in DOMAIN plan.seen
<1>1. /\ Reads[plan.tool] \in Seq(Commands)
      /\ Holds(Reads[plan.tool], <<n, p, w>>)
  BY CallCommands DEF Planned
<1>2. DOMAIN plan.seen =
        {Reads[plan.tool][i] : i \in 1..Len(Reads[plan.tool])}
  <2>1. (Len(Reads[plan.tool]) + 1) - 1 = Len(Reads[plan.tool])
    BY <1>1
  <2> QED
    BY <2>1 DEF Planned, Commanded
<1> QED
  BY <1>1, <1>2 DEF Holds

LEMMA PlanStep == PlanInv /\ [PlanNext]_planVars => PlanInv'
<1> SUFFICES ASSUME PlanInv, [PlanNext]_planVars PROVE PlanInv'
  OBVIOUS
<1>0. Phone /\ (plan # NoPlan => Planned /\ Watched /\ Quietly /\ Concluded)
  BY DEF PlanInv
<1>1. ASSUME NEW t \in PlanTools, StartPlan(t) PROVE PlanInv'
  <2>1. PICK dry \in BOOLEAN, goal \in BOOLEAN :
          plan' = [tool |-> t, dry |-> dry, goal |-> goal, pc |-> "reading",
                   at |-> 1, seen |-> << >>, quiet |-> TRUE, doc |-> NoPlan]
    BY <1>1 DEF StartPlan
  <2>2. /\ during' = [p \in Packages |-> {apps[p]}]
        /\ UNCHANGED <<apps, ready, planFiles>>
    BY <1>1 DEF StartPlan
  <2>3. Phone' /\ Watched'
    BY <1>0, <2>2 DEF Phone, Watched
  <2>4. Reads[t] \in Seq(Commands) /\ Len(Reads[t]) > 0
    BY CallCommands
  <2>5. Planned' /\ Quietly' /\ Concluded'
    <3>1. /\ plan'.tool = t /\ plan'.dry = dry /\ plan'.pc = "reading"
          /\ plan'.at = 1 /\ plan'.seen = << >>
          /\ plan' = [tool |-> plan'.tool, dry |-> plan'.dry,
                      goal |-> plan'.goal, pc |-> plan'.pc,
                      at |-> plan'.at, seen |-> plan'.seen,
                      quiet |-> plan'.quiet, doc |-> plan'.doc]
      BY <2>1
    <3>2. DOMAIN plan'.seen = {} /\ 1..(plan'.at - 1) = {}
      BY <3>1
    <3>3. Commanded(plan)' = Reads[t]
      BY <3>1 DEF Commanded
    <3>4. Planned'
      <4>1. plan'.quiet \in BOOLEAN
        BY <2>1
      <4> QED
        BY <2>4, <3>1, <3>2, <3>3, <4>1 DEF Planned
    <3>5. Quietly' /\ Concluded'
      BY <3>1, <3>2 DEF Quietly, Concluded
    <3> QED
      BY <3>4, <3>5
  <2> QED
    BY <2>3, <2>5 DEF PlanInv
<1>2. CASE ReadPhone
  <2> DEFINE read == Reads[plan.tool][plan.at]
             answer == IF Skipped(read) THEN Nothing(read[3])
                       ELSE Look(read[2], read[3])
  <2>1. /\ plan # NoPlan /\ plan.pc = "reading" /\ ReadNext(answer, TRUE)
        /\ UNCHANGED <<apps, ready, during, planFiles>>
    BY <1>2 DEF ReadPhone
  <2>2. read \in Commands
    <3>1. Reads[plan.tool] \in Seq(Commands)
      BY <1>0, <2>1, CallCommands DEF Planned
    <3>2. plan.at \in 1..Len(Reads[plan.tool])
      BY <1>0, <2>1, <3>1 DEF Planned, Commanded
    <3> QED
      BY <3>1, <3>2
  <2> HIDE DEF read
  <2>3. Witness(during, read, answer)
    <3> SUFFICES ASSUME read[3] \in {"url", "text"}, answer = TRUE
                 PROVE  \E s \in during[read[2]] :
                          s.installed /\ (s.url \/ s.text)
      BY DEF Witness
    <3>1. read[2] \in Packages
      BY <2>2 DEF Commands
    <3>2. Nothing(read[3]) = FALSE
      BY DEF Nothing
    <3>3. Look(read[2], read[3]) = TRUE
      BY <3>2
    <3>4. Look(read[2], read[3]) = IF read[3] = "url" THEN apps[read[2]].url
                                   ELSE apps[read[2]].text
      BY DEF Look, ScreenTools
    <3>5. apps[read[2]] \in during[read[2]] /\ apps[read[2]] \in AppStates
      BY <1>0, <2>1, <3>1 DEF Watched, Phone
    <3> QED
      BY <3>3, <3>4, <3>5, HandlersAssumption
  <2>4. ASSUME plan.quiet, Profiled(read)
        PROVE  answer = Told(apps[read[2]], read[3])
    <3> DEFINE s == apps[read[2]]
    <3>1. /\ s \in AppStates /\ s.installed \in BOOLEAN
          /\ read[2] \in Packages /\ read[3] \in ProfileWords
      BY <1>0, <2>4, HandlersAssumption DEF Phone, Profiled
    <3>2. CASE read[3] = "installed"
      <4>1. ~Skipped(read) /\ Look(read[2], read[3]) = s.installed
        BY <3>2 DEF Skipped, Look, ScreenTools
      <4> QED
        BY <3>2, <4>1 DEF Told
    <3>3. CASE read[3] # "installed"
      <4>1. read[3] \in Skippable
        BY <3>1, <3>3 DEF ProfileWords, Skippable
      <4>2. /\ Reads[plan.tool] \in Seq(Commands) /\ Asked(Reads[plan.tool])
            /\ plan.at \in 1..Len(Reads[plan.tool])
        <5>1. Reads[plan.tool] \in Seq(Commands) /\ Asked(Reads[plan.tool])
          BY <1>0, <2>1, CallCommands DEF Planned
        <5> QED
          BY <1>0, <2>1, <5>1 DEF Planned, Commanded
      <4>3. PICK j \in 1..(plan.at - 1) :
              Reads[plan.tool][j] = <<read[1], read[2], "installed">>
        <5>1. read \in Skips /\ read = Reads[plan.tool][plan.at]
          BY <2>2, <4>1 DEF Skips, read
        <5>2. AskedFirst[read] = <<read[1], read[2], "installed">>
          BY <2>2 DEF AskedFirst
        <5> QED
          BY <4>2, <5>1, <5>2 DEF Asked, Preceded
      <4> DEFINE first == <<read[1], read[2], "installed">>
      <4>4. first \in DOMAIN plan.seen /\ Profiled(first)
        BY <1>0, <2>1, <3>1, <4>3
        DEF Planned, Commanded, Profiled, ProfileWords
      <4>5. plan.seen[first] = s.installed
        <5>1. plan.seen[first] = Told(apps[first[2]], first[3])
          BY <1>0, <2>1, <2>4, <4>4 DEF Quietly
        <5> QED
          BY <5>1 DEF Told
      <4>6. Skipped(read) <=> ~s.installed
        BY <4>1, <4>5 DEF Skipped, Seen, Skippable
      <4>7. CASE ~s.installed
        BY <3>3, <4>1, <4>6, <4>7 DEF Told, Nothing, Skippable
      <4>8. CASE s.installed
        <5>1. Look(read[2], read[3]) =
                IF read[3] = "launcher" THEN s.launcher
                ELSE IF read[3] = "thirdParty" THEN s.thirdParty
                ELSE IF read[3] = "url" THEN s.url ELSE s.text
          BY <4>1 DEF Look, ScreenTools, Skippable
        <5> QED
          BY <3>3, <4>6, <4>8, <5>1 DEF Told
      <4> QED
        BY <3>1, <4>7, <4>8
    <3> QED
      BY <3>2, <3>3
  <2> HIDE DEF answer
  <2>5. Witness(during, Commanded(plan)[plan.at], answer)
    BY <2>3 DEF Commanded, read
  <2>6. plan.quiet /\ Profiled(Commanded(plan)[plan.at]) =>
          answer = Told(apps[Commanded(plan)[plan.at][2]],
                        Commanded(plan)[plan.at][3])
    BY <2>4 DEF Commanded, read
  <2> QED
    BY <2>1, <2>5, <2>6, AnswerKeeps
<1>3. CASE ReadFails
  <2> DEFINE read == Reads[plan.tool][plan.at]
  <2>1. /\ plan # NoPlan /\ plan.pc = "reading"
        /\ ReadNext(Nothing(read[3]), FALSE)
        /\ UNCHANGED <<apps, ready, during, planFiles>>
    BY <1>3 DEF ReadFails
  <2>2. Witness(during, read, Nothing(read[3]))
    BY DEF Witness, Nothing
  <2>3. Witness(during, Commanded(plan)[plan.at], Nothing(read[3]))
    BY <2>2 DEF Commanded
  <2> HIDE DEF read
  <2> QED
    BY <2>1, <2>3, AnswerKeeps
<1>4. CASE Conclude
  <2> DEFINE pc == IF ~plan.dry /\ plan.tool \in {"blueprint", "report", "capture"}
                   THEN "json" ELSE "done"
  <2>1. /\ plan # NoPlan /\ plan.pc = "concluding"
        /\ plan' = [plan EXCEPT !.doc = Document, !.pc = pc]
        /\ UNCHANGED <<apps, ready, during, planFiles>>
    BY <1>4 DEF Conclude
  <2>2. plan' = [plan EXCEPT !.pc = pc, !.doc = Document]
    BY <1>0, <2>1 DEF Planned
  <2>3. pc \in {"json", "done"} /\ (pc = "json" => plan.tool \in Documents)
    BY DEF Documents
  <2>4. planFiles' \subseteq Documents \X {"json", "md"}
    BY <1>0, <2>1 DEF Phone
  <2>5. ASSUME plan.tool = "capture", plan.quiet PROVE AgreeOf(Document)
    <3>1. Truthful
      <4> SUFFICES ASSUME NEW n \in 1..5, NEW p \in Packages,
                          NEW w \in ProfileWords
                   PROVE  Seen(n, p, w) = Told(apps[p], w)
        BY DEF Truthful
      <4>1. n \in DOMAIN Surveys[plan.tool]
        BY <2>5 DEF Surveys
      <4>2. <<n, p, w>> \in DOMAIN plan.seen
        BY <1>0, <2>1, <4>1, AllSeen
      <4>3. Profiled(<<n, p, w>>)
        BY DEF Profiled
      <4> QED
        BY <1>0, <2>1, <2>5, <4>2, <4>3 DEF Quietly, Seen
    <3>2. AgreeOf(WorkflowCapture)
      BY <1>0, <3>1, CaptureAgrees DEF Phone
    <3> QED
      BY <2>5, <3>2 DEF Document
  <2> HIDE DEF pc
  <2> QED
    BY <2>1, <2>2, <2>3, <2>4, <2>5, PlanMoves
<1>5. CASE WriteJson \/ WriteMarkdown
  <2>1. PICK kind \in {"json", "md"}, pc \in {"markdown", "done"} :
          /\ plan # NoPlan /\ plan.pc \in {"json", "markdown"}
          /\ planFiles' = planFiles \cup {<<plan.tool, kind>>}
          /\ plan' = [plan EXCEPT !.pc = pc]
          /\ UNCHANGED <<apps, ready, during>>
    BY <1>5 DEF WriteJson, WriteMarkdown, WritePlan
  <2>2. plan.tool \in Documents
    BY <1>0, <2>1 DEF Planned
  <2>3. planFiles' \subseteq Documents \X {"json", "md"}
    BY <1>0, <2>1, <2>2 DEF Phone
  <2>4. plan' = [plan EXCEPT !.pc = pc, !.doc = plan.doc]
    BY <1>0, <2>1 DEF Planned
  <2>5. plan.tool = "capture" /\ plan.quiet => AgreeOf(plan.doc)
    BY <1>0, <2>1 DEF Concluded
  <2> QED
    BY <2>1, <2>2, <2>3, <2>4, <2>5, PlanMoves
<1>6. CASE ChangeApp \/ ChangeReadiness
  BY <1>6, PhoneMoves
<1>7. CASE UNCHANGED planVars
  BY <1>7
  DEF planVars, PlanInv, Phone, Watched, Planned, Commanded, Witness,
      Quietly, Concluded, Profiled, Told, AgreeOf
<1> QED
  BY <1>1, <1>2, <1>3, <1>4, <1>5, <1>6, <1>7 DEF PlanNext

LEMMA PlanInvAlways == PlanSpec => []PlanInv
BY PlanStarts, PlanStep, PTL DEF PlanSpec

(* The first half of PlansHold, for any stack and any phone, however often *)
(* it changes and however many commands fail: an app that an answer wants  *)
(* to hand links or text to took them, installed, at some moment of the    *)
(* call, and every survey of a captured workflow has asked it             *)
(* (android_workflow_feasibility_assess, _interaction_mode).               *)
THEOREM PilotsAreReal == PlanSpec => [](PlanOver => PilotsReal)
<1>1. PlanInv => (PlanOver => PilotsReal)
  <2> SUFFICES ASSUME PlanInv, PlanOver,
                      NEW n \in DOMAIN Surveys[plan.tool], NEW p \in Packages,
                      InteractionMode(n, p) = "direct_handoff"
               PROVE  \E s \in during[p] : s.installed /\ (s.url \/ s.text)
    BY DEF PilotsReal
  <2>1. Planned /\ plan.pc = "done"
    BY DEF PlanInv, PlanOver
  <2>4. <<n, p, "url">> \in DOMAIN plan.seen /\ <<n, p, "text">> \in DOMAIN plan.seen
    BY <2>1, AllSeen DEF ProfileWords
  <2>5. Handles(n, p)
    BY DEF InteractionMode
  <2>6. PICK w \in {"url", "text"} : plan.seen[<<n, p, w>>] = TRUE
    BY <2>5 DEF Handles, Seen
  <2>7. Witness(during, <<n, p, w>>, TRUE)
    BY <2>1, <2>4, <2>6 DEF Planned
  <2> QED
    BY <2>7 DEF Witness
<1> QED
  BY PlanInvAlways, <1>1, PTL

(* All that PlansHold says, for any stack and any phone: if nothing        *)
(* changed and no command failed, the five surveys of a captured workflow  *)
(* found the same, so its pilot is among the blueprint's, the entry app is *)
(* the first of the report's candidates, and no app at high risk is in a   *)
(* pilot (android_business_workflow_capture_create).                       *)
THEOREM PlansAlwaysHold == PlanSpec => []PlansHold
<1>1. PlanInv => (PlanOver /\ plan.tool = "capture" /\ plan.quiet => PartsAgree)
  BY DEF PlanInv, PlanOver, Concluded, AgreeOf, PartsAgree
<1> QED
  BY PlanInvAlways, PilotsAreReal, <1>1, PTL DEF PlansHold

-----------------------------------------------------------------------------
(* What TLC runs is a run of one of the four kits while the others rest:   *)
(* all that is proved of each holds of it.                                 *)
THEOREM KitsRun == PhoneSpec => PlanSpec /\ ScreenSpec /\ BrowserSpec /\ ActionsSpec
<1>1. PhoneInit => PlanInit /\ ScreenInit /\ BrowserInit /\ ActionsInit
  BY DEF PhoneInit
<1>2. [PhoneNext]_phoneVars => /\ [PlanNext]_planVars
                               /\ [ScreenNext]_screenVars
                               /\ [BrowserNext]_browserVars
                               /\ [ActionsNext]_actionVars
  BY DEF PhoneNext, phoneVars
<1> QED
  BY <1>1, <1>2, PTL DEF PhoneSpec, PlanSpec, ScreenSpec, BrowserSpec, ActionsSpec

(* Every variable of every kit keeps its type; of the planning kits: the   *)
(* answers of a call are those to the commands it has run, in order, and   *)
(* only documents are written.                                             *)
THEOREM KitsTyped == PhoneSpec => []KitsTypeOK
<1>1. PlanInv => PlanTypeOK
  BY DEF PlanInv, Phone, Planned, PlanTypeOK, Documents, Commanded
<1> QED
  BY KitsRun, PlanInvAlways, ScreenKeepsTypes, BrowserKeepsTypes,
     ActionsKeepTypes, <1>1, PTL DEF KitsTypeOK
=============================================================================
