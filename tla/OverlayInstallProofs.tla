------------------------ MODULE OverlayInstallProofs ------------------------
(***************************************************************************)
(* An interrupted installation costs one plugin, for any number of         *)
(* plugins, runs, releases and interruptions.  The property speaks of the  *)
(* run under way or just ended; what makes it inductive is what a run      *)
(* knows of the plugins it has not come to: they are as it found them.     *)
(* Last, the types of the jobs, and so of all of LaneServicesMC.           *)
(***************************************************************************)
EXTENDS LaneServicesMC, FiniteSetTheorems, SequenceTheorems, TLAPS

Contents == Copies \cup {Absent, Partial, Link}
HandPCs == {"emptying", "placing", "copying"}
RunningPCs == HandPCs \cup {"next"}

(* The fields of a run. *)
RunRecords ==
  [pc : RunningPCs \cup {"done", "raised"}, cur : Plugins,
   rest : Seq(Plugins), mode : {"copy", "symlink"}, overwrite : BOOLEAN,
   dry : BOOLEAN, before : [Plugins -> Contents], release : Versions,
   status : [Plugins -> SUBSET {"skipped_exists", "installed"}]]

Typed ==
  /\ release \in Versions
  /\ target \in [Plugins -> Contents]
  /\ install = [pc |-> "idle"] \/ install \in RunRecords
  /\ installFailures \in Nat

(* A plugin is as the run found it, or as the run has put it there. *)
AsFound(p) ==
  /\ "installed" \notin install.status[p] \/ install.dry
  /\ target[p] = install.before[p]
AsPlaced(p) ==
  /\ "installed" \in install.status[p] /\ ~install.dry
  /\ target[p] = IF install.mode = "symlink" THEN Link
                 ELSE <<"copy", install.release>>
InTheMiddle(p) == p = install.cur /\ install.pc \in HandPCs \cup {"raised"}

Accounted ==
  install.pc # "idle" =>
    /\ \A p \in Plugins : InTheMiddle(p) \/ AsFound(p) \/ AsPlaced(p)
    /\ install.pc \in RunningPCs => install.release = release
    /\ install.pc \in HandPCs => ~install.dry
    /\ install.pc = "copying" => install.mode = "copy"
    /\ install.dry => target = install.before

(* One part of a plugin for each interruption, the one in hand aside. *)
Damage == Cardinality(Broken \ InHand) <= installFailures

InstallInv == Typed /\ Accounted /\ Damage

-----------------------------------------------------------------------------
(* What --plugins names are plugins. *)
LEMMA NamedArePlugins == Named \subseteq Seq(Plugins)
  <1>1. MaxNamed \in Nat
    BY NamedAssumption
  <1> QED BY <1>1, SeqDef DEF Named

(* Plugins broken before are the only ones that count against the bound    *)
(* unless the step is an interruption.                                     *)
LEMMA NoMoreDamage ==
  ASSUME Damage, Broken' \ InHand' \subseteq Broken \ InHand,
         installFailures' = installFailures, installFailures \in Nat
  PROVE  Damage'
  <1>1. IsFiniteSet(Broken \ InHand)
    BY PluginsAssumption, FS_Subset, Broken \ InHand \in SUBSET Plugins DEF Broken
  <1>2. /\ IsFiniteSet(Broken' \ InHand')
        /\ Cardinality(Broken' \ InHand') <= Cardinality(Broken \ InHand)
    BY <1>1, FS_Subset
  <1>3. /\ Cardinality(Broken \ InHand) \in Nat
        /\ Cardinality(Broken' \ InHand') \in Nat
    BY <1>1, <1>2, FS_CardinalityType
  <1> QED BY <1>2, <1>3 DEF Damage

LEMMA InstallStarts == InstallInit => InstallInv
  <1> SUFFICES ASSUME InstallInit PROVE InstallInv
    OBVIOUS
  <1>1. Typed
    BY ReleasesAssumption DEF InstallInit, Typed, Contents, Versions
  <1>2. Accounted
    BY DEF InstallInit, Accounted
  <1>3. Broken \ InHand = {}
    BY DEF InstallInit, Broken, Absent, Partial
  <1>4. Damage
    BY <1>3, FS_EmptySet DEF Damage, InstallInit
  <1> QED BY <1>1, <1>2, <1>4 DEF InstallInv

-----------------------------------------------------------------------------
(* Going on to the next plugin closes the one in hand and nothing else.    *)
LEMMA AdvanceCloses ==
  ASSUME install \in RunRecords, NEW s \in {"skipped_exists", "installed"},
         Advance(s)
  PROVE  /\ install' \in RunRecords
         /\ install'.status = [install.status EXCEPT ![install.cur] = @ \cup {s}]
         /\ install'.pc \in {"next", "done"}
         /\ install'.dry = install.dry /\ install'.mode = install.mode
         /\ install'.before = install.before
         /\ install'.release = install.release
  <1> DEFINE told == [install.status EXCEPT ![install.cur] = @ \cup {s}]
             reported == [install EXCEPT !.status = told]
  <1>1. told \in [Plugins -> SUBSET {"skipped_exists", "installed"}]
    BY DEF RunRecords
  <1>2. install' = IF install.rest = <<>> THEN [reported EXCEPT !.pc = "done"]
                   ELSE [reported EXCEPT !.pc = "next",
                           !.cur = Head(install.rest), !.rest = Tail(install.rest)]
    BY DEF Advance, RunRecords
  <1>3. install.rest # <<>> =>
          Head(install.rest) \in Plugins /\ Tail(install.rest) \in Seq(Plugins)
    BY HeadTailProperties DEF RunRecords
  <1> HIDE DEF told
  <1> QED BY <1>1, <1>2, <1>3 DEF RunRecords, RunningPCs, told

(* So it keeps the account, if the plugin has been accounted for.          *)
LEMMA AdvanceAccounts ==
  ASSUME Typed, Accounted, install \in RunRecords, install.pc \in RunningPCs,
         NEW s \in {"skipped_exists", "installed"}, Advance(s),
         release' = release,
         \A p \in Plugins \ {install.cur} : target'[p] = target[p],
         NEW c \in Plugins, c = install.cur, AsFound(c)' \/ AsPlaced(c)',
         install.dry => target' = target
  PROVE  Accounted'
  <1>1. install.release = release
    BY DEF Accounted, RunningPCs, HandPCs
  <1> DEFINE i == install'
  <1>2. /\ i \in RunRecords
        /\ i.status = [install.status EXCEPT ![install.cur] = @ \cup {s}]
        /\ i.pc \in {"next", "done"}
        /\ i.dry = install.dry /\ i.mode = install.mode
        /\ i.before = install.before /\ i.release = install.release
    BY <1>1, AdvanceCloses
  <1>3. ASSUME NEW p \in Plugins, p # install.cur
        PROVE  AsFound(p)' \/ AsPlaced(p)'
    <2>1. AsFound(p) \/ AsPlaced(p)
      BY <1>3 DEF Accounted, InTheMiddle, RunningPCs, HandPCs
    <2>2. i.status[p] = install.status[p] /\ target'[p] = target[p]
      BY <1>2, <1>3 DEF RunRecords
    <2> QED BY <1>2, <2>1, <2>2 DEF AsFound, AsPlaced
  <1>5. i.dry => target' = i.before
    BY <1>1, <1>2 DEF Accounted, RunningPCs, HandPCs
  <1> HIDE DEF i
  <1>6. \A p \in Plugins : AsFound(p)' \/ AsPlaced(p)'
    BY <1>3
  <1> QED BY <1>1, <1>2, <1>5, <1>6
       DEF Accounted, RunningPCs, HandPCs, InTheMiddle, i

-----------------------------------------------------------------------------
(* A new run has found everything as it is. *)
LEMMA RunInstallKeeps == InstallInv /\ RunInstall => InstallInv'
  <1> SUFFICES ASSUME InstallInv, RunInstall PROVE InstallInv'
    OBVIOUS
  <1>1. PICK first \in Plugins, rest \in Named, mode \in {"copy", "symlink"},
             overwrite \in BOOLEAN, dry \in BOOLEAN :
          install' = [pc |-> "next", cur |-> first, rest |-> rest, mode |-> mode,
                      overwrite |-> overwrite, dry |-> dry,
                      before |-> target, release |-> release,
                      status |-> [p \in Plugins |-> {}]]
    BY DEF RunInstall
  <1>2. rest \in Seq(Plugins)
    BY NamedArePlugins
  <1>3. UNCHANGED <<release, target, installFailures>>
    BY DEF RunInstall
  <1>4. install' \in RunRecords
    BY <1>1, <1>2 DEF InstallInv, Typed, RunRecords, RunningPCs
  <1>5. Typed'
    BY <1>3, <1>4 DEF InstallInv, Typed
  <1>6. \A p \in Plugins : AsFound(p)'
    BY <1>1, <1>3 DEF AsFound
  <1>7. Accounted'
    BY <1>1, <1>3, <1>6 DEF Accounted, RunningPCs, HandPCs
  <1>8. Broken' \ InHand' \subseteq Broken \ InHand
    <2>1. install.pc \notin HandPCs
      BY DEF RunInstall, HandPCs
    <2> QED BY <1>1, <1>3, <2>1 DEF Broken, InHand, HandPCs
  <1> QED BY <1>3, <1>5, <1>7, <1>8, NoMoreDamage DEF InstallInv, Typed

(* A plugin that is left alone is as it was found. *)
LEMMA PassingKeeps == InstallInv /\ (Skip \/ DryInstall) => InstallInv'
  <1> SUFFICES ASSUME InstallInv, Skip \/ DryInstall PROVE InstallInv'
    OBVIOUS
  <1>1. PICK s \in {"skipped_exists", "installed"} :
          /\ Advance(s)
          /\ s = "installed" => install.dry
    BY DEF Skip, DryInstall
  <1>2. install.pc = "next" /\ UNCHANGED <<release, target, installFailures>>
    BY DEF Skip, DryInstall
  <1>3. install \in RunRecords
    BY <1>2 DEF InstallInv, Typed
  <1>4. /\ install' \in RunRecords
        /\ install'.status = [install.status EXCEPT ![install.cur] = @ \cup {s}]
        /\ install'.pc \in {"next", "done"}
        /\ install'.dry = install.dry /\ install'.mode = install.mode
        /\ install'.before = install.before
        /\ install'.release = install.release
    BY <1>1, <1>3, AdvanceCloses DEF InstallInv
  <1>5. Typed'
    BY <1>2, <1>4 DEF InstallInv, Typed
  <1>6. PICK c \in Plugins : c = install.cur
    BY <1>3 DEF RunRecords
  <1>7. AsFound(c)' \/ AsPlaced(c)'
    <2>1. AsFound(c) \/ AsPlaced(c)
      BY <1>2, <1>3, <1>6 DEF InstallInv, Accounted, InTheMiddle, HandPCs
    <2>2. install'.status[c] = install.status[c] \cup {s}
      BY <1>3, <1>4, <1>6 DEF RunRecords
    <2> QED BY <1>1, <1>2, <1>4, <2>1, <2>2 DEF AsFound, AsPlaced
  <1>8. Accounted'
    BY <1>1, <1>2, <1>3, <1>6, <1>7, AdvanceAccounts DEF InstallInv, RunningPCs
  <1>9. Broken' \ InHand' \subseteq Broken \ InHand
    BY <1>2, <1>4 DEF Broken, InHand
  <1> QED BY <1>2, <1>5, <1>8, <1>9, NoMoreDamage DEF InstallInv, Typed

(* Removing, and beginning to copy, disturb the plugin in hand alone.      *)
InHandOnly(new, pc) ==
  /\ target' = [target EXCEPT ![install.cur] = new]
  /\ install' = [install EXCEPT !.pc = pc]
  /\ UNCHANGED <<release, installFailures>>

LEMMA WorkingKeeps ==
  ASSUME InstallInv, install.pc \in RunningPCs, ~install.dry,
         NEW new \in Contents, NEW pc \in HandPCs, InHandOnly(new, pc),
         pc = "copying" => install.mode = "copy"
  PROVE  InstallInv'
  <1>1. install \in RunRecords
    BY DEF InstallInv, Typed, RunningPCs, HandPCs
  <1>2. /\ install' \in RunRecords /\ install'.pc = pc
        /\ install'.cur = install.cur
        /\ install'.status = install.status /\ install'.mode = install.mode
        /\ install'.dry = install.dry /\ install'.before = install.before
        /\ install'.release = install.release
    BY <1>1 DEF InHandOnly, RunRecords, RunningPCs
  <1>3. Typed'
    BY <1>1, <1>2 DEF InHandOnly, InstallInv, Typed, RunRecords
  <1>4. \A p \in Plugins \ {install.cur} : target'[p] = target[p]
    BY <1>1 DEF InHandOnly, InstallInv, Typed
  <1>5. \A p \in Plugins : InTheMiddle(p)' \/ AsFound(p)' \/ AsPlaced(p)'
    <2> SUFFICES ASSUME NEW p \in Plugins
                 PROVE  InTheMiddle(p)' \/ AsFound(p)' \/ AsPlaced(p)'
      OBVIOUS
    <2>1. CASE p = install.cur
      BY <1>2, <2>1 DEF InTheMiddle
    <2>2. CASE p # install.cur
      <3>1. AsFound(p) \/ AsPlaced(p)
        BY <2>2 DEF InstallInv, Accounted, InTheMiddle, RunningPCs, HandPCs
      <3> QED BY <1>2, <1>4, <2>2, <3>1 DEF AsFound, AsPlaced
    <2> QED BY <2>1, <2>2
  <1>6. Accounted'
    BY <1>1, <1>2, <1>5
    DEF InHandOnly, InstallInv, Accounted, RunningPCs, HandPCs
  <1>7. Broken' \ InHand' \subseteq Broken \ InHand
    BY <1>2, <1>4 DEF Broken, InHand, HandPCs
  <1> QED BY <1>3, <1>6, <1>7, NoMoreDamage DEF InHandOnly, InstallInv, Typed

LEMMA RemovingKeeps ==
  InstallInv /\ (RemoveExisting \/ RemoveRest \/ BeginCopy) => InstallInv'
  <1> SUFFICES ASSUME InstallInv, RemoveExisting \/ RemoveRest \/ BeginCopy
               PROVE  InstallInv'
    OBVIOUS
  <1>1. CASE RemoveExisting
    <2>1. install.pc = "next" /\ ~install.dry
      BY <1>1 DEF RemoveExisting
    <2>2. \/ InHandOnly(Absent, "placing") \/ InHandOnly(Partial, "emptying")
      <3>1. install.cur \in Plugins /\ target \in [Plugins -> Contents]
        BY <2>1 DEF InstallInv, Typed, RunRecords
      <3> QED BY <1>1, <3>1 DEF RemoveExisting, InHandOnly
    <2> QED BY <2>1, <2>2, WorkingKeeps DEF Contents, HandPCs, RunningPCs
  <1>2. CASE RemoveRest
    <2>1. install.pc = "emptying" /\ InHandOnly(Absent, "placing")
      BY <1>2 DEF RemoveRest, InHandOnly
    <2>2. ~install.dry
      BY <2>1 DEF InstallInv, Accounted, HandPCs
    <2> QED BY <2>1, <2>2, WorkingKeeps DEF Contents, HandPCs, RunningPCs
  <1>3. CASE BeginCopy
    <2>1. /\ install.pc \in {"next", "placing"} /\ install.mode = "copy"
          /\ InHandOnly(Partial, "copying")
      BY <1>3 DEF BeginCopy, Placing, InHandOnly
    <2>2. ~install.dry
      BY <1>3 DEF BeginCopy, Placing, InstallInv, Accounted, HandPCs
    <2> QED BY <2>1, <2>2, WorkingKeeps DEF Contents, HandPCs, RunningPCs
  <1> QED BY <1>1, <1>2, <1>3

(* What is put in place is whole and of the run's release. *)
LEMMA PlacingKeeps == InstallInv /\ (SymlinkPlugin \/ FinishCopy) => InstallInv'
  <1> SUFFICES ASSUME InstallInv, SymlinkPlugin \/ FinishCopy
               PROVE  InstallInv'
    OBVIOUS
  <1> DEFINE new == IF install.mode = "symlink" THEN Link
                    ELSE <<"copy", install.release>>
  <1>1. install.pc \in RunningPCs
    BY DEF SymlinkPlugin, Placing, FinishCopy, RunningPCs, HandPCs
  <1>2. /\ install \in RunRecords
        /\ install.release = release
    BY <1>1 DEF InstallInv, Typed, Accounted, RunningPCs, HandPCs
  <1>3. ~install.dry
    BY DEF SymlinkPlugin, Placing, FinishCopy, InstallInv, Accounted, HandPCs
  <1>4. /\ target' = [target EXCEPT ![install.cur] = new]
        /\ Advance("installed")
        /\ UNCHANGED <<release, installFailures>>
    BY <1>2 DEF SymlinkPlugin, FinishCopy, InstallInv, Accounted
  <1>5. new \in Contents \ {Partial}
    BY <1>2 DEF InstallInv, Typed, Contents, Copies, Partial, Link
  <1> HIDE DEF new
  <1>6. /\ install' \in RunRecords
        /\ install'.status =
             [install.status EXCEPT ![install.cur] = @ \cup {"installed"}]
        /\ install'.pc \in {"next", "done"}
        /\ install'.dry = install.dry /\ install'.mode = install.mode
        /\ install'.release = install.release
    BY <1>2, <1>4, AdvanceCloses DEF InstallInv
  <1>7. Typed'
    BY <1>4, <1>5, <1>6 DEF InstallInv, Typed
  <1>8. PICK c \in Plugins : c = install.cur
    BY <1>2 DEF RunRecords
  <1>9. target'[c] = new /\ \A p \in Plugins \ {c} : target'[p] = target[p]
    BY <1>4, <1>8 DEF InstallInv, Typed
  <1>10. AsPlaced(c)'
    <2>1. "installed" \in install'.status[c]
      BY <1>2, <1>6, <1>8 DEF RunRecords
    <2> QED BY <1>3, <1>6, <1>9, <2>1 DEF AsPlaced, new
  <1>11. Accounted'
    BY <1>1, <1>2, <1>3, <1>4, <1>8, <1>9, <1>10, AdvanceAccounts
    DEF InstallInv
  <1>12. Broken' \ InHand' \subseteq Broken \ InHand
    BY <1>5, <1>8, <1>9 DEF Broken, InHand
  <1> QED BY <1>4, <1>7, <1>11, <1>12, NoMoreDamage DEF InstallInv, Typed

(* An interruption adds the plugin in hand to those that may be broken.    *)
LEMMA BreakOffKeeps == InstallInv /\ BreakOff => InstallInv'
  <1> SUFFICES ASSUME InstallInv, BreakOff PROVE InstallInv'
    OBVIOUS
  <1>1. /\ install.pc \in RunningPCs
        /\ install' = [install EXCEPT !.pc = "raised"]
        /\ installFailures' = installFailures + 1
        /\ UNCHANGED <<release, target>>
    BY DEF BreakOff, RunningPCs, HandPCs
  <1>2. install \in RunRecords
    BY <1>1 DEF InstallInv, Typed, RunningPCs, HandPCs
  <1>3. /\ install' \in RunRecords /\ install'.pc = "raised"
        /\ install'.cur = install.cur
        /\ install'.status = install.status /\ install'.mode = install.mode
        /\ install'.dry = install.dry /\ install'.before = install.before
        /\ install'.release = install.release
    BY <1>1, <1>2 DEF RunRecords
  <1>4. Typed'
    BY <1>1, <1>3 DEF InstallInv, Typed
  <1>5. \A p \in Plugins : InTheMiddle(p)' \/ AsFound(p)' \/ AsPlaced(p)'
    BY <1>1, <1>3
    DEF InstallInv, Accounted, InTheMiddle, AsFound, AsPlaced, RunningPCs,
        HandPCs
  <1>6. Accounted'
    BY <1>1, <1>3, <1>5 DEF InstallInv, Accounted, RunningPCs, HandPCs
  <1>7. Damage'
    <2> DEFINE S == Broken \ InHand
    <2>1. IsFiniteSet(S)
      BY PluginsAssumption, FS_Subset, S \in SUBSET Plugins DEF Broken
    <2>2. Broken' \ InHand' \in SUBSET (S \cup {install.cur})
      BY <1>1, <1>3 DEF Broken, InHand
    <2> HIDE DEF S
    <2>3. /\ IsFiniteSet(S \cup {install.cur})
          /\ Cardinality(S \cup {install.cur}) <= Cardinality(S) + 1
      BY <2>1, FS_AddElement, FS_CardinalityType
    <2>4. /\ IsFiniteSet(Broken' \ InHand')
          /\ Cardinality(Broken' \ InHand') <= Cardinality(S \cup {install.cur})
      BY <2>2, <2>3, FS_Subset
    <2>5. /\ Cardinality(S) \in Nat /\ Cardinality(S \cup {install.cur}) \in Nat
          /\ Cardinality(Broken' \ InHand') \in Nat
      BY <2>1, <2>3, <2>4, FS_CardinalityType
    <2>6. Cardinality(S) <= installFailures
      BY DEF InstallInv, Damage, S
    <2> QED BY <1>1, <2>3, <2>4, <2>5, <2>6 DEF Damage, InstallInv, Typed
  <1> QED BY <1>4, <1>6, <1>7 DEF InstallInv

(* A new release changes no plugin that is installed, and comes between    *)
(* runs.                                                                   *)
LEMMA ReleaseKeeps == InstallInv /\ Release => InstallInv'
  <1> SUFFICES ASSUME InstallInv, Release PROVE InstallInv'
    OBVIOUS
  <1>1. release' \in Versions
    BY ReleasesAssumption DEF Release, InstallInv, Typed, Versions
  <1>2. /\ UNCHANGED <<target, install, installFailures>>
        /\ install.pc \notin RunningPCs
    BY DEF Release, RunningPCs, HandPCs
  <1>3. Typed'
    BY <1>1, <1>2 DEF InstallInv, Typed
  <1>4. Accounted'
    BY <1>2 DEF InstallInv, Accounted, InTheMiddle, AsFound, AsPlaced
  <1>5. Damage'
    BY <1>2 DEF InstallInv, Damage, Broken, InHand
  <1> QED BY <1>3, <1>4, <1>5 DEF InstallInv

LEMMA InstallStep == InstallInv /\ [InstallNext]_installVars => InstallInv'
  <1> SUFFICES ASSUME InstallInv, [InstallNext]_installVars PROVE InstallInv'
    OBVIOUS
  <1>1. CASE UNCHANGED installVars
    BY <1>1 DEF installVars, InstallInv, Typed, Accounted, Damage, Broken,
                InHand, InTheMiddle, AsFound, AsPlaced
  <1>2. CASE InstallNext
    BY <1>2, RunInstallKeeps, PassingKeeps, RemovingKeeps, PlacingKeeps,
       BreakOffKeeps, ReleaseKeeps DEF InstallNext
  <1> QED BY <1>1, <1>2

-----------------------------------------------------------------------------
(* Type correctness: a destination holds nothing, a part, a copy or a      *)
(* link, and a run is about one of the plugins (install_plugins).          *)
THEOREM InstallTyped == InstallSpec => []InstallTypeOK
  <1>1. InstallInv => InstallTypeOK
    BY DEF InstallInv, Typed, InstallTypeOK, RunRecords, RunningPCs, HandPCs,
           Contents
  <1> QED BY <1>1, InstallStarts, InstallStep, PTL DEF InstallSpec

(* However many plugins, runs, releases and interruptions there are: an    *)
(* interrupted installation costs the plugin in hand and no other, a run   *)
(* that ends has put in place, whole, what it calls installed, and what it *)
(* skipped or only tried is as it was (install_overlay.py:123-152).        *)
THEOREM InstallsWhole == InstallSpec => []OverlayWhole
  <1>1. InstallInv => OverlayWhole
    <2> SUFFICES ASSUME InstallInv, install.pc # "idle" PROVE OverlayWhole
      BY DEF OverlayWhole
    <2>1. Cardinality(Broken \ InHand) <= installFailures
      BY DEF InstallInv, Damage
    <2>2. ASSUME NEW p \in Plugins
          PROVE  \/ p = install.cur /\ install.pc # "done"
                 \/ AsFound(p) \/ AsPlaced(p)
      BY DEF InstallInv, Accounted, InTheMiddle, HandPCs
    <2>3. install.dry => target = install.before
      BY DEF InstallInv, Accounted
    <2> QED BY <2>1, <2>2, <2>3 DEF OverlayWhole, AsFound, AsPlaced
  <1> QED BY <1>1, InstallStarts, InstallStep, PTL DEF InstallSpec

-----------------------------------------------------------------------------
(* The jobs.  What a call of the kit holds while it is under way, and how  *)
(* far it has got with the wrapper: the scheduler is asked last.           *)
ToolCalls ==
  [pc : {"truncating", "filling", "chmod", "asking"}, job : Jobs,
   config : Configs, dry : BOOLEAN]
WrapperThere(j) == wrapper[j] \in Configs \cup {Blank}
ToolTyped ==
  \/ tool = Idle
  \/ /\ tool \in ToolCalls
     /\ tool.pc # "truncating" => WrapperThere(tool.job)
     /\ tool.pc = "asking" => runnable[tool.job]
JobsTyped == JobsTypeOK /\ ToolTyped

(* The conjuncts of JobsTypeOK, by what changes them.                      *)
WrappersTyped ==
  /\ wrapper \in [Jobs -> Configs \cup {Blank, Nil}]
  /\ runnable \in [Jobs -> BOOLEAN]
  /\ scheduled \in [Jobs -> {"persisted", "volatile", Nil}]
  /\ \A j \in Jobs : scheduled[j] # Nil => WrapperThere(j) /\ runnable[j]
  /\ ToolTyped
LaneTyped ==
  /\ tick \in [Ticks -> TickRecords \cup {Nil}]
  /\ lane \in [Drops -> SUBSET {"inbox", "pending", "claimed", "settled"}]

LEMMA JobsTypedParts == JobsTyped <=> WrappersTyped /\ LaneTyped
  BY DEF JobsTyped, JobsTypeOK, WrappersTyped, LaneTyped, WrapperThere, WrapperOf

LEMMA JobsStart == JobsInit => JobsTyped
  BY DEF JobsInit, JobsTyped, JobsTypeOK, ToolTyped

(* A tick that is under way is a record of one kind or the other. *)
LEMMA TickIsRecord ==
  ASSUME LaneTyped, NEW t \in Ticks, ~FreeTick(t)
  PROVE  /\ tick[t] \in TickRecords
         /\ tick[t].job \in Jobs \cup {Nil} /\ tick[t].left \in Nat
         /\ tick[t].pc = "working" =>
              /\ tick[t] \in [job : Jobs \cup {Nil}, left : Nat, pc : {"working"},
                              todo : SUBSET Drops, hand : Drops \cup {Nil}]
         /\ tick[t].pc # "working" =>
              tick[t] \in [job : Jobs \cup {Nil}, left : Nat,
                           pc : {"scanning", "listing"}]
  BY DEF LaneTyped, FreeTick, TickRecords

(* The steps of the kit and of the scheduler keep what they hold about the *)
(* wrappers: none of them ever removes one.                                *)
LEMMA WrapperStep ==
  ASSUME WrappersTyped, [JobsNext]_jobVars
  PROVE  WrappersTyped'
<1> USE DEF WrappersTyped, WrapperThere, ToolTyped, WrapperOf
<1>1. ASSUME NEW j \in Jobs, CallSchedule(j) PROVE WrappersTyped'
  BY <1>1 DEF CallSchedule, ToolCalls
<1>2. ASSUME NEW j \in Jobs, CancelJob(j) PROVE WrappersTyped'
  BY <1>2 DEF CancelJob
<1>3. CASE TruncateWrapper
  BY <1>3 DEF TruncateWrapper, ToolCalls, Idle
<1>4. CASE FillWrapper
  BY <1>4 DEF FillWrapper, ToolCalls, Idle
<1>5. CASE ChmodWrapper
  BY <1>5 DEF ChmodWrapper, ToolCalls, Idle
<1>6. CASE AskScheduler
  BY <1>6 DEF AskScheduler, ToolCalls, Idle
<1>7. CASE KillTool
  BY <1>7 DEF KillTool
<1>8. CASE Reboot
  BY <1>8 DEF Reboot
<1>9. ASSUME UNCHANGED <<wrapper, runnable, scheduled, tool>>
      PROVE  WrappersTyped'
  BY <1>9
<1>10. ASSUME NEW t \in Ticks, NEW j \in Jobs,
              FireJob(j, t) \/ RunOnce(t) \/ TickStep(t) \/ KillTick(t)
       PROVE  UNCHANGED <<wrapper, runnable, scheduled, tool>>
  BY <1>10 DEF FireJob, RunOnce, TickStep, Scan, ListPending, Claim, SettleOne,
               KillTick
<1>11. ASSUME NEW t \in Ticks, RunOnce(t) \/ TickStep(t) \/ KillTick(t)
       PROVE  UNCHANGED <<wrapper, runnable, scheduled, tool>>
  BY <1>11 DEF RunOnce, TickStep, Scan, ListPending, Claim, SettleOne, KillTick
<1>12. ASSUME RecoverClaims \/ UNCHANGED jobVars \/ \E d \in Drops : DropFile(d)
       PROVE  UNCHANGED <<wrapper, runnable, scheduled, tool>>
  BY <1>12 DEF RecoverClaims, DropFile, jobVars
<1> QED
  BY <1>1, <1>2, <1>3, <1>4, <1>5, <1>6, <1>7, <1>8, <1>9, <1>10, <1>11, <1>12
  DEF JobsNext, ToolStep

(* The steps of the ticks, and of those that take from them or give them   *)
(* work, move records of the lane between its directories.                 *)
LEMMA LaneStep ==
  ASSUME LaneTyped, WrappersTyped, [JobsNext]_jobVars
  PROVE  LaneTyped'
<1> USE DEF LaneTyped, Moved
<1>1. ASSUME NEW t \in Ticks, NEW j \in Jobs \cup {Nil}, NEW c \in Configs,
             StartTick(t, j, c), lane' = lane
      PROVE  LaneTyped'
  BY <1>1, ConfigsAssumption DEF StartTick, TickRecords
<1>2. ASSUME NEW t \in Ticks, NEW j \in Jobs, FireJob(j, t) PROVE LaneTyped'
  BY <1>1, <1>2 DEF FireJob, WrapperOf
<1>3. ASSUME NEW t \in Ticks, RunOnce(t) PROVE LaneTyped'
  BY <1>1, <1>3 DEF RunOnce
<1>4. ASSUME NEW t \in Ticks, Scan(t) PROVE LaneTyped'
  BY <1>4, TickIsRecord DEF Scan, TickRecords
<1>5. ASSUME NEW t \in Ticks, ListPending(t) PROVE LaneTyped'
  BY <1>5, TickIsRecord DEF ListPending, TickRecords
<1>6. ASSUME NEW t \in Ticks, Claim(t) PROVE LaneTyped'
  <2>1. PICK d \in tick[t].todo :
          /\ lane' = [lane EXCEPT ![d] = (lane[d] \ {"pending"}) \cup {"claimed"}]
          /\ tick' = [tick EXCEPT ![t] =
               IF "pending" \in lane[d]
                 THEN [tick[t] EXCEPT !.todo = @ \ {d}, !.hand = d] ELSE Nil]
    BY <1>6 DEF Claim
  <2>2. tick[t] \in [job : Jobs \cup {Nil}, left : Nat, pc : {"working"},
                    todo : SUBSET Drops, hand : Drops \cup {Nil}]
    BY <1>6, TickIsRecord DEF Claim
  <2>3. d \in Drops
    BY <2>1, <2>2
  <2>4. [tick[t] EXCEPT !.todo = @ \ {d}, !.hand = d]
          \in [job : Jobs \cup {Nil}, left : Nat, pc : {"working"},
              todo : SUBSET Drops, hand : Drops \cup {Nil}]
    <3>1. tick[t].todo \ {d} \in SUBSET Drops
      BY <2>2
    <3> QED BY <2>2, <2>3, <3>1
  <2>5. [tick[t] EXCEPT !.todo = @ \ {d}, !.hand = d] \in TickRecords
    BY <2>4 DEF TickRecords
  <2>6. tick' \in [Ticks -> TickRecords \cup {Nil}]
    <3> DEFINE claiming == [tick[t] EXCEPT !.todo = @ \ {d}, !.hand = d]
    <3>1. tick' = [tick EXCEPT ![t] = IF "pending" \in lane[d] THEN claiming
                                      ELSE Nil]
      BY <2>1
    <3>2. claiming \in TickRecords
      BY <2>5
    <3> HIDE DEF claiming
    <3> QED BY <3>1, <3>2
  <2> QED BY <2>1, <2>3, <2>6
<1>7. ASSUME NEW t \in Ticks, SettleOne(t) PROVE LaneTyped'
  BY <1>7, TickIsRecord DEF SettleOne, TickRecords
<1>8. ASSUME NEW t \in Ticks, KillTick(t) PROVE LaneTyped'
  BY <1>8 DEF KillTick
<1>9. ASSUME NEW d \in Drops, DropFile(d) PROVE LaneTyped'
  BY <1>9 DEF DropFile
<1>10. CASE RecoverClaims
  BY <1>10 DEF RecoverClaims
<1>11. CASE Reboot
  BY <1>11 DEF Reboot
<1>12. ASSUME UNCHANGED <<tick, lane>> PROVE LaneTyped'
  BY <1>12
<1>13. ASSUME \/ \E j \in Jobs : CallSchedule(j) \/ CancelJob(j)
              \/ ToolStep \/ KillTool \/ UNCHANGED jobVars
       PROVE  UNCHANGED <<tick, lane>>
  BY <1>13 DEF CallSchedule, CancelJob, ToolStep, TruncateWrapper, FillWrapper,
               ChmodWrapper, AskScheduler, KillTool, jobVars
<1> QED
  BY <1>2, <1>3, <1>4, <1>5, <1>6, <1>7, <1>8, <1>9, <1>10, <1>11, <1>12, <1>13
  DEF JobsNext, TickStep

LEMMA JobsStep == JobsTyped /\ [JobsNext]_jobVars => JobsTyped'
<1> SUFFICES ASSUME JobsTyped, [JobsNext]_jobVars PROVE JobsTyped'
  OBVIOUS
<1>1. WrappersTyped' /\ LaneTyped'
  BY JobsTypedParts, WrapperStep, LaneStep
<1>2. (WrappersTyped /\ LaneTyped)' => JobsTyped'
  BY JobsTypedParts, PTL
<1> QED BY <1>1, <1>2

(* What TLC runs is a run of the installer while the jobs rest, or the     *)
(* other way round.  The scheduler has no job whose wrapper is not there   *)
(* and ready to be executed, whatever calls are killed and whichever dry   *)
(* runs, cancellations and reboots come in between (_create_wrapper_script *)
(* before the job is asked for); and every variable keeps its type.        *)
THEOREM ServicesTyped == ServicesSpec => []ServicesTypeOK
<1>1. ServicesInit => JobsTyped /\ InstallInit
  BY JobsStart DEF ServicesInit
<1>2. [ServicesNext]_serviceVars => [JobsNext]_jobVars /\ [InstallNext]_installVars
  BY DEF ServicesNext, serviceVars
<1>3. JobsTyped /\ [JobsNext]_jobVars => JobsTyped'
  BY JobsStep
<1>4. JobsTyped => JobsTypeOK
  BY DEF JobsTyped
<1> QED
  BY <1>1, <1>2, <1>3, <1>4, InstallTyped, PTL
  DEF ServicesSpec, InstallSpec, ServicesTypeOK
=============================================================================
