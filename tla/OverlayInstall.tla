--------------------------- MODULE OverlayInstall ---------------------------
(***************************************************************************)
(* scripts/install_overlay.py: copies or links the repository's plugins,   *)
(* one by one, into a plugin directory of Code Puppy: all of them in the   *)
(* order of their names, or those that --plugins names, in its order and   *)
(* as often as it names them.  A plugin that is there already is skipped,  *)
(* or with --overwrite removed and then installed anew.  shutil.copytree makes a directory and *)
(* fills it, shutil.rmtree empties a directory and removes it: between the *)
(* two, and if the run is killed or the storage full for good, a part of a *)
(* plugin is there.                                                        *)
(*                                                                         *)
(* Left out: how the target directory is found, and what is printed.       *)
(***************************************************************************)
EXTENDS Naturals, FiniteSets, Sequences

CONSTANTS
  Plugins,
  MaxNamed,        \* BOUND: names after the first of a run
  MaxInstalls,     \* BOUND: runs of the script
  MaxReleases,     \* BOUND: new versions of the repository
  MaxInstallFailures \* BOUND: kills and failing file operations

ASSUME PluginsAssumption == IsFiniteSet(Plugins)
ASSUME NamedAssumption == MaxNamed \in Nat
ASSUME ReleasesAssumption == MaxReleases \in Nat

VARIABLES
  release,    \* of the repository's plugins
  target,     \* of each plugin: what is at its destination
  install,    \* the run under way, or the last one
  installs, installFailures

installVars == <<release, target, install, installs, installFailures>>

Versions == 0..MaxReleases
Copies == {"copy"} \X Versions
Absent == <<"absent">>
Partial == <<"partial">>
Link == <<"link">>    \* shows the repository as it is

-----------------------------------------------------------------------------
Named == UNION {[1..n -> Plugins] : n \in 0..MaxNamed}

RunInstall ==
  /\ install.pc \in {"idle", "done", "raised"} /\ installs < MaxInstalls
  /\ \E first \in Plugins, rest \in Named, mode \in {"copy", "symlink"},
        overwrite \in BOOLEAN, dry \in BOOLEAN :
       install' = [pc |-> "next", cur |-> first, rest |-> rest, mode |-> mode,
                   overwrite |-> overwrite, dry |-> dry,
                   before |-> target, release |-> release,
                   status |-> [p \in Plugins |-> {}]]
  /\ installs' = installs + 1
  /\ UNCHANGED <<release, target, installFailures>>

(* The step after the plugin in hand, with the status s: a plugin named    *)
(* twice has two.                                                          *)
Advance(s) ==
  LET reported == [install EXCEPT !.status[install.cur] = @ \cup {s}]
  IN  install' = IF install.rest = <<>> THEN [reported EXCEPT !.pc = "done"]
                 ELSE [reported EXCEPT !.pc = "next", !.cur = Head(install.rest),
                                       !.rest = Tail(install.rest)]

KeepsExisting(p) == target[p] # Absent /\ ~install.overwrite

Skip ==
  /\ install.pc = "next"
  /\ KeepsExisting(install.cur)
  /\ Advance("skipped_exists")
  /\ UNCHANGED <<release, target, installs, installFailures>>

DryInstall ==
  /\ install.pc = "next" /\ install.dry
  /\ ~KeepsExisting(install.cur)
  /\ Advance("installed")
  /\ UNCHANGED <<release, target, installs, installFailures>>

(* _remove_existing: a link is unlinked at once; of a directory something  *)
(* is left until the last file is gone.                                    *)
RemoveAllFirst ==    \* variant: makes room for all, then installs
  /\ install.pc = "next" /\ ~install.dry
  /\ ~KeepsExisting(install.cur) /\ target[install.cur] # Absent
  /\ target' = [p \in Plugins |->
       IF p = install.cur \/ \E i \in DOMAIN install.rest : install.rest[i] = p
         THEN Absent ELSE target[p]]
  /\ install' = [install EXCEPT !.pc = "placing"]
  /\ UNCHANGED <<release, installs, installFailures>>

RemoveExisting ==
  /\ install.pc = "next" /\ ~install.dry
  /\ ~KeepsExisting(install.cur) /\ target[install.cur] # Absent
  /\ target' = [target EXCEPT ![install.cur] =
       IF @ = Link THEN Absent ELSE Partial]
  /\ install' = [install EXCEPT !.pc =
       IF target[install.cur] = Link THEN "placing" ELSE "emptying"]
  /\ UNCHANGED <<release, installs, installFailures>>

RemoveRest ==
  /\ install.pc = "emptying"
  /\ target' = [target EXCEPT ![install.cur] = Absent]
  /\ install' = [install EXCEPT !.pc = "placing"]
  /\ UNCHANGED <<release, installs, installFailures>>

Placing ==
  \/ install.pc = "placing"
  \/ install.pc = "next" /\ ~install.dry /\ target[install.cur] = Absent

SymlinkPlugin ==
  /\ Placing /\ install.mode = "symlink"
  /\ target' = [target EXCEPT ![install.cur] = Link]
  /\ Advance("installed")
  /\ UNCHANGED <<release, installs, installFailures>>

BeginCopy ==
  /\ Placing /\ install.mode = "copy"
  /\ target' = [target EXCEPT ![install.cur] = Partial]
  /\ install' = [install EXCEPT !.pc = "copying"]
  /\ UNCHANGED <<release, installs, installFailures>>

FinishCopy ==
  /\ install.pc = "copying"
  /\ target' = [target EXCEPT ![install.cur] = <<"copy", release>>]
  /\ Advance("installed")
  /\ UNCHANGED <<release, installs, installFailures>>

(* Killed, or a file operation raises: nothing is put back. *)
BreakOff ==
  /\ install.pc \in {"next", "emptying", "placing", "copying"}
  /\ installFailures < MaxInstallFailures
  /\ install' = [install EXCEPT !.pc = "raised"]
  /\ installFailures' = installFailures + 1
  /\ UNCHANGED <<release, target, installs>>

(* git pull; not while a run copies. *)
Release ==
  /\ release < MaxReleases
  /\ install.pc \in {"idle", "done", "raised"}
  /\ release' = release + 1
  /\ UNCHANGED <<target, install, installs, installFailures>>

InstallInit ==
  /\ release = 0
  /\ target = [p \in Plugins |-> Absent]
  /\ install = [pc |-> "idle"]
  /\ installs = 0 /\ installFailures = 0

InstallNext ==
  \/ RunInstall \/ Skip \/ DryInstall
  \/ RemoveExisting \/ RemoveRest
  \/ SymlinkPlugin \/ BeginCopy \/ FinishCopy
  \/ BreakOff \/ Release

InstallSpec == InstallInit /\ [][InstallNext]_installVars

-----------------------------------------------------------------------------
(* A destination holds nothing, a part, a copy or a link. *)
InstallTypeOK ==
  /\ target \in [Plugins -> Copies \cup {Absent, Partial, Link}]
  /\ install.pc \in {"idle", "next", "emptying", "placing", "copying", "done",
                     "raised"}
  /\ install.pc # "idle" => install.cur \in Plugins

(* What an interruption costs is one plugin: at every moment, all plugins  *)
(* but one for each interrupted run, and but the one in hand, are as they  *)
(* were before the run or of this release.  A run that ends has put every  *)
(* plugin it calls installed in place, whole and of this release, and has  *)
(* not touched one it only skipped or was not asked for; a dry run none at *)
(* all.  What a kill has left in part is not put right by a later run that *)
(* skips it: it counts as broken until a run overwrites it.                *)
InHand == IF install.pc \in {"emptying", "placing", "copying"}
          THEN {install.cur} ELSE {}
Broken == {p \in Plugins : target[p] = Partial}

OverlayWhole ==
  install.pc # "idle" =>
    /\ Cardinality(Broken \ InHand) <= installFailures
    /\ \A p \in Plugins :
         \/ p = install.cur /\ install.pc # "done"
         \/ /\ "installed" \notin install.status[p] \/ install.dry
            /\ target[p] = install.before[p]
         \/ /\ "installed" \in install.status[p] /\ ~install.dry
            /\ target[p] = IF install.mode = "symlink" THEN Link
                           ELSE <<"copy", install.release>>
    /\ install.dry => target = install.before
=============================================================================
