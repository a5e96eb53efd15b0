-------------------------- MODULE ConnectorInstall --------------------------
(***************************************************************************)
(* _replace_generated_tree (pyfpa/memory/connectors.py) for one connector  *)
(* bundle, called by scaffold_connector_bundle of several processes: the   *)
(* new bundle is built in a staging directory, the old one is renamed to a *)
(* backup, the staging directory is renamed to the bundle, the backup is   *)
(* removed.                                                                *)
(*                                                                         *)
(* A rename is atomic; onto a bundle that exists it fails (the directory   *)
(* is not empty).  Building and removing a tree are not atomic.  A tree is *)
(* the operation that built it and the parts present.  Bundles here are    *)
(* plain directories: links and files in their place are refused, which is *)
(* the same as a session that ends at its first step.                      *)
(***************************************************************************)
EXTENDS Integers, FiniteSets

CONSTANTS Sessions,
          Parts,    \* the files of a bundle
          None,     \* no directory
          MaxOps    \* bound: scaffolds in a behaviour

ASSUME InstallAssumption ==
  /\ Parts # {}
  /\ None \notin [by : Nat, parts : SUBSET Parts]
  /\ MaxOps \in Nat

Trees == [by : Nat, parts : SUBSET Parts]
Whole(tree) == tree # None /\ tree.parts = Parts

VARIABLES
  bundle,     \* connectors/generated/<name>
  staging,    \* per session: .<name>.staging-*
  backup,     \* per session: .<name>.backup-* of the running operation
  stray,      \* directories that operations left behind
  pc,
  overwrite,  \* per session: the argument
  started     \* scaffolds begun so far

\* History, read by no action.
VARIABLES
  before,     \* per session: the bundle when its operation began
  disturbed,  \* sessions for which others have changed the bundle since
  crashed     \* some session crashed

vars == <<bundle, staging, backup, stray, pc, overwrite, started,
          before, disturbed, crashed>>

Init ==
  /\ bundle = None
  /\ staging = [s \in Sessions |-> None]
  /\ backup = [s \in Sessions |-> None]
  /\ stray = {}
  /\ pc = [s \in Sessions |-> "idle"]
  /\ overwrite = [s \in Sessions |-> FALSE]
  /\ started = 0
  /\ before = [s \in Sessions |-> None]
  /\ disturbed = {}
  /\ crashed = FALSE

At(s, step) == pc[s] = step
Goto(s, step) == pc' = [pc EXCEPT ![s] = step]

(* What the other sessions see when s puts `tree` in the bundle's place. *)
SetBundle(s, tree) ==
  /\ bundle' = tree
  /\ disturbed' = disturbed \cup (Sessions \ {s})

-----------------------------------------------------------------------------
(* Operators named ...Slip are single mistakes in the operator that follows *)
(* them; no specification uses them, they show what the properties see.     *)

(* The first look at the bundle, and mkdtemp. *)
Scaffold(s, ow) ==
  /\ At(s, "idle")
  /\ started < MaxOps
  /\ started' = started + 1
  /\ bundle # None => ow
  /\ staging' = [staging EXCEPT ![s] = [by |-> started', parts |-> {}]]
  /\ overwrite' = [overwrite EXCEPT ![s] = ow]
  /\ before' = [before EXCEPT ![s] = bundle]
  /\ disturbed' = disturbed \ {s}
  /\ Goto(s, "build")
  /\ UNCHANGED <<bundle, backup, stray, crashed>>

(* build_bundle writes one file. *)
Build(s) ==
  /\ At(s, "build")
  /\ \E p \in Parts \ staging[s].parts :
       staging' = [staging EXCEPT ![s].parts = @ \cup {p}]
  /\ UNCHANGED <<bundle, backup, stray, pc, overwrite, started, before,
                 disturbed, crashed>>

(* The second look does not ask for overwrite. *)
RecheckSlip(s) ==
  /\ At(s, "build")
  /\ staging[s].parts = Parts
  /\ Goto(s, IF bundle = None THEN "install" ELSE "aside")
  /\ UNCHANGED <<bundle, staging, backup, stray, overwrite, started, before,
                 disturbed, crashed>>

(* The second look at the bundle. *)
Recheck(s) ==
  /\ At(s, "build")
  /\ staging[s].parts = Parts
  /\ Goto(s, IF bundle = None THEN "install"
             ELSE IF overwrite[s] THEN "aside" ELSE "cleanup")
  /\ UNCHANGED <<bundle, staging, backup, stray, overwrite, started, before,
                 disturbed, crashed>>

(* The old bundle is removed first. *)
MoveAsideSlip(s) ==
  /\ At(s, "aside")
  /\ SetBundle(s, None)
  /\ Goto(s, "install")
  /\ UNCHANGED <<staging, backup, stray, overwrite, started, before, crashed>>

(* bundle.rename(backup); another session may have moved it already. *)
MoveAside(s) ==
  /\ At(s, "aside")
  /\ IF bundle = None
     THEN /\ Goto(s, "cleanup")
          /\ UNCHANGED <<bundle, backup, disturbed>>
     ELSE /\ backup' = [backup EXCEPT ![s] = bundle]
          /\ SetBundle(s, None)
          /\ Goto(s, "install")
  /\ UNCHANGED <<staging, stray, overwrite, started, before, crashed>>

(* staging.rename(bundle). *)
Install(s) ==
  /\ At(s, "install")
  /\ bundle = None
  /\ SetBundle(s, staging[s])
  /\ staging' = [staging EXCEPT ![s] = None]
  /\ Goto(s, "remove")
  /\ UNCHANGED <<backup, stray, overwrite, started, before, crashed>>

(* A backup is put back though nothing was moved aside. *)
InstallFailsSlip(s) ==
  /\ At(s, "install")
  /\ Goto(s, IF bundle = None THEN "restore" ELSE "cleanup")
  /\ UNCHANGED <<bundle, staging, backup, stray, overwrite, started, before,
                 disturbed, crashed>>

(* The rename fails: the bundle is back, or the system refuses it. *)
InstallFails(s) ==
  /\ At(s, "install")
  /\ Goto(s, IF backup[s] # None /\ bundle = None THEN "restore" ELSE "cleanup")
  /\ UNCHANGED <<bundle, staging, backup, stray, overwrite, started, before,
                 disturbed, crashed>>

(* The backup is not put back. *)
RestoreSlip(s) ==
  /\ At(s, "restore")
  /\ Goto(s, "cleanup")
  /\ UNCHANGED <<bundle, staging, backup, stray, overwrite, started, before,
                 disturbed, crashed>>

(* backup.rename(bundle), unless another bundle took the place meanwhile. *)
Restore(s) ==
  /\ At(s, "restore")
  /\ IF bundle = None
     THEN /\ SetBundle(s, backup[s])
          /\ backup' = [backup EXCEPT ![s] = None]
     ELSE UNCHANGED <<bundle, backup, disturbed>>
  /\ Goto(s, "cleanup")
  /\ UNCHANGED <<staging, stray, overwrite, started, before, crashed>>

(* The backup is removed, file by file, after the install. *)
RemoveBackup(s) ==
  /\ At(s, "remove")
  /\ IF backup[s] = None \/ backup[s].parts = {}
     THEN /\ backup' = [backup EXCEPT ![s] = None]
          /\ Goto(s, "done")
     ELSE /\ \E p \in backup[s].parts :
               backup' = [backup EXCEPT ![s].parts = @ \ {p}]
          /\ pc' = pc
  /\ UNCHANGED <<bundle, staging, stray, overwrite, started, before,
                 disturbed, crashed>>

(* The staging directory is left behind. *)
CleanupSlip(s) ==
  /\ At(s, "cleanup")
  /\ Goto(s, "failed")
  /\ UNCHANGED <<bundle, staging, backup, stray, overwrite, started, before,
                 disturbed, crashed>>

(* The finally clause: what was not installed is removed. *)
Cleanup(s) ==
  /\ At(s, "cleanup")
  /\ IF staging[s].parts = {}
     THEN /\ staging' = [staging EXCEPT ![s] = None]
          /\ Goto(s, "failed")
     ELSE /\ \E p \in staging[s].parts :
               staging' = [staging EXCEPT ![s].parts = @ \ {p}]
          /\ pc' = pc
  /\ UNCHANGED <<bundle, backup, stray, overwrite, started, before,
                 disturbed, crashed>>

(* An error while building is swallowed. *)
BuildFailsSlip(s) ==
  /\ At(s, "build")
  /\ Goto(s, "install")
  /\ UNCHANGED <<bundle, staging, backup, stray, overwrite, started, before,
                 disturbed, crashed>>

(* build_bundle raises. *)
BuildFails(s) ==
  /\ At(s, "build")
  /\ Goto(s, "cleanup")
  /\ UNCHANGED <<bundle, staging, backup, stray, overwrite, started, before,
                 disturbed, crashed>>

(* The call ends, with the bundle installed or with an exception, or the   *)
(* process does (an error while a tree is removed counts as such): what it *)
(* has on disk stays there under its random name.                          *)
Forget(s) ==
  /\ stray' = stray \cup ({staging[s], backup[s]} \ {None})
  /\ staging' = [staging EXCEPT ![s] = None]
  /\ backup' = [backup EXCEPT ![s] = None]
  /\ Goto(s, "idle")
  /\ overwrite' = [overwrite EXCEPT ![s] = FALSE]
  /\ before' = [before EXCEPT ![s] = None]
  /\ UNCHANGED <<bundle, started, disturbed>>

Return(s) ==
  /\ pc[s] \in {"done", "failed"}
  /\ Forget(s)
  /\ crashed' = crashed

Crash(s) ==
  /\ pc[s] \notin {"idle", "done", "failed"}
  /\ Forget(s)
  /\ crashed' = TRUE

Next ==
  \E s \in Sessions :
    \/ \E ow \in BOOLEAN : Scaffold(s, ow)
    \/ Build(s) \/ BuildFails(s) \/ Recheck(s) \/ MoveAside(s)
    \/ Install(s) \/ InstallFails(s) \/ Restore(s)
    \/ RemoveBackup(s) \/ Cleanup(s)
    \/ Return(s) \/ Crash(s)

Spec == Init /\ [][Next]_vars

-----------------------------------------------------------------------------
(* Properties. *)

(* Type invariant of the directories, the sessions and the history: a       *)
(* session has a staging directory from its creation to the install or the *)
(* end of the cleanup, and a backup only once it moved a bundle aside.     *)
TypeOK ==
  /\ bundle \in Trees \cup {None}
  /\ staging \in [Sessions -> Trees \cup {None}]
  /\ backup \in [Sessions -> Trees \cup {None}]
  /\ stray \subseteq Trees
  /\ pc \in [Sessions -> {"idle", "build", "aside", "install", "restore",
                          "remove", "cleanup", "done", "failed"}]
  /\ overwrite \in [Sessions -> BOOLEAN]
  /\ started \in 0..MaxOps
  /\ before \in [Sessions -> Trees \cup {None}]
  /\ disturbed \subseteq Sessions
  /\ crashed \in BOOLEAN
  /\ \A s \in Sessions :
       /\ staging[s] # None <=>
            pc[s] \in {"build", "aside", "install", "restore", "cleanup"}
       /\ pc[s] \in {"idle", "build", "aside", "done"} => backup[s] = None
       /\ pc[s] = "restore" => backup[s] # None

(* Whoever lists or validates the bundle, at any moment and after any       *)
(* crash, finds all of its files or no bundle at all.                       *)
BundleIsWhole == bundle # None => Whole(bundle)

(* A whole bundle in its place, in a backup that nobody is removing, or     *)
(* left behind.                                                             *)
Kept ==
  \/ bundle # None /\ Whole(bundle)
  \/ \E s \in Sessions : pc[s] # "remove" /\ Whole(backup[s])
  \/ \E tree \in stray : Whole(tree)

(* The previous bundle outlives every failure: no step of any call takes   *)
(* away the last whole bundle there is, neither by a failure or a crash    *)
(* between the two renames nor by removing a backup that was moved aside.  *)
PreviousKept == [][Kept => Kept']_vars

(* A call that fails leaves the bundle it found, when no other session     *)
(* changed it.                                                             *)
FailureLeavesBundle ==
  \A s \in Sessions : At(s, "failed") /\ s \notin disturbed => bundle = before[s]

(* Without a crash, nothing but a bundle displaced by two racing calls is  *)
(* left behind, and that is a whole one.                                   *)
OnlyWholeLeftovers == ~crashed => \A tree \in stray : Whole(tree)

(* A bundle is taken from its place only by a call that may overwrite it,  *)
(* however late it appeared there.                                         *)
NoClobber ==
  [][bundle # None /\ bundle' # bundle =>
       \E s \in Sessions : overwrite[s] /\ bundle' = None /\ At(s, "aside")]_vars
=============================================================================
