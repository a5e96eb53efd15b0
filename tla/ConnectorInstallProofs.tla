----------------------- MODULE ConnectorInstallProofs -----------------------
(* Theorems about ConnectorInstall, for every set of sessions and of files, *)
(* and whatever bound is put on the calls.                                  *)
EXTENDS ConnectorInstall, TLAPS

-----------------------------------------------------------------------------
(* The inductive invariant. *)

(* What is about to be renamed to the bundle is whole, and so is every      *)
(* backup until its removal begins.                                         *)
RenamedIsWhole ==
  \A s \in Sessions :
    /\ pc[s] \in {"aside", "install"} => Whole(staging[s])
    /\ pc[s] # "remove" /\ backup[s] # None => Whole(backup[s])

(* What a session that nobody disturbed knows of the bundle. *)
Undisturbed ==
  \A s \in Sessions : s \notin disturbed =>
    /\ pc[s] \in {"build", "aside", "cleanup", "failed"} => bundle = before[s]
    /\ pc[s] \in {"install", "restore"} =>
         /\ bundle = None
         /\ before[s] = backup[s]

InstallInv ==
  /\ TypeOK
  /\ BundleIsWhole
  /\ RenamedIsWhole
  /\ Undisturbed

(* The invariant holds where nothing was ever installed. *)
LEMMA InitInstall == Init => InstallInv
<1> SUFFICES ASSUME Init PROVE InstallInv
  OBVIOUS
<1>1. TypeOK
  <2>1. started \in 0..MaxOps
    BY InstallAssumption DEF Init
  <2> QED  BY <2>1 DEF Init, TypeOK
<1>2. BundleIsWhole /\ RenamedIsWhole /\ Undisturbed
  BY DEF Init, BundleIsWhole, RenamedIsWhole, Undisturbed
<1> QED  BY <1>1, <1>2 DEF Init, InstallInv

(* Every step keeps the invariant. *)
LEMMA InstallStep ==
  ASSUME InstallInv, [Next]_vars
  PROVE  InstallInv'
<1> USE InstallAssumption
    DEF InstallInv, TypeOK, BundleIsWhole, RenamedIsWhole, Undisturbed,
        At, Goto, Whole, Trees
<1>1. ASSUME NEW s \in Sessions, NEW ow \in BOOLEAN, Scaffold(s, ow)
      PROVE  InstallInv'
  BY <1>1 DEF Scaffold
<1>2. ASSUME NEW s \in Sessions, Build(s)
      PROVE  InstallInv'
  BY <1>2 DEF Build
<1>3. ASSUME NEW s \in Sessions, BuildFails(s)
      PROVE  InstallInv'
  BY <1>3 DEF BuildFails
<1>4. ASSUME NEW s \in Sessions, Recheck(s)
      PROVE  InstallInv'
  <2>1. TypeOK'
    BY <1>4 DEF Recheck
  <2>2. BundleIsWhole' /\ RenamedIsWhole'
    BY <1>4 DEF Recheck
  <2>3. Undisturbed'
    BY <1>4 DEF Recheck
  <2> QED  BY <1>4, <2>1, <2>2, <2>3 DEF Recheck
<1>5. ASSUME NEW s \in Sessions, MoveAside(s)
      PROVE  InstallInv'
  <2>1. TypeOK'
    BY <1>5 DEF MoveAside, SetBundle
  <2>2. BundleIsWhole' /\ RenamedIsWhole'
    BY <1>5 DEF MoveAside, SetBundle
  <2>3. Undisturbed'
    BY <1>5 DEF MoveAside, SetBundle
  <2> QED  BY <1>5, <2>1, <2>2, <2>3 DEF MoveAside, SetBundle
<1>6. ASSUME NEW s \in Sessions, Install(s)
      PROVE  InstallInv'
  BY <1>6 DEF Install, SetBundle
<1>7. ASSUME NEW s \in Sessions, InstallFails(s)
      PROVE  InstallInv'
  BY <1>7 DEF InstallFails
<1>8. ASSUME NEW s \in Sessions, Restore(s)
      PROVE  InstallInv'
  <2>1. TypeOK'
    BY <1>8 DEF Restore, SetBundle
  <2>2. BundleIsWhole' /\ RenamedIsWhole'
    BY <1>8 DEF Restore, SetBundle
  <2>3. Undisturbed'
    BY <1>8 DEF Restore, SetBundle
  <2> QED  BY <1>8, <2>1, <2>2, <2>3 DEF Restore, SetBundle
<1>9. ASSUME NEW s \in Sessions, RemoveBackup(s)
      PROVE  InstallInv'
  <2>1. TypeOK'
    BY <1>9 DEF RemoveBackup
  <2>2. BundleIsWhole' /\ RenamedIsWhole'
    BY <1>9 DEF RemoveBackup
  <2>3. Undisturbed'
    BY <1>9 DEF RemoveBackup
  <2> QED  BY <1>9, <2>1, <2>2, <2>3 DEF RemoveBackup
<1>10. ASSUME NEW s \in Sessions, Cleanup(s)
       PROVE  InstallInv'
  BY <1>10 DEF Cleanup
<1>11. ASSUME NEW s \in Sessions, Return(s)
       PROVE  InstallInv'
  BY <1>11 DEF Return, Forget
<1>12. ASSUME NEW s \in Sessions, Crash(s)
       PROVE  InstallInv'
  BY <1>12 DEF Crash, Forget
<1>13. CASE UNCHANGED vars
  BY <1>13 DEF vars
<1> QED
  BY <1>1, <1>2, <1>3, <1>4, <1>5, <1>6, <1>7, <1>8, <1>9, <1>10, <1>11, <1>12,
     <1>13
  DEF Next

(* The inductive invariant holds throughout. *)
THEOREM InstallInvariant == Spec => []InstallInv
<1>1. InstallInv /\ [Next]_vars => InstallInv'
  BY InstallStep
<1> QED  BY <1>1, InitInstall, PTL DEF Spec

(* Nobody ever finds half a bundle in the bundle's place. *)
THEOREM BundleAlwaysWhole == Spec => []BundleIsWhole
<1>1. InstallInv => BundleIsWhole
  BY DEF InstallInv
<1> QED  BY <1>1, InstallInvariant, PTL

(* No step takes away the last whole bundle: what is moved aside is whole, *)
(* and a backup is removed only once what was installed is in its place.   *)
LEMMA KeptStep ==
  ASSUME InstallInv, Kept, [Next]_vars
  PROVE  Kept'
<1> USE DEF InstallInv, TypeOK, BundleIsWhole, RenamedIsWhole, Kept, At, Goto, Whole, Trees
<1>1. ASSUME NEW s \in Sessions, NEW ow \in BOOLEAN, Scaffold(s, ow)
      PROVE  Kept'
  BY <1>1 DEF Scaffold
<1>2. ASSUME NEW s \in Sessions, Build(s)
      PROVE  Kept'
  BY <1>2 DEF Build
<1>3. ASSUME NEW s \in Sessions, BuildFails(s)
      PROVE  Kept'
  BY <1>3 DEF BuildFails
<1>4. ASSUME NEW s \in Sessions, Recheck(s)
      PROVE  Kept'
  BY <1>4 DEF Recheck
<1>5. ASSUME NEW s \in Sessions, MoveAside(s)
      PROVE  Kept'
  BY <1>5 DEF MoveAside, SetBundle
<1>6. ASSUME NEW s \in Sessions, Install(s)
      PROVE  Kept'
  BY <1>6 DEF Install, SetBundle
<1>7. ASSUME NEW s \in Sessions, InstallFails(s)
      PROVE  Kept'
  BY <1>7 DEF InstallFails
<1>8. ASSUME NEW s \in Sessions, Restore(s)
      PROVE  Kept'
  BY <1>8 DEF Restore, SetBundle
<1>9. ASSUME NEW s \in Sessions, RemoveBackup(s)
      PROVE  Kept'
  BY <1>9 DEF RemoveBackup
<1>10. ASSUME NEW s \in Sessions, Cleanup(s)
       PROVE  Kept'
  BY <1>10 DEF Cleanup
<1>11. ASSUME NEW s \in Sessions, Return(s)
       PROVE  Kept'
  BY <1>11 DEF Return, Forget
<1>12. ASSUME NEW s \in Sessions, Crash(s)
       PROVE  Kept'
  BY <1>12 DEF Crash, Forget
<1>13. CASE UNCHANGED vars
  BY <1>13 DEF vars
<1> QED
  BY <1>1, <1>2, <1>3, <1>4, <1>5, <1>6, <1>7, <1>8, <1>9, <1>10, <1>11, <1>12,
     <1>13
  DEF Next

(* No interleaving, failure or crash destroys the last whole bundle. *)
THEOREM PreviousAlwaysKept == Spec => PreviousKept
<1>1. InstallInv /\ [Next]_vars => [Kept => Kept']_vars
  BY KeptStep DEF Kept, Whole, vars
<1> QED  BY <1>1, InstallInvariant, PTL DEF Spec, PreviousKept

(* A call that fails undisturbed has changed nothing in the bundle's place. *)
THEOREM FailureIsClean == Spec => []FailureLeavesBundle
<1>1. InstallInv => FailureLeavesBundle
  BY DEF InstallInv, Undisturbed, FailureLeavesBundle, At
<1> QED  BY <1>1, InstallInvariant, PTL

(* Directories, sessions and history keep their types and their phases.     *)
THEOREM TypesKept == Spec => []TypeOK
<1>1. InstallInv => TypeOK
  BY DEF InstallInv
<1> QED  BY <1>1, InstallInvariant, PTL

-----------------------------------------------------------------------------
(* What is left behind, and what may replace a bundle. *)

(* Only the end of a call, or of its process, leaves anything behind; a     *)
(* call that ends by itself has no staging directory any more, and a backup *)
(* nobody began to remove.                                                  *)
LEMMA LeftoverStep ==
  ASSUME InstallInv, OnlyWholeLeftovers, [Next]_vars
  PROVE  OnlyWholeLeftovers'
<1>1. ASSUME NEW s \in Sessions, Return(s)
      PROVE  OnlyWholeLeftovers'
  <2>1. pc[s] \in {"done", "failed"}
    BY <1>1 DEF Return
  <2>2. staging[s] = None
    BY <2>1 DEF InstallInv, TypeOK
  <2>3. backup[s] # None => Whole(backup[s])
    BY <2>1 DEF InstallInv, RenamedIsWhole
  <2>4. stray' = stray \cup ({staging[s], backup[s]} \ {None}) /\ crashed' = crashed
    BY <1>1 DEF Return, Forget
  <2> QED  BY <2>2, <2>3, <2>4 DEF OnlyWholeLeftovers, Whole
<1>2. ASSUME NEW s \in Sessions, Crash(s)
      PROVE  OnlyWholeLeftovers'
  BY <1>2 DEF Crash, OnlyWholeLeftovers
<1>3. ASSUME UNCHANGED <<stray, crashed>>
      PROVE  OnlyWholeLeftovers'
  BY <1>3 DEF OnlyWholeLeftovers, Whole
<1>4. ASSUME NEW s \in Sessions,
             \/ \E ow \in BOOLEAN : Scaffold(s, ow)
             \/ Build(s) \/ BuildFails(s) \/ Recheck(s) \/ MoveAside(s)
             \/ Install(s) \/ InstallFails(s) \/ Restore(s)
             \/ RemoveBackup(s) \/ Cleanup(s)
      PROVE  UNCHANGED <<stray, crashed>>
  BY <1>4 DEF Scaffold, Build, BuildFails, Recheck, MoveAside, Install,
              InstallFails, Restore, RemoveBackup, Cleanup
<1> QED  BY <1>1, <1>2, <1>3, <1>4 DEF Next, vars

(* Racing calls that are not cut short leave whole displaced bundles behind *)
(* and nothing else.                                                        *)
THEOREM LeftoversAreWhole == Spec => []OnlyWholeLeftovers
<1>1. Init => OnlyWholeLeftovers
  BY DEF Init, OnlyWholeLeftovers
<1>2. InstallInv /\ OnlyWholeLeftovers /\ [Next]_vars => OnlyWholeLeftovers'
  BY LeftoverStep
<1> QED  BY <1>1, <1>2, InstallInvariant, PTL DEF Spec

(* A session sets a bundle aside only when it was called with overwrite.    *)
AsideMayOverwrite == \A s \in Sessions : pc[s] = "aside" => overwrite[s]

LEMMA AsideStep ==
  ASSUME TypeOK, AsideMayOverwrite, [Next]_vars
  PROVE  AsideMayOverwrite'
<1> USE DEF AsideMayOverwrite, TypeOK, At, Goto
<1>1. ASSUME NEW s \in Sessions, NEW ow \in BOOLEAN, Scaffold(s, ow)
      PROVE  AsideMayOverwrite'
  BY <1>1 DEF Scaffold
<1>2. ASSUME NEW s \in Sessions, Recheck(s)
      PROVE  AsideMayOverwrite'
  BY <1>2 DEF Recheck
<1>3. ASSUME NEW s \in Sessions,
             \/ BuildFails(s) \/ MoveAside(s) \/ Install(s) \/ InstallFails(s)
             \/ Restore(s) \/ RemoveBackup(s) \/ Cleanup(s)
      PROVE  AsideMayOverwrite'
  BY <1>3 DEF BuildFails, MoveAside, Install, InstallFails, Restore,
              RemoveBackup, Cleanup
<1>4. ASSUME NEW s \in Sessions, Return(s) \/ Crash(s)
      PROVE  AsideMayOverwrite'
  BY <1>4 DEF Return, Crash, Forget
<1>5. ASSUME UNCHANGED <<pc, overwrite>>
      PROVE  AsideMayOverwrite'
  BY <1>5
<1>6. ASSUME NEW s \in Sessions, Build(s)
      PROVE  UNCHANGED <<pc, overwrite>>
  BY <1>6 DEF Build
<1> QED  BY <1>1, <1>2, <1>3, <1>4, <1>5, <1>6 DEF Next, vars

(* One step: the three renames are the only ones that touch the bundle, and *)
(* two of them need its place to be free.                                   *)
LEMMA ClobberStep ==
  ASSUME AsideMayOverwrite, Next, bundle # None, bundle' # bundle
  PROVE  \E s \in Sessions : overwrite[s] /\ bundle' = None /\ At(s, "aside")
<1>1. ASSUME NEW s \in Sessions, MoveAside(s)
      PROVE  overwrite[s] /\ bundle' = None /\ At(s, "aside")
  BY <1>1 DEF MoveAside, SetBundle, AsideMayOverwrite, At
<1>2. ASSUME NEW s \in Sessions, Install(s) \/ Restore(s)
      PROVE  FALSE
  BY <1>2 DEF Install, Restore
<1>3. ASSUME NEW s \in Sessions,
             \/ \E ow \in BOOLEAN : Scaffold(s, ow)
             \/ Build(s) \/ BuildFails(s) \/ Recheck(s) \/ InstallFails(s)
             \/ RemoveBackup(s) \/ Cleanup(s) \/ Return(s) \/ Crash(s)
      PROVE  FALSE
  BY <1>3 DEF Scaffold, Build, BuildFails, Recheck, InstallFails, RemoveBackup,
              Cleanup, Return, Crash, Forget
<1> QED  BY <1>1, <1>2, <1>3 DEF Next

(* However late a bundle appears in its place, only a call that may         *)
(* overwrite takes it away, and by setting it aside.                        *)
THEOREM NobodyClobbers == Spec => NoClobber
<1>1. Init => AsideMayOverwrite
  BY DEF Init, AsideMayOverwrite
<1>2. TypeOK /\ AsideMayOverwrite /\ [Next]_vars => AsideMayOverwrite'
  BY AsideStep
<1>3. AsideMayOverwrite /\ [Next]_vars =>
        [bundle # None /\ bundle' # bundle =>
           \E s \in Sessions : overwrite[s] /\ bundle' = None /\ At(s, "aside")]_vars
  BY ClobberStep
<1> QED  BY <1>1, <1>2, <1>3, TypesKept, PTL DEF Spec, NoClobber
=============================================================================
