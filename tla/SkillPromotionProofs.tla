----------------------- MODULE SkillPromotionProofs -----------------------
(* Theorems about SkillPromotion, for every set of sessions, files,         *)
(* versions and decisions, and whatever bound is put on the operations.     *)
EXTENDS SkillPromotion, WellFoundedInduction, TLAPS

-----------------------------------------------------------------------------
(* Files are numbers, so there is a first of any that are still to do. *)

LEMMA SmallestNat ==
  ASSUME NEW T, T \subseteq Nat, T # {}
  PROVE  \E x \in T : \A y \in T : x <= y
<1> DEFINE R == {ss \in Nat \X Nat : ss[1] < ss[2]}
<1>1. IsWellFoundedOn(R, Nat)
  BY NatLessThanWellFounded DEF OpToRel
<1>2. \E x \in T : \A y \in T : ~(<<y, x>> \in R)
  <2> HIDE DEF R
  <2> QED  BY <1>1, WFMin
<1>3. ASSUME NEW x \in T, NEW y \in T, ~(<<y, x>> \in R)
      PROVE  x <= y
  <2>1. x \in Nat /\ y \in Nat
    OBVIOUS
  <2>2. ~(y < x)
    BY <1>3, <2>1
  <2> QED  BY <2>1, <2>2
<1> QED  BY <1>2, <1>3

LEMMA FirstIsMember ==
  ASSUME NEW S \in SUBSET Files, S # {}
  PROVE  FirstOf(S) \in S
<1>1. S \subseteq Nat
  BY SkillAssumption
<1> QED  BY <1>1, SmallestNat DEF FirstOf

(* Trees. *)

LEMMA TreeShape ==
  ASSUME NEW t
  PROVE  t \in Trees <=> DOMAIN t \subseteq Files /\ t \in [DOMAIN t -> Versions]
BY DEF Trees

LEMMA NoFiles == EmptyTree \in Trees /\ DOMAIN EmptyTree = {} /\ EmptyTree # None
<1>1. DOMAIN EmptyTree = {} /\ EmptyTree \in [{} -> Versions]
  BY DEF EmptyTree
<1>2. EmptyTree \in Trees
  BY <1>1 DEF Trees
<1> QED  BY <1>1, <1>2, SkillAssumption

LEMMA AddFile ==
  ASSUME NEW t \in Trees, NEW f \in Files, NEW v \in Versions
  PROVE  /\ [g \in DOMAIN t \cup {f} |-> IF g = f THEN v ELSE t[g]] \in Trees
         /\ DOMAIN [g \in DOMAIN t \cup {f} |-> IF g = f THEN v ELSE t[g]] = DOMAIN t \cup {f}
<1> DEFINE u == [g \in DOMAIN t \cup {f} |-> IF g = f THEN v ELSE t[g]]
<1>1. DOMAIN u = DOMAIN t \cup {f}
  OBVIOUS
<1>2. DOMAIN t \subseteq Files /\ \A g \in DOMAIN t : t[g] \in Versions
  BY TreeShape
<1>3. u \in [DOMAIN t \cup {f} -> Versions]
  BY <1>2
<1> HIDE DEF u
<1>4. u \in Trees
  BY <1>1, <1>2, <1>3, TreeShape
<1> QED  BY <1>1, <1>4 DEF u

-----------------------------------------------------------------------------
(* Approvals. *)

(* An approval is a decision with its reviewed findings cut down at most. *)
Within(a, d) == a = Stamped(d, a.reviewed) /\ a.reviewed \subseteq d.reviewed

LEMMA DecisionWithinItself ==
  ASSUME NEW d \in Decisions
  PROVE  Within(d, d)
<1>1. d = [field \in ApprovalFields |-> d[field]]
  BY SkillAssumption DEF IsApproval
<1> QED  BY <1>1 DEF Within, Stamped

(* A stamp with findings the approval reviewed stays within the decision. *)
LEMMA StampStaysWithin ==
  ASSUME NEW d \in Decisions, NEW a, Within(a, d), NEW f, f \subseteq a.reviewed
  PROVE  Within(Stamped(a, f), d)
<1>1. "reviewed" \in DOMAIN d
  BY SkillAssumption DEF IsApproval, ApprovalFields
<1>2. Stamped(a, f) = Stamped(d, f)
  BY DEF Within, Stamped
<1>3. Stamped(d, f).reviewed = f
  BY <1>1 DEF Stamped
<1> QED  BY <1>2, <1>3 DEF Within

(* What an approval covers, the decision it is within covers. *)
LEMMA DecisionCovers ==
  ASSUME NEW d \in Decisions, NEW a, Within(a, d),
         NEW scope, NEW support, NEW files, NEW texts, NEW heading,
         Covers(a, scope, support, files, texts, heading)
  PROVE  Covers(d, scope, support, files, texts, heading)
<1>1. DOMAIN d = ApprovalFields
  BY SkillAssumption DEF IsApproval
<1>2. /\ a.scope = d.scope /\ a.contributors = d.contributors
      /\ a.acknowledged = d.acknowledged /\ a.notes = d.notes /\ a.allowed = d.allowed
  BY <1>1 DEF Within, Stamped, ApprovalFields
<1>3. CheckAliases(d, support, heading)
  <2> DEFINE groups == NameGroups(support, heading)
  <2>1. Unresolved(d, groups) = Unresolved(a, groups)
    BY <1>2 DEF Unresolved, Separated
  <2>2. [g \in groups |-> Counted(d, g)] = [g \in groups |-> Counted(a, g)]
    BY <1>2 DEF Counted, Separated
  <2>3. CheckAliases(a, support, heading)
    BY DEF Covers
  <2> QED  BY <2>1, <2>2, <2>3 DEF CheckAliases
<1> QED  BY <1>2, <1>3 DEF Covers, CheckScope, CheckContributors, CheckAllowedFiles, Within

-----------------------------------------------------------------------------
(* The inductive invariant. *)

OnFileWithin ==
  \A t \in Trees : approvals[t] # None => \E d \in granted[t] : Within(approvals[t], d)

(* A session past its check holds a tree that was approved, an approval on  *)
(* record for it, and findings that approval reviewed.                      *)
HeldIsApproved(s) ==
  /\ Approved(captured[s])
  /\ \E d \in granted[captured[s]] : Within(held[s], d)
  /\ findings[s] \subseteq held[s].reviewed

(* The library's directory holds the captured files that were copied. *)
CopyUnderWay(s) ==
  /\ todo[s] \subseteq DOMAIN captured[s]
  /\ DOMAIN dest \subseteq DOMAIN captured[s]
  /\ DOMAIN captured[s] \subseteq DOMAIN dest \cup todo[s]
  /\ dest = Restrict(captured[s], DOMAIN dest)

Passed == {"ids", "mkdir", "copy", "stamp"}
Holding == {"copy", "stamp"}     \* the session made the directory

SessionsOK ==
  \A s \in Sessions :
    /\ pc[s] \in Passed => HeldIsApproved(s)
    /\ pc[s] \in {"mkdir", "copy", "stamp"} => Support \subseteq ids
    /\ pc[s] \in Holding => dest # None
    /\ pc[s] = "copy" => CopyUnderWay(s)

OneHolds == \A s, t \in Sessions : pc[s] \in Holding /\ pc[t] \in Holding => s = t

SkillInv ==
  /\ TypeOK
  /\ OnFileWithin
  /\ SessionsOK
  /\ OneHolds
  /\ CopiedWasApproved

LEMMA InitSkill == Init => SkillInv
<1> SUFFICES ASSUME Init PROVE SkillInv
  OBVIOUS
<1>1. TypeOK
  BY NoFiles, SkillAssumption DEF Init, TypeOK
<1>2. OnFileWithin /\ SessionsOK /\ OneHolds /\ CopiedWasApproved
  BY DEF Init, OnFileWithin, SessionsOK, OneHolds, CopiedWasApproved, Passed, Holding
<1> QED  BY <1>1, <1>2 DEF SkillInv

(* What is granted only grows, and with it what is approved. *)
LEMMA ApprovedGrows ==
  ASSUME \A t \in Trees : granted[t] \subseteq granted'[t], NEW t \in Trees, Approved(t)
  PROVE  Approved(t)'
BY DEF Approved

(* Steps that end an operation, or leave sessions, approvals and library    *)
(* where they were.                                                         *)
LEMMA SessionEnds ==
  ASSUME SkillInv, NEW s \in Sessions, Finish(s),
         UNCHANGED <<source, approvals, ids, dest, logged, granted, started>>
  PROVE  SkillInv'
<1>1. TypeOK'
  BY NoFiles DEF SkillInv, TypeOK, Finish, Goto
<1>2. OnFileWithin' /\ CopiedWasApproved'
  BY DEF SkillInv, OnFileWithin, CopiedWasApproved, Approved
<1>3. SessionsOK' /\ OneHolds'
  BY DEF SkillInv, TypeOK, SessionsOK, OneHolds, Finish, Goto, Passed, Holding,
         HeldIsApproved, CopyUnderWay, Approved
<1> QED  BY <1>1, <1>2, <1>3 DEF SkillInv

(* Recording an approval. *)
LEMMA RecordStep ==
  ASSUME SkillInv, NEW t \in Trees, NEW d \in Decisions, RecordApproval(t, d)
  PROVE  SkillInv'
<1>1. \A u \in Trees : granted[u] \subseteq granted'[u]
  BY DEF RecordApproval, SkillInv, TypeOK
<1>2. TypeOK'
  <2>1. started' \in 0..MaxOps
    BY SkillAssumption DEF RecordApproval, Start, SkillInv, TypeOK
  <2>2. d \in Approvals
    BY DEF Approvals
  <2> QED  BY <2>1, <2>2 DEF RecordApproval, SkillInv, TypeOK
<1>3. OnFileWithin'
  BY DecisionWithinItself DEF RecordApproval, SkillInv, TypeOK, OnFileWithin
<1>4. SessionsOK'
  <2> SUFFICES ASSUME NEW s \in Sessions, pc[s] \in Passed
               PROVE  HeldIsApproved(s)'
    BY DEF RecordApproval, SkillInv, SessionsOK, CopyUnderWay
  <2>1. captured[s] \in Trees /\ HeldIsApproved(s)
    BY DEF SkillInv, TypeOK, SessionsOK
  <2>2. Approved(captured[s])'
    BY <1>1, <2>1 DEF HeldIsApproved, Approved, RecordApproval
  <2> QED  BY <1>1, <2>1, <2>2 DEF HeldIsApproved, RecordApproval
<1>5. OneHolds'
  BY DEF RecordApproval, SkillInv, OneHolds
<1>6. CopiedWasApproved'
  BY <1>1, ApprovedGrows DEF RecordApproval, SkillInv, CopiedWasApproved
<1> QED  BY <1>2, <1>3, <1>4, <1>5, <1>6 DEF SkillInv

(* Listing and reading the client's files. *)
LEMMA CaptureStep ==
  ASSUME SkillInv, NEW s \in Sessions, PromoteSkill(s) \/ Capture(s)
  PROVE  SkillInv'
<1>1. CASE PromoteSkill(s)
  <2>1. TypeOK'
    <3>1. started' \in 0..MaxOps
      BY <1>1, SkillAssumption DEF PromoteSkill, Start, SkillInv, TypeOK
    <3>2. DOMAIN source \subseteq Files
      BY TreeShape DEF SkillInv, TypeOK
    <3> QED  BY <1>1, <3>1, <3>2 DEF PromoteSkill, Goto, SkillInv, TypeOK
  <2>2. OnFileWithin' /\ CopiedWasApproved'
    BY <1>1 DEF PromoteSkill, SkillInv, OnFileWithin, CopiedWasApproved, Approved
  <2>3. SessionsOK' /\ OneHolds'
    BY <1>1 DEF PromoteSkill, Goto, SkillInv, TypeOK, SessionsOK, OneHolds, Passed,
                Holding, HeldIsApproved, CopyUnderWay, Approved
  <2> QED  BY <2>1, <2>2, <2>3 DEF SkillInv
<1>2. CASE Capture(s)
  <2> DEFINE f == FirstOf(todo[s])
  <2>1. f \in Files
    BY <1>2, FirstIsMember DEF Capture, SkillInv, TypeOK
  <2>2. CASE f \notin DOMAIN source
    BY <1>2, <2>2, SessionEnds DEF Capture
  <2>3. CASE f \in DOMAIN source
    <3> DEFINE more == [g \in DOMAIN captured[s] \cup {f} |->
                         IF g = f THEN source[f] ELSE captured[s][g]]
    <3>1. /\ captured' = [captured EXCEPT ![s] = more]
          /\ todo' = [todo EXCEPT ![s] = @ \ {f}]
          /\ UNCHANGED <<pc, held, findings, source, approvals, ids, dest, logged,
                         granted, started>>
      BY <1>2, <2>3 DEF Capture, SkillInv, TypeOK
    <3>2. source[f] \in Versions /\ captured[s] \in Trees
      BY <2>3, TreeShape DEF SkillInv, TypeOK
    <3>3. more \in Trees
      BY <2>1, <3>2, AddFile
    <3>4. pc[s] = "capture"
      BY <1>2 DEF Capture, At
    <3> HIDE DEF more, f
    <3>5. TypeOK'
      BY <3>1, <3>3 DEF SkillInv, TypeOK
    <3>6. OnFileWithin' /\ CopiedWasApproved'
      BY <3>1 DEF SkillInv, OnFileWithin, CopiedWasApproved, Approved
    <3>7. \A t \in Sessions : t # s => captured'[t] = captured[t] /\ todo'[t] = todo[t]
      BY <3>1 DEF SkillInv, TypeOK
    <3>8. SessionsOK' /\ OneHolds'
      BY <3>1, <3>4, <3>7 DEF SkillInv, SessionsOK, OneHolds, Passed, Holding,
                              HeldIsApproved, CopyUnderWay, Approved
    <3> QED  BY <3>5, <3>6, <3>8 DEF SkillInv
  <2> QED  BY <2>2, <2>3
<1> QED  BY <1>1, <1>2

(* Whatever the screen reports about a tree is a possible finding. *)
LEMMA ScreenIsFinding ==
  ASSUME NEW t \in Trees
  PROVE  Screen(TextsOf(t), Support, Heading) \in SUBSET Findings
<1>1. DOMAIN TextsOf(t) \subseteq Files
  BY TreeShape DEF TextsOf
<1> QED  BY <1>1 DEF Screen, Findings

(* The gate. *)
LEMMA CheckStep ==
  ASSUME SkillInv, NEW s \in Sessions, Check(s)
  PROVE  SkillInv'
<1>1. PICK t \in Trees : t = captured[s]
  BY DEF SkillInv, TypeOK
<1>2. /\ approvals[t] # None /\ pc[s] = "capture"
      /\ Covers(approvals[t], Scope, Support, DOMAIN t, TextsOf(t), Heading)
      /\ held' = [held EXCEPT ![s] = approvals[t]]
      /\ findings' = [findings EXCEPT ![s] = Screen(TextsOf(t), Support, Heading)]
      /\ pc' = [pc EXCEPT ![s] = "ids"]
      /\ UNCHANGED <<source, approvals, ids, dest, todo, captured, logged, granted, started>>
  BY <1>1 DEF Check, At, Goto
<1>3. PICK d \in granted[t] : Within(approvals[t], d)
  BY <1>2 DEF SkillInv, OnFileWithin
<1>4. d \in Decisions
  BY <1>3 DEF SkillInv, TypeOK
<1>5. Approved(t) /\ Screen(TextsOf(t), Support, Heading) \subseteq approvals[t].reviewed
  <2>1. Covers(d, Scope, Support, DOMAIN t, TextsOf(t), Heading)
    BY <1>2, <1>3, <1>4, DecisionCovers
  <2> QED  BY <1>2, <1>3, <2>1 DEF Approved, Covers
<1>6. TypeOK'
  BY <1>2, ScreenIsFinding DEF SkillInv, TypeOK
<1>7. OnFileWithin' /\ CopiedWasApproved'
  BY <1>2 DEF SkillInv, OnFileWithin, CopiedWasApproved, Approved
<1>8. pc'[s] = "ids" /\ HeldIsApproved(s)'
  BY <1>1, <1>2, <1>3, <1>5 DEF SkillInv, TypeOK, HeldIsApproved, Approved
<1>9. SessionsOK'
  <2>1. \A u \in Sessions : u # s =>
          pc'[u] = pc[u] /\ held'[u] = held[u] /\ findings'[u] = findings[u]
    BY <1>2 DEF SkillInv, TypeOK
  <2> QED  BY <1>2, <1>8, <2>1 DEF SkillInv, SessionsOK, HeldIsApproved, CopyUnderWay,
                                   Approved, Holding
<1>10. OneHolds'
  BY <1>2 DEF SkillInv, TypeOK, OneHolds, Holding
<1> QED  BY <1>6, <1>7, <1>9, <1>10 DEF SkillInv

(* The contributors go on record before the directory is made. *)
LEMMA RecordIdsStep ==
  ASSUME SkillInv, NEW s \in Sessions, RecordIds(s)
  PROVE  SkillInv'
<1>1. ids \subseteq ids' /\ Support \subseteq ids'
  BY DEF RecordIds
<1>2. TypeOK'
  BY SkillAssumption DEF RecordIds, Goto, SkillInv, TypeOK
<1>3. OnFileWithin' /\ CopiedWasApproved'
  BY <1>1 DEF RecordIds, SkillInv, OnFileWithin, CopiedWasApproved, Approved
<1>4. SessionsOK' /\ OneHolds'
  BY <1>1 DEF RecordIds, At, Goto, SkillInv, TypeOK, SessionsOK, OneHolds, Passed,
              Holding, HeldIsApproved, CopyUnderWay, Approved
<1> QED  BY <1>2, <1>3, <1>4 DEF SkillInv

(* The directory is made; the copy starts empty. *)
LEMMA MakeDirStep ==
  ASSUME SkillInv, NEW s \in Sessions, MakeDir(s)
  PROVE  SkillInv'
<1>1. CASE dest # None
  BY <1>1, SessionEnds DEF MakeDir
<1>2. CASE dest = None
  <2>1. /\ pc[s] = "mkdir" /\ dest' = EmptyTree /\ pc' = [pc EXCEPT ![s] = "copy"]
        /\ todo' = [todo EXCEPT ![s] = DOMAIN captured[s]]
        /\ UNCHANGED <<captured, held, findings, source, approvals, ids, logged, granted, started>>
    BY <1>2 DEF MakeDir, At, Goto
  <2>2. DOMAIN captured[s] \subseteq Files /\ captured[s] \in Trees
    BY TreeShape DEF SkillInv, TypeOK
  <2>3. TypeOK'
    BY <2>1, <2>2, NoFiles DEF SkillInv, TypeOK
  <2>4. \A u \in Sessions : pc[u] \notin Holding
    BY <1>2 DEF SkillInv, SessionsOK
  <2>5. Approved(captured[s]) /\ Support \subseteq ids
    BY <2>1 DEF SkillInv, SessionsOK, HeldIsApproved, Passed
  <2>6. CopyUnderWay(s)'
    BY <2>1, NoFiles DEF SkillInv, TypeOK, CopyUnderWay, Restrict, EmptyTree
  <2>7. CopiedWasApproved'
    <3>1. EmptyTree = Restrict(captured[s], DOMAIN EmptyTree)
      BY NoFiles DEF EmptyTree, Restrict
    <3> QED  BY <2>1, <2>2, <2>5, <3>1, NoFiles DEF CopiedWasApproved, Approved
  <2>8. \A u \in Sessions : u # s => pc'[u] = pc[u] /\ todo'[u] = todo[u]
    BY <2>1 DEF SkillInv, TypeOK
  <2>9. pc'[s] = "copy"
    BY <2>1 DEF SkillInv, TypeOK
  <2>10. SessionsOK'
    BY <2>1, <2>4, <2>6, <2>8, <2>9, NoFiles
    DEF SkillInv, SessionsOK, HeldIsApproved, Approved, Passed, Holding
  <2>11. OneHolds'
    BY <2>4, <2>8 DEF OneHolds
  <2>12. OnFileWithin'
    BY <2>1 DEF SkillInv, OnFileWithin
  <2> QED  BY <2>3, <2>7, <2>10, <2>11, <2>12 DEF SkillInv
<1> QED  BY <1>1, <1>2

(* One captured file is copied. *)
LEMMA CopyStep ==
  ASSUME SkillInv, NEW s \in Sessions, Copy(s)
  PROVE  SkillInv'
<1>1. PICK f \in todo[s] : f = FirstOf(todo[s])
  BY FirstIsMember DEF Copy, SkillInv, TypeOK
<1> DEFINE more == [g \in DOMAIN dest \cup {f} |-> IF g = f THEN captured[s][f] ELSE dest[g]]
<1>2. /\ pc[s] = "copy" /\ dest' = more /\ todo' = [todo EXCEPT ![s] = @ \ {f}]
      /\ UNCHANGED <<source, approvals, ids, pc, captured, held, findings, logged, granted, started>>
  BY <1>1 DEF Copy, At
<1>3. /\ CopyUnderWay(s) /\ dest \in Trees /\ captured[s] \in Trees /\ f \in Files
      /\ Approved(captured[s]) /\ Support \subseteq ids
  BY <1>2 DEF SkillInv, TypeOK, SessionsOK, Passed, Holding, HeldIsApproved
<1>4. f \in DOMAIN captured[s] /\ captured[s][f] \in Versions
  BY <1>3, TreeShape DEF CopyUnderWay
<1>5. more \in Trees /\ DOMAIN more = DOMAIN dest \cup {f}
  BY <1>3, <1>4, AddFile
<1>6. more = Restrict(captured[s], DOMAIN more)
  BY <1>3, <1>5 DEF CopyUnderWay, Restrict
<1> HIDE DEF more
<1>7. TypeOK'
  BY <1>2, <1>5 DEF SkillInv, TypeOK
<1>8. CopyUnderWay(s)'
  BY <1>2, <1>3, <1>4, <1>5, <1>6 DEF SkillInv, TypeOK, CopyUnderWay
<1>9. CopiedWasApproved'
  <2>1. DOMAIN more \subseteq DOMAIN captured[s]
    BY <1>3, <1>4, <1>5 DEF CopyUnderWay
  <2> QED  BY <1>2, <1>3, <1>6, <2>1 DEF CopiedWasApproved, Approved
<1>10. \A u \in Sessions : u # s => pc[u] # "copy"
  BY <1>2 DEF SkillInv, OneHolds, Holding
<1>11. more # None
  BY <1>5, SkillAssumption
<1>12. SessionsOK'
  BY <1>2, <1>8, <1>10, <1>11 DEF SkillInv, SessionsOK, HeldIsApproved, Approved
<1>13. OneHolds' /\ OnFileWithin'
  BY <1>2 DEF SkillInv, OneHolds, OnFileWithin
<1> QED  BY <1>7, <1>9, <1>12, <1>13 DEF SkillInv

(* A copy with nothing left to do is the captured tree. *)
LEMMA CopyIsWhole ==
  ASSUME SkillInv, NEW s \in Sessions, pc[s] = "copy", todo[s] = {}
  PROVE  dest = captured[s]
<1>1. CopyUnderWay(s) /\ captured[s] \in Trees /\ dest \in Trees
  BY DEF SkillInv, TypeOK, SessionsOK, Holding
<1>2. DOMAIN dest = DOMAIN captured[s]
  BY <1>1 DEF CopyUnderWay
<1>3. captured[s] = [f \in DOMAIN captured[s] |-> captured[s][f]]
  BY <1>1, TreeShape
<1> QED  BY <1>1, <1>2, <1>3 DEF CopyUnderWay, Restrict

(* The log, and the stamp of the approval. *)
LEMMA LogStep ==
  ASSUME SkillInv, NEW s \in Sessions, Log(s)
  PROVE  SkillInv'
<1>1. TypeOK'
  BY DEF Log, Goto, SkillInv, TypeOK
<1>2. OnFileWithin' /\ CopiedWasApproved'
  BY DEF Log, SkillInv, OnFileWithin, CopiedWasApproved, Approved
<1>3. SessionsOK' /\ OneHolds'
  BY DEF Log, At, Goto, SkillInv, TypeOK, SessionsOK, OneHolds, Passed,
         Holding, HeldIsApproved, CopyUnderWay, Approved
<1> QED  BY <1>1, <1>2, <1>3 DEF SkillInv

LEMMA StampStep ==
  ASSUME SkillInv, NEW s \in Sessions, Stamp(s)
  PROVE  SkillInv'
<1>1. PICK t \in Trees : t = captured[s]
  BY DEF SkillInv, TypeOK
<1>2. /\ pc[s] = "stamp" /\ Finish(s)
      /\ approvals' = [approvals EXCEPT ![t] = Stamped(held[s], findings[s])]
      /\ UNCHANGED <<source, ids, dest, logged, granted, started>>
  BY <1>1 DEF Stamp, At
<1>3. PICK d \in granted[t] : Within(held[s], d) /\ findings[s] \subseteq held[s].reviewed
  BY <1>1, <1>2 DEF SkillInv, SessionsOK, HeldIsApproved, Passed
<1>4. d \in Decisions /\ findings[s] \in SUBSET Findings
  BY <1>3 DEF SkillInv, TypeOK
<1>5. Within(Stamped(held[s], findings[s]), d)
  BY <1>3, <1>4, StampStaysWithin
<1>6. Stamped(held[s], findings[s]) \in Approvals
  <2>1. Stamped(held[s], findings[s]) = Stamped(d, findings[s])
    BY <1>3 DEF Within, Stamped
  <2> QED  BY <1>4, <2>1 DEF Approvals
<1>7. TypeOK'
  BY <1>2, <1>6, NoFiles DEF SkillInv, TypeOK, Finish, Goto
<1>8. OnFileWithin'
  BY <1>2, <1>3, <1>5 DEF SkillInv, TypeOK, OnFileWithin
<1>9. CopiedWasApproved'
  BY <1>2 DEF SkillInv, CopiedWasApproved, Approved
<1>10. SessionsOK' /\ OneHolds'
  BY <1>2 DEF SkillInv, TypeOK, SessionsOK, OneHolds, Finish, Goto, Passed, Holding,
              HeldIsApproved, CopyUnderWay, Approved
<1> QED  BY <1>7, <1>8, <1>9, <1>10 DEF SkillInv

(* What happens to the client's files and to the library by hand. *)
LEMMA HandStep ==
  ASSUME SkillInv, (\E t \in Trees : EditSource(t)) \/ RemoveSkill
  PROVE  SkillInv'
<1>1. ASSUME NEW t \in Trees, EditSource(t)
      PROVE  SkillInv'
  <2>1. started' \in 0..MaxOps
    BY <1>1, SkillAssumption DEF EditSource, Start, SkillInv, TypeOK
  <2> QED  BY <1>1, <2>1 DEF EditSource, SkillInv, TypeOK, OnFileWithin, SessionsOK, OneHolds,
                             CopiedWasApproved, HeldIsApproved, CopyUnderWay, Approved
<1>2. CASE RemoveSkill
  <2>1. started' \in 0..MaxOps
    BY <1>2, SkillAssumption DEF RemoveSkill, Start, SkillInv, TypeOK
  <2>2. \A u \in Sessions : pc[u] \notin Holding
    BY <1>2 DEF RemoveSkill, Holding
  <2> QED  BY <1>2, <2>1, <2>2
           DEF RemoveSkill, SkillInv, TypeOK, OnFileWithin, SessionsOK, OneHolds,
               CopiedWasApproved, HeldIsApproved, Approved, Holding
<1> QED  BY <1>1, <1>2

(* Every step keeps the invariant. *)
LEMMA SkillStep ==
  ASSUME SkillInv, [Next]_vars
  PROVE  SkillInv'
<1>1. ASSUME NEW s \in Sessions, Deny(s) \/ Crash(s)
      PROVE  SkillInv'
  BY <1>1, SessionEnds DEF Deny, Crash
<1>2. CASE UNCHANGED vars
  BY <1>2 DEF vars, SkillInv, TypeOK, OnFileWithin, SessionsOK, OneHolds,
              CopiedWasApproved, HeldIsApproved, CopyUnderWay, Approved
<1> QED
  BY <1>1, <1>2, RecordStep, CaptureStep, CheckStep, RecordIdsStep, MakeDirStep,
     CopyStep, LogStep, StampStep, HandStep
  DEF Next

-----------------------------------------------------------------------------
(* The theorems. *)

(* The inductive invariant holds throughout. *)
THEOREM SkillInvariant == Spec => []SkillInv
<1>1. SkillInv /\ [Next]_vars => SkillInv'
  BY SkillStep
<1> QED  BY <1>1, InitSkill, PTL DEF Spec

(* Files, sessions and history keep their types. *)
THEOREM SkillTypes == Spec => []TypeOK
<1>1. SkillInv => TypeOK
  BY DEF SkillInv
<1> QED  BY <1>1, SkillInvariant, PTL

(* Whatever the client's files do while they are captured and copied, what  *)
(* lies in the library is part of one tree a practitioner approved, and its *)
(* contributors are on record.                                              *)
THEOREM OnlyApprovedIsCopied == Spec => []CopiedWasApproved
<1>1. SkillInv => CopiedWasApproved
  BY DEF SkillInv
<1> QED  BY <1>1, SkillInvariant, PTL

(* The log never names a promotion the library does not hold the whole of. *)
THEOREM LogNamesWholeSkills == Spec => LoggedIsWhole
<1>1. ASSUME SkillInv, Next, logged' # logged
      PROVE  dest \in logged'
  <2>1. PICK s \in Sessions : Log(s)
    BY <1>1 DEF Next, RecordApproval, PromoteSkill, Capture, Check, Deny, RecordIds,
                MakeDir, Copy, Stamp, Crash, EditSource, RemoveSkill
  <2>2. dest = captured[s]
    BY <1>1, <2>1, CopyIsWhole DEF Log, At
  <2> QED  BY <2>1, <2>2 DEF Log
<1>2. SkillInv /\ [Next]_vars => [logged' # logged => dest \in logged']_vars
  BY <1>1
<1> QED  BY <1>2, SkillInvariant, PTL DEF Spec, LoggedIsWhole

===========================================================================
