---------------------- MODULE PromotionLibraryProofs -----------------------
(* Theorems about PromotionLibrary and PromotionRegimes, for every set of   *)
(* sessions, candidates, clients, decisions and headings, and whatever      *)
(* bound is put on the operations.                                          *)
EXTENDS PromotionRegimes, TLAPS

-----------------------------------------------------------------------------
(* The stamp rewrites one field, so the last stamp is the one that counts.  *)
LEMMA StampTwice ==
  ASSUME NEW a, NEW f, NEW g
  PROVE  Stamped(Stamped(a, f), g) = Stamped(a, g)
  BY DEF Stamped

(* Whatever the screen reports about a candidate is a possible finding. *)
LEMMA ScreenIsFinding ==
  ASSUME NEW c \in Candidates
  PROVE  Screen(TextOf[c], SupportOf[c], headings) \in SUBSET Findings
<1>1. Screen(TextOf[c], SupportOf[c], headings) \subseteq Findable(c)
  BY DEF Screen, Findable, Established
<1>2. Findable(c) \subseteq Findings
  BY DEF Findings
<1> QED  BY <1>1, <1>2

(* Stamping an approval with findings yields an approval. *)
LEMMA StampIsApproval ==
  ASSUME NEW a \in Approvals, NEW f \in SUBSET Findings
  PROVE  Stamped(a, f) \in Approvals
<1>1. CASE a \in Decisions
  BY <1>1 DEF Approvals
<1>2. CASE \E d \in Decisions, g \in SUBSET Findings : a = Stamped(d, g)
  BY <1>2, StampTwice DEF Approvals
<1> QED  BY <1>1, <1>2 DEF Approvals

(* A document of any of the four files is a document. *)
LEMMA DocumentOf ==
  ASSUME NEW D
  PROVE  \/ D \in SUBSET Workspaces
         \/ D \in SUBSET Candidates
         \/ D \in SUBSET Entries
         \/ D \in SUBSET IndexEntries
         => D \in Documents
  BY DEF Documents

(* Every step keeps the types, and each session where its operation is. *)
LEMMA TypeStep ==
  ASSUME TypeOK, ControlOK, [Next]_vars
  PROVE  TypeOK' /\ ControlOK'
<1> USE LibraryAssumption, DocumentOf DEF TypeOK, ControlOK, StepsOf, Steps,
        files, sessions, history, At, Goto

<1>1. ASSUME NEW s \in Sessions, NEW c \in Candidates, NEW d \in Decisions,
             RecordApproval(s, c, d)
      PROVE  TypeOK' /\ ControlOK'
  BY <1>1 DEF RecordApproval, Begin, Approvals
<1>2. ASSUME NEW s \in Sessions, NEW c \in Candidates, Validate(s, c)
      PROVE  TypeOK' /\ ControlOK'
  BY <1>2 DEF Validate
<1>3. ASSUME NEW s \in Sessions, NEW c \in Candidates, PromotePrior(s, c)
      PROVE  TypeOK' /\ ControlOK'
  BY <1>3, ScreenIsFinding DEF PromotePrior, MayPromote, Begin
<1>4. ASSUME NEW s \in Sessions, NEW c \in Candidates, WithdrawPrior(s, c)
      PROVE  TypeOK' /\ ControlOK'
  BY <1>4 DEF WithdrawPrior, Kept, Begin
<1>5. ASSUME NEW s \in Sessions, NEW w \in Clients, SeedLoad(s, w)
      PROVE  TypeOK' /\ ControlOK'
  BY <1>5 DEF SeedLoad, Begin
<1>6. ASSUME NEW s \in Sessions, SeedAccept(s)  PROVE TypeOK' /\ ControlOK'
  BY <1>6 DEF SeedAccept, Seedable
<1>7. ASSUME NEW s \in Sessions, IdsOpen(s)  PROVE TypeOK' /\ ControlOK'
  BY <1>7 DEF IdsOpen
<1>8. ASSUME NEW s \in Sessions, IdsFlush(s)  PROVE TypeOK' /\ ControlOK'
  BY <1>8 DEF IdsFlush
<1>9. ASSUME NEW s \in Sessions, PriorsOpen(s)  PROVE TypeOK' /\ ControlOK'
  BY <1>9 DEF PriorsOpen
<1>10. ASSUME NEW s \in Sessions, PriorsFlush(s)  PROVE TypeOK' /\ ControlOK'
  BY <1>10 DEF PriorsFlush
<1>11. ASSUME NEW s \in Sessions, StampOpen(s)  PROVE TypeOK' /\ ControlOK'
  BY <1>11 DEF StampOpen
<1>12. ASSUME NEW s \in Sessions, ClientOpen(s)  PROVE TypeOK' /\ ControlOK'
  BY <1>12 DEF ClientOpen
<1>13. ASSUME NEW s \in Sessions, ClientFlush(s)  PROVE TypeOK' /\ ControlOK'
  BY <1>13 DEF ClientFlush
<1>14. ASSUME NEW s \in Sessions, IndexOpen(s)  PROVE TypeOK' /\ ControlOK'
  BY <1>14 DEF IndexOpen
<1>15. ASSUME NEW s \in Sessions, RecordFlush(s)  PROVE TypeOK' /\ ControlOK'
  BY <1>15 DEF RecordFlush, Finish
<1>16. ASSUME NEW s \in Sessions, SeedRefuse(s)  PROVE TypeOK' /\ ControlOK'
  BY <1>16 DEF SeedRefuse, Finish
<1>17. ASSUME NEW s \in Sessions, WithdrawReport(s)
       PROVE  TypeOK' /\ ControlOK'
  BY <1>17 DEF WithdrawReport, Finish
<1>18. ASSUME NEW s \in Sessions, Crash(s)  PROVE TypeOK' /\ ControlOK'
  BY <1>18 DEF Crash, Finish
<1>19. ASSUME NEW s \in Sessions, StampFlush(s)  PROVE TypeOK' /\ ControlOK'
<2>1. Stamped(held[s], findings[s]) \in Approvals
  BY <1>19, StampIsApproval DEF StampFlush
<2> QED  BY <1>19, <2>1 DEF StampFlush, Finish
<1>20. ASSUME NEW s \in Sessions, IdsRead(s)  PROVE TypeOK' /\ ControlOK'
<2> DEFINE new == ids \cup IF op[s] = "promote" THEN SupportOf[cand[s]] ELSE {client[s]}
<2>1. new \in SUBSET Workspaces
  BY <1>20 DEF IdsRead
<2>2. doc' = [doc EXCEPT ![s] = new]
  BY <1>20 DEF IdsRead
<2> HIDE DEF new
<2> QED  BY <1>20, <2>1, <2>2 DEF IdsRead
<1>21. ASSUME NEW s \in Sessions, PriorsRead(s)  PROVE TypeOK' /\ ControlOK'
<2>1. [digest |-> cand[s], content |-> cand[s]] \in Entries
  BY <1>21 DEF PriorsRead, Entries
<2> QED  BY <1>21, <2>1 DEF PriorsRead
<1>22. ASSUME NEW s \in Sessions, ClientRead(s)  PROVE TypeOK' /\ ControlOK'
<2>1. {e.digest : e \in picked[s]} \subseteq Candidates
  BY <1>22 DEF ClientRead, Entries
<2> QED  BY <1>22, <2>1 DEF ClientRead
<1>23. ASSUME NEW s \in Sessions, IndexRead(s)  PROVE TypeOK' /\ ControlOK'
<2>1. IndexEntriesOf(client[s], picked[s]) \subseteq IndexEntries
  BY <1>23 DEF IndexRead, Entries, IndexEntries, IndexEntriesOf
<2> QED  BY <1>23, <2>1 DEF IndexRead
<1>24. ASSUME NEW s \in Sessions, IndexFlush(s)  PROVE TypeOK' /\ ControlOK'
<2>1. {e.content : e \in picked[s]} \subseteq Candidates
  BY <1>24 DEF IndexFlush, Entries
<2>2. derived' \in [Clients -> SUBSET Candidates]
  BY <1>24, <2>1 DEF IndexFlush
<2> QED  BY <1>24, <2>2 DEF IndexFlush, Finish
<1>25. ASSUME NEW c \in Candidates, RemoveApproval(c)
       PROVE  TypeOK' /\ ControlOK'
  BY <1>25 DEF RemoveApproval, HandEdit
<1>26. ASSUME NEW e \in Entries, EditPriors(e)  PROVE TypeOK' /\ ControlOK'
  BY <1>26 DEF EditPriors, HandEdit
<1>27. ASSUME NEW w \in Workspaces, NEW n \in Names \cup {NoName},
              EditHeading(w, n)
       PROVE  TypeOK' /\ ControlOK'
  BY <1>27 DEF EditHeading, HandEdit, Headings
<1>28. CASE UNCHANGED vars
  BY <1>28 DEF vars
<1> QED  BY <1>1, <1>2, <1>3, <1>4, <1>5, <1>6, <1>7, <1>8, <1>9, <1>10,
            <1>11, <1>12, <1>13, <1>14, <1>15, <1>16, <1>17, <1>18, <1>19,
            <1>20, <1>21, <1>22, <1>23, <1>24, <1>25, <1>26, <1>27,
            <1>28 DEF Next, Session, Environment


-----------------------------------------------------------------------------
(* The files come and go, what was granted stays: the boundary invariant.   *)

(* A stamped approval is the same decision. *)
LEMMA StampKeepsDecision ==
  ASSUME NEW a, NEW f, NEW d, SameDecision(a, d)
  PROVE  SameDecision(Stamped(a, f), d)
  BY StampTwice DEF SameDecision

(* Every step keeps what is granted and what rests on it. *)
LEMMA BoundaryStep ==
  ASSUME TypeOK, ControlOK, BoundaryInv, [Next]_vars
  PROVE  BoundaryInv'
<1> USE DEF TypeOK, ControlOK, StepsOf, BoundaryInv, SessionsOnGrant,
        PublishedOnGrant,
            SeedsRestOnApproval, OnGrant, files, sessions, history, At, Goto
<1>1. ASSUME NEW s \in Sessions, NEW c \in Candidates, NEW d \in Decisions,
             RecordApproval(s, c, d)
      PROVE  BoundaryInv'
  BY <1>1 DEF RecordApproval, Begin
<1>2. ASSUME NEW s \in Sessions, NEW c \in Candidates, Validate(s, c)
      PROVE  BoundaryInv'
  BY <1>2 DEF Validate
<1>3. ASSUME NEW s \in Sessions, NEW c \in Candidates, PromotePrior(s, c)
      PROVE  BoundaryInv'
  BY <1>3 DEF PromotePrior, MayPromote, Covers, CheckScope, CheckContributors, Begin
<1>4. ASSUME NEW s \in Sessions, NEW c \in Candidates, WithdrawPrior(s, c)
      PROVE  BoundaryInv'
  BY <1>4 DEF WithdrawPrior, Begin
<1>5. ASSUME NEW s \in Sessions, NEW w \in Clients, SeedLoad(s, w)
      PROVE  BoundaryInv'
  BY <1>5 DEF SeedLoad, Begin
<1>6. ASSUME NEW s \in Sessions, SeedAccept(s)  PROVE BoundaryInv'
<2>1. \A e \in picked[s] : e.content \in Candidates /\ granted[e.content] # {}
  BY <1>6 DEF SeedAccept, Seedable, Entries
<2> QED  BY <1>6, <2>1 DEF SeedAccept
<1>7. ASSUME NEW s \in Sessions, IdsRead(s)  PROVE BoundaryInv'
  BY <1>7 DEF IdsRead
<1>8. ASSUME NEW s \in Sessions, IdsOpen(s)  PROVE BoundaryInv'
  BY <1>8 DEF IdsOpen
<1>9. ASSUME NEW s \in Sessions, IdsFlush(s)  PROVE BoundaryInv'
  BY <1>9 DEF IdsFlush
<1>10. ASSUME NEW s \in Sessions, PriorsRead(s)  PROVE BoundaryInv'
  BY <1>10 DEF PriorsRead
<1>11. ASSUME NEW s \in Sessions, PriorsOpen(s)  PROVE BoundaryInv'
  BY <1>11 DEF PriorsOpen
<1>12. ASSUME NEW s \in Sessions, PriorsFlush(s)  PROVE BoundaryInv'
  BY <1>12 DEF PriorsFlush
<1>13. ASSUME NEW s \in Sessions, StampOpen(s)  PROVE BoundaryInv'
  BY <1>13 DEF StampOpen
<1>14. ASSUME NEW s \in Sessions, ClientRead(s)  PROVE BoundaryInv'
  BY <1>14 DEF ClientRead
<1>15. ASSUME NEW s \in Sessions, ClientOpen(s)  PROVE BoundaryInv'
  BY <1>15 DEF ClientOpen
<1>16. ASSUME NEW s \in Sessions, ClientFlush(s)  PROVE BoundaryInv'
  BY <1>16 DEF ClientFlush
<1>17. ASSUME NEW s \in Sessions, IndexRead(s)  PROVE BoundaryInv'
  BY <1>17 DEF IndexRead
<1>18. ASSUME NEW s \in Sessions, IndexOpen(s)  PROVE BoundaryInv'
  BY <1>18 DEF IndexOpen
<1>19. ASSUME NEW s \in Sessions, SeedRefuse(s)  PROVE BoundaryInv'
  BY <1>19 DEF SeedRefuse, Finish
<1>20. ASSUME NEW s \in Sessions, WithdrawReport(s)  PROVE BoundaryInv'
  BY <1>20 DEF WithdrawReport, Finish
<1>21. ASSUME NEW s \in Sessions, Crash(s)  PROVE BoundaryInv'
  BY <1>21 DEF Crash, Finish
<1>22. ASSUME NEW s \in Sessions, IndexFlush(s)  PROVE BoundaryInv'
  BY <1>22 DEF IndexFlush, Finish
<1>23. ASSUME NEW s \in Sessions, RecordFlush(s)  PROVE BoundaryInv'
  BY <1>23 DEF RecordFlush, Finish, SameDecision
<1>24. ASSUME NEW s \in Sessions, StampFlush(s)  PROVE BoundaryInv'
<2>1. \E d \in granted[cand[s]] : SameDecision(Stamped(held[s], findings[s]), d)
  BY <1>24, StampKeepsDecision DEF StampFlush
<2> QED  BY <1>24, <2>1 DEF StampFlush, Finish
<1>25. ASSUME NEW c \in Candidates, RemoveApproval(c)  PROVE BoundaryInv'
  BY <1>25 DEF RemoveApproval
<1>26. ASSUME NEW e \in Entries, EditPriors(e)  PROVE BoundaryInv'
  BY <1>26 DEF EditPriors
<1>27. ASSUME NEW w \in Workspaces, NEW n \in Names \cup {NoName},
              EditHeading(w, n)
       PROVE  BoundaryInv'
  BY <1>27 DEF EditHeading
<1>28. CASE UNCHANGED vars
  BY <1>28 DEF vars
<1> QED  BY <1>1, <1>2, <1>3, <1>4, <1>5, <1>6, <1>7, <1>8, <1>9, <1>10,
            <1>11, <1>12, <1>13, <1>14, <1>15, <1>16, <1>17, <1>18, <1>19,
            <1>20, <1>21, <1>22, <1>23, <1>24, <1>25, <1>26, <1>27,
            <1>28 DEF Next, Session, Environment

(* An empty library satisfies the invariant. *)
LEMMA InitInv == Init => TypeOK /\ ControlOK /\ BoundaryInv
<1> SUFFICES ASSUME Init PROVE TypeOK /\ ControlOK /\ BoundaryInv
  OBVIOUS
<1>1. TypeOK
  BY LibraryAssumption, DocumentOf DEF Init, TypeOK, Steps
<1>2. ControlOK
  BY DEF Init, ControlOK, StepsOf
<1>3. BoundaryInv
  BY DEF Init, BoundaryInv, SessionsOnGrant, PublishedOnGrant, SeedsRestOnApproval
<1> QED  BY <1>1, <1>2, <1>3

(* The inductive invariant holds throughout. *)
THEOREM LibraryInvariant == Spec => [](TypeOK /\ ControlOK /\ BoundaryInv)
<1>1. TypeOK /\ ControlOK /\ BoundaryInv /\ [Next]_vars => (TypeOK /\ ControlOK /\ BoundaryInv)'
  BY TypeStep, BoundaryStep
<1> QED  BY <1>1, InitInv, PTL DEF Spec

(* Every file, session and history variable keeps its type. *)
THEOREM TypeCorrect == Spec => []TypeOK
  BY LibraryInvariant, PTL

(* No prior is published but on a validation and a practitioner's decision  *)
(* for its digest, scope and contributors.                                  *)
THEOREM PublicationIsGranted == Spec => []PublishedOnGrant
<1>1. BoundaryInv => PublishedOnGrant
  BY DEF BoundaryInv
<1> QED  BY <1>1, LibraryInvariant, PTL

(* No client's configuration takes a value nobody approved. *)
THEOREM SeedingIsApproved == Spec => []SeedsRestOnApproval
<1>1. BoundaryInv => SeedsRestOnApproval
  BY DEF BoundaryInv
<1> QED  BY <1>1, LibraryInvariant, PTL

-----------------------------------------------------------------------------
(* What the stamp may do to an approval on file. *)

(* An approval is a decision recorded for c, its reviewed findings cut down *)
(* at most.                                                                 *)
Within(a, c) ==
  \E d \in granted[c] : SameDecision(a, d) /\ a.reviewed \subseteq d.reviewed

(* The gate let a promotion pass with findings its approval reviewed, and   *)
(* the session holds both until it stamps them.                             *)
StampInv ==
  /\ OnFileWasGranted
  /\ \A s \in Sessions : op[s] = "promote" =>
       /\ Within(held[s], cand[s])
       /\ findings[s] \subseteq held[s].reviewed

(* Every approval has the field the stamp rewrites. *)
LEMMA ApprovalIsReviewed ==
  ASSUME NEW a \in Approvals
  PROVE  "reviewed" \in DOMAIN a
BY LibraryAssumption DEF Approvals, Stamped, IsApproval, ApprovalFields

(* A stamp with findings the approval reviewed stays within the decision. *)
LEMMA StampStaysWithin ==
  ASSUME NEW c \in Candidates, NEW a \in Approvals, Within(a, c),
         NEW f, f \subseteq a.reviewed
  PROVE  Within(Stamped(a, f), c)
<1>1. PICK d \in granted[c] : SameDecision(a, d) /\ a.reviewed \subseteq d.reviewed
  BY DEF Within
<1>2. SameDecision(Stamped(a, f), d)
  BY <1>1, StampKeepsDecision
<1>3. Stamped(a, f).reviewed = f
  BY ApprovalIsReviewed DEF Stamped
<1> QED  BY <1>1, <1>2, <1>3 DEF Within

(* Steps that leave approvals and sessions alone, or end an operation. *)
LEMMA StampUntouched ==
  ASSUME TypeOK, StampInv, UNCHANGED <<approvals, granted>>,
         \A s \in Sessions :
           \/ op'[s] # "promote"
           \/ /\ op'[s] = op[s] /\ cand'[s] = cand[s] /\ held'[s] = held[s]
              /\ findings'[s] = findings[s]
  PROVE  StampInv'
BY DEF StampInv, OnFileWasGranted, Within

(* Every step keeps what is on file, and in memory, within a decision. *)
LEMMA StampStep ==
  ASSUME TypeOK, ControlOK, BoundaryInv, StampInv, [Next]_vars
  PROVE  StampInv'
<1> USE DEF files, sessions, history
<1>1. ASSUME NEW s \in Sessions, NEW c \in Candidates, NEW d \in Decisions,
             RecordApproval(s, c, d)
      PROVE  StampInv'
  <2>1. \A b \in Candidates : granted[b] \subseteq granted'[b]
    BY <1>1 DEF RecordApproval, TypeOK
  <2>2. OnFileWasGranted'
    BY <1>1, <2>1 DEF RecordApproval, OnFileWasGranted, StampInv, TypeOK
  <2>3. ASSUME NEW t \in Sessions, op'[t] = "promote"
        PROVE  Within(held[t], cand[t])' /\ findings'[t] \subseteq held'[t].reviewed
    <3>1. /\ t # s /\ op[t] = "promote"
          /\ held'[t] = held[t] /\ cand'[t] = cand[t] /\ findings'[t] = findings[t]
      BY <1>1, <2>3 DEF RecordApproval, Begin, TypeOK
    <3>2. cand[t] \in Candidates
      BY <3>1 DEF ControlOK
    <3> QED  BY <2>1, <3>1, <3>2 DEF StampInv, Within
  <2> QED  BY <2>2, <2>3 DEF StampInv
<1>2. ASSUME NEW s \in Sessions, RecordFlush(s)
      PROVE  StampInv'
  <2>1. op[s] = "record" /\ held[s] \in granted[cand[s]]
    BY <1>2 DEF RecordFlush, At, ControlOK, StepsOf, TypeOK, BoundaryInv, SessionsOnGrant
  <2>2. Within(held[s], cand[s])
    BY <2>1 DEF Within, SameDecision
  <2>3. OnFileWasGranted'
    BY <1>2, <2>2 DEF RecordFlush, OnFileWasGranted, StampInv, Within, TypeOK
  <2> QED  BY <1>2, <2>3 DEF RecordFlush, Finish, StampInv, Within, TypeOK
<1>3. ASSUME NEW s \in Sessions, NEW c \in Candidates, PromotePrior(s, c)
      PROVE  StampInv'
  <2>1. /\ Within(approvals[c], c)
        /\ Screen(TextOf[c], SupportOf[c], headings) \subseteq approvals[c].reviewed
    BY <1>3 DEF PromotePrior, MayPromote, Covers, StampInv, OnFileWasGranted, Within
  <2>2. OnFileWasGranted'
    BY <1>3 DEF PromotePrior, OnFileWasGranted, StampInv
  <2> HIDE DEF files, sessions, history
  <2>3. /\ cand' = [cand EXCEPT ![s] = c] /\ held' = [held EXCEPT ![s] = approvals[c]]
        /\ findings' = [findings EXCEPT ![s] = Screen(TextOf[c], SupportOf[c], headings)]
        /\ op' = [op EXCEPT ![s] = "promote"] /\ granted' = granted
    BY <1>3 DEF PromotePrior, Begin, history
  <2>4. \A t \in Sessions : op'[t] = "promote" =>
          Within(held[t], cand[t])' /\ findings'[t] \subseteq held'[t].reviewed
    BY <2>1, <2>3 DEF StampInv, Within, TypeOK
  <2> QED  BY <2>2, <2>4 DEF StampInv
<1>4. ASSUME NEW s \in Sessions, StampOpen(s)
      PROVE  StampInv'
  BY <1>4 DEF StampOpen, StampInv, OnFileWasGranted, Within, TypeOK
<1>5. ASSUME NEW s \in Sessions, StampFlush(s)
      PROVE  StampInv'
  <2>1. op[s] = "promote" /\ held[s] \in Approvals /\ cand[s] \in Candidates
    BY <1>5 DEF StampFlush, At, ControlOK, StepsOf, TypeOK
  <2>2. Within(Stamped(held[s], findings[s]), cand[s])
    BY <2>1, StampStaysWithin DEF StampInv
  <2>3. OnFileWasGranted'
    BY <1>5, <2>2 DEF StampFlush, OnFileWasGranted, StampInv, Within, TypeOK
  <2> QED  BY <1>5, <2>3 DEF StampFlush, Finish, StampInv, Within, TypeOK
<1>6. ASSUME NEW c \in Candidates, RemoveApproval(c)
      PROVE  StampInv'
  BY <1>6 DEF RemoveApproval, StampInv, OnFileWasGranted, Within, TypeOK
<1>7. ASSUME NEW s \in Sessions, NEW c \in Candidates, WithdrawPrior(s, c)
      PROVE  StampInv'
  <2>1. UNCHANGED <<approvals, granted, held, findings>> /\ op'[s] = "withdraw"
    BY <1>7 DEF WithdrawPrior, Begin, TypeOK
  <2>2. \A t \in Sessions : t # s => op'[t] = op[t] /\ cand'[t] = cand[t]
    BY <1>7 DEF WithdrawPrior, Begin, TypeOK
  <2> QED  BY <2>1, <2>2, StampUntouched
<1>8. ASSUME NEW s \in Sessions, NEW w \in Clients, SeedLoad(s, w)
      PROVE  StampInv'
  BY <1>8, StampUntouched DEF SeedLoad, Begin, TypeOK
<1>9. ASSUME NEW s \in Sessions, SeedRefuse(s) \/ WithdrawReport(s) \/ Crash(s)
      PROVE  StampInv'
  BY <1>9, StampUntouched DEF SeedRefuse, WithdrawReport, Crash, Finish, TypeOK
<1>10. ASSUME NEW s \in Sessions, IndexFlush(s)
       PROVE  StampInv'
  BY <1>10, StampUntouched DEF IndexFlush, Finish, TypeOK
<1>11. ASSUME UNCHANGED <<approvals, granted, op, cand, held, findings>>
       PROVE  StampInv'
  BY <1>11, StampUntouched
<1>12. ASSUME NEW s \in Sessions,
              \/ \E c \in Candidates : Validate(s, c)
              \/ IdsRead(s) \/ IdsOpen(s) \/ IdsFlush(s)
              \/ PriorsRead(s) \/ PriorsOpen(s) \/ PriorsFlush(s)
              \/ SeedAccept(s) \/ ClientRead(s) \/ ClientOpen(s) \/ ClientFlush(s)
              \/ IndexRead(s) \/ IndexOpen(s)
       PROVE  UNCHANGED <<approvals, granted, op, cand, held, findings>>
  BY <1>12 DEF Validate, IdsRead, IdsOpen, IdsFlush, PriorsRead, PriorsOpen,
               PriorsFlush, SeedAccept, ClientRead, ClientOpen, ClientFlush,
               IndexRead, IndexOpen
<1>13. ASSUME \/ \E e \in Entries : EditPriors(e)
              \/ \E w \in Workspaces, n \in Names \cup {NoName} : EditHeading(w, n)
              \/ UNCHANGED vars
       PROVE  UNCHANGED <<approvals, granted, op, cand, held, findings>>
  BY <1>13 DEF EditPriors, EditHeading, vars
<1> QED
  BY <1>1, <1>2, <1>3, <1>4, <1>5, <1>6, <1>7, <1>8, <1>9, <1>10, <1>11, <1>12,
     <1>13
  DEF Next, Session, Environment

(* However a stamp races a recording, a deletion or another stamp, the      *)
(* approval on file never lists a finding its reviewer did not consider.    *)
THEOREM StampAddsNothing == Spec => []OnFileWasGranted
<1>1. Init => StampInv
  BY DEF Init, StampInv, OnFileWasGranted
<1>2. TypeOK /\ ControlOK /\ BoundaryInv /\ StampInv /\ [Next]_vars => StampInv'
  BY StampStep
<1>3. StampInv => OnFileWasGranted
  BY DEF StampInv
<1> QED  BY <1>1, <1>2, <1>3, LibraryInvariant, PTL DEF Spec

-----------------------------------------------------------------------------
(* The library implements SharingBoundary. *)

(* An empty library is an empty boundary. *)
LEMMA ImplementsInit == Init => Boundary!Init
  BY DEF Init, Boundary!Init, Approved, Shared

(* Recording, validating, publishing and the end of a seeding are the      *)
(* boundary's four actions; every other step is invisible to it.            *)
LEMMA ImplementsStep ==
  ASSUME TypeOK, ControlOK, BoundaryInv, [Next]_vars
  PROVE  [Boundary!Next]_(Boundary!vars)
<1> USE DEF TypeOK, Approved, Shared, Boundary!vars, Boundary!Next, files,
        sessions, history
<1>1. ASSUME NEW s \in Sessions, NEW c \in Candidates, NEW d \in Decisions, RecordApproval(s, c, d)
      PROVE  Boundary!Next
<2>1. Approved' = Approved \cup {c}
  BY <1>1 DEF RecordApproval
<2> QED  BY <1>1, <2>1 DEF RecordApproval, Boundary!Approve
<1>2. ASSUME NEW s \in Sessions, NEW c \in Candidates, Validate(s, c)
      PROVE  Boundary!Next
  BY <1>2 DEF Validate, Boundary!Accept
<1>3. ASSUME NEW s \in Sessions, PriorsFlush(s), op[s] = "promote"
      PROVE  Boundary!Next
<2>1. cand[s] \in Candidates /\ cand[s] \in Approved /\ cand[s] \in ratified
  BY <1>3 DEF ControlOK, BoundaryInv, SessionsOnGrant, OnGrant
<2>2. published' = published \cup {[cand |-> cand[s], by |-> held[s]]}
  BY <1>3 DEF PriorsFlush
<2> DEFINE p == [cand |-> cand[s], by |-> held[s]]
<2>3. p.cand = cand[s]
  OBVIOUS
<2> HIDE DEF p
<2>4. Shared' = Shared \cup {p.cand}
  <3>1. published' = published \cup {p}
    BY <2>2 DEF p
  <3> QED  BY <3>1
<2> QED  BY <1>3, <2>1, <2>3, <2>4 DEF PriorsFlush, Boundary!Share
<1>4. ASSUME NEW s \in Sessions, IndexFlush(s)
      PROVE  Boundary!Next
<2> DEFINE S == {e.content : e \in picked[s]}
<2>1. client[s] \in Clients /\ S \subseteq Candidates
  BY <1>4 DEF ControlOK, StepsOf, IndexFlush, At, Entries
<2>2. S \subseteq Approved
  BY <1>4, <2>1 DEF ControlOK, StepsOf, IndexFlush, At, BoundaryInv, SessionsOnGrant
<2>3. derived' = [derived EXCEPT ![client[s]] = @ \cup S]
  BY <1>4 DEF IndexFlush
<2>4. UNCHANGED <<Approved, ratified, Shared>>
  BY <1>4 DEF IndexFlush
<2> HIDE DEF S
<2> QED  BY <2>1, <2>2, <2>3, <2>4 DEF Boundary!Use
<1>5. CASE UNCHANGED <<granted, ratified, published, derived>>
  BY <1>5
<1>6. ASSUME NEW s \in Sessions, PriorsFlush(s), op[s] # "promote"
      PROVE  UNCHANGED <<granted, ratified, published, derived>>
  BY <1>6 DEF PriorsFlush
<1> QED
  BY <1>1, <1>2, <1>3, <1>4, <1>5, <1>6
  DEF Next, Session, Environment, vars, RecordFlush, PromotePrior, IdsRead, IdsOpen,
      IdsFlush, PriorsRead, PriorsOpen, StampOpen, StampFlush, SeedLoad, SeedAccept,
      SeedRefuse, ClientRead, ClientOpen, ClientFlush, IndexRead, IndexOpen,
      WithdrawPrior, WithdrawReport, Crash, RemoveApproval, EditPriors, EditHeading

(* For every behaviour of the library's files, sessions, crashes and hand   *)
(* edits there is one of the boundary: default deny is implemented.         *)
THEOREM LibraryImplementsBoundary == Spec => ImplementsBoundary
<1>1. TypeOK /\ ControlOK /\ BoundaryInv /\ [Next]_vars => [Boundary!Next]_(Boundary!vars)
  BY ImplementsStep
<1> QED  BY <1>1, ImplementsInit, LibraryInvariant, PTL DEF Spec,
            ImplementsBoundary, Boundary!Spec

-----------------------------------------------------------------------------
(* Sessions that work one after the other. *)

(* The decision a session has in memory is the one that stands. *)
DecisionInHand(s) ==
  /\ op[s] = "record" => held[s] = decided[cand[s]]
  /\ op[s] = "promote" =>
       decided[cand[s]] # Absent /\ SameDecision(held[s], decided[cand[s]])

HasSeeds(entries) ==
  \A w \in Clients : \A c \in derived[w] : [workspace |-> w, digest |-> c] \in entries

KnowsSeeded(workspaces) == \A w \in Clients : derived[w] # {} => w \in workspaces

InRecords(entries, recorded) ==
  \A i \in entries : i.workspace \in Clients /\ i.digest \in recorded[i.workspace]

(* What a session is about to write keeps what the file had, and a seeding  *)
(* writes the client's record, the id map and the index in this order.      *)
SeedInHand(s) ==
  /\ pc[s] \in {"client_open", "client_flush"} =>
       /\ InRecords(index, [records EXCEPT ![client[s]] = doc[s]])
       /\ \A e \in picked[s] : e.digest \in doc[s]
  /\ op[s] = "seed" /\ pc[s] \in {"ids_read", "ids_open", "ids_flush",
                                 "index_read", "index_open", "index_flush"} =>
       \A e \in picked[s] : e.digest \in records[client[s]]
  /\ pc[s] \in {"ids_open", "ids_flush"} =>
       KnowsSeeded(doc[s]) /\ (op[s] = "seed" => client[s] \in doc[s])
  /\ pc[s] \in {"index_read", "index_open", "index_flush"} => client[s] \in ids
  /\ pc[s] \in {"index_open", "index_flush"} =>
       /\ HasSeeds(doc[s])
       /\ InRecords(doc[s], records)
       /\ IndexEntriesOf(client[s], picked[s]) \subseteq doc[s]

Nobody(step) == \A s \in Sessions : pc[s] # step

(* A file that is not being written holds what was put down in it. *)
FilesKept ==
  /\ Nobody("client_flush") => InRecords(index, records)
  /\ Nobody("ids_flush") => KnowsSeeded(ids)
  /\ Nobody("index_flush") => HasSeeds(index)

(* The same, from the one session that may be at work. *)
AloneAt(s) ==
  /\ pc[s] # "client_flush" => InRecords(index, records)
  /\ pc[s] # "ids_flush" => KnowsSeeded(ids)
  /\ pc[s] # "index_flush" => HasSeeds(index)
  /\ DecisionStands /\ DecisionInHand(s) /\ SeedInHand(s)

AloneInv ==
  /\ \A s, t \in Sessions : s # t => pc[s] = "idle" \/ pc[t] = "idle"
  /\ DecisionStands /\ FilesKept
  /\ \A s \in Sessions : DecisionInHand(s) /\ SeedInHand(s)

LEMMA InitAlone == Init => AloneInv
<1> SUFFICES ASSUME Init PROVE AloneInv
  OBVIOUS
<1>1. /\ \A s \in Sessions : op[s] = "none" /\ pc[s] = "idle"
      /\ \A c \in Candidates : approvals[c] = Absent
      /\ index = {} /\ \A w \in Clients : derived[w] = {}
  BY DEF Init
<1>2. DecisionStands
  BY <1>1 DEF DecisionStands
<1>3. FilesKept
  BY <1>1 DEF FilesKept, InRecords, KnowsSeeded, HasSeeds
<1>4. \A s \in Sessions : DecisionInHand(s) /\ SeedInHand(s)
  BY <1>1 DEF DecisionInHand, SeedInHand
<1> QED  BY <1>1, <1>2, <1>3, <1>4 DEF AloneInv

(* A step of the session at work keeps its part of the invariant.           *)
LEMMA SessionAlone ==
  ASSUME TypeOK, ControlOK, NEW s \in Sessions, AloneAt(s),
         Session(s) \/ (pc[s] \notin Torn /\ Crash(s))
  PROVE  AloneAt(s)'
<1> USE LibraryAssumption DEF files, sessions, history, At, Goto
<1> DEFINE Decided == DecisionStands /\ DecisionInHand(s)
           Seeded  == /\ pc[s] # "client_flush" => InRecords(index, records)
                      /\ pc[s] # "ids_flush" => KnowsSeeded(ids)
                      /\ pc[s] # "index_flush" => HasSeeds(index)
                      /\ SeedInHand(s)
           Writes  == {"ids_read", "ids_open", "ids_flush", "client_read",
                       "client_open", "client_flush", "index_read", "index_open",
                       "index_flush"}
<1>a. Decided /\ Seeded
  BY DEF AloneAt
<1>b. ASSUME Decided', Seeded' PROVE AloneAt(s)'
  BY <1>b DEF AloneAt
<1>c. /\ pc[s] \in StepsOf(op[s])
      /\ op[s] \in {"record", "promote", "withdraw"} => cand[s] \in Candidates
      /\ op[s] \in {"record", "promote"} => held[s] \in Approvals
      /\ op[s] = "seed" => client[s] \in Clients
      /\ op[s] = "seed" /\ pc[s] # "seed_check" =>
           \A e \in picked[s] : e.digest = e.content
  BY DEF ControlOK
<1>d. /\ DOMAIN op = Sessions /\ DOMAIN pc = Sessions /\ DOMAIN cand = Sessions
      /\ DOMAIN client = Sessions /\ DOMAIN doc = Sessions /\ DOMAIN held = Sessions
      /\ DOMAIN picked = Sessions
      /\ op \in [Sessions -> {"none", "record", "promote", "seed", "withdraw"}]
      /\ approvals \in [Candidates -> Approvals \cup {Absent, Blank}]
      /\ decided \in [Candidates -> Decisions \cup {Absent}]
      /\ records \in [Clients -> SUBSET Candidates]
      /\ derived \in [Clients -> SUBSET Candidates]
      /\ picked[s] \subseteq Entries
  BY DEF TypeOK
(* What a step leaves alone stays true. *)
<1>e. ASSUME UNCHANGED <<approvals, decided, held, cand>>, op'[s] = op[s]
      PROVE  Decided'
  BY <1>a, <1>e DEF DecisionStands, DecisionInHand
<1>f. ASSUME UNCHANGED <<approvals, decided>>, op'[s] \notin {"record", "promote"}
      PROVE  Decided'
  BY <1>a, <1>f DEF DecisionStands, DecisionInHand
<1>g. ASSUME UNCHANGED <<ids, index, records, derived>>,
             pc[s] \notin {"client_flush", "ids_flush", "index_flush"},
             pc'[s] \notin Writes
      PROVE  Seeded'
  BY <1>a, <1>g DEF SeedInHand, InRecords, KnowsSeeded, HasSeeds
<1> HIDE DEF Decided, Seeded
<1>1. ASSUME NEW c \in Candidates, NEW d \in Decisions, RecordApproval(s, c, d)
      PROVE  AloneAt(s)'
  <2>1. /\ UNCHANGED <<ids, index, records, derived>>
        /\ approvals' = [approvals EXCEPT ![c] = Blank]
        /\ decided' = [decided EXCEPT ![c] = d]
        /\ op'[s] = "record" /\ pc[s] = "idle" /\ pc'[s] = "record_flush"
        /\ cand'[s] = c /\ held'[s] = d
    BY <1>1, <1>d DEF RecordApproval, Begin
  <2>2. Decided'
    BY <1>a, <1>d, <2>1 DEF Decided, DecisionStands, DecisionInHand
  <2> QED  BY <1>b, <1>g, <2>1, <2>2
<1>2. ASSUME NEW c \in Candidates, Validate(s, c)
      PROVE  AloneAt(s)'
  BY <1>2, <1>b, <1>e, <1>g DEF Validate
<1>3. ASSUME NEW c \in Candidates, PromotePrior(s, c)
      PROVE  AloneAt(s)'
  <2>1. /\ UNCHANGED <<approvals, ids, index, records, derived, decided>>
        /\ op'[s] = "promote" /\ pc[s] = "idle" /\ pc'[s] = "ids_read"
        /\ cand'[s] = c /\ held'[s] = approvals[c]
        /\ approvals[c] \notin {Absent, Blank}
    BY <1>3, <1>d DEF PromotePrior, MayPromote, Begin
  <2>2. Decided'
    BY <1>a, <2>1 DEF Decided, DecisionStands, DecisionInHand
  <2>3. Seeded'
    BY <1>a, <2>1 DEF Seeded, SeedInHand, InRecords, KnowsSeeded, HasSeeds
  <2> QED  BY <1>b, <2>2, <2>3
<1>4. ASSUME NEW c \in Candidates, WithdrawPrior(s, c)
      PROVE  AloneAt(s)'
  <2>1. /\ UNCHANGED <<approvals, ids, index, records, derived, decided>>
        /\ op'[s] = "withdraw" /\ pc[s] = "idle" /\ pc'[s] = "priors_open"
    BY <1>4, <1>d DEF WithdrawPrior, Begin
  <2> QED  BY <1>b, <1>f, <1>g, <2>1
<1>5. ASSUME NEW w \in Clients, SeedLoad(s, w)
      PROVE  AloneAt(s)'
  <2>1. /\ UNCHANGED <<approvals, ids, index, records, derived, decided>>
        /\ op'[s] = "seed" /\ pc[s] = "idle" /\ pc'[s] = "seed_check"
    BY <1>5, <1>d DEF SeedLoad, Begin
  <2> QED  BY <1>b, <1>f, <1>g, <2>1
<1>6. ASSUME RecordFlush(s)
      PROVE  AloneAt(s)'
  <2>1. /\ UNCHANGED <<ids, index, records, derived, decided>>
        /\ op[s] = "record" /\ pc[s] = "record_flush"
        /\ op'[s] = "none" /\ pc'[s] = "idle"
        /\ approvals' = [approvals EXCEPT ![cand[s]] = held[s]]
    BY <1>6, <1>c, <1>d DEF RecordFlush, Finish, StepsOf
  <2>2. held[s] = decided[cand[s]] /\ cand[s] \in Candidates
    BY <1>a, <1>c, <2>1 DEF Decided, DecisionInHand
  <2>4. Decided'
    BY <1>a, <1>d, <2>1, <2>2 DEF Decided, DecisionStands, DecisionInHand, SameDecision
  <2> QED  BY <1>b, <1>g, <2>1, <2>4
<1>7. ASSUME StampOpen(s)
      PROVE  AloneAt(s)'
  <2>1. /\ UNCHANGED <<ids, index, records, derived, decided, held, cand, op>>
        /\ pc[s] = "stamp_open" /\ pc'[s] = "stamp_flush"
        /\ approvals' = [approvals EXCEPT ![cand[s]] = Blank]
    BY <1>7, <1>d DEF StampOpen
  <2>2. Decided'
    BY <1>a, <1>d, <2>1 DEF Decided, DecisionStands, DecisionInHand
  <2> QED  BY <1>b, <1>g, <2>1, <2>2
<1>8. ASSUME StampFlush(s)
      PROVE  AloneAt(s)'
  <2>1. /\ UNCHANGED <<ids, index, records, derived, decided>>
        /\ op[s] = "promote" /\ pc[s] = "stamp_flush"
        /\ op'[s] = "none" /\ pc'[s] = "idle"
        /\ approvals' = [approvals EXCEPT ![cand[s]] = Stamped(held[s], findings[s])]
    BY <1>8, <1>c, <1>d DEF StampFlush, Finish, StepsOf
  <2>2. /\ decided[cand[s]] # Absent /\ cand[s] \in Candidates
        /\ SameDecision(Stamped(held[s], findings[s]), decided[cand[s]])
    BY <1>a, <1>c, <2>1, StampTwice DEF Decided, DecisionInHand, SameDecision
  <2>3. Decided'
    BY <1>a, <1>d, <2>1, <2>2 DEF Decided, DecisionStands, DecisionInHand
  <2> QED  BY <1>b, <1>g, <2>1, <2>3
<1>9. ASSUME PriorsRead(s) \/ PriorsOpen(s) \/ SeedRefuse(s) \/ WithdrawReport(s)
      PROVE  AloneAt(s)'
  <2>1. /\ UNCHANGED <<approvals, ids, index, records, derived, decided>>
        /\ pc[s] \in {"priors_read", "priors_open", "seed_check", "withdraw_report"}
        /\ pc'[s] \in {"priors_open", "priors_flush", "idle"}
        /\ op'[s] = "none" \/ UNCHANGED <<held, cand, op>>
    BY <1>9, <1>d DEF PriorsRead, PriorsOpen, SeedRefuse, WithdrawReport, Finish
  <2> QED  BY <1>b, <1>e, <1>f, <1>g, <2>1
<1>10. ASSUME PriorsFlush(s)
       PROVE  AloneAt(s)'
  <2>1. /\ UNCHANGED <<approvals, ids, index, records, derived, decided, held, cand, op>>
        /\ pc[s] = "priors_flush" /\ pc'[s] \in {"stamp_open", "withdraw_report"}
    BY <1>10, <1>d DEF PriorsFlush
  <2> QED  BY <1>b, <1>e, <1>g, <2>1
<1>11. ASSUME IdsRead(s)
       PROVE  AloneAt(s)'
  <2>1. /\ UNCHANGED <<files, history, op, cand, client, held, picked>>
        /\ pc[s] = "ids_read" /\ pc'[s] = "ids_open"
        /\ ids \subseteq doc'[s] /\ (op[s] = "seed" => client[s] \in doc'[s])
    BY <1>11, <1>d DEF IdsRead
  <2>2. Seeded'
    BY <1>a, <2>1 DEF Seeded, SeedInHand, InRecords, KnowsSeeded, HasSeeds
  <2> QED  BY <1>b, <1>e, <2>1, <2>2
<1>12. ASSUME IdsOpen(s)
       PROVE  AloneAt(s)'
  <2>1. /\ UNCHANGED <<approvals, index, records, history, op, cand, client, doc, held, picked>>
        /\ pc[s] = "ids_open" /\ pc'[s] = "ids_flush"
    BY <1>12, <1>d DEF IdsOpen
  <2>2. Seeded'
    BY <1>a, <2>1 DEF Seeded, SeedInHand, InRecords, KnowsSeeded, HasSeeds
  <2> QED  BY <1>b, <1>e, <2>1, <2>2
<1>13. ASSUME IdsFlush(s)
       PROVE  AloneAt(s)'
  <2>1. /\ UNCHANGED <<approvals, index, records, history, op, cand, client, doc, held, picked>>
        /\ pc[s] = "ids_flush" /\ ids' = doc[s]
        /\ \/ op[s] = "promote" /\ pc'[s] = "priors_read"
           \/ op[s] = "seed" /\ pc'[s] = "index_read"
    BY <1>13, <1>c, <1>d DEF IdsFlush, StepsOf
  <2>2. Seeded'
    BY <1>a, <2>1 DEF Seeded, SeedInHand, InRecords, KnowsSeeded, HasSeeds
  <2> QED  BY <1>b, <1>e, <2>1, <2>2
<1>14. ASSUME SeedAccept(s)
       PROVE  AloneAt(s)'
  <2>1. /\ UNCHANGED <<files, history, op, cand, client, doc, held, picked>>
        /\ pc[s] = "seed_check" /\ pc'[s] = "client_read"
    BY <1>14, <1>d DEF SeedAccept
  <2>2. Seeded'
    BY <1>a, <2>1 DEF Seeded, SeedInHand, InRecords, KnowsSeeded, HasSeeds
  <2> QED  BY <1>b, <1>e, <2>1, <2>2
<1>15. ASSUME ClientRead(s)
       PROVE  AloneAt(s)'
  <2>1. /\ UNCHANGED <<files, history, op, cand, client, held, picked>>
        /\ pc[s] = "client_read" /\ pc'[s] = "client_open"
        /\ doc'[s] = records[client[s]] \cup {e.digest : e \in picked[s]}
    BY <1>15, <1>d DEF ClientRead
  <2>2. client[s] \in Clients
    BY <1>c, <1>d, <2>1 DEF StepsOf
  <2>3. InRecords(index, [records EXCEPT ![client[s]] = doc'[s]])
    BY <1>a, <1>d, <2>1, <2>2 DEF Seeded, InRecords
  <2>4. Seeded'
    BY <1>a, <2>1, <2>3 DEF Seeded, SeedInHand, InRecords, KnowsSeeded, HasSeeds
  <2> QED  BY <1>b, <1>e, <2>1, <2>4
<1>16. ASSUME ClientOpen(s)
       PROVE  AloneAt(s)'
  <2>1. /\ UNCHANGED <<approvals, ids, index, history, op, cand, client, doc, held, picked>>
        /\ pc[s] = "client_open" /\ pc'[s] = "client_flush"
        /\ records' = [records EXCEPT ![client[s]] = {}]
    BY <1>16, <1>d DEF ClientOpen
  <2>2. [records' EXCEPT ![client[s]] = doc[s]] = [records EXCEPT ![client[s]] = doc[s]]
    BY <1>d, <2>1
  <2>3. InRecords(index, [records' EXCEPT ![client[s]] = doc[s]])
    BY <1>a, <2>1, <2>2 DEF Seeded, SeedInHand
  <2>4. Seeded'
    BY <1>a, <2>1, <2>3 DEF Seeded, SeedInHand, InRecords, KnowsSeeded, HasSeeds
  <2> QED  BY <1>b, <1>e, <2>1, <2>4
<1>17. ASSUME ClientFlush(s)
       PROVE  AloneAt(s)'
  <2>1. /\ UNCHANGED <<approvals, ids, index, history, op, cand, client, doc, held, picked>>
        /\ pc[s] = "client_flush" /\ pc'[s] = "ids_read"
        /\ records' = [records EXCEPT ![client[s]] = doc[s]]
        /\ client[s] \in Clients
    BY <1>17, <1>c, <1>d DEF ClientFlush, StepsOf
  <2>2. InRecords(index, records')
    BY <1>a, <2>1 DEF Seeded, SeedInHand
  <2>3. \A e \in picked[s] : e.digest \in records'[client[s]]
    BY <1>a, <1>d, <2>1 DEF Seeded, SeedInHand
  <2>4. Seeded'
    BY <1>a, <2>1, <2>2, <2>3 DEF Seeded, SeedInHand, InRecords, KnowsSeeded, HasSeeds
  <2> QED  BY <1>b, <1>e, <2>1, <2>4
<1>18. ASSUME IndexRead(s)
       PROVE  AloneAt(s)'
  <2>1. /\ UNCHANGED <<files, history, op, cand, client, held, picked>>
        /\ pc[s] = "index_read" /\ pc'[s] = "index_open"
        /\ doc'[s] = index \cup IndexEntriesOf(client[s], picked[s])
        /\ client[s] \in Clients /\ op[s] = "seed"
    BY <1>18, <1>c, <1>d DEF IndexRead, StepsOf
  <2>2. /\ InRecords(index, records) /\ HasSeeds(index) /\ KnowsSeeded(ids)
        /\ client[s] \in ids
        /\ \A e \in picked[s] : e.digest \in records[client[s]]
    BY <1>a, <2>1 DEF Seeded, SeedInHand
  <2>3. InRecords(doc'[s], records)
    BY <2>1, <2>2 DEF InRecords, IndexEntriesOf
  <2>4. Seeded'
    BY <2>1, <2>2, <2>3 DEF Seeded, SeedInHand, InRecords, KnowsSeeded, HasSeeds
  <2> QED  BY <1>b, <1>e, <2>1, <2>4
<1>19. ASSUME IndexOpen(s)
       PROVE  AloneAt(s)'
  <2>1. /\ UNCHANGED <<approvals, ids, records, history, op, cand, client, doc, held, picked>>
        /\ pc[s] = "index_open" /\ pc'[s] = "index_flush" /\ index' = {}
    BY <1>19, <1>d DEF IndexOpen
  <2>2. Seeded'
    BY <1>a, <2>1 DEF Seeded, SeedInHand, InRecords, KnowsSeeded, HasSeeds
  <2> QED  BY <1>b, <1>e, <2>1, <2>2
<1>20. ASSUME IndexFlush(s)
       PROVE  AloneAt(s)'
  <2>1. /\ UNCHANGED <<approvals, ids, records, decided>>
        /\ pc[s] = "index_flush" /\ op[s] = "seed" /\ client[s] \in Clients
        /\ pc'[s] = "idle" /\ op'[s] = "none"
        /\ index' = doc[s]
        /\ derived' = [derived EXCEPT ![client[s]] = @ \cup {e.content : e \in picked[s]}]
    BY <1>20, <1>c, <1>d DEF IndexFlush, Finish, StepsOf
  <2>2. /\ HasSeeds(doc[s]) /\ InRecords(doc[s], records)
        /\ IndexEntriesOf(client[s], picked[s]) \subseteq doc[s]
        /\ client[s] \in ids /\ KnowsSeeded(ids)
    BY <1>a, <2>1 DEF Seeded, SeedInHand
  <2>3. KnowsSeeded(ids)'
    BY <1>d, <2>1, <2>2 DEF KnowsSeeded
  <2>4. \A e \in picked[s] : [workspace |-> client[s], digest |-> e.content] \in doc[s]
    BY <1>c, <2>1, <2>2 DEF IndexEntriesOf
  <2>5. HasSeeds(index)'
    BY <1>d, <2>1, <2>2, <2>4 DEF HasSeeds
  <2>6. Seeded'
    BY <2>1, <2>2, <2>3, <2>5 DEF Seeded, SeedInHand, InRecords
  <2> QED  BY <1>b, <1>f, <2>1, <2>6
<1>21. ASSUME pc[s] \notin Torn, Crash(s)
       PROVE  AloneAt(s)'
  <2>1. /\ UNCHANGED <<approvals, ids, index, records, derived, decided>>
        /\ pc[s] \notin {"client_flush", "ids_flush", "index_flush"}
        /\ op'[s] = "none" /\ pc'[s] = "idle"
    BY <1>21, <1>d DEF Crash, Finish, Torn
  <2> QED  BY <1>b, <1>f, <1>g, <2>1
<1> QED
  BY <1>1, <1>2, <1>3, <1>4, <1>5, <1>6, <1>7, <1>8, <1>9, <1>10, <1>11, <1>12,
     <1>13, <1>14, <1>15, <1>16, <1>17, <1>18, <1>19, <1>20, <1>21
  DEF Session

(* Every step of sessions that work one after the other keeps the           *)
(* invariant.                                                               *)
LEMMA AloneStep ==
  ASSUME TypeOK, ControlOK, TypeOK', ControlOK', AloneInv, AloneNext
  PROVE  AloneInv'
<1>1. ASSUME NEW s \in Sessions, \A t \in Others(s) : At(t, "idle"),
             Session(s) \/ (pc[s] \notin Torn /\ Crash(s))
      PROVE  AloneInv'
  <2>1. AloneAt(s)
    <3>1. /\ pc[s] # "client_flush" => Nobody("client_flush")
          /\ pc[s] # "ids_flush" => Nobody("ids_flush")
          /\ pc[s] # "index_flush" => Nobody("index_flush")
      BY <1>1 DEF Others, At, Nobody
    <3> QED  BY <3>1 DEF AloneInv, FilesKept, AloneAt
  <2>2. AloneAt(s)'
    BY <1>1, <2>1, SessionAlone
  <2>3. \A t \in Others(s) : pc'[t] = "idle"
    <3>1. pc \in [Sessions -> Steps]
      BY DEF TypeOK
    <3>2. ASSUME NEW step, Goto(s, step)
          PROVE  \A t \in Others(s) : pc'[t] = pc[t]
      BY <3>1, <3>2 DEF Goto, Others
    <3>3. ASSUME NEW name, NEW step, Begin(s, name, step)
          PROVE  \A t \in Others(s) : pc'[t] = pc[t]
      BY <3>2, <3>3 DEF Begin
    <3>4. (\E step : Goto(s, step)) \/ (\E name, step : Begin(s, name, step)) \/ pc' = pc
      <4>1. ASSUME PriorsFlush(s) PROVE \E step : Goto(s, step)
        BY <4>1, Zenon DEF PriorsFlush
      <4>2. ASSUME RecordFlush(s) \/ StampFlush(s) \/ SeedRefuse(s) \/ IndexFlush(s)
                     \/ WithdrawReport(s) \/ Crash(s)
            PROVE  \E step : Goto(s, step)
        BY <4>2, Zenon DEF RecordFlush, StampFlush, SeedRefuse, IndexFlush, WithdrawReport,
             Crash, Finish
      <4>3. ASSUME IdsRead(s) \/ IdsOpen(s) \/ IdsFlush(s) \/ PriorsRead(s) \/ PriorsOpen(s)
                     \/ StampOpen(s) \/ SeedAccept(s) \/ ClientRead(s) \/ ClientOpen(s)
                     \/ ClientFlush(s) \/ IndexRead(s) \/ IndexOpen(s)
            PROVE  \E step : Goto(s, step)
        BY <4>3, Zenon DEF IdsRead, IdsOpen, IdsFlush, PriorsRead, PriorsOpen, StampOpen,
             SeedAccept, ClientRead, ClientOpen, ClientFlush, IndexRead, IndexOpen
      <4>4. ASSUME \/ \E c \in Candidates : PromotePrior(s, c) \/ WithdrawPrior(s, c)
                   \/ \E c \in Candidates, d \in Decisions : RecordApproval(s, c, d)
                   \/ \E w \in Clients : SeedLoad(s, w)
            PROVE  \E name, step : Begin(s, name, step)
        BY <4>4, Zenon DEF RecordApproval, PromotePrior, WithdrawPrior, SeedLoad
      <4>5. ASSUME NEW c \in Candidates, Validate(s, c)
            PROVE  pc' = pc
        BY <4>5 DEF Validate
      <4> QED  BY <1>1, <4>1, <4>2, <4>3, <4>4, <4>5 DEF Session
    <3>5. \A t \in Others(s) : pc'[t] = pc[t]
      BY <3>2, <3>3, <3>4
    <3> QED  BY <1>1, <3>5 DEF At
  <2>4. \A t \in Others(s) : DecisionInHand(t)' /\ SeedInHand(t)'
    <3>1. \A t \in Others(s) : op'[t] = "none"
      BY <2>3 DEF ControlOK, TypeOK, StepsOf, Others
    <3> QED  BY <2>3, <3>1 DEF DecisionInHand, SeedInHand
  <2>5. FilesKept'
    BY <2>2 DEF AloneAt, FilesKept, Nobody
  <2> QED  BY <2>2, <2>3, <2>4, <2>5 DEF AloneAt, AloneInv, Others
<1>2. ASSUME \A s \in Sessions : At(s, "idle"),
             \/ \E c \in Candidates : RemoveApproval(c)
             \/ \E e \in Entries : EditPriors(e)
             \/ \E w \in Workspaces, n \in Names \cup {NoName} : EditHeading(w, n)
      PROVE  AloneInv'
  <2>1. /\ UNCHANGED <<ids, index, records, derived, pc, op>>
        /\ \A s \in Sessions : pc[s] = "idle" /\ op[s] = "none"
    BY <1>2 DEF RemoveApproval, EditPriors, EditHeading, At, sessions, history,
         ControlOK, TypeOK, StepsOf
  <2>2. DecisionStands'
    <3>1. CASE UNCHANGED <<approvals, decided>>
      BY <3>1 DEF AloneInv, DecisionStands
    <3>2. ASSUME NEW c \in Candidates, RemoveApproval(c)
          PROVE  DecisionStands'
      BY <3>2 DEF RemoveApproval, AloneInv, DecisionStands, TypeOK
    <3> QED  BY <1>2, <3>1, <3>2 DEF EditPriors, EditHeading, history
  <2>3. FilesKept'
    BY <2>1 DEF AloneInv, FilesKept, Nobody, InRecords, KnowsSeeded, HasSeeds
  <2>4. \A s \in Sessions : DecisionInHand(s)' /\ SeedInHand(s)'
    BY <2>1 DEF DecisionInHand, SeedInHand
  <2> QED  BY <2>1, <2>2, <2>3, <2>4 DEF AloneInv
<1> QED  BY <1>1, <1>2 DEF AloneNext

(* Sessions that work one after the other leave a library in which          *)
(* decisions stand and every seeding can be traced from both sides,         *)
(* wherever one of them stopped.                                            *)
THEOREM AloneIsTraceable == RegimesSpec => []AloneTraceable
<1> DEFINE Inv == TypeOK /\ ControlOK /\ BoundaryInv /\ (alone => AloneInv)
<1>1. RegimesInit => Inv
  BY InitInv, InitAlone DEF RegimesInit
<1>2. Inv /\ [RegimesNext]_<<vars, alone>> => Inv'
  <2> SUFFICES ASSUME Inv, [RegimesNext]_<<vars, alone>> PROVE Inv'
    OBVIOUS
  <2>1. [Next]_vars
    BY DEF RegimesNext, AloneNext, Next, Environment
  <2>2. TypeOK' /\ ControlOK' /\ BoundaryInv'
    BY <2>1, TypeStep, BoundaryStep
  <2>3. ASSUME alone' PROVE AloneInv'
    <3>1. CASE alone /\ AloneNext
      BY <2>2, <3>1, AloneStep
    <3>2. CASE UNCHANGED <<vars, alone>>
      <4>1. AloneInv /\ UNCHANGED vars
        BY <2>3, <3>2
      <4> QED
        BY <4>1 DEF vars, files, sessions, history, AloneInv, DecisionStands, FilesKept,
             Nobody, DecisionInHand, SeedInHand, InRecords, KnowsSeeded, HasSeeds
    <3> QED  BY <2>3, <3>1, <3>2 DEF RegimesNext
  <2> QED  BY <2>2, <2>3
<1>3. Inv => AloneTraceable
  <2> SUFFICES ASSUME TypeOK, ControlOK, AloneInv
               PROVE  DecisionStands /\ WithdrawalNamesSeeded /\ IndexedSeedsAreRecorded
    BY DEF AloneTraceable
  <2>1. WithdrawalNamesSeeded
    <3> SUFFICES ASSUME NEW s \in Sessions, At(s, "withdraw_report"),
                        NEW w \in Clients, cand[s] \in derived[w]
                 PROVE  w \in Reported(cand[s])
      BY DEF WithdrawalNamesSeeded
    <3>1. Nobody("ids_flush") /\ Nobody("index_flush")
      BY DEF AloneInv, Nobody, At
    <3> QED  BY <3>1 DEF AloneInv, FilesKept, KnowsSeeded, HasSeeds, Reported
  <2>2. IndexedSeedsAreRecorded
    <3> SUFFICES ASSUME NEW i \in index,
                        ~(i.workspace \in Clients /\ i.digest \in records[i.workspace])
                 PROVE  \E s \in Sessions : At(s, "client_flush") /\ client[s] = i.workspace
      BY DEF IndexedSeedsAreRecorded
    <3>1. PICK s \in Sessions : pc[s] = "client_flush"
      BY DEF AloneInv, FilesKept, Nobody, InRecords
    <3>2. InRecords(index, [records EXCEPT ![client[s]] = doc[s]])
      BY <3>1 DEF AloneInv, SeedInHand
    <3> QED  BY <3>1, <3>2 DEF InRecords, At, TypeOK
  <2> QED  BY <2>1, <2>2 DEF AloneInv
<1> HIDE DEF Inv
<1> QED  BY <1>1, <1>2, <1>3, PTL DEF RegimesSpec

====
