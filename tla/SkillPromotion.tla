-------------------------- MODULE SkillPromotion ---------------------------
(***************************************************************************)
(* promote_skill (pyfpa/portfolio/library.py) for one skill name: a        *)
(* recurring generated skill is read out of a client's workspace, screened *)
(* and written into the library, while the client's files may change and   *)
(* another session may promote the same name.                              *)
(*                                                                         *)
(* A tree maps the files present to their versions; it is its own digest.  *)
(* Files are numbered in the order of their sorted paths.  The approval    *)
(* and provenance files are written in one step here: PromotionLibrary     *)
(* takes those writes apart.                                               *)
(***************************************************************************)
EXTENDS PromotionApproval, Functions

CONSTANTS Sessions,
          Files,      \* file numbers, in sorted order of their paths
          Versions,   \* what a file may hold
          MarksOf,    \* version -> marks the screen sees in it
          Scope, Support,
          Heading,    \* the headings of the client workspaces
          Decisions,  \* approvals a practitioner may record
          None,       \* no file, no directory, no approval
          MaxOps      \* bound: operations and edits in a behaviour

Trees == UNION {[F -> Versions] : F \in SUBSET Files}

ASSUME SkillAssumption ==
  /\ Files \subseteq Nat
  /\ Support \subseteq Workspaces
  /\ None \notin Versions \cup Decisions \cup Trees
  /\ \A d \in Decisions : IsApproval(d)
  /\ MaxOps \in Nat

TextsOf(tree) == [f \in DOMAIN tree |-> MarksOf[tree[f]]]
EmptyTree == [f \in {} |-> None]

VARIABLES
  source,     \* the skill directory in the client's workspace
  approvals,  \* tree -> the approval on file for its digest, or None
  ids,        \* workspaces in provenance/workspaces.yaml
  dest,       \* skills/<name> in the library, or None
  pc, todo, captured, held, findings,  \* per session
  logged,     \* digests the library log names for this skill
  granted,    \* history: tree -> every decision recorded for it
  started

vars == <<source, approvals, ids, dest, pc, todo, captured, held, findings,
          logged, granted, started>>

Init ==
  /\ source \in Trees
  /\ approvals = [t \in Trees |-> None]
  /\ ids = {} /\ dest = None /\ logged = {}
  /\ pc = [s \in Sessions |-> "idle"]
  /\ todo = [s \in Sessions |-> {}]
  /\ captured = [s \in Sessions |-> EmptyTree]
  /\ held = [s \in Sessions |-> None]
  /\ findings = [s \in Sessions |-> {}]
  /\ granted = [t \in Trees |-> {}]
  /\ started = 0

At(s, step) == pc[s] = step
Goto(s, step) == pc' = [pc EXCEPT ![s] = step]
Start == started < MaxOps /\ started' = started + 1
FirstOf(S) == CHOOSE f \in S : \A g \in S : f <= g

Finish(s) ==
  /\ Goto(s, "idle")
  /\ todo' = [todo EXCEPT ![s] = {}]
  /\ captured' = [captured EXCEPT ![s] = EmptyTree]
  /\ held' = [held EXCEPT ![s] = None]
  /\ findings' = [findings EXCEPT ![s] = {}]

-----------------------------------------------------------------------------
(* record_promotion_approval for the tree the practitioner reviewed. *)
RecordApproval(t, d) ==
  /\ Start
  /\ approvals[t] = None
  /\ approvals' = [approvals EXCEPT ![t] = d]
  /\ granted' = [granted EXCEPT ![t] = @ \cup {d}]
  /\ UNCHANGED <<source, ids, dest, pc, todo, captured, held, findings, logged>>

(* promote_skill begins: the tree is listed, ... *)
PromoteSkill(s) ==
  /\ At(s, "idle")
  /\ Start
  /\ todo' = [todo EXCEPT ![s] = DOMAIN source]
  /\ Goto(s, "capture")
  /\ UNCHANGED <<source, approvals, ids, dest, captured, held, findings, logged, granted>>

(* A file that is gone is captured as an empty one. *)
CaptureSlip(s) ==
  /\ At(s, "capture")
  /\ todo[s] # {}
  /\ LET f == FirstOf(todo[s])
         new == IF f \in DOMAIN source THEN source[f] ELSE None
     IN  /\ captured' = [captured EXCEPT ![s] =
              [g \in DOMAIN @ \cup {f} |-> IF g = f THEN new ELSE @[g]]]
         /\ todo' = [todo EXCEPT ![s] = @ \ {f}]
  /\ UNCHANGED <<source, approvals, ids, dest, pc, held, findings, logged,
                 granted, started>>

(* ... then read file by file; a file that is gone by then ends it. *)
Capture(s) ==
  /\ At(s, "capture")
  /\ todo[s] # {}
  /\ LET f == FirstOf(todo[s])
     IN  IF f \in DOMAIN source
         THEN /\ captured' = [captured EXCEPT ![s] =
                   [g \in DOMAIN @ \cup {f} |-> IF g = f THEN source[f] ELSE @[g]]]
              /\ todo' = [todo EXCEPT ![s] = @ \ {f}]
              /\ UNCHANGED <<pc, held, findings>>
         ELSE Finish(s)
  /\ UNCHANGED <<source, approvals, ids, dest, logged, granted, started>>

(* Digest, approval, allowed files and screen, all of the captured bytes. *)
Check(s) ==
  /\ At(s, "capture")
  /\ todo[s] = {}
  /\ LET t == captured[s]
     IN  /\ approvals[t] # None
         /\ Covers(approvals[t], Scope, Support, DOMAIN t, TextsOf(t), Heading)
         /\ held' = [held EXCEPT ![s] = approvals[t]]
         /\ findings' = [findings EXCEPT ![s] = Screen(TextsOf(t), Support, Heading)]
  /\ Goto(s, "ids")
  /\ UNCHANGED <<source, approvals, ids, dest, todo, captured, logged, granted, started>>

Deny(s) ==
  /\ At(s, "capture")
  /\ todo[s] = {}
  /\ Finish(s)
  /\ UNCHANGED <<source, approvals, ids, dest, logged, granted, started>>

RecordIds(s) ==
  /\ At(s, "ids")
  /\ ids' = ids \cup Support
  /\ Goto(s, "mkdir")
  /\ UNCHANGED <<source, approvals, dest, todo, captured, held, findings, logged, granted, started>>

(* The directory may exist already. *)
MakeDirSlip(s) ==
  /\ At(s, "mkdir")
  /\ dest' = IF dest = None THEN EmptyTree ELSE dest
  /\ todo' = [todo EXCEPT ![s] = DOMAIN captured[s]]
  /\ Goto(s, "copy")
  /\ UNCHANGED <<captured, held, findings, source, approvals, ids, logged, granted, started>>

(* dest.mkdir(): FileExistsError when the name is taken. *)
MakeDir(s) ==
  /\ At(s, "mkdir")
  /\ IF dest = None
     THEN /\ dest' = EmptyTree
          /\ todo' = [todo EXCEPT ![s] = DOMAIN captured[s]]
          /\ Goto(s, "copy")
          /\ UNCHANGED <<captured, held, findings>>
     ELSE /\ Finish(s)
          /\ dest' = dest
  /\ UNCHANGED <<source, approvals, ids, logged, granted, started>>

(* The client's file is copied, not the captured bytes. *)
CopySlip(s) ==
  /\ At(s, "copy")
  /\ todo[s] # {}
  /\ LET f == FirstOf(todo[s])
     IN  /\ f \in DOMAIN source
         /\ dest' = [g \in DOMAIN dest \cup {f} |-> IF g = f THEN source[f] ELSE dest[g]]
         /\ todo' = [todo EXCEPT ![s] = @ \ {f}]
  /\ UNCHANGED <<source, approvals, ids, pc, captured, held, findings, logged, granted, started>>

Copy(s) ==
  /\ At(s, "copy")
  /\ todo[s] # {}
  /\ LET f == FirstOf(todo[s])
     IN  /\ dest' = [g \in DOMAIN dest \cup {f} |->
                       IF g = f THEN captured[s][f] ELSE dest[g]]
         /\ todo' = [todo EXCEPT ![s] = @ \ {f}]
  /\ UNCHANGED <<source, approvals, ids, pc, captured, held, findings, logged, granted, started>>

Log(s) ==
  /\ At(s, "copy")
  /\ todo[s] = {}
  /\ logged' = logged \cup {captured[s]}
  /\ Goto(s, "stamp")
  /\ UNCHANGED <<source, approvals, ids, dest, todo, captured, held, findings, granted, started>>

Stamp(s) ==
  /\ At(s, "stamp")
  /\ approvals' = [approvals EXCEPT ![captured[s]] = Stamped(held[s], findings[s])]
  /\ Finish(s)
  /\ UNCHANGED <<source, ids, dest, logged, granted, started>>

-----------------------------------------------------------------------------
(* The process ends; the client's files change; a skill directory is       *)
(* deleted by hand, which is how a copy a crash cut short is cleared.      *)
Crash(s) ==
  /\ ~At(s, "idle")
  /\ Finish(s)
  /\ UNCHANGED <<source, approvals, ids, dest, logged, granted, started>>

EditSource(t) ==
  /\ Start
  /\ t # source
  /\ source' = t
  /\ UNCHANGED <<approvals, ids, dest, pc, todo, captured, held, findings, logged, granted>>

RemoveSkill ==
  /\ Start
  /\ \A s \in Sessions : pc[s] \notin {"copy", "stamp"}
  /\ dest # None
  /\ dest' = None
  /\ UNCHANGED <<source, approvals, ids, pc, todo, captured, held, findings, logged, granted>>

Next ==
  \/ \E t \in Trees, d \in Decisions : RecordApproval(t, d)
  \/ \E s \in Sessions : \/ PromoteSkill(s) \/ Capture(s) \/ Check(s) \/ Deny(s)
                         \/ RecordIds(s) \/ MakeDir(s) \/ Copy(s) \/ Log(s)
                         \/ Stamp(s) \/ Crash(s)
  \/ \E t \in Trees : EditSource(t)
  \/ RemoveSkill

Spec == Init /\ [][Next]_vars

-----------------------------------------------------------------------------
(* Properties. *)

Findings == (Patterns \cup Support) \X Files
Approvals == Decisions \cup {Stamped(d, f) : d \in Decisions, f \in SUBSET Findings}

(* Type invariant of the files, the sessions and the history. *)
TypeOK ==
  /\ source \in Trees
  /\ approvals \in [Trees -> Approvals \cup {None}]
  /\ ids \subseteq Workspaces
  /\ dest \in Trees \cup {None}
  /\ pc \in [Sessions -> {"idle", "capture", "ids", "mkdir", "copy", "stamp"}]
  /\ todo \in [Sessions -> SUBSET Files]
  /\ captured \in [Sessions -> Trees]
  /\ held \in [Sessions -> Approvals \cup {None}]
  /\ findings \in [Sessions -> SUBSET Findings]
  /\ logged \subseteq Trees
  /\ granted \in [Trees -> SUBSET Decisions]
  /\ started \in 0..MaxOps

(* A decision covers a whole tree: its files allowed, its findings reviewed. *)
Approved(t) ==
  \E d \in granted[t] : Covers(d, Scope, Support, DOMAIN t, TextsOf(t), Heading)

(* What lies in the library's skill directory, whole or cut short by a     *)
(* crash, is part of one tree a practitioner approved, however the client's *)
(* files changed meanwhile, and its contributors are on record.            *)
CopiedWasApproved ==
  dest # None =>
    /\ Support \subseteq ids
    /\ \E t \in Trees : /\ Approved(t)
                        /\ DOMAIN dest \subseteq DOMAIN t
                        /\ dest = Restrict(t, DOMAIN dest)

(* The log names a promotion only when the library holds the whole of it. *)
LoggedIsWhole == [][logged' # logged => dest \in logged']_vars

=============================================================================
