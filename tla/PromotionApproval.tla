------------------------- MODULE PromotionApproval -------------------------
(***************************************************************************)
(* The decision pyfpa/portfolio/approval.py makes about one promotion: the *)
(* checks a recorded approval must pass before a client's information may  *)
(* enter the shared library.  Pure operators; the modules of the library's *)
(* operations (PromotionLibrary, SkillPromotion) apply them to the         *)
(* approval, the headings and the captured files they read at run time.    *)
(*                                                                         *)
(* A heading stands for its normalised business name.  A text stands for   *)
(* the set of marks the screen can see in it: pattern labels, and names.   *)
(***************************************************************************)
EXTENDS Integers, FiniteSets, FiniteSetsExt

CONSTANTS Workspaces,   \* client workspaces, identified by resolved path
          Names,        \* normalised business names
          NoName,       \* no heading, or nothing identifying is left of it
          Patterns      \* labels of the sensitive patterns of the screen

ASSUME NoNameAssumption == NoName \notin Names

Headings == [Workspaces -> Names \cup {NoName}]

(* What a recorded approval says: its scope, the ids of its contributors,  *)
(* the aliases the reviewer acknowledged and whether the notes say why, the *)
(* findings reviewed, the files that may be copied.                        *)
ApprovalFields ==
  {"scope", "contributors", "acknowledged", "notes", "reviewed", "allowed"}

IsApproval(a) == a = [field \in ApprovalFields |-> a[field]]

-----------------------------------------------------------------------------
(* business_name and normalised_business_name, for one support set. *)

Established(support, heading) == {w \in support : heading[w] # NoName}

NameGroups(support, heading) ==
  {{v \in support : heading[v] = heading[w]} : w \in Established(support, heading)}

(* A group of same-named workspaces is several clients only when the       *)
(* reviewer named every one of them and said why in the notes.             *)
Separated(a, group) == a.notes /\ group \subseteq a.acknowledged

(* What one group of the loop adds to the count of contributors. *)
Counted(a, group) ==
  IF Cardinality(group) = 1 \/ Separated(a, group) THEN Cardinality(group) ELSE 1

Unresolved(a, groups) == {g \in groups : Cardinality(g) # 1 /\ ~Separated(a, g)}

CheckAliases(a, support, heading) ==
  LET groups == NameGroups(support, heading)
  IN  /\ Unresolved(a, groups) = {}
      /\ SumFunction([g \in groups |-> Counted(a, g)]) >= 2

CheckScope(a, scope) == a.scope = scope

CheckContributors(a, support) ==
  /\ a.contributors = support
  /\ Cardinality(support) >= 2

CheckAllowedFiles(a, files) == files \subseteq a.allowed

(* screen_candidate: a pattern, or the name of a contributor, in the text  *)
(* of a location (a skill file, or the support path of a workspace).       *)
Screen(texts, support, heading) ==
  {f \in (Patterns \cup support) \X DOMAIN texts :
      \/ f[1] \in Patterns \cap texts[f[2]]
      \/ f[1] \in Established(support, heading) /\ heading[f[1]] \in texts[f[2]]}

(* The findings of the screen are not compared with the review. *)
CoversSlip(a, scope, support, files, texts, heading) ==
  /\ CheckScope(a, scope)
  /\ CheckContributors(a, support)
  /\ CheckAliases(a, support, heading)
  /\ CheckAllowedFiles(a, files)

(* check_promotion_approval after the approval is loaded.  `files` is empty *)
(* for a prior, which copies no file.                                      *)
Covers(a, scope, support, files, texts, heading) ==
  /\ CheckScope(a, scope)
  /\ CheckContributors(a, support)
  /\ CheckAliases(a, support, heading)
  /\ CheckAllowedFiles(a, files)
  /\ Screen(texts, support, heading) \subseteq a.reviewed

(* record_screen_findings: the approval as rewritten after a promotion. *)
Stamped(a, findings) == [a EXCEPT !.reviewed = findings]

=============================================================================
