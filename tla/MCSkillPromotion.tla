------------------------- MODULE MCSkillPromotion --------------------------
(* SkillPromotion on a skill of at most two files: a reviewed version, an   *)
(* unreviewed one, and one that names client w1.                            *)
EXTENDS SkillPromotion, TLC

CONSTANTS w1, w2, n1, n2, clean, naming

MCMarksOf == [v \in Versions |-> IF v = naming THEN {n1} ELSE {}]
MCHeading == (w1 :> n1 @@ w2 :> n2)

Decision(allowed, reviewed) ==
  [scope |-> "skill", contributors |-> {w1, w2}, acknowledged |-> {},
   notes |-> FALSE, reviewed |-> reviewed, allowed |-> allowed]

(* One decision allows one file and reviewed nothing, the other allows both *)
(* files and reviewed a finding in the second.                              *)
MCDecisions == {Decision({1}, {}), Decision({1, 2}, {<<w1, 2>>})}
=============================================================================
