------------------------ MODULE MCPromotionLibrary -------------------------
(* Instances of PromotionLibrary for TLC: two priors of one driver, mined   *)
(* from w1 and w2; the path of w2 holds the name "n1".                      *)
EXTENDS PromotionLibrary, TLC

CONSTANTS w1, w2, w3, w4, c1, c2, n1, n2

MCScopeOf   == [c \in Candidates |-> "driver"]
MCSupportOf == [c \in Candidates |-> {w1, w2}]
MCTextOf    == [c \in Candidates |-> (w1 :> {} @@ w2 :> {n1})]

Distinct == [w \in Workspaces |-> IF w = w1 THEN n1 ELSE n2]
OneName  == [w \in Workspaces |-> n1]

Decision(acknowledged, reviewed) ==
  [scope |-> "driver", contributors |-> {w1, w2}, acknowledged |-> acknowledged,
   notes |-> TRUE, reviewed |-> reviewed, allowed |-> {}]

(* One decision reviewed the finding w1 raises, the other acknowledges the  *)
(* aliases and reviewed both findings.                                      *)
MCDecisions == {Decision({}, {<<w1, w2>>}),
                Decision({w1, w2}, {<<w1, w2>>, <<w2, w2>>})}

BothHeadings == {Distinct, OneName}
OneHeading   == {Distinct}
OneDecision  == {Decision({}, {<<w1, w2>>})}
=============================================================================
