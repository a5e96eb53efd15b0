--------------------------- MODULE ChampionTurns ---------------------------
(* ChampionRegistry, and whether the commands of two sessions have ever    *)
(* overlapped: while they have not, sessions take turns, and each crash    *)
(* and each restart comes between two of them.                             *)
EXTENDS ChampionRegistry

VARIABLE overlapped

TurnsInit == Init /\ overlapped = FALSE
TurnsNext ==
  /\ Next
  /\ overlapped' = (overlapped \/ \E s, t \in Sessions :
                       s # t /\ pc'[s] # "idle" /\ pc'[t] # "idle")

TurnsSpec == TurnsInit /\ [][TurnsNext]_<<vars, overlapped>>

(* Of sessions that take turns, wherever one stopped between its two saves: *)
(* an epoch marked promoted has its promotion in the registry, and the      *)
(* champion on file changes only together with a promotion that records it. *)
TurnsKeepRecord ==
  /\ [](overlapped \/ PromotedIsOnRecord)
  /\ [][active' # active /\ ~overlapped' =>
         LET p == registry'.promotions
         IN  /\ Len(p) > 0
             /\ p[Len(p)].from = active
             /\ p[Len(p)].to = active']_<<vars, overlapped>>
=============================================================================
