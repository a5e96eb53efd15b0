------------------------ MODULE MCChampionRegistry -------------------------
(* ChampionRegistry with a baseline and two challengers; the strict         *)
(* objective takes strong evidence only.                                    *)
EXTENDS ChampionRegistry, TLC

CONSTANTS strict, loose, weak, strong

BothEligible == (strict :> {strong} @@ loose :> {weak, strong})
(* Strong evidence is of a more complex challenger, which strict penalises. *)
BothCosts == (strict :> (weak :> 0 @@ strong :> 1) @@ loose :> (weak :> 0 @@ strong :> 0))

Interchangeable ==
  Permutations(Sessions) \cup Permutations(Models) \cup Permutations(Epochs)
=============================================================================
