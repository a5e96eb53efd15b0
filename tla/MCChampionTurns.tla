-------------------------- MODULE MCChampionTurns --------------------------
(* The instance of MCChampionRegistry, with sessions that may take turns.   *)
EXTENDS MCChampionRegistry, ChampionTurns
=============================================================================
