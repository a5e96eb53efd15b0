------------------------ MODULE MCPromotionRegimes -------------------------
(* Both regimes in one run: alone with every decision and both clients,     *)
(* otherwise over one decision and one client.                              *)
EXTENDS MCPromotionLibrary, PromotionRegimes

InOneClient ==
  /\ \A c \in Candidates : granted'[c] \subseteq OneDecision
  /\ \A s \in Sessions : client'[s] # w4
  /\ headings'[w4] = headings[w4]

MCInit == RegimesInit /\ (alone \/ headings = Distinct)
MCNext == RegimesNext /\ (alone \/ InOneClient)
MCSpec == MCInit /\ [][MCNext]_<<vars, alone>>

(* Both candidates have the same scope, contributors and text. *)
Alike == Permutations(Sessions) \cup Permutations(Candidates)
=============================================================================
