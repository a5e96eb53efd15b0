------------------------- MODULE PromotionRegimes --------------------------
(* Two regimes of the library. Alone, sessions work one after the other:    *)
(* each may stop at any step but with a file torn, and files are edited by  *)
(* hand between operations. Otherwise sessions and edits interleave freely. *)
EXTENDS PromotionLibrary

VARIABLE alone

RegimesInit == Init /\ alone \in BOOLEAN

Others(s) == Sessions \ {s}

AloneNext ==
  \/ \E s \in Sessions :
       /\ \A t \in Others(s) : At(t, "idle") /\ attested[t] = {}
       /\ Session(s) \/ (pc[s] \notin Torn /\ Crash(s))
  \/ /\ \A s \in Sessions : At(s, "idle")
     /\ \/ \E c \in Candidates : RemoveApproval(c)
        \/ \E e \in Entries : EditPriors(e)
        \/ \E w \in Workspaces, n \in Names \cup {NoName} : EditHeading(w, n)

RegimesNext ==
  /\ \/ alone /\ AloneNext
     \/ ~alone /\ Next
  /\ UNCHANGED alone

RegimesSpec == RegimesInit /\ [][RegimesNext]_<<vars, alone>>

(* Of sessions that work one after the other, wherever one of them stopped: *)
(* a decision on file is the one that stands, a withdrawal names every      *)
(* client whose configuration took the prior, and a workspace the seed      *)
(* index names has the seed in its own record.                              *)
AloneTraceable ==
  alone => DecisionStands /\ WithdrawalNamesSeeded /\ IndexedSeedsAreRecorded
=============================================================================
