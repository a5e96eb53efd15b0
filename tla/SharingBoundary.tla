-------------------------- MODULE SharingBoundary --------------------------
(***************************************************************************)
(* What the shared library promises, whatever its files go through: one    *)
(* client's information reaches another client's work only under an        *)
(* approval a practitioner recorded for exactly that candidate.            *)
(*                                                                         *)
(* An approval, once given, licenses the candidate for good: removing the  *)
(* record stops later promotions and seedings, it cannot undo what a       *)
(* configuration already took.                                             *)
(***************************************************************************)
CONSTANTS Candidates, Clients

VARIABLES approved,   \* candidates a practitioner approved
          validated,  \* candidates a cross-client backtest accepted
          shared,     \* candidates the library published
          used        \* client -> candidates its configuration took

vars == <<approved, validated, shared, used>>

Init ==
  /\ approved = {} /\ validated = {} /\ shared = {}
  /\ used = [w \in Clients |-> {}]

Approve(c) ==
  /\ approved' = approved \cup {c}
  /\ UNCHANGED <<validated, shared, used>>

Accept(c) ==
  /\ validated' = validated \cup {c}
  /\ UNCHANGED <<approved, shared, used>>

Share(c) ==
  /\ c \in approved \cap validated
  /\ shared' = shared \cup {c}
  /\ UNCHANGED <<approved, validated, used>>

Use(w, S) ==
  /\ S \subseteq approved
  /\ used' = [used EXCEPT ![w] = @ \cup S]
  /\ UNCHANGED <<approved, validated, shared>>

Next ==
  \/ \E c \in Candidates : Approve(c) \/ Accept(c) \/ Share(c)
  \/ \E w \in Clients, S \in SUBSET Candidates : Use(w, S)

Spec == Init /\ [][Next]_vars
=============================================================================
