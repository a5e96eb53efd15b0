------------------------- MODULE MCLearningRecords --------------------------
(* Two sessions, two names of forecasts, one or two of the other records,  *)
(* and contents that differ in what the readers tell apart.                *)
EXTENDS LearningRecords, TLC

CONSTANTS s1, s2

Correction(status, value) == [type |-> "parametric", status |-> status, value |-> value]
Experiment(status, outcome, checks) ==
  [status |-> status, outcome |-> outcome, evidence |-> {"actuals"}, files |-> {"model"},
   checks |-> checks]

MCBodies ==
  "corrections" :> {Correction("applied", 1), Correction("superseded", 1), Correction("applied", 2)}
  @@ "experiments" :> {Experiment("accepted", "accepted", {"pass"}),
                       Experiment("accepted", "accepted", {"pass", "fail"})}
  @@ "forecasts" :> [predicted : {1}, score : {NoValue, 1}]
  @@ "cash_rate" :> [observed : {1, 2}]
  @@ "export" :> [rows : {1, 2}]
  @@ "scorecard" :> {}

(* A forecast to score and a correction that applies. *)
MCOnFile ==
  [p \in Paths |-> CASE p = <<"corrections", 2>> -> Correction("applied", 2)
                    [] p = <<"forecasts", 1>> -> [predicted |-> 1, score |-> NoValue]
                    [] OTHER -> Absent]

Alike == Permutations(Sessions)
=============================================================================
