---------------------------- MODULE ForecastEvidence ----------------------------
(***************************************************************************)
(* The evidence for a model: a forecast reduced to lines and scored        *)
(* against the actuals (backtest/score.py, holdout.py, learn.py), actuals  *)
(* recovered from a stored score (portfolio/recover.py), priors mined and  *)
(* validated over clients (mine.py, validate.py) and a challenger compared *)
(* with the champion (research/epochs.py).                                 *)
(*                                                                         *)
(* Floats are exact fractions in lowest terms here: rounding, overflow,    *)
(* underflow (with recover.py's MIN_RECOVERY_DIVISOR) and non-finite       *)
(* results are left out; a missing or non-finite input is NaN. Weights are *)
(* fractions, the values of a driver whole numbers.                        *)
(***************************************************************************)
EXTENDS Integers, Sequences, SequencesExt, FiniteSetsExt, TLC

CONSTANTS
    Refused,  \* a ValueError
    None,     \* an option not given
    NaN       \* a number that is missing or not finite

Add(f(_), S) == MapThenSumSet(f, S)

Sign(n) == IF n < 0 THEN -1 ELSE 1
Size(n) == n * Sign(n)
Gcd[p \in Nat \X Nat] == IF p[2] = 0 THEN p[1] ELSE Gcd[<<p[2], p[1] % p[2]>>]
Frac(n, d) == LET g == Gcd[<<Size(n), Size(d)>>] IN [n |-> (n * Sign(d)) \div g, d |-> Size(d) \div g]
Whole(n) == Frac(n, 1)
Plus(a, b) == Frac(a.n * b.d + b.n * a.d, a.d * b.d)
Times(a, b) == Frac(a.n * b.n, a.d * b.d)
Minus(a, b) == Plus(a, Times(Whole(-1), b))
LessEq(a, b) == a.n * b.d <= b.n * a.d
Same(a, b) == a.n * b.d = b.n * a.d
Bare(a) == [a EXCEPT !.n = Size(@)]                    \* without its sign
Over(a, b) == Frac(a.n * b.d, a.d * b.n)
Total(f(_), S) == MapThenFoldSet(Plus, Whole(0), f, LAMBDA T : CHOOSE t \in T : TRUE, S)

-----------------------------------------------------------------------------
(* Scoring. A period gives the values of its lines. *)

Summed(lines) == (lines \ {"ending_cash", "gross_margin"})
                   \cup (IF "gross_margin" \in lines THEN {"revenue", "gross_profit"} ELSE {})
Known(period, f) == f \in DOMAIN period /\ period[f] # NaN

\* Missing evidence counts as nil.
AggregateSlip(periods, lines) ==
    LET at(i, l) == IF Known(periods[i], l) THEN periods[i][l] ELSE 0
        sum(l) == Add(LAMBDA i : at(i, l), 1..Len(periods))
    IN IF periods = <<>> THEN Refused
       ELSE [l \in lines |-> IF l = "ending_cash" THEN Whole(at(Len(periods), l))
                             ELSE IF l # "gross_margin" THEN Whole(sum(l))
                             ELSE IF sum("revenue") = 0 THEN Whole(0) ELSE Frac(sum("gross_profit"), sum("revenue"))]

\* A flow is summed over the periods, a balance is the last one's, a ratio is of sums.
AggregatePeriods(periods, lines) ==
    LET last == Len(periods)
        needs(i) == Summed(lines) \cup (IF i = last THEN lines \cap {"ending_cash"} ELSE {})
        sum(l) == Add(LAMBDA i : periods[i][l], 1..last)
    IN IF periods = <<>> \/ \E i \in 1..last : \E f \in needs(i) : ~Known(periods[i], f) THEN Refused
       ELSE [l \in lines |-> IF l = "ending_cash" THEN Whole(periods[last][l])
                             ELSE IF l # "gross_margin" THEN Whole(sum(l))
                             ELSE IF sum("revenue") = 0 THEN Whole(0)
                             ELSE Frac(sum("gross_profit"), sum("revenue"))]

\* A forecast is reduced the same way.
ExtractLines(forecast, lines) == AggregatePeriods(forecast, lines)

Weighted(weights) == {l \in DOMAIN weights : weights[l].n > 0}

\* reconcile: the variance over the size of the actual, so that it keeps its sign.
VariancePct(model, actual) == Over(Minus(model, actual), Bare(actual))
Reconcile(model, actual, tolerance) ==
    IF DOMAIN model # DOMAIN actual THEN Refused
    ELSE [l \in DOMAIN actual |->
            [variance |-> Minus(model[l], actual[l]),
             within |-> IF actual[l].n = 0 THEN model[l].n = 0
                        ELSE LessEq(Bare(VariancePct(model[l], actual[l])), tolerance)]]

ScoreRefused(predicted, actual, weights) ==
    \/ \E l \in DOMAIN weights : weights[l].n < 0
    \/ Weighted(weights) = {}
    \/ \E l \in Weighted(weights) : l \notin DOMAIN predicted \cap DOMAIN actual
    \/ \E l \in Weighted(weights) : actual[l].n = 0

Score(predicted, actual, weights) ==
    LET lines == Weighted(weights)
        error == [l \in lines |-> VariancePct(predicted[l], actual[l])]
        used == [l \in lines |-> Over(weights[l], Total(LAMBDA k : weights[k], lines))]
    IN IF ScoreRefused(predicted, actual, weights) THEN Refused
       ELSE [per_line |-> error, weights |-> used, signs |-> [l \in lines |-> Sign(actual[l].n)],
             fitness |-> Total(LAMBDA l : Times(used[l], Bare(error[l])), lines)]

\* holdout_backtest: the last months are predicted from the others; build is the
\* caller's, from the months fitted to a forecast by month.
HoldoutMonths(actuals, holdout) == {m \in DOMAIN actuals : Cardinality({k \in DOMAIN actuals : k > m}) < holdout}
HoldoutBacktest(actuals, build(_), holdout, weights) ==
    LET held == HoldoutMonths(actuals, holdout)
        forecast == build([m \in DOMAIN actuals \ held |-> actuals[m]])
        series(f) == [i \in 1..Cardinality(held) |-> f[SetToSortSeq(held, <)[i]]]
        predicted == ExtractLines(series(forecast), Weighted(weights))
        actual == AggregatePeriods(series(actuals), Weighted(weights))
    IN IF holdout < 1 \/ Cardinality(DOMAIN actuals) <= holdout THEN Refused
       ELSE IF DOMAIN forecast # held \/ predicted = Refused \/ actual = Refused THEN Refused
       ELSE Score(predicted, actual, weights)

\* magnitude_cap, of whole numbers with the cap in quarters.
MagnitudeCapSlip(old, new, cap) ==
    LET bound == (old * cap) \div 4
    IN IF old = 0 THEN new ELSE IF new > old + bound THEN old + bound ELSE IF new < old - bound THEN old - bound ELSE new
MagnitudeCap(old, new, cap) ==
    LET bound == (Size(old) * cap) \div 4
    IN IF old = 0 THEN new ELSE Max({old - bound, Min({new, old + bound})})

PersistentMiss(errors, k, threshold) ==
    LET last == (Len(errors) - k + 1)..Len(errors)
    IN IF k < 1 THEN Refused
       ELSE Len(errors) >= k /\ ((\A i \in last : errors[i] > threshold) \/ (\A i \in last : errors[i] < -threshold))

-----------------------------------------------------------------------------
(* Actuals recovered from a snapshot: score.signs is None on old scores. *)

SignOf(score, l) == IF score.signs = None THEN 1 ELSE score.signs[l]
Divisor(score, l) == Plus(Whole(1), Times(Whole(SignOf(score, l)), score.per_line[l]))
RecoveredLine(predicted, score, l) == Over(predicted[l], Divisor(score, l))

\* A score without signs also fits another, negative, actual.
AlsoFitsNegative(predicted, error) ==
    \/ predicted.n > 0 /\ error.n > error.d
    \/ predicted.n < 0 /\ error.n < error.d /\ error.n # 0
    \/ error.n = error.d

Unrecoverable(predicted, score, l) ==
    \/ l \notin DOMAIN predicted
    \/ score.signs # None /\ l \notin DOMAIN score.signs
    \/ predicted[l] = NaN \/ score.per_line[l] = NaN
    \/ Divisor(score, l).n = 0
    \/ IF score.signs = None THEN AlsoFitsNegative(predicted[l], score.per_line[l])
       ELSE \/ RecoveredLine(predicted, score, l).n = 0
            \/ Sign(RecoveredLine(predicted, score, l).n) # score.signs[l]

\* The error is inverted as though every actual were positive.
RecoverActualsSlip(predicted, score) ==
    IF \E l \in DOMAIN score.per_line : Divisor(score, l).n = 0 THEN Refused
    ELSE [l \in DOMAIN score.per_line |-> Over(predicted[l], Plus(Whole(1), score.per_line[l]))]
RecoverActuals(predicted, score) ==
    IF \E l \in DOMAIN score.per_line : Unrecoverable(predicted, score, l) THEN Refused
    ELSE [l \in DOMAIN score.per_line |-> RecoveredLine(predicted, score, l)]

\* best_snapshot: the first, by file, of the lowest fitness; one without a score, or
\* whose fitness is not a number from nil up, is passed over.
BestSnapshot(snapshots) ==
    LET sound(score) == score # None /\ score.fitness # NaN /\ LessEq(Whole(0), score.fitness)
        scored == {i \in DOMAIN snapshots : sound(snapshots[i].score)}
        best == {i \in scored : \A j \in scored : LessEq(snapshots[i].score.fitness, snapshots[j].score.fitness)}
    IN IF scored = {} THEN None ELSE snapshots[Min(best)]

\* client_driver_value: the first applied correction of the driver, else the best snapshot's.
DriverValue(client, driver) ==
    LET overrides == {i \in DOMAIN client.corrections : client.corrections[i].status = "applied"
                        /\ client.corrections[i].type = "parametric" /\ client.corrections[i].path = driver}
        best == BestSnapshot(client.snapshots)
    IN IF best = None THEN None
       ELSE IF overrides # {} THEN client.corrections[Min(overrides)].value
       ELSE IF driver \in DOMAIN best.assumptions THEN best.assumptions[driver] ELSE None

Sorted(values) == SortSeq(values, <)
Median(values) ==
    LET n == Len(values)
    IN Frac(Sorted(values)[(n + 1) \div 2] + Sorted(values)[n \div 2 + 1], 2)

\* mine_priors for a driver: dispersion is the square of the coefficient of variation.
Dispersion(values) ==
    LET sum == Add(LAMBDA i : values[i], DOMAIN values)
        spread == Len(values) * Add(LAMBDA i : values[i] * values[i], DOMAIN values) - sum * sum
    IN IF spread = 0 THEN Whole(0) ELSE IF sum = 0 THEN NaN ELSE Frac(spread, sum * sum)

MinePrior(clients, type, driver, support, limit) ==
    LET present == SelectSeq(clients, LAMBDA c : c.type = type /\ DriverValue(c, driver) # None)
        values == [i \in DOMAIN present |-> DriverValue(present[i], driver)]
    IN IF Len(present) < support THEN None
       ELSE IF Dispersion(values) = NaN \/ ~LessEq(Dispersion(values), limit) THEN None
       ELSE [business_type |-> type, driver |-> driver, value |-> Median(values),
             support |-> [i \in DOMAIN present |-> present[i].path]]

-----------------------------------------------------------------------------
(* validate_prior of x: each usable client is forecast again with the median *)
(* of the others. refit is the client's forecast as the driver changes.      *)

\* A stored score that can be used to score again; the slip takes it as it is found.
RescorableSlip(score) == TRUE
Rescorable(score) ==
    LET lines == DOMAIN score.per_line
    IN /\ lines # {} /\ lines = DOMAIN score.weights
       /\ \A l \in lines : score.per_line[l] # NaN /\ score.weights[l] # NaN
       /\ \A l \in lines : score.weights[l].n >= 0
       /\ Weighted(score.weights) # {}

Usable(client, driver) ==
    LET best == BestSnapshot(client.snapshots)
        recovered == RecoverActuals(best.predicted, best.score)
    IN /\ best # None /\ DriverValue(client, driver) # None
       /\ Rescorable(best.score)
       /\ recovered # Refused /\ \A l \in DOMAIN recovered : recovered[l].n # 0

PeersOf(values, i) == [j \in 1..(Len(values) - 1) |-> values[IF j < i THEN j ELSE j + 1]]

Fold(client, driver, value) ==
    LET best == BestSnapshot(client.snapshots)
        lines == DOMAIN best.score.per_line
        again == IF value \in DOMAIN client.refit /\ lines \subseteq DOMAIN client.refit[value]
                 THEN Score(client.refit[value], RecoverActuals(best.predicted, best.score), best.score.weights)
                 ELSE Refused
    IN IF again = Refused THEN Refused ELSE Minus(again.fitness, best.score.fitness)

\* The result of folds that were rescored, or of a refused one.
Validation(folds, tolerance) ==
    LET n == Len(folds)
        mean == IF \E i \in 1..n : folds[i] = Refused THEN NaN ELSE Over(Total(LAMBDA i : folds[i], 1..n), Whole(n))
    IN [folds |-> n, mean_delta |-> mean, validated |-> mean # NaN /\ LessEq(mean, tolerance)]

\* The held-out client is among its own peers.
ValidatePriorSlip(clients, driver, candidate, tolerance) ==
    LET usable == SelectSeq(clients, LAMBDA c : Usable(c, driver))
        values == [i \in DOMAIN usable |-> DriverValue(usable[i], driver)]
    IN IF Len(usable) < 2 THEN [folds |-> Len(usable), mean_delta |-> Whole(0), validated |-> FALSE]
       ELSE Validation([i \in DOMAIN usable |-> Fold(usable[i], driver, Median(values))], tolerance)

\* A candidate is for this driver and the type of these clients, which include its
\* support, and has the value that was tested. None is a validation without one.
OfTheseClients(candidate, driver, clients) ==
    candidate # None =>
        /\ candidate.driver = driver
        /\ {clients[i].type : i \in DOMAIN clients} = {candidate.business_type}
        /\ Range(candidate.support) \subseteq {clients[i].path : i \in DOMAIN clients}
Tested(candidate, values) == candidate # None => Same(candidate.value, Median(values))

ValidatePrior(clients, driver, candidate, tolerance) ==
    LET usable == SelectSeq(clients, LAMBDA c : Usable(c, driver))
        values == [i \in DOMAIN usable |-> DriverValue(usable[i], driver)]
        twice == \E i, j \in DOMAIN clients : i # j /\ clients[i].path = clients[j].path
    IN IF twice \/ ~OfTheseClients(candidate, driver, clients) THEN Refused
       ELSE IF Len(usable) < 2 THEN [folds |-> Len(usable), mean_delta |-> Whole(0), validated |-> FALSE]
       ELSE IF ~Tested(candidate, values) THEN Refused
       ELSE Validation([i \in DOMAIN usable |-> Fold(usable[i], driver, Median(PeersOf(values, i)))], tolerance)

-----------------------------------------------------------------------------
(* evaluate_challenger under objective o, with the metrics of both models.   *)

RawImprovement(direction, champion, challenger) ==
    LET change == IF direction = "higher" THEN challenger - champion ELSE champion - challenger
    IN IF champion # 0 THEN Frac(change, Size(champion))
       ELSE IF change = 0 THEN Whole(0) ELSE Whole(Sign(change))

Clamped(a) == IF LessEq(a, Whole(-1)) THEN Whole(-1) ELSE IF LessEq(Whole(1), a) THEN Whole(1) ELSE a

\* The guard looks at the improvement after the clamp.
RegressedSlip(o, raw) == o.max_regression # None /\ \E m \in DOMAIN o.metrics : ~LessEq(Times(Whole(-1), o.max_regression), Clamped(raw[m]))
Regressed(o, raw) == o.max_regression # None /\ \E m \in DOMAIN o.metrics : ~LessEq(Times(Whole(-1), o.max_regression), raw[m])

EvaluateChallenger(o, champion, challenger, checks, complexity) ==
    LET names == DOMAIN o.metrics
        raw == [m \in names |-> RawImprovement(o.metrics[m].direction, champion[m], challenger[m])]
        weight == Add(LAMBDA m : o.metrics[m].weight, names)
        weighted == Over(Total(LAMBDA m : Times(Whole(o.metrics[m].weight), Clamped(raw[m])), names), Whole(weight))
        cost == Whole(o.penalty * Max({0, complexity}))
        gain == Minus(weighted, cost)
    IN IF ~(names \subseteq DOMAIN champion \cap DOMAIN challenger) \/ ~(o.hard_checks \subseteq DOMAIN checks) THEN Refused
       ELSE [gain |-> gain, regression_guard_passed |-> ~Regressed(o, raw),
             eligible |-> /\ \A c \in o.hard_checks : checks[c] = "pass"
                          /\ ~Regressed(o, raw)
                          /\ LessEq(o.min_improvement, gain)]
=============================================================================
