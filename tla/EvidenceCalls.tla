------------------------------ MODULE EvidenceCalls ------------------------------
(***************************************************************************)
(* A session that reads evidence and reports with the library: each action *)
(* is one call of a public function of pyfpa.backtest, portfolio, research,*)
(* analysis, io or memory, on its own or on what the call before returned. *)
(***************************************************************************)
EXTENDS ForecastReports

CONSTANT Inputs    \* the arguments tried, by the function they go to

Sources == INSTANCE SourceReports

VARIABLES
    call,      \* the last call: its function and arguments
    returned   \* what it returned, by its function

vars == <<call, returned>>

NoCall == [fn |-> "none"]
answer == returned[call.fn]
Asked(fn) == call.fn = fn
Answered(fn) == Asked(fn) /\ answer # Refused

Init == call = NoCall /\ returned = [c \in {"none"} |-> None]

\* A first call, and one with the answer of the call before it.
Ask(fn, f(_)) ==
    /\ call = NoCall
    /\ \E x \in Inputs[fn] : call' = [fn |-> fn, in |-> x] /\ returned' = [c \in {fn} |-> f(x)]
Then(before, fn, more(_), f(_)) ==
    /\ Answered(before)
    /\ \E x \in more(answer) : call' = [fn |-> fn, in |-> x] /\ returned' = [c \in {fn} |-> f(x)]

-----------------------------------------------------------------------------
(* Scores, priors and challengers. *)

ScoreForecast == Ask("score_forecast", LAMBDA x : Score(x.predicted, x.actual, x.weights))
\* The score is stored with its signs, or was by a version that had none.
RecoverFromScore == Then("score_forecast", "recover_actuals",
    LAMBDA score : {[predicted |-> call.in.predicted, actual |-> call.in.actual, score |-> s] :
                      s \in {score, [score EXCEPT !.signs = None]}},
    LAMBDA x : RecoverActuals(x.predicted, x.score))
ReconcileLines == Ask("reconcile", LAMBDA x : Reconcile(x.model, x.actual, x.tolerance))

\* The builder forecasts the months of ahead as the last month it was given.
BuiltFrom(ahead, fit) == [m \in ahead |-> fit[Max(DOMAIN fit)]]
BacktestHoldout == Ask("holdout_backtest", LAMBDA x :
    HoldoutBacktest(x.actuals, LAMBDA fit : BuiltFrom(x.ahead, fit), x.holdout, x.weights))

CapMove == Ask("magnitude_cap", LAMBDA x : MagnitudeCap(x.old, x.new, x.cap))
FindMiss == Ask("persistent_miss", LAMBDA x : PersistentMiss(x.errors, x.k, x.threshold))
MineDriver == Ask("mine_priors", LAMBDA x : MinePrior(x.clients, x.type, x.driver, x.support, x.limit))
\* The candidate, or none, is validated over the clients of its type, over all, over
\* some of them or over a list that has one twice.
ListsOf(clients, type) ==
    LET same == SelectSeq(clients, LAMBDA c : c.type = type)
    IN {same, clients, SubSeq(same, 2, Len(same)), same \o SubSeq(same, 1, 1)}
CandidatesOf(prior) == {None} \cup IF prior = None THEN {} ELSE {prior, [prior EXCEPT !.value = Plus(@, Whole(1))]}
ValidateDriver == Then("mine_priors", "validate_prior",
    LAMBDA prior : [clients : ListsOf(call.in.clients, call.in.type), driver : {call.in.driver},
                    candidate : CandidatesOf(prior), tolerance : Inputs["tolerances"]],
    LAMBDA x : ValidatePrior(x.clients, x.driver, x.candidate, x.tolerance))
CompareChallenger == Ask("evaluate_challenger", LAMBDA x :
    EvaluateChallenger(x.objective, x.champion, x.challenger, x.checks, x.complexity))

(* Reports of a forecast. *)

Review == Ask("review_forecast", LAMBDA x : ReviewForecast(x.forecast, x.cfg))
SellUnit == Ask("divest", LAMBDA x : Divest(x.forecast, x.unit, x.sale, x.saved, x.taxPct))
ReviewSale == Then("divest", "review_of_sale",
    LAMBDA sold : {[forecast |-> sold, cfg |-> call.in.cfg]}, LAMBDA x : ReviewForecast(x.forecast, x.cfg))
BriefSale == Then("divest", "to_briefing_md", LAMBDA sold : {sold}, LAMBDA f :
    [headline |-> Headline(f), leverage |-> NetDebtToEbitda(f, 900, 100)])
RollUp == Ask("roll_up_segments", RollUpSegments)
BreakPoint == Ask("pareto_breakpoint", LAMBDA x : ParetoBreakpoint(x.revenues, x.threshold))
ReportAssumptions == Ask("assumption_report", LAMBDA x : AssumptionReport(x.cfg, x.previous))

(* Files from outside. *)

ReconcileFile == Ask("reconcile_source", Sources!ReconcileSource)
ReadTable == Ask("read_pl_csv", Sources!ReadPl)
Profile == Ask("profile_table", Sources!ProfileTable)
Scaffold == Ask("connector_scaffold", Sources!ScaffoldBundle)
ValidateScaffold == Then("connector_scaffold", "connector_validate",
    LAMBDA bundle : {[bundle |-> b, name |-> n, mappings |-> m] :
                       b \in {bundle, [bundle EXCEPT !.fixture = None]}, n \in {call.in.name, "other"},
                       m \in {call.in.mappings, {}}},
    LAMBDA x : Sources!ValidateBundle(x.bundle, x.name, x.mappings))
LoadContracts == Then("connector_scaffold", "load_connector_manifests",
    LAMBDA bundle : {[d \in {call.in.name} |-> bundle], [d \in {call.in.name, "other"} |-> bundle]}, Sources!LoadManifests)

ReadXero == Ask("read_xero_report", LAMBDA x : Sources!ReadReport(x.table, x.tracking))
ReadXeroFlat == Ask("read_flat_layout", Sources!ReadFlat)
SplitXero == Then("read_xero_report", "by_tracking", LAMBDA report : {report}, LAMBDA report :
    [by_account |-> Sources!ByAccount(report), by_tracking |-> Sources!ByTracking(report)])
CheckGst == Then("read_xero_report", "detect_gst_inclusive",
    LAMBDA report : {[report |-> report, revenue |-> {"Sales"}, control |-> c] : c \in Inputs["controls"]},
    LAMBDA x : Sources!DetectGst(x.report, x.revenue, x.control))
Identify == Then("read_xero_report", "account_identities", LAMBDA report : {report}, Sources!AccountIdentities)
Reimport == Then("account_identities", "compare_reimport",
    LAMBDA after : {[x EXCEPT !.after = after] : x \in Inputs["reimports"]}, Sources!CompareReimport)

Inspect == Ask("inspect_data_files", LAMBDA x : Sources!InspectFiles(x.files, x.max))
Search == Ask("search_memory", LAMBDA x : Sources!SearchMemory(x.entries, x.query, x.categories, x.limit))

Next ==
    \/ ScoreForecast \/ RecoverFromScore \/ ReconcileLines \/ BacktestHoldout
    \/ CapMove \/ FindMiss \/ MineDriver \/ ValidateDriver \/ CompareChallenger
    \/ Review \/ SellUnit \/ ReviewSale \/ BriefSale
    \/ RollUp \/ BreakPoint \/ ReportAssumptions
    \/ ReconcileFile \/ ReadTable \/ Profile \/ Scaffold \/ ValidateScaffold \/ LoadContracts
    \/ ReadXero \/ ReadXeroFlat \/ SplitXero \/ CheckGst \/ Identify \/ Reimport
    \/ Inspect \/ Search

Spec == Init /\ [][Next]_vars

-----------------------------------------------------------------------------
(* Properties. x is what the last call was asked. *)

\* What is recovered from a score is what was scored, or nothing: with the signs,
\* without them, for negative actuals and for a forecast of nil.
RecoveredTruly(x) == \A l \in DOMAIN answer : Same(answer[l], x.actual[l])

\* A score is nil for a right forecast only, and is as large as the largest error at most.
ScoredTruly(x) ==
    LET used == Weighted(x.weights)
    IN /\ answer.fitness.n = 0 <=> \A l \in used : Same(x.predicted[l], x.actual[l])
       /\ \E l \in used : LessEq(answer.fitness, Bare(answer.per_line[l]))
       /\ Same(Total(LAMBDA l : answer.weights[l], used), Whole(1))

\* A holdout is predicted from the months before it: the error of a line is that of
\* the last fitted month, once a held-out month, against the held-out months' sum;
\* and no held-out month that lacks a value counts as nil.
HoldoutUnseen(x) ==
    LET held == HoldoutMonths(x.actuals, x.holdout)
        before == x.actuals[Min(held) - 1]
        realised(l) == Add(LAMBDA m : x.actuals[m][l], held)
    IN /\ \A m \in held, l \in Summed(DOMAIN answer.per_line) : Known(x.actuals[m], l)
       /\ \A l \in DOMAIN answer.per_line \ {"gross_margin", "ending_cash"} :
         Same(answer.per_line[l], Frac(x.holdout * before[l] - realised(l), Size(realised(l))))

\* A move never passes the old value's cap or the proposal, and keeps its direction.
MoveCapped(x) ==
    /\ answer \in Min({x.old, x.new})..Max({x.old, x.new})
    /\ x.old # 0 => 4 * Size(answer - x.old) <= Size(x.old) * x.cap

\* A miss is persistent by the latest errors alone, of which one is needed at least.
MissLatest(x) == x.k > 0 /\ (Len(x.errors) >= x.k => \A e \in {-5, 5} : PersistentMiss(<<e>> \o x.errors, x.k, x.threshold) = answer)

\* What is known of a client besides its files: truth, what really happened to it;
\* measure, the weights it is scored with; days, the value it stands for or None; and
\* uses, the snapshot that is evidence of it, 0 when none can be trusted.

\* A prior lies among the values of the clients it names, who are of its type and as
\* many as were asked for, each once.
PriorSupported(x) ==
    LET named == {c \in Range(x.clients) : c.path \in Range(answer.support)}
        values == {c.days : c \in named}
    IN answer # None =>
         /\ Len(answer.support) >= x.support /\ Len(answer.support) = Cardinality(named)
         /\ None \notin values /\ \A c \in named : c.type = x.type
         /\ LessEq(Whole(Min(values)), answer.value) /\ LessEq(answer.value, Whole(Max(values)))

\* A validated prior did not, on average, make worse the clients it was not taken
\* from: every client with evidence, and no other, is forecast again with the median
\* of the others, and the mean by which they are worse is as measured against what
\* really happened to them, not against what was recovered. A candidate is answered
\* for only when it is the median of these clients, all of its type, with its support
\* among them and nobody twice.
PriorHeldOut(x) ==
    LET clients == x.clients
        used == {i \in DOMAIN clients : clients[i].uses # 0 /\ clients[i].days # None}
        median(S) == Median([k \in 1..Cardinality(S) |-> clients[SetToSeq(S)[k]].days])
        peers(i) == median(used \ {i})
        error(i, lines) ==
            LET of == clients[i]
                part(l) == Times(of.measure[l], Bare(VariancePct(lines[l], of.truth[l])))
            IN Over(Total(part, DOMAIN of.truth), Total(LAMBDA l : of.measure[l], DOMAIN of.truth))
        worse(i) == Minus(error(i, clients[i].refit[peers(i)]), error(i, clients[i].snapshots[clients[i].uses].predicted))
    IN /\ answer.folds = Cardinality(used) /\ IsInjective([i \in DOMAIN clients |-> clients[i].path])
       /\ answer.validated => Cardinality(used) >= 2 /\ LessEq(answer.mean_delta, x.tolerance)
       /\ Cardinality(used) >= 2 =>
            IF \A i \in used : peers(i) \in DOMAIN clients[i].refit
            THEN Same(answer.mean_delta, Over(Total(worse, used), Whole(Cardinality(used)))) ELSE ~answer.validated
       /\ x.candidate # None =>
            /\ Range(x.candidate.support) \subseteq {clients[i].path : i \in DOMAIN clients}
            /\ \A i \in DOMAIN clients : clients[i].type = x.candidate.business_type
            /\ Cardinality(used) >= 2 => Same(x.candidate.value, median(used))

\* A challenger that is better in a metric, or simpler, is never worse off; and
\* none is eligible with a metric that fell by more than the guard allows, a nil
\* or negative baseline included.
ChallengerOrdered(x) ==
    LET o == x.objective
        up(m) == IF o.metrics[m].direction = "higher" THEN 1 ELSE -1
        better(m) == EvaluateChallenger(o, x.champion, [x.challenger EXCEPT ![m] = @ + up(m)], x.checks, x.complexity)
        simpler == EvaluateChallenger(o, x.champion, x.challenger, x.checks, x.complexity - 1)
        noWorse(other) == /\ LessEq(answer.gain, other.gain)
                          /\ answer.eligible => other.eligible
    IN /\ \A m \in DOMAIN o.metrics : noWorse(better(m))
       /\ noWorse(simpler)
       /\ answer.eligible /\ o.max_regression # None =>
            \A m \in DOMAIN o.metrics :
               LET fall == up(m) * (x.champion[m] - x.challenger[m])
               IN IF x.champion[m] = 0 THEN fall <= 0 \/ LessEq(Whole(1), o.max_regression)
                  ELSE o.max_regression.d * fall <= o.max_regression.n * Size(x.champion[m])

\* What is scored, recovered, mined, validated or compared stands on evidence the
\* forecast had not seen, and means what it says for negative and nil amounts.
EvidenceRight ==
    /\ Answered("score_forecast") => ScoredTruly(call.in)
    /\ Answered("recover_actuals") => RecoveredTruly(call.in)
    /\ Answered("holdout_backtest") => HoldoutUnseen(call.in)
    /\ Asked("magnitude_cap") => MoveCapped(call.in)
    /\ Answered("persistent_miss") => MissLatest(call.in)
    /\ Asked("mine_priors") => PriorSupported(call.in)
    /\ Answered("validate_prior") => PriorHeldOut(call.in)
    /\ Answered("evaluate_challenger") => ChallengerOrdered(call.in)

-----------------------------------------------------------------------------
\* A review without findings means that the months are the configured ones, that
\* every identity holds in every row and that cash rolls forward; and no single
\* cell that an identity reads can then be wrong without a finding.
ReviewComplete(x) ==
    LET f == x.forecast
        before(i) == IF i = 1 THEN x.cfg.cash ELSE f.rows[i - 1]["ending_cash"]
        touched(i, c) == [f EXCEPT !.rows[i][c] = @ + 1]
    IN answer = {} =>
         /\ Len(f.rows) = x.cfg.horizon /\ \A i \in DOMAIN f.months : f.months[i] = x.cfg.start + i - 1
         /\ \A i \in DOMAIN f.rows :
              /\ \A id \in Identities(x.cfg) : f.rows[i][id.column] = FromInputs(id, f.rows[i])
              /\ f.rows[i]["ending_cash"] = before(i) + f.rows[i]["change_in_cash"]
              /\ \A c \in Needed(x.cfg) : Failed(ReviewForecast(touched(i, c), x.cfg))

\* The movement of a clean month's cash is what it received less what it paid,
\* with the columns that the configuration calls for, whatever made the frame.
CashExplained(x) ==
    LET f == x.forecast
        paid(cfg) == {"cogs", "opex", "interest", "capex", "principal", IF cfg.income_tax THEN "tax_paid" ELSE "tax"}
                       \cup IF cfg.bad_debts THEN {"bad_debts"} ELSE {}
    IN answer = {} =>
         /\ paid(x.cfg) \subseteq f.columns
         /\ \A i \in DOMAIN f.rows : f.rows[i]["change_in_cash"] =
              f.rows[i]["revenue"] + f.rows[i]["wc_cash_impact"] - Add(LAMBDA c : f.rows[i][c], paid(x.cfg))

\* What the frame lacks, repeats or leaves without a value is never passed over.
ReviewHonest(x) ==
    LET f == x.forecast
        spoilt == \/ ~(Needed(x.cfg) \subseteq f.columns \ f.doubled)
                  \/ \E i \in DOMAIN f.rows, c \in Needed(x.cfg) \cap f.columns : f.rows[i][c] = NaN
    IN spoilt => Failed(answer) /\ \E n \in answer : n.status = "NOT_RUN"

\* A sale leaves the months before it as they were; after it the forecast still
\* reviews clean when it did before, and differs from what it was by the unit.
SaleKeeps(x) ==
    LET f == x.forecast
        n == Len(f.rows)
    IN /\ \A i \in 1..x.sale : answer.rows[i] = f.rows[i]
       /\ \A i \in (x.sale + 1)..n : f.rows[i]["ebitda"] - answer.rows[i]["ebitda"] = x.unit.gross_profit - x.unit.opex
       /\ ReviewForecast(f, x.cfg) = {} => ReviewForecast(answer, x.cfg) = {}

\* The headline of a clean forecast is the cash it ends with.
HeadlineEnds(f) ==
    answer.headline.ending_cash =
        f.rows[1]["ending_cash"] - f.rows[1]["change_in_cash"] + Add(LAMBDA i : f.rows[i]["change_in_cash"], DOMAIN f.rows)

\* A margin of segments that all sell lies between theirs, and one that sells
\* nothing does not move it.
MarginBetween(segments) ==
    segments # <<>> /\ (\A i \in DOMAIN segments : segments[i].net_sales > 0) =>
        /\ RollUpSegments(Append(segments, [net_sales |-> 0, margin |-> 90])) = answer
        /\ \E i \in DOMAIN segments : LessEq(Frac(segments[i].margin, 100), answer.margin)
        /\ \E i \in DOMAIN segments : LessEq(answer.margin, Frac(segments[i].margin, 100))

\* No fewer products than the break point make the share.
BreakPointLeast(x) ==
    LET share(S) == 100 * Add(LAMBDA i : x.revenues[i], S)
        wanted == x.threshold * Add(LAMBDA i : x.revenues[i], DOMAIN x.revenues)
    IN wanted > 0 /\ x.threshold <= 100 =>
         /\ \E S \in SUBSET DOMAIN x.revenues : Cardinality(S) = answer /\ share(S) >= wanted
         /\ \A S \in SUBSET DOMAIN x.revenues : Cardinality(S) < answer => share(S) < wanted

\* A figure that is supplied today where the default stood before is a change to
\* review, whatever its value; nothing under a default object counts as supplied.
AssumptionsShown(x) ==
    x.previous # None => \A p \in DOMAIN x.cfg.values \cap DOMAIN x.previous.values :
        /\ answer.rows[p] = "unchanged" =>
             x.cfg.values[p] = x.previous.values[p] /\ Origin(x.cfg, p) = Origin(x.previous, p)
        /\ SubSeq(p, 1, 1) \notin x.cfg.set => Origin(x.cfg, p) = "default"

-----------------------------------------------------------------------------
\* A file that passes holds no account twice, meets every control and no other,
\* and every cent of it is in a total or in what was knowingly left out.
FilePasses(x) ==
    LET rows == Sources!Posted(x.table)
        controls == Sources!ExpectedFromJson(x.pairs)
        left == answer.ignored \cup answer.unmapped
    IN answer.passed =>
         /\ IsInjective([i \in DOMAIN rows |-> rows[i].account])
         /\ DOMAIN answer.mapped_totals = DOMAIN controls
         /\ \A t \in DOMAIN controls : Sources!Within(answer.mapped_totals[t], controls[t], x.tolerance)
         /\ answer.source_total = Add(LAMBDA t : answer.mapped_totals[t], DOMAIN answer.mapped_totals)
                                    + Sources!TotalWhere(rows, LAMBDA a : a \in left)
         /\ answer.unmapped # {} => x.allow_unmapped

\* What a scaffold accepts its own contract accepts: a fresh bundle validates.
ScaffoldValidates(x) ==
    x.mappings # {} /\ x.bundle.fixture # None => answer.passed

\* The accounts of a report come to its net profit when the reader knows the name of
\* every section, and no option of a tracking category is lost or counted twice.
XeroComplete(x) ==
    LET rows == x.table.rows
        columns == IF x.tracking THEN DOMAIN x.table.columns ELSE {1}
    IN (\A i \in DOMAIN rows : Sources!Heading(rows[i]) => Sources!Section(rows[i])) =>
         Add(LAMBDA p : answer[p].amount, DOMAIN answer) = Add(LAMBDA c : x.table.net[c], columns)
XeroSplit ==
    \A a \in DOMAIN answer.by_account :
        answer.by_account[a] = Add(LAMBDA o : IF a \in DOMAIN answer.by_tracking[o] THEN answer.by_tracking[o][a] ELSE 0,
                                   DOMAIN answer.by_tracking)

\* Every row of a flat file that has anything in it is a row of the report, to the cent.
FlatWhole(x) ==
    LET filled == {i \in DOMAIN x.rows : x.rows[i].filled}
    IN /\ Len(answer) = Cardinality(filled)
       /\ Add(LAMBDA i : answer[i].amount, DOMAIN answer) = Add(LAMBDA i : Sources!AmountOf(x.rows[i]), filled)

\* The basis is told apart at the control itself and at a tenth above it.
GstTold(x) ==
    LET total == Sources!SumWhere(x.report, LAMBDA r : r.amount > 0 /\ r.account \in x.revenue)
    IN total > 0 /\ x.control # None =>
         /\ total = x.control => answer = FALSE
         /\ 10 * total = 11 * x.control => answer = TRUE

\* What is reported of a second import rebuilds it from the first.
ReimportRebuilds(x) ==
    LET name(c) == IF c \in DOMAIN answer.renamed THEN answer.renamed[c][2] ELSE x.before[c].name
        options(c) == IF c \in DOMAIN answer.tracking THEN answer.tracking[c] ELSE x.before[c].options
        kept == [c \in DOMAIN x.before \ DOMAIN answer.removed |-> [name |-> name(c), options |-> options(c)]]
    IN kept @@ answer.added = x.after

\* An inspection is complete or says that it is not.
InspectionTold(x) ==
    LET all == {i \in DOMAIN x.files : Sources!Candidate(x.files[i])}
    IN /\ answer.truncated <=> Cardinality(all) > Len(answer.files)
       /\ Len(answer.files) <= x.max
       /\ Add(LAMBDA c : answer.counts[c], DOMAIN answer.counts) = Len(answer.files)
       /\ ~answer.truncated => \A i \in all : x.files[i].signals = {} \/ Sources!Classify(x.files[i]) \in DOMAIN answer.counts

\* No entry that is left out is more relevant than one that is shown.
SearchOrdered(x) ==
    /\ Len(answer) <= x.limit
    /\ \A i \in DOMAIN answer, e \in x.entries :
         e \notin Range(SubSeq(answer, 1, i)) /\ (x.categories = {} \/ e.category \in x.categories) /\ x.query \cap e.tokens # {}
           => Sources!Relevance(e, x.query) <= Sources!Relevance(answer[i], x.query)

\* Nothing that a report or a reader leaves out or doubles goes unnoticed, nor what it
\* takes with the wrong sign under the section headings that the reader knows.
ReportsReconcile ==
    /\ Asked("review_forecast") => ReviewComplete(call.in) /\ CashExplained(call.in) /\ ReviewHonest(call.in)
    /\ Answered("divest") => SaleKeeps(call.in)
    /\ Answered("to_briefing_md") => HeadlineEnds(call.in)
    /\ Asked("roll_up_segments") => MarginBetween(call.in)
    /\ Asked("pareto_breakpoint") => BreakPointLeast(call.in)
    /\ Asked("assumption_report") => AssumptionsShown(call.in)
    /\ Answered("reconcile_source") => FilePasses(call.in)
    /\ Answered("connector_validate") => ScaffoldValidates(call.in)
    /\ Answered("read_xero_report") => XeroComplete(call.in)
    /\ Answered("read_flat_layout") => FlatWhole(call.in)
    /\ Answered("by_tracking") => XeroSplit
    /\ Asked("detect_gst_inclusive") => GstTold(call.in)
    /\ Answered("compare_reimport") => ReimportRebuilds(call.in)
    /\ Asked("inspect_data_files") => InspectionTold(call.in)
    /\ Answered("search_memory") => SearchOrdered(call.in)

\* What the reader's docstring and its recipe say of signs: rows under a section whose
\* name contains expense, cost, liabilit or equity are negated, others are not. Such a
\* section that is not among the reader's labels leaves the sign of the one above it.
Deducted == Sources!Negated \cup {"Direct Costs"}
XeroSignsStated ==
    Answered("read_xero_report") =>
        LET rows == call.in.table.rows
            under(i) == rows[Max({k \in 1..(i - 1) : Sources!Heading(rows[k])})].text
        IN \A p \in DOMAIN answer : answer[p].amount = rows[p[1]].amounts[p[2]] * IF under(p[1]) \in Deducted THEN -1 ELSE 1
=============================================================================
