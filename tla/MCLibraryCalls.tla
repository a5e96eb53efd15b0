------------------------------ MODULE MCLibraryCalls ------------------------------
(* The calls of CashCalls and of EvidenceCalls together, for TLC: one session   *)
(* makes either.                                                                *)
EXTENDS MCCashCalls, SequencesExt

Evidence == INSTANCE EvidenceCalls
Scores == INSTANCE ForecastEvidence

W(n) == [n |-> n, d |-> 1]
Half == [n |-> 1, d |-> 2]
LinesOf(values) == [{"revenue", "ebitda"} -> {W(v) : v \in values}]
WeightsOf(r, e) == [revenue |-> W(r), ebitda |-> W(e)]

TheScores == [predicted : LinesOf({-4, 0, 2, 5}), actual : LinesOf({-4, 0, 2, 5}), weights : {WeightsOf(1, 1), WeightsOf(3, 0), WeightsOf(1, 3)}]
TheReconciled == [model : LinesOf({-4, 0, 2}), actual : LinesOf({-4, 0}), tolerance : {Half}]

Actual(r, g, c) == [revenue |-> r, gross_profit |-> g, ending_cash |-> c]
Seen == {Actual(4, 2, 1), Actual(8, -2, 3), Actual(0, 0, -2), Actual(-2, 1, 5)}
TheHoldouts ==
    [actuals : [1..3 -> Seen] \cup {<<Actual(4, 2, 1), Actual(8, NaN, 3), Actual(6, 1, 3)>>, <<Actual(4, 2, 1)>>},
     ahead : {{2, 3}, {3}}, holdout : {1, 2},
     weights : {[revenue |-> W(1), gross_margin |-> W(1), ending_cash |-> W(2)], [revenue |-> Half, gross_margin |-> W(0), ending_cash |-> W(0)]}]

TheMoves == [old : {-8, -4, 0, 4, 8}, new : {-20, -9, -8, -4, 0, 3, 5, 20}, cap : {1, 2}]
TheMisses == [errors : UNION {[1..n -> {-3, 0, 2, 4}] : n \in 1..3}, k : {0, 1, 2}, threshold : {0, 2}]

-----------------------------------------------------------------------------
(* A client forecasts its lines from its debtor days; half days are tried. *)
Forecast(scale, twice) == [revenue |-> W(scale * twice), ebitda |-> W(11 - twice), ending_cash |-> W(twice - 4)]
Equal == WeightsOf(1, 1)
Mostly == WeightsOf(1, 3)
Mixed == [revenue |-> W(2), ebitda |-> W(1), ending_cash |-> W(1)]    \* a half and two quarters
SnapshotOf(days, scale, truth, weights) ==
    [assumptions |-> [dso |-> days], predicted |-> Forecast(scale, 2 * days),
     score |-> Scores!Score(Forecast(scale, 2 * days), truth, weights)]
Unscored(s) == [s EXCEPT !.score = None]
Unsigned(s) == [s EXCEPT !.score.signs = None]
NotFinite(s) == [s EXCEPT !.score.fitness = NaN]

\* uses is the place of the snapshot that is its evidence, 0 without one.
ClientOf(scale, truth, measure, uses, snapshots, days) ==
    [path |-> 0, type |-> "trade", truth |-> truth, measure |-> measure, uses |-> uses, days |-> days, snapshots |-> snapshots,
     corrections |-> <<>>, refit |-> [q \in {Scores!Frac(k, 2) : k \in 6..14} |-> Forecast(scale, (2 * q.n) \div q.d)]]
Truth(r, e) == [revenue |-> W(r), ebitda |-> W(e)]
WithCash(c, truth) == truth @@ [ending_cash |-> W(c)]
Once(days, scale, truth, measure) == ClientOf(scale, truth, measure, 1, <<SnapshotOf(days, scale, truth, measure)>>, days)
Without(client, drivers) == [client EXCEPT !.refit = [q \in DOMAIN @ \ drivers |-> @[q]]]

Fixed(status, value) == [status |-> status, type |-> "parametric", path |-> "dso", value |-> value]
Corrected(client) == [client EXCEPT !.corrections = <<Fixed("open", 3), Fixed("applied", 4), Fixed("applied", 6)>>, !.days = 4]
TheClients ==
    {ClientOf(1, Truth(10, 2), Equal, 1, <<Unsigned(SnapshotOf(5, 1, Truth(10, 2), Equal))>>, 5),
     Once(6, 1, Truth(10, -2), Mostly), Once(6, 1, Truth(12, -3), Equal), Once(7, 1, WithCash(5, Truth(13, -3)), Mixed),
     Corrected(Once(5, -1, Truth(-8, 1), Mostly)),
     ClientOf(1, Truth(8, 1), Equal, 0, <<Unsigned(SnapshotOf(4, 1, Truth(8, 1), Equal)), SnapshotOf(6, 1, Truth(8, 1), Equal)>>, 4),
     ClientOf(-1, Truth(-8, 1), Equal, 0, <<Unsigned(SnapshotOf(5, -1, Truth(-8, 1), Equal))>>, 5),
     ClientOf(1, Truth(12, 3), Equal, 0, <<NotFinite(SnapshotOf(4, 1, Truth(12, 3), Equal))>>, None),
     Without(ClientOf(1, Truth(12, -1), Mostly, 2,
                      <<Unscored(SnapshotOf(6, 1, Truth(12, -1), Mostly)), SnapshotOf(5, 1, Truth(12, -1), Mostly)>>, 5), {W(5)})}

(* Scores that were edited: what they say of the client is not to be used. *)
Doctored(score) ==
    {[score EXCEPT !.weights = [revenue |-> W(1)]], [score EXCEPT !.weights["revenue"] = W(-1)],
     [score EXCEPT !.weights = WeightsOf(0, 0)], [score EXCEPT !.weights["ebitda"] = NaN], [score EXCEPT !.per_line["ebitda"] = NaN],
     [score EXCEPT !.per_line["ebitda"] = W(1)],
     [score EXCEPT !.per_line = [revenue |-> score.per_line["revenue"]]], [score EXCEPT !.signs = [revenue |-> 1]]}
TheDamaged ==
    LET truth == Truth(10, -2)
        whole == SnapshotOf(6, 1, truth, Mostly)
        client(s) == ClientOf(1, truth, Mostly, 0, <<s>>, 6)
        other == SnapshotOf(7, 1, truth, Mostly)
    IN {client([whole EXCEPT !.score = d]) : d \in Doctored(whole.score)}
       \cup {client([whole EXCEPT !.predicted = v]) : v \in {[revenue |-> W(12)], [revenue |-> W(12), ebitda |-> NaN], Truth(12, 0)}}
       \* An old score of a forecast of nil, and a fitness that no score has.
       \cup {client([Unsigned(SnapshotOf(6, 1, Truth(11, 3), Equal)) EXCEPT !.predicted["ebitda"] = W(0), !.score.per_line["ebitda"] = Half])}
       \cup {ClientOf(1, truth, Mostly, u, s, IF u = 0 THEN None ELSE 7) :
               <<u, s>> \in {<<0, <<[whole EXCEPT !.score.fitness = W(-1)]>>>>, <<2, <<[whole EXCEPT !.score.fitness = W(-1)], other>>>>}}

\* A line that does not count, and a client of another type.
Weightless ==
    LET truth == Truth(10, 1)
        one == SnapshotOf(6, 1, truth, WeightsOf(2, 0))
        all == SnapshotOf(6, 1, truth, Equal).score
    IN ClientOf(1, truth, WeightsOf(1, 0), 1, <<[one EXCEPT !.score = [all EXCEPT !.fitness = one.score.fitness, !.weights = WeightsOf(1, 0)]]>>, 6)
Retail == [Once(6, 1, Truth(10, 2), Equal) EXCEPT !.type = "retail"]

Steady == {Once(6, 1, Truth(12, -3), Equal), Once(6, 1, Truth(10, -2), Mostly), Once(7, 1, WithCash(5, Truth(13, -3)), Mixed)}
TheClientLists ==
    (UNION {[1..n -> TheClients] : n \in {2, 3}})
    \cup {<<a, d, b>> : a \in Steady, b \in Steady, d \in TheDamaged \cup {Weightless, Retail}}
    \cup {<<d, a>> : a \in Steady, d \in TheDamaged \cup {Weightless, Retail}}
TheMined ==
    {[clients |-> [i \in DOMAIN c |-> [c[i] EXCEPT !.path = i]], type |-> "trade", driver |-> "dso", support |-> 2, limit |-> [n |-> 1, d |-> 20]] :
        c \in TheClientLists}

Metric(direction, weight) == [direction |-> direction, weight |-> weight]
TheChallengers ==
    [objective : [metrics : {[mape |-> Metric("lower", 2), bias |-> Metric("higher", 1)]}, hard_checks : {{"ties"}},
                  max_regression : {None, Half, W(1)}, min_improvement : {W(0), Half}, penalty : {1}],
     champion : [{"mape", "bias"} -> {-2, 0, 1}], challenger : [{"mape", "bias"} -> {-3, -1, 0, 2}],
     checks : {[ties |-> "pass"], [ties |-> "fail"], <<>>}, complexity : {-1, 1}]

-----------------------------------------------------------------------------
ForecastRow(revenue, interest, bad, taxPaid, cash, cfg) ==
    LET ebitda == revenue - 40 - 30 - IF cfg.bad_debts THEN bad ELSE 0
        pretax == ebitda - 5 - interest
        tax == IF pretax > 0 THEN pretax \div 2 ELSE 0
        operating == pretax - tax + 5 + 4 + IF cfg.income_tax THEN tax - taxPaid ELSE 0
        columns == [revenue |-> revenue, cogs |-> 40, gross_profit |-> revenue - 40, opex |-> 30, ebitda |-> ebitda, da |-> 5,
                    interest |-> interest, pretax_income |-> pretax, tax |-> tax, net_income |-> pretax - tax, wc_cash_impact |-> 4,
                    operating_cash_flow |-> operating, capex |-> 7, free_cash_flow |-> operating - 7, principal |-> 2,
                    change_in_cash |-> operating - 9, ending_cash |-> cash + operating - 9]
    IN columns @@ (IF cfg.bad_debts THEN [bad_debts |-> bad] ELSE <<>>) @@ (IF cfg.income_tax THEN [tax_paid |-> taxPaid] ELSE <<>>)

TheSettings == [bad_debts : BOOLEAN, income_tax : BOOLEAN, horizon : {3}, start : {Mo(7)}, cash : {50}]
FrameOf(cfg, revenues) ==
    LET first == ForecastRow(revenues[1], 6, 3, 1, cfg.cash, cfg)
        second == ForecastRow(revenues[2], 3, 0, 9, first["ending_cash"], cfg)
        third == ForecastRow(revenues[3], 1, 2, 0, second["ending_cash"], cfg)
    IN [months |-> <<Mo(7), Mo(8), Mo(9)>>, columns |-> DOMAIN first, doubled |-> {}, rows |-> <<first, second, third>>]
Dropped(f, c) == [f EXCEPT !.columns = @ \ {c}, !.rows = [i \in DOMAIN f.rows |-> [k \in f.columns \ {c} |-> f.rows[i][k]]]]
Spoilt(f) ==
    {[f EXCEPT !.rows[i][c] = v] : i \in 1..3, c \in f.columns, v \in {7, NaN}}
    \cup {Dropped(f, c) : c \in f.columns} \cup {[f EXCEPT !.doubled = {c}] : c \in f.columns}
    \cup {[f EXCEPT !.months = <<Mo(7), Mo(9), Mo(8)>>], [f EXCEPT !.months = SubSeq(@, 1, 2), !.rows = SubSeq(@, 1, 2)]}
TheReviews ==
    UNION {{[forecast |-> f, cfg |-> cfg] : f \in Spoilt(FrameOf(cfg, <<100, 60, 200>>))} : cfg \in TheSettings}
    \cup {[forecast |-> FrameOf(made, <<100, 60, 200>>), cfg |-> cfg] : made \in TheSettings, cfg \in TheSettings}
Unit(revenue, gross) == [revenue |-> revenue, gross_profit |-> gross, opex |-> 8, da |-> 2, capex |-> 1]
TheSales ==
    {[forecast |-> FrameOf(cfg, r), cfg |-> cfg, unit |-> u, sale |-> m, saved |-> s, taxPct |-> t] :
        cfg \in TheSettings, r \in {<<100, 60, 200>>, <<40, 90, 30>>}, u \in {Unit(30, 20), Unit(5, 0)}, m \in 0..4, s \in {0, 2, 100}, t \in {0, 30}}

TheSegments == UNION {[1..n -> [net_sales : {0, 10, 30}, margin : {-20, 40, 60}]] : n \in 0..2}
TheRevenues == [revenues : UNION {[1..n -> {0, 1, 5, 9}] : n \in 0..4}, threshold : {0, 50, 80, 100}]

Fields == {<<"wc">>, <<"wc", "dso">>, <<"tax">>}
Settings(values) == [values : values, set : SUBSET Fields, scope : {"a"}, methods : {"dso", "profile"}]
Given == {[f \in Fields |-> IF f = <<"wc">> THEN 1 ELSE d] : d \in {30, 45}} \cup {[f \in {<<"wc">>, <<"tax">>} |-> 30]}
TheAssumptions == [cfg : Settings(Given), previous : {None} \cup {p \in Settings(Given) : p.methods = "dso"}]

-----------------------------------------------------------------------------
Line(account, cents, extra, filled) == [account |-> account, code |-> "200", option |-> "", amount |-> cents, extra |-> extra, filled |-> filled]
TheLines == {Line("a", 5, FALSE, TRUE), Line("a", -2, FALSE, TRUE), Line("b", 5, FALSE, TRUE), Line("c", 3, FALSE, TRUE),
             Line("b", None, FALSE, TRUE), Line(None, None, FALSE, FALSE), Line(None, 4, FALSE, TRUE), Line("c", NaN, FALSE, TRUE), Line("c", 3, TRUE, TRUE)}
Table(lines) == [header |-> "fits", suffix |-> "csv", rows |-> lines]
TheTables ==
    {Table(r) : r \in UNION {[1..n -> TheLines] : n \in 0..2}}
    \cup {[Table(r) EXCEPT !.header = "repeated"] : r \in [1..1 -> TheLines]} \cup {[Table(<<>>) EXCEPT !.suffix = "pdf"]}
    \cup {Table(<<Line("a", 5, FALSE, TRUE), Line("b", 5, FALSE, TRUE), Line("c", 3, FALSE, TRUE)>>)}
Rule(status, target) == [status |-> status, target |-> target, rationale |-> "r"]
Map(value, rule) == [source |-> "s", value |-> value, rule |-> rule]
TheMappings == {{}, {Map("a", Rule("mapped", "revenue")), Map("b", Rule("ignored", ""))},
                {Map("a", Rule("mapped", "revenue")), Map("b", Rule("mapped", "revenue")), Map("c", Rule("mapped", "opex"))}}
Pair(key, cents) == [key |-> key, amount |-> cents]
TheControls == {None, <<Pair("revenue", 5)>>, <<Pair("revenue", 10), Pair("opex", 3)>>, <<Pair("revenue", 5), Pair("revenue", 9)>>}
TheFiles ==
    [table : TheTables, source : {"s"}, registered : {{"s"}}, mappings : TheMappings, pairs : TheControls,
     tolerance : {[cents |-> 0, percent |-> 0], [cents |-> 2, percent |-> 0]}, allow_unmapped : BOOLEAN]
    \cup [table : {Table(<<>>)}, source : {"s"}, registered : {{}}, mappings : {{}}, pairs : {None}, tolerance : {[cents |-> 0, percent |-> 5]}, allow_unmapped : {FALSE}]
TheBundles == [table : TheTables, source : {"s"}, registered : {{"s"}}, mappings : TheMappings, name : {"ledger"}, columns : {<<"Account", "Amount">>, <<"Account", "Account">>}]

(* A report of one to three sections, with the totals and the net profit Xero prints. *)
Amounts(n, cents) == [c \in 1..n |-> IF c = 1 THEN cents ELSE cents - 3]
ReportRow(lead, text, code, amounts) == [lead |-> lead, text |-> text, code |-> code, amounts |-> amounts]
Sections == {[lead |-> "", text |-> "Income", code |-> "200", account |-> "Sales", sign |-> 1],
             [lead |-> "", text |-> "Other Income", code |-> "270", account |-> "Interest", sign |-> 1],
             [lead |-> "Less", text |-> "Cost of Sales", code |-> "310", account |-> "Freight", sign |-> -1],
             [lead |-> "Less", text |-> "Operating Expenses", code |-> "", account |-> "Sales", sign |-> -1],
             [lead |-> "", text |-> "Direct Costs", code |-> "320", account |-> "Freight", sign |-> -1]}
SectionRows(s, n) ==
    <<ReportRow(s.lead, s.text, "", [c \in 1..n |-> None]), ReportRow("", s.account, s.code, Amounts(n, 11)),
      ReportRow("Total", s.text, "", Amounts(n, 11))>>
ReportOf(sections, columns) ==
    LET n == Len(columns)
    IN [title |-> "Profit and Loss", columns |-> columns, periods |-> {"2026", "2025"},
        rows |-> FlattenSeq([i \in DOMAIN sections |-> SectionRows(sections[i], n)]) \o <<ReportRow("", "Net Profit", "", Amounts(n, 99))>>,
        net |-> [c \in 1..n |-> Add(LAMBDA i : sections[i].sign * Amounts(n, 11)[c], DOMAIN sections)]]
TheSectionings == (UNION {[1..n -> Sections] : n \in 1..2}) \cup {t \in [1..3 -> Sections] : IsInjective(t) /\ t[1].text = "Income"}
TheXero ==
    {[table |-> ReportOf(s, c), tracking |-> t] : s \in TheSectionings,
        c \in {<<"2026">>, <<"2026", "2025">>, <<"Sydney", "Unassigned">>, <<"Sydney", "Total">>}, t \in BOOLEAN}
    \cup {[table |-> [ReportOf(<<s>>, <<"2026">>) EXCEPT !.rows = @ \o <<ReportRow("Total", "Tools Hire", "", <<4>>)>>, !.net = <<@[1] + 4>>], tracking |-> FALSE] : s \in Sections}

Source(period) == [id |-> "s", entity |-> "e", currency |-> "AUD", kind |-> "csv", periods |-> period]
Identity(name, options) == [name |-> name, options |-> options]
TheReimports ==
    [before : {<<>>, "200" :> Identity("Sales", {""}), "200" :> Identity("Turnover", {"Sydney"}) @@ "310" :> Identity("Freight", {""}) @@ "999" :> Identity("Old", {""})},
     after : {<<>>}, source : {Source("2026")}, previous_source : {Source("2025"), [Source("2026") EXCEPT !.entity = "f"]},
     mappings : {{Map("200", Rule("mapped", "revenue")), Map("310", Rule("ignored", ""))}}, previous_mappings : {None, {}}]

File(extension, context, signals, skipped) == [extension |-> extension, context |-> context, signals |-> signals, skipped |-> skipped]
TheFolders ==
    [files : UNION {[1..n -> {File("csv", FALSE, {"inventory", "operations"}, FALSE), File("md", TRUE, {"balance_sheet"}, FALSE),
                              File("md", FALSE, {}, FALSE), File("pdf", FALSE, {}, FALSE), File("csv", FALSE, {"ar_aging"}, TRUE)}] : n \in 0..3},
     max : {1, 2, 3}]
EntryOf(at, tokens, title, category) == [at |-> at, tokens |-> tokens, title |-> title, path |-> {"corrections"}, category |-> category]
TheSearches ==
    [entries : SUBSET {EntryOf(1, {"dso", "corrections"}, {}, "corrections"), EntryOf(2, {"dso", "tax", "corrections"}, {"dso"}, "corrections"),
                       EntryOf(3, {"tax"}, {"tax"}, "learnings"), EntryOf(4, {"dso", "tax"}, {}, "learnings")},
     query : {{}, {"dso"}, {"dso", "tax"}, {"corrections"}}, categories : {{}, {"learnings"}}, limit : {0, 1, 2}]

-----------------------------------------------------------------------------
AllInputs == TheInputs @@
    [score_forecast |-> TheScores, reconcile |-> TheReconciled, holdout_backtest |-> TheHoldouts, magnitude_cap |-> TheMoves,
     persistent_miss |-> TheMisses, mine_priors |-> TheMined, tolerances |-> {W(0), W(1)}, evaluate_challenger |-> TheChallengers,
     review_forecast |-> TheReviews, divest |-> TheSales, roll_up_segments |-> TheSegments, pareto_breakpoint |-> TheRevenues,
     assumption_report |-> TheAssumptions, reconcile_source |-> TheFiles, read_pl_csv |-> TheTables, profile_table |-> TheTables,
     connector_scaffold |-> TheBundles, read_xero_report |-> TheXero, read_flat_layout |-> TheTables, controls |-> {None, -5, 10, 11, 20, 22},
     reimports |-> TheReimports, inspect_data_files |-> TheFolders, search_memory |-> TheSearches]

\* One session makes calls of either kind; a payment plan is not interrupted.
CallNext == Next \/ (phase = "none" /\ Evidence!Next /\ UNCHANGED planVars)
CallSpec == Init /\ [][CallNext]_vars /\ WF_planVars(PlanDay)

EvidenceRight == Evidence!EvidenceRight
ReportsReconcile == Evidence!ReportsReconcile
XeroSignsStated == Evidence!XeroSignsStated
=============================================================================
