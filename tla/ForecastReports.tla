---------------------------- MODULE ForecastReports ----------------------------
(***************************************************************************)
(* What is read off a finished forecast: its structural review             *)
(* (analysis/forecast_review.py), the sale of a unit (divestiture.py), the *)
(* briefing's headline (io/reporting.py), segments, SKUs and assumptions.  *)
(* A forecast is [months, columns, doubled, rows]: its index, its columns, *)
(* those that appear twice, and a row of whole cents by column, NaN where  *)
(* a value is not finite. Half a cent of tolerance is then equality.       *)
(***************************************************************************)
EXTENDS ForecastEvidence

Identity(column, plus, minus) == [column |-> column, plus |-> plus, minus |-> minus]

OpeningIdentities ==
    {Identity("gross_profit", {"revenue"}, {"cogs"}),
     Identity("pretax_income", {"ebitda"}, {"da", "interest"}),
     Identity("net_income", {"pretax_income"}, {"tax"}),
     Identity("free_cash_flow", {"operating_cash_flow"}, {"capex"}),
     Identity("change_in_cash", {"free_cash_flow"}, {"principal"})}

\* The tax provision is taken out of cash again: as though every company paid by month.
IdentitiesSlip(cfg) ==
    OpeningIdentities \cup
    {Identity("ebitda", {"gross_profit"}, {"opex"}),
     Identity("operating_cash_flow", {"net_income", "da", "wc_cash_impact"}, {})}

\* The configuration decides which columns there must be, not the frame.
Identities(cfg) ==
    OpeningIdentities \cup
    {Identity("ebitda", {"gross_profit"}, {"opex"} \cup IF cfg.bad_debts THEN {"bad_debts"} ELSE {}),
     IF cfg.income_tax
     THEN Identity("operating_cash_flow", {"net_income", "da", "wc_cash_impact", "tax"}, {"tax_paid"})
     ELSE Identity("operating_cash_flow", {"net_income", "da", "wc_cash_impact"}, {})}

RollForward == {"ending_cash", "change_in_cash"}
Reads(id) == {id.column} \cup id.plus \cup id.minus
Needed(cfg) == UNION {Reads(id) : id \in Identities(cfg)} \cup RollForward
FromInputs(id, row) == Add(LAMBDA c : row[c], id.plus) - Add(LAMBDA c : row[c], id.minus)

IndexProblem(f, cfg) ==
    \/ Len(f.months) # cfg.horizon
    \/ \E i \in DOMAIN f.months : f.months[i] # cfg.start + i - 1

Finding(code, status, i) == [code |-> code, status |-> status, at |-> i]

\* review_forecast: its findings, by the place of the month, 0 for the whole frame.
ReviewForecast(f, cfg) ==
    LET missing == Needed(cfg) \ f.columns
        unusable == missing \cup (f.doubled \cap Needed(cfg))
        finite(i, c) == f.rows[i][c] # NaN
        readable(id, i) == \A c \in Reads(id) : finite(i, c)
        rolled(i) == \A c \in RollForward : finite(i, c)
        before(i) == IF i = 1 THEN cfg.cash ELSE f.rows[i - 1]["ending_cash"]
        single(condition, code, status) == IF condition THEN {Finding(code, status, 0)} ELSE {}
        identity(id) ==
            IF Reads(id) \cap unusable # {} THEN {Finding(id.column, "NOT_RUN", 0)}
            ELSE {Finding(id.column, "NOT_RUN", i) : i \in {k \in DOMAIN f.rows : ~readable(id, k)}}
                 \cup {Finding(id.column, "FAIL", i) : i \in {k \in DOMAIN f.rows :
                         readable(id, k) /\ f.rows[k][id.column] # FromInputs(id, f.rows[k])}}
        roll_forward ==
            IF IndexProblem(f, cfg) \/ unusable \cap RollForward # {} THEN {Finding("CASH-ROLLFORWARD", "NOT_RUN", 0)}
            ELSE {Finding("CASH-ROLLFORWARD", "NOT_RUN", i) :
                    i \in {k \in DOMAIN f.rows : before(k) = NaN \/ ~rolled(k)}}
                 \cup {Finding("CASH-ROLLFORWARD", "FAIL", i) : i \in {k \in DOMAIN f.rows :
                         /\ before(k) # NaN /\ rolled(k)
                         /\ f.rows[k]["ending_cash"] # before(k) + f.rows[k]["change_in_cash"]}}
    IN single(IndexProblem(f, cfg), "INDEX", "FAIL")
       \cup single(missing # {}, "MISSING-COLUMN", "FAIL")
       \cup single(f.doubled \cap Needed(cfg) # {}, "DUPLICATE-COLUMN", "FAIL")
       \cup {Finding("NON-FINITE", "FAIL", i) :
               i \in {k \in DOMAIN f.rows : \E c \in Needed(cfg) \ unusable : ~finite(k, c)}}
       \cup UNION {identity(id) : id \in Identities(cfg)}
       \cup roll_forward

Failed(findings) == \E n \in findings : n.status = "FAIL"

-----------------------------------------------------------------------------
(* divest: the unit contributes for sale_month months and is gone after. *)

Positive(n) == Max({0, n})

\* Bad debts are forgotten when EBITDA is computed again.
SoldRowSlip(row, unit, saved, taxPct) ==
    LET ebitda == row["gross_profit"] - unit.gross_profit - (row["opex"] - unit.opex)
    IN [row EXCEPT !["revenue"] = @ - unit.revenue, !["cogs"] = @ - (unit.revenue - unit.gross_profit),
          !["gross_profit"] = @ - unit.gross_profit, !["opex"] = @ - unit.opex, !["ebitda"] = ebitda]

SoldRow(row, unit, saved, taxPct) ==
    LET gross == row["gross_profit"] - unit.gross_profit
        opex == row["opex"] - unit.opex
        da == row["da"] - unit.da
        capex == row["capex"] - unit.capex
        ebitda == gross - opex - (IF "bad_debts" \in DOMAIN row THEN row["bad_debts"] ELSE 0)
        interest == Positive(row["interest"] - saved)
        pretax == ebitda - da - interest
        tax == (Positive(pretax) * taxPct) \div 100
        operating == pretax - tax + da + row["wc_cash_impact"]
    IN [row EXCEPT !["revenue"] = @ - unit.revenue, !["cogs"] = @ - (unit.revenue - unit.gross_profit),
          !["gross_profit"] = gross, !["opex"] = opex, !["da"] = da, !["capex"] = capex, !["ebitda"] = ebitda,
          !["interest"] = interest, !["pretax_income"] = pretax, !["tax"] = tax, !["net_income"] = pretax - tax,
          !["operating_cash_flow"] = operating, !["free_cash_flow"] = operating - capex,
          !["change_in_cash"] = operating - capex - row["principal"]]

Divest(f, unit, sale, saved, taxPct) ==
    LET sold == [i \in DOMAIN f.rows |-> IF i <= sale THEN f.rows[i] ELSE SoldRow(f.rows[i], unit, saved, taxPct)]
        opening == f.rows[1]["ending_cash"] - f.rows[1]["change_in_cash"]
    IN IF "tax_paid" \in f.columns \/ sale \notin 0..Len(f.rows) THEN Refused
       ELSE [f EXCEPT !.rows = [i \in DOMAIN f.rows |->
               [sold[i] EXCEPT !["ending_cash"] = opening + Add(LAMBDA k : sold[k]["change_in_cash"], 1..i)]]]

\* to_briefing_md: the headline of the briefing.
Headline(f) ==
    LET sum(c) == Add(LAMBDA i : f.rows[i][c], DOMAIN f.rows)
    IN IF ~({"revenue", "ebitda", "net_income", "ending_cash"} \subseteq f.columns) \/ f.rows = <<>> THEN Refused
       ELSE [revenue |-> sum("revenue"), ebitda |-> sum("ebitda"), net_income |-> sum("net_income"),
             ending_cash |-> f.rows[Len(f.rows)]["ending_cash"]]

\* net_debt_to_ebitda, None for the infinite ratio of nil EBITDA.
NetDebtToEbitda(f, debt, cash) ==
    LET ebitda == Add(LAMBDA i : f.rows[i]["ebitda"], DOMAIN f.rows)
    IN IF ebitda = 0 THEN None ELSE Frac((debt - cash) * Len(f.rows), 12 * ebitda)

-----------------------------------------------------------------------------
(* Segments, SKUs and assumptions. *)

\* The margins are averaged over the segments.
RollUpSegmentsSlip(segments) ==
    [net_sales |-> Add(LAMBDA i : segments[i].net_sales, DOMAIN segments),
     margin |-> IF segments = <<>> THEN Whole(0)
                ELSE Frac(Add(LAMBDA i : segments[i].margin, DOMAIN segments), 100 * Len(segments))]

\* roll_up_segments: the margin (per cent for a segment) of the totals.
RollUpSegments(segments) ==
    LET sales == Add(LAMBDA i : segments[i].net_sales, DOMAIN segments)
    IN [net_sales |-> sales,
        margin |-> IF sales = 0 THEN Whole(0)
                   ELSE Frac(Add(LAMBDA i : segments[i].net_sales * segments[i].margin, DOMAIN segments), 100 * sales)]

\* sku_profitability with pareto_breakpoint, from the revenue of the SKUs, in per cent.
ByRevenue(revenues) == SortSeq(revenues, >)
ReachesSlip(revenues, k, threshold) ==
    100 * Add(LAMBDA i : revenues[i], 1..k) >= threshold * Add(LAMBDA i : revenues[i], DOMAIN revenues)
Reaches(revenues, k, threshold) ==
    LET total == Add(LAMBDA i : revenues[i], DOMAIN revenues)
        sum == Add(LAMBDA i : ByRevenue(revenues)[i], 1..k)
    IN IF total = 0 THEN threshold <= 0 ELSE 100 * sum >= threshold * total
ParetoBreakpoint(revenues, threshold) ==
    LET reached == {k \in DOMAIN revenues : Reaches(revenues, k, threshold)}
    IN IF reached = {} THEN Len(revenues) ELSE Min(reached)

\* _inputs: a path, as a sequence of fields, is supplied if each part of it was.
Origin(cfg, path) == IF \A k \in DOMAIN path : SubSeq(path, 1, k) \in cfg.set THEN "supplied" ELSE "default"
InputsOf(cfg) == [p \in DOMAIN cfg.values |-> [value |-> cfg.values[p], origin |-> Origin(cfg, p)]]

\* A default that becomes the same value supplied is taken for no change.
ChangeOfSlip(now, before, p) ==
    IF p \notin DOMAIN now THEN "removed" ELSE IF p \notin DOMAIN before THEN "added"
    ELSE IF now[p].value = before[p].value THEN "unchanged" ELSE "changed"
ChangeOf(now, before, p) ==
    IF p \notin DOMAIN now THEN "removed" ELSE IF p \notin DOMAIN before THEN "added"
    ELSE IF now[p] = before[p] THEN "unchanged" ELSE "changed"

AssumptionReport(cfg, previous) ==
    LET now == InputsOf(cfg)
        before == IF previous = None THEN <<>> ELSE InputsOf(previous)
    IN [comparable |-> previous # None /\ (previous # None => cfg.scope = previous.scope /\ cfg.methods = previous.methods),
        rows |-> [p \in DOMAIN now \cup DOMAIN before |->
                    IF previous = None THEN "not_compared" ELSE ChangeOf(now, before, p)]]
=============================================================================
