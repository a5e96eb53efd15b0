------------------------------- MODULE MCCashCalls -------------------------------
(* An instance of CashCalls for TLC: tables cut down from src/pyfpa/au/data,    *)
(* which keep the rules and the reviewed days but fewer holidays and states and *)
(* rounder rates and thresholds, and arguments about their edges.               *)
EXTENDS CashCalls

MonthDay(m, d) == [month |-> m, day |-> d]
Jan == Month(2026, 1)
Mo(n) == Jan + n - 1                       \* the nth month from January 2026

Holidays(on) ==
    {on[2026, 6, 8], on[2026, 10, 5], on[2026, 12, 25], on[2026, 12, 28], on[2027, 1, 1], on[2027, 1, 26],
     on[2027, 3, 1], on[2027, 3, 8], on[2027, 3, 26], on[2027, 3, 29], on[2027, 4, 26], on[2027, 5, 3],
     on[2027, 5, 31], on[2027, 6, 7], on[2027, 6, 14], on[2027, 8, 2]}

TaxRule(ordinary, december, june) ==
    [monthly_day |-> ordinary, june_day |-> june, december_day |-> december, moved |-> {5, 6}, june_moved |-> {5, 6}, dated |-> <<>>]
TaxRules(on) ==
    "NSW" :> TaxRule(7, 14, 28) @@ "QLD" :> TaxRule(7, 14, 21)
    @@ "SA" :> [TaxRule(7, 7, 28) EXCEPT !.dated = (Mo(12) :> on[2027, 1, 14])]
    @@ "TAS" :> [TaxRule(7, 7, 21) EXCEPT !.moved = {6}]

\* Thresholds and deductions are of thousands a year.
TaxEntryOf(from, threshold, deduction, rate, ramp) ==
    {[from |-> from, rate |-> [threshold |-> threshold, deduction |-> deduction, rate |-> rate, ramp |-> ramp]]}

\* The shape of the statutory files, by the number of each day.
Statutes(on) ==
    [holidays |-> Holidays(on), holidays_reviewed |-> on[2026, 1, 1]..on[2027, 8, 31],
     quarterly_due |-> 9 :> MonthDay(10, 28) @@ 12 :> MonthDay(2, 28) @@ 3 :> MonthDay(4, 28) @@ 6 :> MonthDay(7, 28),
     bas_until |-> on[2027, 6, 30], monthly_due_day |-> 21, december_agent_day |-> 21,
     agent_due |-> Mo(6) :> on[2026, 8, 25] @@ Mo(9) :> on[2026, 11, 25]
                   @@ Mo(12) :> on[2027, 2, 28] @@ Mo(15) :> on[2027, 5, 26],
     online_quarters |-> {9, 3, 6}, online_days |-> 14,
     payroll_tax |-> TaxRules(on), payroll_tax_until |-> on[2027, 6, 30],
     super_quarterly_due |-> 9 :> MonthDay(10, 28) @@ 12 :> MonthDay(1, 28) @@ 3 :> MonthDay(4, 28) @@ 6 :> MonthDay(7, 28),
     payday_super_from |-> on[2026, 7, 1], usual_period |-> 7, super_until |-> on[2027, 6, 30],
     fbt_return_due |-> MonthDay(5, 21), fbt_agent_due |-> MonthDay(6, 25), fbt_until |-> on[2027, 3, 31],
     super_table |-> {[from |-> on[2024, 7, 1], rate |-> 10], [from |-> on[2025, 7, 1], rate |-> 12]},
     payroll_tax_table |-> "NSW" :> TaxEntryOf(on[2025, 7, 1], 120, 120, 5, 0) @@ "QLD" :> TaxEntryOf(on[2025, 7, 1], 144, 144, 5, 0)
                           @@ "SA" :> TaxEntryOf(on[2025, 7, 1], 144, 60, 5, 24),
     gic_rates |-> {[from |-> on[2026, 1, 1], rate |-> 3], [from |-> on[2026, 7, 1], rate |-> 4]},
     gic_until |-> on[2026, 8, 31]]
TheData == Statutes([y \in 2024..2027, m \in 1..12, d \in 1..31 |-> Day(y, m, d)])

-----------------------------------------------------------------------------
Terms == [cycle : {"monthly", "quarterly"}, channel : {"original", "online", "agent"}, december : BOOLEAN]
Gst(first, sales, terms) ==
    [first |-> Mo(first), sales |-> sales, purchases |-> [i \in DOMAIN sales |-> 1],
     taxable |-> 1, creditable |-> 1, rate |-> 10, terms |-> terms]

\* Four months of sales above or below the purchases, and a year and a half.
TheBas ==
    {Gst(f, s, t) : f \in {4, 5, 6, 15, 16}, s \in [1..4 -> {0, 3}] \cup {<<3>>, <<3, 0>>, <<0, 3, 3>>}, t \in Terms}
    \cup {Gst(f, [i \in 1..n |-> i % 5], t) : f \in {2, 5, 7}, n \in {8, 12, 16}, t \in Terms}

Notices(late) == [q \in {Mo(9), Mo(12)} |-> [on |-> LastDay(q) + late, amount |-> 5]]
TheInstalments ==
    {[first |-> Mo(f), amounts |-> a, deferred |-> d, basis |-> b, rate |-> 2, notices |-> Notices(late), channel |-> c] :
        f \in {4, 7, 8}, a \in {<<4, 0, 1, 2, 2, 2>>, <<1, 2, 3, 4>>, <<3, -1, 2>>}, d \in BOOLEAN,
        b \in {"rate", "notified"}, late \in {-20, 2, 40}, c \in {"original", "online", "agent"}}

TheWithholders ==
    [withholder : {"small", "medium", "large"}, deferred : BOOLEAN, channel : {"original", "online", "agent"},
     paydays : {{Day(2026, 6, 3) + 14 * k : k \in 0..27}}]

TheFbt ==
    [year : {2026, 2027, 2028}, channel : {"original", "agent"}, amount : {-4, 0, 7},
     expected : {None, Day(2027, 5, 10), Day(2026, 6, 2)}, start : {Day(2027, 5, 3), Day(2026, 5, 4)}, weeks : {6}]

TheWindows == {[opening |-> 50, start |-> d, weeks |-> w] : d \in {Day(2026, 7, 6), Day(2026, 10, 26)}, w \in {4, 13}}

-----------------------------------------------------------------------------
RoleOf(salary, bonus, state, contractor, sg, start, end) ==
    [salary |-> salary, bonus_pct |-> bonus, jurisdiction |-> state, contractor |-> contractor, sg |-> sg, start |-> start, end |-> end]

\* Salaries that keep every rate a whole number; the last role is refused.
TheRoles ==
    {RoleOf(5000, 0, "NSW", FALSE, "unknown", None, None), RoleOf(10000, 50, "NSW", FALSE, "unknown", Mo(7), None),
     RoleOf(10000, 0, "SA", TRUE, "no", None, Mo(7)), RoleOf(10000, 0, "QLD", FALSE, "yes", None, None),
     RoleOf(20000, 0, "SA", FALSE, "yes", Mo(8), None), RoleOf(10000, 0, "NSW", TRUE, "unknown", None, None)}
ThePayrolls ==
    {[roles |-> r, first |-> f, horizon |-> 3, registered |-> reg, workers_comp_rate |-> 2, leave_pct |-> 8] :
        r \in {<<>>} \cup (UNION {[1..n -> TheRoles] : n \in 1..2}), f \in {Mo(6), Mo(17)}, reg \in BOOLEAN}

Fortnights == {Day(2026, 6, 10) + 14 * k : k \in 0..5}
Settled(paydays, withholder, early, missing) ==
    [paydays |-> paydays, withholding_rate |-> 20, withholder |-> withholder, deferred |-> withholder = "small",
     channel |-> "original", jurisdiction |-> "NSW", premium_terms |-> 30,
     early |-> [c \in Components |-> IF c = "super_guarantee" THEN early ELSE 0], ruled |-> Components \ missing]
TheSettlement ==
    {Settled(Fortnights, "small", 3, {}), Settled(Fortnights \ {Day(2026, 7, 8)}, "medium", 0, {}),
     Settled({}, "medium", 0, {}), Settled(Fortnights, "small", 12, {"payroll_tax"}), Settled(Fortnights, "medium", 12, {})}

TheMonths == {Mo(6)..Mo(12), Mo(8)..Mo(9)}

-----------------------------------------------------------------------------
FlowOf(name, size, recurrence, start, end, anchor) ==
    [name |-> name, amount |-> size, recurrence |-> recurrence, start |-> start, end |-> end, anchor |-> anchor]

Anchors == {Day(2025, 8, 31), Day(2026, 1, 29), Day(2026, 5, 30), Day(2026, 6, 29), Day(2026, 7, 31)}
TheFlows ==
    {FlowOf("a", 10, r, s, e, None) : r \in {"once", "weekly", "biweekly"}, s \in {1, 4, 14}, e \in {None, 6}}
    \cup {FlowOf("a", 10, r, s, None, a) : r \in {"monthly", "quarterly"}, s \in {1, 4}, a \in Anchors \cup {None}}
    \cup {FlowOf("a", 10, "monthly", 2, 9, a) : a \in Anchors}
Wages == FlowOf("wages", 7, "biweekly", 1, None, None)
Config(f, window, limit, buffer) ==
    [opening |-> 20, window |-> window, weeks |-> 13, limit |-> limit, buffer |-> buffer,
     receipts |-> {f, FlowOf("b", 3, "once", 2, None, None)}, disbursements |-> {Wages}]
TheConfigs ==
    {Config(f, w, None, 0) : f \in TheFlows, w \in {Day(2026, 6, 29), Day(2026, 6, 30), None}}
    \cup {Config(f, Day(2026, 6, 29), l, b) : f \in {g \in TheFlows : g.start = 4}, l \in {0, 10, None}, b \in {0, 5}}

Delay(name, factor, weeks) == [name |-> name, factor |-> factor, delay |-> weeks]
TheScenarios ==
    {[cfg |-> Config(f, Day(2026, 6, 29), 10, 5),
      scenario |-> [receipts |-> r, disbursements |-> {}, add_receipts |-> add, add_disbursements |-> {}]] :
        f \in {g \in TheFlows : g.start < 14},
        r \in {{Delay("a", 1, 3)}, {Delay("a", 0, 0), Delay("b", 2, 12)}, {Delay("z", 1, 1)}},
        add \in {{}, {FlowOf("n", 4, "weekly", 5, 7, None)}}}

-----------------------------------------------------------------------------
FileOf(charge, status, accepted, findings, digest) ==
    [schema |-> "supported", inner_schema |-> "supported", calculation |-> "c", digest |-> digest, malformed |-> {},
     status |-> status, charge |-> charge, accepted |-> accepted, findings |-> findings]
TheEvidence ==
    {[file |-> FileOf(c, s, a, f, d), months |-> n] :
        c \in {None, 0, 700, 1000, 1050, -1000}, s \in {"COMPUTED", "REFUSED"}, a \in BOOLEAN,
        f \in {{}, {"note:"}, {"error"}}, d \in {"c", "d"}, n \in {0, 1, 3, 4}}

TheMovements == [opening : {500}, additions : {0, 300}, depreciation : {0, 200}, closing : {300, 500, 600, 650, 701}]

Observations == {[on |-> Day(2026, 7, 30), value |-> 5], [on |-> Day(2026, 7, 31), value |-> 4], [on |-> Day(2026, 7, 31), value |-> 6],
                 [on |-> Day(2026, 8, 31), value |-> None], [on |-> None, value |-> 9], [on |-> Day(2026, 8, 3), value |-> 2]}
TheRba == [has_ids : BOOLEAN, has_series : BOOLEAN, rows : SUBSET Observations]

Cell(period, region, unit, freq, value) ==
    [period |-> period, frequency |-> freq, unit |-> unit, value |-> value, dims |-> [region |-> region, kind |-> "index"]]
Cells == {Cell(1, "AU", "pct", "Q", 3), Cell(2, "AU", "pct", "Q", 4), Cell(1, "NSW", "pct", "Q", 8), Cell(2, "AU", "idx", "Q", 4),
          Cell(3, "AU", "pct", "M", 4), Cell(3, "AU", "pct", "Q", None), Cell(4, "AU", "pct", "Q", NaN), Cell(2, "AU", "pct", "Q", 6),
          Cell(None, "AU", "pct", "Q", 7)}
TheAbs ==
    {[table |-> [has_key |-> TRUE, has_columns |-> h, columns |-> {"region", "kind"}, frequency |-> "Q", rows |-> r], dims |-> d] :
        h \in BOOLEAN, r \in SUBSET Cells, d \in {<<>>, [region |-> "AU"], [region |-> "AU", kind |-> "index"], [city |-> "x"]}}

-----------------------------------------------------------------------------
TheInputs ==
    [fy_summary |-> {[first |-> Mo(f), amounts |-> [i \in 1..n |-> i * i]] : f \in 1..14, n \in {1, 4, 9, 13}},
     bas_schedule |-> TheBas, payg_instalment_schedule |-> TheInstalments, paygw_due_rule |-> TheWithholders,
     super_due_rule |-> {Day(2026, 1, 20)..Day(2026, 4, 10), Day(2026, 6, 20)..Day(2026, 7, 20), Day(2026, 12, 10)..Day(2027, 2, 1),
                         Day(2027, 6, 1)..Day(2027, 7, 2)},
     payroll_tax_due_rule |-> [jurisdiction : {"NSW", "QLD", "SA", "TAS"}, months : {Mo(6)..Mo(19)}],
     fbt_weekly_flows |-> TheFbt, windows |-> TheWindows,
     payroll_forecast |-> ThePayrolls, settlement |-> TheSettlement, months |-> TheMonths,
     cash13_forecast |-> TheConfigs, compare_scenarios |-> TheScenarios,
     straight_line |-> TheEvidence, purchases |-> {<<>>, <<300>>, <<0, 300>>, <<100, 200, 0, 0>>},
     asset_movement |-> TheMovements, fetch_rba_series |-> TheRba, fetch_abs_series |-> TheAbs]

PlanOf(owed, upfront, instalment, frequency, first) ==
    [owed |-> owed, due |-> Day(2026, 5, 25), upfront |-> upfront, upfront_on |-> Day(2026, 5, 25) + 1, instalment |-> instalment,
     frequency |-> frequency, first_on |-> first]
ThePlans ==
    {PlanOf(owed, 300, instalment, f, first) :
        owed \in {1000, 5003, 100000}, instalment \in {170, 700}, f \in Frequencies, first \in {Day(2026, 5, 31), Day(2026, 6, 9)}}
    \cup {[PlanOf(1000, 300, 170, "weekly", Day(2026, 5, 31)) EXCEPT !.due = Day(2026, 6, 8)], PlanOf(300, 300, 50, "weekly", Day(2026, 6, 9))}
    \* A day's interest on 50.00 is 1.5 cents: the next payment ends half a cent past the debt.
    \cup {[PlanOf(5300, 300, i, f, Day(2026, 5, 26)) EXCEPT !.upfront_on = Day(2026, 5, 25)] : i \in {4000, 6000}, f \in Frequencies}
TheMaxDay == Day(2026, 9, 30)
=============================================================================
