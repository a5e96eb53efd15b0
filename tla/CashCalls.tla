------------------------------- MODULE CashCalls -------------------------------
(***************************************************************************)
(* A session that plans cash with the library: each action is one call of  *)
(* the public functions of pyfpa.au and pyfpa.cash13, on its own or on     *)
(* what the call before it returned (obligations become weekly flows and   *)
(* the flows a forecast; a payroll is settled and its payments placed).    *)
(* The functions keep nothing between calls; a payment plan, a loop with   *)
(* state of its own, is the module PaymentPlan.                            *)
(***************************************************************************)
EXTENDS PaymentPlan, Payroll, TLC

CONSTANTS
    Inputs,    \* the arguments tried, by the function they go to
    NaN        \* a cell that holds no value

Cash == INSTANCE WeeklyCash
Assets == INSTANCE FixedAssets

\* The arguments x, and those of y it does not give.
With(x, y) == [k \in DOMAIN x \cup DOMAIN y |-> IF k \in DOMAIN x THEN x[k] ELSE y[k]]

Roles ==
    [salary : Nat, bonus_pct : Nat, jurisdiction : DOMAIN Data.payroll_tax_table, contractor : BOOLEAN,
     sg : {"yes", "no", "unknown"}, start : Int \cup {None}, end : Int \cup {None}]

\* The types of the arguments tried.
ASSUME PayrollAssumption ==
    /\ Inputs["payroll_forecast"] \subseteq
         [roles : Seq(Roles), first : Int, horizon : Nat, registered : BOOLEAN, workers_comp_rate : Nat, leave_pct : Nat]
    /\ Inputs["settlement"] \subseteq
         [paydays : SUBSET Int, withholding_rate : Nat, withholder : {"small", "medium", "large"}, deferred : BOOLEAN,
          channel : Channels, jurisdiction : DOMAIN Data.payroll_tax, premium_terms : Nat,
          early : [Components -> Nat], ruled : SUBSET Components]
    /\ \A s \in Inputs["settlement"] : IsFiniteSet(s.paydays)
    /\ \A months \in Inputs["months"] : months \subseteq Int /\ \E a, b \in months : months = a..b
    /\ Inputs["windows"] \subseteq [opening : Int, start : Int, weeks : Nat]

\* Amounts are counted in a unit that divides a month's pay over its paydays.
ASSUME PaydayUnitAssumption ==
    \A x \in Inputs["payroll_forecast"], s \in Inputs["settlement"] :
        \A costs \in {PayrollForecast(x)} \ {Refused}, c \in PaydayComponents, m \in PayrollMonths(x) :
            Paydays(s, m) # {} => Cost(With([rows |-> costs], s), c, m) % Cardinality(Paydays(s, m)) = 0

\* And a unit in which the premium on each role is whole.
ASSUME PremiumUnitAssumption ==
    \A x \in Inputs["payroll_forecast"] : \A i \in DOMAIN x.roles :
        ((x.roles[i].salary + Bonus(x.roles[i])) * x.workers_comp_rate) % 100 = 0

\* What the schemas of cash13 admit: a flow, a configuration, and a scenario's change.
Flows ==
    [name : STRING, amount : Nat, recurrence : {"once", "weekly", "biweekly", "monthly", "quarterly"},
     start : Nat \ {0}, end : (Nat \ {0}) \cup {None}, anchor : Int \cup {None}]
Configs ==
    [opening : Int, window : Int \cup {None}, weeks : Nat \ {0}, limit : Nat \cup {None}, buffer : Nat,
     receipts : SUBSET Flows, disbursements : SUBSET Flows]
Changes == [name : STRING, factor : Nat, delay : Nat]

ASSUME CashAssumption ==
    /\ Inputs["cash13_forecast"] \subseteq Configs
    /\ Inputs["compare_scenarios"] \subseteq
         [cfg : Configs, scenario : [receipts : SUBSET Changes, disbursements : SUBSET Changes,
                                     add_receipts : SUBSET Flows, add_disbursements : SUBSET Flows]]
    /\ \A cfg \in Inputs["cash13_forecast"] \cup {x.cfg : x \in Inputs["compare_scenarios"]} :
         IsFiniteSet(cfg.receipts) /\ IsFiniteSet(cfg.disbursements)
    /\ \A x \in Inputs["compare_scenarios"] :
         IsFiniteSet(x.scenario.add_receipts) /\ \A f \in x.scenario.add_receipts : Cash!FlowFits(f)

\* A list of flows is a set here, so an added flow has to be told from a base one.
ASSUME AddedFlowsAssumption ==
    \A x \in Inputs["compare_scenarios"] : \A f \in x.cfg.receipts, g \in x.scenario.add_receipts : f.name # g.name

\* The cells of the files read.
ASSUME FilesAssumption ==
    /\ \A x \in Inputs["straight_line"] : x.file.charge \in Int \cup {None} /\ x.months \in Nat
    /\ Inputs["purchases"] \subseteq Seq(Int)
    /\ \A t \in Inputs["fetch_rba_series"] :
         IsFiniteSet(t.rows) /\ \A r \in t.rows : r.on \in Int \cup {None} /\ r.value \in Int \cup {None}
    /\ NaN \notin Int

VARIABLES
    call,      \* the last call: its function and arguments
    returned   \* what it returned, by its function

vars == <<call, returned, planVars>>

NoCall == [fn |-> "none"]
answer == returned[call.fn]
Asked(fn) == call.fn = fn

Init == PlanIdle /\ call = NoCall /\ returned = [c \in {"none"} |-> None]

\* A first call, and one on the answer a of the call before it.
Ask(fn, f(_)) ==
    /\ call = NoCall /\ phase = "none"
    /\ \E x \in Inputs[fn] : call' = [fn |-> fn, in |-> x] /\ returned' = [c \in {fn} |-> f(x)]
    /\ UNCHANGED planVars
Then(before, fn, more(_), f(_)) ==
    /\ Asked(before) /\ answer # Refused
    /\ \E x \in more(answer) : call' = [fn |-> fn, in |-> x] /\ returned' = [c \in {fn} |-> f(x)]
    /\ UNCHANGED planVars

-----------------------------------------------------------------------------
(* Obligations. *)

SummariseYears == Ask("fy_summary", LAMBDA x : [by \in {"fy", "half", "quarter"} |-> FySummary(x, by)])
ScheduleBas == Ask("bas_schedule", LAMBDA x :
    BasSchedule(With(x.terms, MonthlyGst(x.first, x.sales, x.purchases, x.taxable, x.creditable, x.rate))))
ScheduleInstalments == Ask("payg_instalment_schedule", InstalmentSchedule)
PayInstalments == Then("payg_instalment_schedule", "payg_instalment_payments", LAMBDA due : {due}, PaymentsByMonth)
DueWithholding == Ask("paygw_due_rule", LAMBDA x : [d \in x.paydays |-> WithholdingDue(x, d)])
DueSuper == Ask("super_due_rule", LAMBDA x : [d \in x |-> SuperDue(d)])
DuePayrollTax == Ask("payroll_tax_due_rule", LAMBDA x : [m \in x.months |-> PayrollTaxDue(x.jurisdiction, m)])
PlaceFbt == Ask("fbt_weekly_flows", FbtFlows)

(* The settlements of a BAS in the weeks of a window, and the cash then. *)
AsFlow(f) == [name |-> f.label, amount |-> f.amount, recurrence |-> "once", start |-> f.week, end |-> None, anchor |-> None]
WindowOf(x) == WeeklyFlows(x.rows, x.start, x.weeks)
CashConfig(flows, window) ==
    [opening |-> window.opening, window |-> window.start, weeks |-> window.weeks, limit |-> None, buffer |-> 0,
     receipts |-> {AsFlow(f) : f \in flows.receipts}, disbursements |-> {AsFlow(f) : f \in flows.disbursements}]

PlaceBas == Then("bas_schedule", "gst_weekly_flows",
    LAMBDA due : {With([rows |-> due], w) : w \in Inputs["windows"]}, WindowOf)
ForecastBasCash == Then("gst_weekly_flows", "cash_of_bas",
    LAMBDA flows : {With([flows |-> flows], call.in)}, LAMBDA x : Cash!Forecast13(CashConfig(x.flows, x)))

(* Payroll, its settlement by months, and its payments by weeks. *)
ForecastPayroll == Ask("payroll_forecast", PayrollForecast)
SettlePayroll == Then("payroll_forecast", "settlement_events",
    LAMBDA costs : {With([rows |-> costs], s) : s \in Inputs["settlement"]}, SettlementEvents)
RollLiabilities == Then("settlement_events", "monthly_settlement",
    LAMBDA events : {[events |-> events, months |-> m] : m \in Inputs["months"]},
    LAMBDA x : [c \in Components |-> MonthlySettlement(x.events, c, x.months)])
PlacePayments == Then("settlement_events", "settlement_weekly_flows",
    LAMBDA events : {With([events |-> events], w) : w \in Inputs["windows"]},
    LAMBDA x : WeeklyPayments(x.events, x.start, x.weeks))

(* The 13-week cash, with and without a scenario. *)
ForecastCash == Ask("cash13_forecast", LAMBDA x :
    IF Cash!ConfigRefused(x) THEN Refused ELSE [forecast |-> Cash!Forecast13(x), runway |-> Cash!Runway(x, Cash!Forecast13(x))])
CompareScenario == Ask("compare_scenarios", LAMBDA x : Cash!Compared(x.cfg, x.scenario))

(* Depreciation from evidence, and driver series. *)
SpreadCharge == Ask("straight_line", LAMBDA x :
    IF Assets!LoadEvidence(x.file) = Refused THEN Refused ELSE Assets!StraightLine(x.file, x.months))
SpendOnAssets == Then("straight_line", "cash_and_expense",
    LAMBDA shares : {[shares |-> shares, purchases |-> p] : p \in Inputs["purchases"]},
    LAMBDA x : Assets!CashAndExpense(x.shares, x.purchases))
RollAssets == Ask("asset_movement", LAMBDA x : Assets!AssetMovement(x.opening, x.additions, x.depreciation, x.closing))
FetchRba == Ask("fetch_rba_series", Assets!RbaSeries)
FetchAbs == Ask("fetch_abs_series", LAMBDA x : Assets!AbsSeries(x.table, x.dims))

EstimatePlan == call = NoCall /\ PlanNext /\ UNCHANGED <<call, returned>>

Next ==
    \/ SummariseYears \/ ScheduleBas \/ ScheduleInstalments \/ PayInstalments
    \/ DueWithholding \/ DueSuper \/ DuePayrollTax \/ PlaceFbt
    \/ PlaceBas \/ ForecastBasCash
    \/ ForecastPayroll \/ SettlePayroll \/ RollLiabilities \/ PlacePayments
    \/ ForecastCash \/ CompareScenario
    \/ SpreadCharge \/ SpendOnAssets \/ RollAssets \/ FetchRba \/ FetchAbs
    \/ EstimatePlan

\* A payment plan is one call: once begun, its loop runs on.
Spec == Init /\ [][Next]_vars /\ WF_planVars(PlanDay)

-----------------------------------------------------------------------------
(* Properties. x is what the last call was asked. *)

Answered(fn) == Asked(fn) /\ answer # Refused
Net(flows) == Add(LAMBDA f : f.amount, flows.receipts) - Add(LAMBDA f : f.amount, flows.disbursements)
InWindow(x, d) == x.start <= d /\ d < x.start + 7 * x.weeks

\* The fiscal halves and quarters of a series add up to its years, and these to
\* the whole of it.
YearsAdd(x) ==
    /\ Add(LAMBDA k : answer["fy"][k], DOMAIN answer["fy"]) = Sum(x, MonthsOf(x))
    /\ \A y \in DOMAIN answer["fy"], by \in {"half", "quarter"} :
         answer["fy"][y] = Add(LAMBDA k : answer[by][k], {k \in DOMAIN answer[by] : k[1] = y})

\* Every month whose period is complete is settled once, on the first business day
\* from the nominal date, after its period and in order, and no concession makes
\* a statement due earlier.
BasTimed(x) ==
    LET series == With(x.terms, MonthlyGst(x.first, x.sales, x.purchases, x.taxable, x.creditable, x.rate))
        closes(m) == IF x.terms.cycle = "monthly" THEN m ELSE QuarterEnd(m)
    IN /\ Add(LAMBDA r : r.amount, answer) = Sum(series, {m \in MonthsOf(series) : closes(m) <= LastMonth(series)})
       /\ \A r \in answer :
            /\ BusinessDay(r.due) /\ \A d \in r.nominal..(r.due - 1) : ~BusinessDay(d)
            /\ r.due > LastDay(r.period)
            /\ LET plain == IF x.terms.cycle = "monthly" THEN MonthlyDue(r.period, FALSE) ELSE QuarterlyDue(r.period, "original")
               IN plain = Refused \/ plain <= r.due
       /\ \A r, o \in answer : r.period < o.period => r.due <= o.due

\* Two adjacent windows hold what one window of both holds, each amount in the
\* week of its day.
FlowsTimed(x) ==
    LET later == WeeklyFlows(x.rows, x.start + 7, x.weeks - 1)
        first == WeeklyFlows(x.rows, x.start, 1)
    IN /\ Net(answer) = -Add(LAMBDA r : r.amount, {r \in x.rows : InWindow(x, r.due)})
       /\ Net(answer) = Net(first) + Net(later)
       /\ \A f \in answer.receipts \cup answer.disbursements :
            /\ f.week \in 1..x.weeks /\ f.amount >= 0
            /\ \E r \in x.rows : r.period = f.label /\ r.due - x.start \in (7 * f.week - 7)..(7 * f.week - 1)

\* The cash at the end has moved by exactly what fell due in the window.
CashOfBas(x) ==
    answer.ending[x.weeks] = x.opening - Add(LAMBDA r : r.amount, {r \in x.rows : InWindow(x, r.due)})

\* An instalment notified late is never due within 21 days of the notice, no
\* deferral makes one due earlier, and the instalments by rate are the rate of
\* the finished quarters' income.
InstalmentsTimed(x) ==
    /\ \A r \in answer :
         /\ r.due > LastDay(r.period)
         /\ x.basis = "notified" => r.due >= x.notices[r.period].on + IF LateNotice(r.period, x.notices[r.period]) THEN 21 ELSE 0
         /\ \E o \in {InstalmentSchedule([x EXCEPT !.deferred = FALSE, !.channel = "original"])} :
              o = Refused \/ \A s \in o : s.period = r.period => s.due <= r.due
    /\ x.basis = "rate" =>
         Add(LAMBDA r : r.amount, answer) = x.rate * Sum(x, {m \in MonthsOf(x) : QuarterEnd(m) <= LastMonth(x)})

PaymentsKept(due) == Add(LAMBDA m : answer[m], DOMAIN answer) = Add(LAMBDA r : r.amount, due)

\* What is withheld on a later day is due no earlier, except that a deferring
\* medium withholder's last month of a quarter waits for the quarter's statement.
WithholdingTimed(x) ==
    \A d \in x.paydays : answer[d] # Refused =>
        /\ answer[d] > LastDay(MonthOf(d)) /\ BusinessDay(answer[d])
        /\ \A e \in x.paydays : d <= e /\ answer[e] # Refused /\ (x.withholder = "medium" => ~x.deferred)
                                 => answer[d] <= answer[e]
        /\ \E plain \in {WithholdingDue([x EXCEPT !.deferred = FALSE, !.channel = "original"], d)} :
             plain = Refused \/ plain <= answer[d]

\* Super for a payday under the new rule is due with the seventh business day; for
\* an earlier one, after its quarter. Within a rule a later payday is due no earlier.
SuperTimed(paydays) ==
    \A d \in paydays : answer[d] # Refused =>
        /\ IF d >= Data.payday_super_from
           THEN Cardinality({e \in (d + 1)..answer[d] : ~Weekend(e) /\ e \notin Data.holidays}) = 7
           ELSE answer[d] > LastDay(QuarterEnd(MonthOf(d)))
        /\ BusinessDay(answer[d])
        /\ \A e \in paydays : (d <= e /\ answer[e] # Refused /\ (d >= Data.payday_super_from <=> e >= Data.payday_super_from))
                               => answer[d] <= answer[e]

\* Payroll tax is due once a month, in the month after.
PayrollTaxTimed(x) == \A m \in x.months : answer[m] # Refused => MonthOf(answer[m]) = m + 1

\* A refund of FBT is never taken for cash before the day it is expected on, and a
\* return is due on a business day after its year.
FbtTimed(x) ==
    LET flows == answer.receipts \cup answer.disbursements
        due == NextBusinessDay(FbtNominal(x.year, x.channel))
    IN /\ x.amount < 0 /\ x.expected = None => flows = {}
       /\ \A f \in flows : InWindow(x, IF x.amount < 0 THEN x.expected ELSE due)
       /\ BusinessDay(due) /\ due > Day(x.year, 3, 31)

\* Whatever is asked of the tax calendar is answered with dates after the period,
\* on business days, in order, and with every amount exactly once.
ObligationsTimed ==
    /\ Answered("fy_summary") => YearsAdd(call.in)
    /\ Answered("bas_schedule") => BasTimed(call.in)
    /\ Answered("gst_weekly_flows") => FlowsTimed(call.in)
    /\ Answered("cash_of_bas") => CashOfBas(call.in)
    /\ Answered("payg_instalment_schedule") => InstalmentsTimed(call.in)
    /\ Answered("payg_instalment_payments") => PaymentsKept(call.in)
    /\ Answered("paygw_due_rule") => WithholdingTimed(call.in)
    /\ Answered("super_due_rule") => SuperTimed(call.in)
    /\ Answered("payroll_tax_due_rule") => PayrollTaxTimed(call.in)
    /\ Answered("fbt_weekly_flows") => FbtTimed(call.in)

-----------------------------------------------------------------------------
\* One employer pays for its roles what it would pay for them apart, and at least
\* as much payroll tax (there is one threshold); and a bonus carries the same
\* super, tax and premium as salary.
PayrollAdds(x) ==
    LET folded == [i \in DOMAIN x.roles |->
                     [x.roles[i] EXCEPT !.salary = @ + Bonus(x.roles[i]), !.bonus_pct = 0]]
        one == PayrollForecast([x EXCEPT !.roles = <<x.roles[1]>>])
        others == PayrollForecast([x EXCEPT !.roles = Tail(x.roles)])
        plain == PayrollForecast([x EXCEPT !.roles = folded])
    IN \A m \in PayrollMonths(x) :
         /\ \A c \in {"gross", "bonuses", "super", "workers_comp", "leave"} :
              answer[m][c] = one[m][c] + others[m][c]
         /\ answer[m].payroll_tax >= one[m].payroll_tax + others[m].payroll_tax
         /\ TotalCash(answer[m]) = TotalCash(plain[m])

\* The events of a payroll come to its cash cost, each paid no earlier than it is
\* owed and no later than it is due.
PayrollPaid(x) ==
    /\ Add(LAMBDA e : e.amount, answer) = Add(LAMBDA m : TotalCash(x.rows[m]), DOMAIN x.rows)
    /\ \A e \in answer : e.obligation <= e.cash /\ e.cash <= e.due /\ MonthOf(e.obligation) = e.period

\* A month closes owing what has arisen and is paid later, wherever the months begin.
LiabilitiesRight(x) ==
    \A c \in Components, m \in x.months :
        answer[c][m].closing =
          Add(LAMBDA e : e.amount, {e \in x.events : e.component = c /\ MonthOf(e.obligation) <= m /\ m < MonthOf(e.cash)})

\* The weeks of a window hold the payments of its days.
PaymentsPlaced(x) ==
    /\ Add(LAMBDA p : p.amount, answer) = Add(LAMBDA e : e.amount, {e \in x.events : InWindow(x, e.cash)})
    /\ \A p \in answer : p.week \in 1..x.weeks

\* A payroll is owed and paid once: its costs, its dated events, its liabilities
\* by month and its payments by week are the same money.
PayrollSettles ==
    /\ Answered("payroll_forecast") /\ call.in.roles # <<>> => PayrollAdds(call.in)
    /\ Answered("settlement_events") => PayrollPaid(call.in)
    /\ Answered("monthly_settlement") => LiabilitiesRight(call.in)
    /\ Answered("settlement_weekly_flows") => PaymentsPlaced(call.in)

-----------------------------------------------------------------------------
\* The days on which a monthly or quarterly flow falls: the anchor's day of the
\* month, or the last day of a month that has no such day.
FlowDays(f, cfg) ==
    {d \in cfg.window..(cfg.window + 7 * cfg.weeks - 1) :
       /\ d >= f.anchor
       /\ (MonthOf(d) - MonthOf(f.anchor)) % Cash!Step(f) = 0
       /\ \/ Cash!DayOfMonth(d) = Cash!DayOfMonth(f.anchor)
          \/ d = LastDay(MonthOf(d)) /\ Cash!DayOfMonth(d) < Cash!DayOfMonth(f.anchor)}

\* A flow that recurs by month is in the week of each of its days from its first
\* to its last week, and in no other; the weeks add up to the ending cash, and
\* the runway says where it breaches.
CashPlaced(cfg) ==
    LET flows == {f \in cfg.receipts \cup cfg.disbursements : f.anchor # None}
        ending == answer.forecast.ending
        all(c) == Add(LAMBDA w : answer.forecast[c][w], 1..cfg.weeks)
        breaches(w) == ending[w] + cfg.limit < cfg.buffer
    IN /\ \A f \in flows : \E days \in {FlowDays(f, cfg)}, of \in {Cash!Expanded(f, cfg)} :
            \A w \in 1..cfg.weeks :
              of[w] = f.amount * Cardinality({d \in days :
                WeekOf(d, cfg.window) = w /\ f.start <= w /\ (f.end = None \/ w <= f.end)})
       /\ ending[cfg.weeks] = cfg.opening + all("receipts") - all("disbursements")
       /\ cfg.limit # None =>
            IF answer.runway.first_breach = None THEN answer.runway.min_cash + cfg.limit >= cfg.buffer
            ELSE /\ breaches(answer.runway.first_breach)
                 /\ \A w \in 1..(answer.runway.first_breach - 1) : ~breaches(w)

\* A flow that is delayed falls that many weeks later, in full or scaled, and
\* nothing else of the base moves.
ScenarioMoves(x) ==
    LET cfg == x.cfg
        of == [f \in cfg.receipts \cup x.scenario.add_receipts |-> Cash!Expanded(f, cfg)]
        moved(f, c, w) == IF w > c.delay THEN c.factor * of[f][w - c.delay] ELSE 0
        changed(f, w) == IF Cash!ChangesOf(f, x.scenario.receipts) = {} THEN of[f][w]
                         ELSE moved(f, CHOOSE c \in x.scenario.receipts : c.name = f.name, w)
        added(w) == Add(LAMBDA f : of[f][w], x.scenario.add_receipts)
    IN (\A f \in cfg.receipts : f.anchor = None) =>
         \A w \in 1..cfg.weeks :
            answer.scenario.receipts[w] = Add(LAMBDA f : changed(f, w), cfg.receipts) + added(w)

\* The shares of a charge come to the charge to the cent, differ by at most a
\* cent, the larger first; evidence edited after it was written is refused.
ChargeSpread(x) ==
    LET size(i) == Assets!Magnitude(answer[i])
    IN /\ x.file.digest = x.file.calculation
       /\ Add(LAMBDA i : answer[i], 1..x.months) = x.file.charge
       /\ \A i, j \in 1..x.months : i < j => size(i) - size(j) \in {0, Assets!Cent}

\* A purchase is cash and the charge is expense; neither is counted twice or lost.
AssetsSpent(x) ==
    /\ Add(LAMBDA i : answer[i].profit, DOMAIN answer) = -Add(LAMBDA i : x.shares[i], DOMAIN x.shares)
    /\ Add(LAMBDA i : answer[i].cash, DOMAIN answer) = -Add(LAMBDA i : x.purchases[i], DOMAIN x.purchases)

\* Of a month the series shows what was observed last, whatever the order of the
\* rows, and of an observation only what every selected row agrees on.
RbaRead(x) ==
    \A r \in x.rows : r.on # None /\ r.value # None =>
        /\ MonthOf(r.on) \in DOMAIN answer
        /\ (\A o \in x.rows : (o.value # None /\ o.on # None /\ o.on > r.on) => MonthOf(o.on) # MonthOf(r.on))
             => answer[MonthOf(r.on)] = r.value
AbsRead(x) ==
    \A r, o \in x.table.rows :
        (\A c \in DOMAIN x.dims : r.dims[c] = x.dims[c] /\ o.dims[c] = x.dims[c])
          => r.unit = o.unit /\ r.dims = o.dims /\ (r.period # None /\ r.value \in Int => answer[r.period] = r.value)

\* Every amount is put where it belongs and nowhere else: a cash flow in its
\* weeks, a charge in its months, an observation in its period.
AmountsPlaced ==
    /\ Answered("cash13_forecast") => CashPlaced(call.in)
    /\ Answered("compare_scenarios") => ScenarioMoves(call.in)
    /\ Answered("straight_line") => ChargeSpread(call.in)
    /\ Answered("cash_and_expense") => AssetsSpent(call.in)
    /\ Answered("fetch_rba_series") => RbaRead(call.in)
    /\ Answered("fetch_abs_series") => AbsRead(call.in)
=============================================================================
