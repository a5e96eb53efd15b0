------------------------------ MODULE WeeklyCash ------------------------------
(***************************************************************************)
(* The direct 13-week cash forecast (pyfpa/cash13): recurring flows placed *)
(* in weeks, the running cash, the runway and the scenarios over a base.   *)
(***************************************************************************)
EXTENDS TaxDates

Weeks(cfg) == 1..cfg.weeks

MonthLength(m) == FirstDay(m + 1) - FirstDay(m)
DayOfMonth(day) == day - FirstDay(MonthOf(day)) + 1

\* _months_later: the anchor's day of the month, or the month's last day.
MonthsLater(anchor, n) ==
    LET m == MonthOf(anchor) + n
        d == DayOfMonth(anchor)
    IN FirstDay(m) + (IF d < MonthLength(m) THEN d ELSE MonthLength(m)) - 1

FlowFits(f) ==
    /\ f.end = None \/ f.end >= f.start
    /\ (f.recurrence \in {"monthly", "quarterly"}) <=> (f.anchor # None)

Step(f) == IF f.recurrence = "monthly" THEN 1 ELSE 3
Lower(a, b) == IF a < b THEN a ELSE b
Higher(a, b) == IF a > b THEN a ELSE b

\* The scan begins with the month of the window, whatever the step.
MonthlyWeeksSlip(f, window, last) ==
    LET before == MonthOf(window) - MonthOf(f.anchor)
        week(n) == WeekOf(MonthsLater(f.anchor, Step(f) * n), window)
        from == Higher(0, before)
    IN {n \in from..(from + last \div 4 + 2) : f.start <= week(n) /\ week(n) <= last}

\* _monthly_weeks: the occurrences, by number, from the first that can reach week 1.
\* They are four weeks apart or more.
MonthlyWeeks(f, window, last) ==
    LET before == MonthOf(window) - MonthOf(f.anchor)
        week(n) == WeekOf(MonthsLater(f.anchor, Step(f) * n), window)
        from == Higher(0, before \div Step(f))
    IN {n \in from..(from + last \div 4 + 2) : f.start <= week(n) /\ week(n) <= last}

\* expand_flow: the amount of flow f by week. Two dates may share a week.
Expanded(f, cfg) ==
    LET end == IF f.end = None THEN cfg.weeks ELSE f.end
        dated == IF f.anchor = None THEN <<>>
                 ELSE [n \in MonthlyWeeks(f, cfg.window, Lower(end, cfg.weeks)) |->
                         WeekOf(MonthsLater(f.anchor, Step(f) * n), cfg.window)]
        hits(w) ==
          CASE f.recurrence = "once" -> IF w = f.start THEN 1 ELSE 0
            [] f.recurrence = "weekly" -> IF f.start <= w /\ w <= end THEN 1 ELSE 0
            [] f.recurrence = "biweekly" ->
                 IF f.start <= w /\ w <= end /\ (w - f.start) % 2 = 0 THEN 1 ELSE 0
            [] OTHER -> Cardinality({n \in DOMAIN dated : dated[n] = w})
    IN [w \in Weeks(cfg) |-> f.amount * hits(w)]

\* What Cash13Config and expand_flow refuse.
ConfigRefused(cfg) ==
    \/ cfg.buffer > 0 /\ cfg.limit = None
    \/ \E f \in cfg.receipts \cup cfg.disbursements : ~FlowFits(f) \/ (f.anchor # None /\ cfg.window = None)

\* cash13_forecast.
Forecast13(cfg) ==
    LET placed == [f \in cfg.receipts \cup cfg.disbursements |-> Expanded(f, cfg)]
        sums(flows) == [w \in Weeks(cfg) |-> Add(LAMBDA f : placed[f][w], flows)]
        receipts == sums(cfg.receipts)
        disbursements == sums(cfg.disbursements)
        ending[w \in Weeks(cfg)] ==
            (IF w = 1 THEN cfg.opening ELSE ending[w - 1]) + receipts[w] - disbursements[w]
    IN [receipts |-> receipts, disbursements |-> disbursements, ending |-> [w \in Weeks(cfg) |-> ending[w]]]

FirstWeek(S) == IF S = {} THEN None ELSE Min(S)

\* runway_summary, with the headroom of the facility.
Runway(cfg, forecast) ==
    LET ending == forecast.ending
        lowest == Min({ending[w] : w \in Weeks(cfg)})
    IN [min_cash |-> lowest,
        min_week |-> FirstWeek({w \in Weeks(cfg) : ending[w] = lowest}),
        first_negative |-> FirstWeek({w \in Weeks(cfg) : ending[w] < 0}),
        first_breach |-> IF cfg.limit = None THEN None
                         ELSE FirstWeek({w \in Weeks(cfg) : ending[w] + cfg.limit < cfg.buffer})]

-----------------------------------------------------------------------------
\* The end of a delayed flow stays where it was.
DelayedSlip(f, c) ==
    [f EXCEPT !.amount = @ * c.factor, !.start = @ + c.delay,
              !.anchor = IF @ = None THEN None ELSE @ + 7 * c.delay]

Delayed(f, c) ==
    [f EXCEPT !.amount = @ * c.factor, !.start = @ + c.delay,
              !.end = IF @ = None THEN None ELSE @ + c.delay,
              !.anchor = IF @ = None THEN None ELSE @ + 7 * c.delay]

\* _changed: a scenario changes each base name once, and no other name.
ChangeRefused(flows, changes) ==
    \/ \E c, d \in changes : c # d /\ c.name = d.name
    \/ \E c \in changes : \A f \in flows : f.name # c.name
ChangesOf(f, changes) == {c \in changes : c.name = f.name}
Changed(flows, changes) ==
    {IF ChangesOf(f, changes) = {} THEN f ELSE Delayed(f, CHOOSE c \in ChangesOf(f, changes) : TRUE) : f \in flows}

\* apply_scenario, then the forecast: a change is not validated again.
Scenario13(cfg, s) ==
    LET changed == [cfg EXCEPT !.receipts = Changed(@, s.receipts) \cup s.add_receipts,
                               !.disbursements = Changed(@, s.disbursements) \cup s.add_disbursements]
    IN IF \/ ChangeRefused(cfg.receipts, s.receipts) \/ ChangeRefused(cfg.disbursements, s.disbursements)
          \/ \E f \in s.add_receipts \cup s.add_disbursements : f.anchor # None /\ cfg.window = None
       THEN Refused ELSE changed

\* compare_scenarios with one scenario: the runway of the base and of the change.
Compared(cfg, s) ==
    LET changed == Scenario13(cfg, s)
        base == Forecast13(cfg)
        scenario == Forecast13(changed)
    IN IF ConfigRefused(cfg) \/ changed = Refused THEN Refused
       ELSE [base |-> base, scenario |-> scenario,
             base_runway |-> Runway(cfg, base), scenario_runway |-> Runway(changed, scenario)]
=============================================================================
