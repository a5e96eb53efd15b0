------------------------------- MODULE TaxDates -------------------------------
(***************************************************************************)
(* When Australian obligations fall due and reach the 13-week cash: the    *)
(* fiscal calendar, activity statements with GST (au/gst.py), PAYG         *)
(* instalments and withholding, FBT, payroll tax and super. Each function  *)
(* of the code is an operator; a ValueError is the answer Refused. A month *)
(* counts twelve to the year, a day counts from Monday 1 January of year   *)
(* 1. Amounts and shares of GST are whole numbers here.                    *)
(***************************************************************************)
EXTENDS Integers, Sequences, FiniteSetsExt, Functions

CONSTANTS
    Data,     \* the statutory YAML files, by the names of their entries
    Refused,  \* a ValueError
    None      \* an option not given

Add(f(_), S) == SumFunctionOnSet([x \in S |-> f(x)], S)

Channels == {"original", "online", "agent"}

\* What the files state of the days they name.
TaxRuleFits(r) ==
    /\ {r.monthly_day, r.june_day, r.december_day} \subseteq Nat
    /\ r.moved \subseteq {5, 6} /\ r.june_moved \subseteq {5, 6}
    /\ \A m \in DOMAIN r.dated : r.dated[m] \in Int

ASSUME StatutesAssumption ==
    /\ Refused \notin Int /\ None \notin Int
    /\ Data.holidays \subseteq Int /\ Data.holidays_reviewed \subseteq Int
    /\ \A j \in DOMAIN Data.payroll_tax : TaxRuleFits(Data.payroll_tax[j])

(* The calendar. *)
Month(y, m) == 12 * y + m - 1
MonthOfYear(m) == (m % 12) + 1

Leap(y) == y % 4 = 0 /\ (y % 100 # 0 \/ y % 400 = 0)
FirstDay(m) ==
    LET y == m \div 12
        p == y - 1
        before == <<0, 31, 59, 90, 120, 151, 181, 212, 243, 273, 304, 334>>[MonthOfYear(m)]
    IN 365 * p + p \div 4 - p \div 100 + p \div 400 + before
         + IF MonthOfYear(m) > 2 /\ Leap(y) THEN 1 ELSE 0
LastDay(m) == FirstDay(m + 1) - 1
Day(y, m, d) == FirstDay(Month(y, m)) + d - 1
\* The month is near its place in a calendar of 400 years, 48699 days to 1600 months.
MonthOf(day) ==
    LET near == (1600 * day) \div 48699 + 12
    IN CHOOSE m \in (near - 1)..(near + 3) : FirstDay(m) <= day /\ day <= LastDay(m)
Weekend(day) == day % 7 \in {5, 6}

FyYear(m) == (m + 6) \div 12
FyQuarter(m) == <<FyYear(m), ((m + 6) % 12) \div 3 + 1>>
FyHalf(m) == <<FyYear(m), IF MonthOfYear(m) >= 7 THEN 1 ELSE 2>>
QuarterEnd(m) == m + 2 - (m % 3)

\* A series of monthly amounts: its first month and the amounts.
LastMonth(x) == x.first + Len(x.amounts) - 1
MonthsOf(x) == x.first..LastMonth(x)
Amount(x, m) == x.amounts[m - x.first + 1]
Sum(x, S) == Add(LAMBDA m : Amount(x, m), S)

FyKey(by, m) == CASE by = "fy" -> FyYear(m) [] by = "quarter" -> FyQuarter(m) [] by = "half" -> FyHalf(m)
FySummary(x, by) ==
    [k \in {FyKey(by, m) : m \in MonthsOf(x)} |-> Sum(x, {m \in MonthsOf(x) : FyKey(by, m) = k})]

-----------------------------------------------------------------------------
BusinessDay(day) == ~Weekend(day) /\ day \notin Data.holidays

\* The bound of ten days is never met: no run of holidays is as long.
FirstBusinessDay(due) ==
    CHOOSE d \in due..(due + 10) : BusinessDay(d) /\ \A e \in due..(d - 1) : ~BusinessDay(e)

\* Only the weekend moves a date.
NextBusinessDaySlip(due) ==
    LET d == CHOOSE e \in due..(due + 2) : ~Weekend(e) /\ \A w \in due..(e - 1) : Weekend(w)
    IN IF due = Refused \/ d \notin Data.holidays_reviewed THEN Refused ELSE d

\* _next_business_day, of a nominal date that may itself be refused.
Reviewed(day) == IF day \in Data.holidays_reviewed THEN day ELSE Refused
NextBusinessDay(due) == IF due = Refused THEN Refused ELSE Reviewed(FirstBusinessDay(due))

QuarterlyNominal(q, channel) ==
    LET rule == Data.quarterly_due[MonthOfYear(q)]
        year == q \div 12 + IF rule.month < MonthOfYear(q) THEN 1 ELSE 0
        original == Day(year, rule.month, rule.day)
    IN IF LastDay(q) > Data.bas_until THEN Refused
       ELSE IF channel = "agent" THEN IF q \in DOMAIN Data.agent_due THEN Data.agent_due[q] ELSE Refused
       ELSE IF channel = "online" /\ MonthOfYear(q) \in Data.online_quarters THEN original + Data.online_days
       ELSE original
QuarterlyDue(q, channel) == NextBusinessDay(QuarterlyNominal(q, channel))

MonthlyNominal(m, decemberAgent) ==
    IF LastDay(m) > Data.bas_until THEN Refused
    ELSE IF decemberAgent /\ MonthOfYear(m) = 12 THEN Day(m \div 12 + 1, 2, Data.december_agent_day)
    ELSE FirstDay(m + 1) + Data.monthly_due_day - 1
MonthlyDue(m, decemberAgent) == NextBusinessDay(MonthlyNominal(m, decemberAgent))

ChannelFits(x) ==
    /\ x.december => x.cycle = "monthly" /\ x.channel = "agent"
    /\ x.cycle = "monthly" /\ x.channel # "original" => x.december

Row(period, nominal, due, amount) == [period |-> period, nominal |-> nominal, due |-> due, amount |-> amount]

\* The quarters a series finishes; the first may have begun before it.
FinishedQuarters(x) == {q \in MonthsOf(x) : q = QuarterEnd(q)}
InQuarter(x, q) == {m \in MonthsOf(x) : QuarterEnd(m) = q}

\* monthly_gst for the months of x, in GST by month.
MonthlyGst(first, sales, purchases, taxable, creditable, rate) ==
    [first |-> first,
     amounts |-> [i \in 1..Len(sales) |-> (sales[i] * taxable - purchases[i] * creditable) * rate]]

\* The trailing quarter is settled although it is still open.
BasScheduleSlip(x) ==
    LET rows == IF x.cycle = "monthly"
                THEN {Row(m, MonthlyNominal(m, x.december), MonthlyDue(m, x.december), Amount(x, m)) :
                        m \in MonthsOf(x)}
                ELSE {Row(q, QuarterlyNominal(q, x.channel), QuarterlyDue(q, x.channel),
                          Sum(x, InQuarter(x, q))) : q \in {QuarterEnd(m) : m \in MonthsOf(x)}}
    IN IF ChannelFits(x) /\ \A r \in rows : r.due # Refused THEN rows ELSE Refused

BasSchedule(x) ==
    LET rows == IF x.cycle = "monthly"
                THEN {Row(m, MonthlyNominal(m, x.december), MonthlyDue(m, x.december), Amount(x, m)) :
                        m \in MonthsOf(x)}
                ELSE {Row(q, QuarterlyNominal(q, x.channel), QuarterlyDue(q, x.channel),
                          Sum(x, InQuarter(x, q))) : q \in FinishedQuarters(x)}
    IN IF ChannelFits(x) /\ \A r \in rows : r.due # Refused THEN rows ELSE Refused

\* dated_weekly_flows: what falls due inside the window, by its week.
WeekOf(day, start) == (day - start) \div 7 + 1
WeeklyFlows(rows, start, weeks) ==
    LET inside == {r \in rows : r.due >= start /\ WeekOf(r.due, start) <= weeks}
        flow(r, amount) == [label |-> r.period, week |-> WeekOf(r.due, start), amount |-> amount]
    IN [receipts |-> {flow(r, -r.amount) : r \in {s \in inside : s.amount < 0}},
        disbursements |-> {flow(r, r.amount) : r \in {s \in inside : s.amount >= 0}}]

-----------------------------------------------------------------------------
\* payg_instalment_schedule: by a rate, or by the amounts notified for quarters.
LateNotice(q, notice) == notice.on > LastDay(q)
InstalmentDue(x, q) ==
    LET nominal == IF x.deferred THEN QuarterlyNominal(q, x.channel) ELSE MonthlyNominal(q, FALSE)
        late == x.basis = "notified" /\ LateNotice(q, x.notices[q])
    IN IF late /\ NextBusinessDay(nominal) = Refused THEN Refused
       ELSE NextBusinessDay(IF late THEN x.notices[q].on + 21 ELSE nominal)

InstalmentsRefused(x) ==
    \/ x.channel # "original" /\ ~x.deferred
    \/ \E m \in MonthsOf(x) : Amount(x, m) < 0
    \/ MonthOfYear(x.first) % 3 # 1
    \/ /\ x.basis = "notified"
       /\ \/ DOMAIN x.notices # FinishedQuarters(x)
          \/ \E q \in DOMAIN x.notices : x.notices[q].amount < 0

InstalmentSchedule(x) ==
    IF InstalmentsRefused(x) THEN Refused
    ELSE LET amount(q) == IF x.basis = "rate" THEN x.rate * Sum(x, InQuarter(x, q)) ELSE x.notices[q].amount
             row(q, due) == Row(q, due, due, amount(q))
             rows == {row(q, InstalmentDue(x, q)) : q \in FinishedQuarters(x)}
         IN IF \E r \in rows : r.due = Refused THEN Refused ELSE rows

PaymentsByMonth(rows) ==
    [m \in {MonthOf(r.due) : r \in rows} |-> Add(LAMBDA r : r.amount, {r \in rows : MonthOf(r.due) = m})]

\* paygw_due_rule.
WithholderFits(x) ==
    /\ x.withholder # "large"
    /\ x.channel # "original" => x.withholder = "small" /\ x.deferred

WithholdingDue(x, payday) ==
    LET m == MonthOf(payday)
    IN IF ~WithholderFits(x) THEN Refused
       ELSE IF x.withholder = "small"
       THEN IF x.deferred THEN QuarterlyDue(QuarterEnd(m), x.channel) ELSE MonthlyDue(QuarterEnd(m), FALSE)
       ELSE IF x.deferred /\ m = QuarterEnd(m) THEN QuarterlyDue(m, "original") ELSE MonthlyDue(m, FALSE)

\* payroll_tax_due_rule: a published date, or a day of the next month off the weekend.
PayrollTaxDue(j, m) ==
    LET rule == Data.payroll_tax[j]
        day == CASE MonthOfYear(m) = 6 -> rule.june_day
                 [] MonthOfYear(m) = 12 -> rule.december_day
                 [] OTHER -> rule.monthly_day
        moved == IF MonthOfYear(m) = 6 THEN rule.june_moved ELSE rule.moved
        nominal == FirstDay(m + 1) + day - 1
    IN IF LastDay(m) > Data.payroll_tax_until THEN Refused
       ELSE IF m \in DOMAIN rule.dated THEN rule.dated[m]
       ELSE CHOOSE d \in nominal..(nominal + 2) :
                d % 7 \notin moved /\ \A e \in nominal..(d - 1) : e % 7 \in moved

\* super_due_rule, with the business days of the calendar it is given.
BusinessDaysAfter(day, n) ==
    CHOOSE d \in (day + 1)..(day + 3 * n + 10) :
        BusinessDay(d) /\ Quantify((day + 1)..d, BusinessDay) = n
SuperDue(payday) ==
    LET q == QuarterEnd(MonthOf(payday))
        rule == Data.super_quarterly_due[MonthOfYear(q)]
        year == q \div 12 + IF rule.month < MonthOfYear(q) THEN 1 ELSE 0
        due == IF payday >= Data.payday_super_from
               THEN BusinessDaysAfter(payday, Data.usual_period)
               ELSE BusinessDaysAfter(Day(year, rule.month, rule.day) - 1, 1)
    IN IF payday > Data.super_until \/ due \notin Data.holidays_reviewed THEN Refused ELSE due

\* fbt_schedule and fbt_weekly_flows: a refund comes on the day the caller expects it.
FbtNominal(year, channel) ==
    LET rule == IF channel = "agent" THEN Data.fbt_agent_due ELSE Data.fbt_return_due
    IN IF Day(year, 3, 31) > Data.fbt_until THEN Refused ELSE Day(year, rule.month, rule.day)

FbtFlows(x) ==
    LET due == NextBusinessDay(FbtNominal(x.year, x.channel))
        row == Row(x.year, due, IF x.amount < 0 /\ x.expected # None THEN x.expected ELSE due, x.amount)
    IN IF due = Refused THEN Refused
       ELSE WeeklyFlows(IF x.amount < 0 /\ x.expected = None THEN {} ELSE {row}, x.start, x.weeks)
=============================================================================
