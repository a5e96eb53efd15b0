-------------------------------- MODULE Payroll --------------------------------
(***************************************************************************)
(* Payroll costs by month (au/payroll.py) and their settlement in dated    *)
(* events, in month-end liabilities and in the 13-week cash                *)
(* (au/payroll_settlement.py), with the due-date rules of TaxDates passed  *)
(* in. Rates are percentages; the instances make the divisions exact.      *)
(***************************************************************************)
EXTENDS TaxDates

\* Rates are in force from a day on.
ASSUME RatesAssumption ==
    /\ IsFiniteSet(Data.super_table)
    /\ \A e \in Data.super_table : e.from \in Int /\ e.rate \in Nat
    /\ \A j \in DOMAIN Data.payroll_tax_table :
         /\ IsFiniteSet(Data.payroll_tax_table[j])
         /\ \A e \in Data.payroll_tax_table[j] :
              e.from \in Int /\ e.rate \in [threshold : Nat, deduction : Nat, rate : Nat, ramp : Nat]

\* rate_at: the latest entry in force, within the dates the table was reviewed for.
RateAt(table, until, day) ==
    LET applicable == {e \in table : e.from <= day}
    IN IF day > until \/ applicable = {} THEN Refused
       ELSE (CHOOSE e \in applicable : \A f \in applicable : f.from <= e.from).rate

-----------------------------------------------------------------------------
(* payroll_forecast of x: roles by number, first month and number of months. *)

RoleFits(r) ==
    /\ r.contractor => r.sg # "unknown"
    /\ r.start # None /\ r.end # None => r.start <= r.end

Employed(r, m) == (r.start # None => m >= r.start) /\ (r.end # None => m <= r.end)

Staff(x, m) == {i \in DOMAIN x.roles : Employed(x.roles[i], m)}
SuperRate(m) == RateAt(Data.super_table, Data.super_until, FirstDay(m))

\* The state threshold, deduction and rate that apply, as a record; or Refused.
TaxEntry(j, m) == RateAt(Data.payroll_tax_table[j], Data.payroll_tax_until, FirstDay(m))

Bonus(r) == (r.salary * r.bonus_pct) \div 100
RoleSuper(r, m) == IF r.sg = "no" THEN 0 ELSE ((r.salary + Bonus(r)) * SuperRate(m)) \div 100

Taxable(x, j, m) ==
    Add(LAMBDA i : x.roles[i].salary + Bonus(x.roles[i]) + RoleSuper(x.roles[i], m),
        {i \in Staff(x, m) : x.roles[i].jurisdiction = j})

\* The rate rises over a ramp above the threshold; tax is on wages less the deduction.
StateTax(taxable, e) ==
    LET annual == 12 * taxable
        base == taxable - e.deduction \div 12
        ramp == IF annual - e.threshold < e.ramp THEN annual - e.threshold ELSE e.ramp
    IN IF annual <= e.threshold \/ base <= 0 THEN 0
       ELSE IF e.ramp = 0 THEN (base * e.rate) \div 100
       ELSE (base * e.rate * ramp) \div (100 * e.ramp)

States(x, m) == {x.roles[i].jurisdiction : i \in Staff(x, m)}
TaxedStates(x, months) == UNION {{j \in States(x, m) : Taxable(x, j, m) > 0} : m \in months}

PayrollMonths(x) == x.first..(x.first + x.horizon - 1)

PayrollRefused(x) ==
    \/ \E i \in DOMAIN x.roles : ~RoleFits(x.roles[i])
    \/ \E m \in PayrollMonths(x) : SuperRate(m) = Refused
    \/ x.registered /\ LET states == TaxedStates(x, PayrollMonths(x))
                       IN "SA" \in states /\ states # {"SA"}
    \/ x.registered /\ \E m \in PayrollMonths(x) : \E j \in States(x, m) : TaxEntry(j, m) = Refused

\* Bonuses are left out of the premium.
PayrollMonthSlip(x, m) ==
    LET total(f(_)) == Add(LAMBDA i : f(x.roles[i]), Staff(x, m))
        gross == total(LAMBDA r : r.salary)
    IN [gross |-> gross, bonuses |-> total(Bonus),
        super |-> total(LAMBDA r : RoleSuper(r, m)),
        payroll_tax |-> IF ~x.registered THEN 0
                        ELSE Add(LAMBDA j : StateTax(Taxable(x, j, m), TaxEntry(j, m)), States(x, m)),
        workers_comp |-> (gross * x.workers_comp_rate) \div 100,
        leave |-> total(LAMBDA r : IF r.contractor THEN 0 ELSE (r.salary * x.leave_pct) \div 100)]

PayrollMonth(x, m) ==
    LET total(f(_)) == Add(LAMBDA i : f(x.roles[i]), Staff(x, m))
        gross == total(LAMBDA r : r.salary)
    IN [gross |-> gross, bonuses |-> total(Bonus),
        super |-> total(LAMBDA r : RoleSuper(r, m)),
        payroll_tax |-> IF ~x.registered THEN 0
                        ELSE Add(LAMBDA j : StateTax(Taxable(x, j, m), TaxEntry(j, m)), States(x, m)),
        workers_comp |-> ((gross + total(Bonus)) * x.workers_comp_rate) \div 100,
        leave |-> total(LAMBDA r : IF r.contractor THEN 0 ELSE (r.salary * x.leave_pct) \div 100)]

PayrollForecast(x) ==
    IF PayrollRefused(x) THEN Refused ELSE [m \in PayrollMonths(x) |-> PayrollMonth(x, m)]

TotalCash(row) == row.gross + row.bonuses + row.super + row.payroll_tax + row.workers_comp
TotalCost(row) == TotalCash(row) + row.leave

-----------------------------------------------------------------------------
(* settlement_events of x: the payroll rows by month, the paydays, the       *)
(* average withholding rate, who withholds, and the days paid early.         *)

PaydayComponents == {"net_wages", "payg_withholding", "super_guarantee"}
MonthlyComponents == {"payroll_tax", "workers_comp"}
Components == PaydayComponents \cup MonthlyComponents

\* The due rules of the caller.
DueOn(x, c, day) ==
    CASE c = "net_wages" -> day
      [] c = "payg_withholding" -> WithholdingDue(x, day)
      [] c = "super_guarantee" -> SuperDue(day)
      [] c = "payroll_tax" -> PayrollTaxDue(x.jurisdiction, MonthOf(day))
      [] c = "workers_comp" -> day + x.premium_terms

Cost(x, c, m) ==
    LET pay == x.rows[m].gross + x.rows[m].bonuses
        withheld == (pay * x.withholding_rate) \div 100
    IN CASE c = "net_wages" -> pay - withheld
         [] c = "payg_withholding" -> withheld
         [] c = "super_guarantee" -> x.rows[m].super
         [] c = "payroll_tax" -> x.rows[m].payroll_tax
         [] c = "workers_comp" -> x.rows[m].workers_comp

Paydays(x, m) == {d \in x.paydays : MonthOf(d) = m}

Event(x, c, m, day, amount) ==
    [component |-> c, period |-> m, obligation |-> day, due |-> DueOn(x, c, day),
     cash |-> IF DueOn(x, c, day) = Refused THEN Refused ELSE DueOn(x, c, day) - x.early[c],
     amount |-> amount]

EventsOf(x) ==
    UNION {{Event(x, c, m, d, Cost(x, c, m) \div Cardinality(Paydays(x, m))) :
              c \in {k \in PaydayComponents : Cost(x, k, m) # 0}, d \in Paydays(x, m)}
           \cup {Event(x, c, m, LastDay(m), Cost(x, c, m)) :
              c \in {k \in MonthlyComponents : Cost(x, k, m) # 0}} : m \in DOMAIN x.rows}

\* SettlementEvent refuses a payment before the obligation.
EventFits(e) == e.due # Refused /\ e.due >= e.obligation /\ e.cash >= e.obligation

SettlementRefused(x) ==
    \/ \E d \in x.paydays : MonthOf(d) \notin DOMAIN x.rows
    \/ \E m \in DOMAIN x.rows : \E c \in Components \ ({"net_wages"} \cup x.ruled) : Cost(x, c, m) # 0
    \/ \E m \in DOMAIN x.rows : /\ Paydays(x, m) = {}
                                /\ \E c \in PaydayComponents : Cost(x, c, m) # 0
    \/ \E e \in EventsOf(x) : ~EventFits(e)

SettlementEvents(x) == IF SettlementRefused(x) THEN Refused ELSE EventsOf(x)

\* monthly_settlement: the liability of a component rolls forward by month.
MonthlySettlementSlip(events, c, months) ==
    LET own(day(_), m) == Add(LAMBDA e : e.amount, {e \in events : e.component = c /\ MonthOf(day(e)) = m})
        closing[m \in months] ==
            (IF m - 1 \in months THEN closing[m - 1] ELSE 0)
              + own(LAMBDA e : e.obligation, m) - own(LAMBDA e : e.cash, m)
    IN [m \in months |-> [obligations |-> own(LAMBDA e : e.obligation, m),
                          cash |-> own(LAMBDA e : e.cash, m), closing |-> closing[m]]]

MonthlySettlement(events, c, months) ==
    LET sum(S) == Add(LAMBDA e : e.amount, {e \in S : e.component = c})
        arisen(m) == sum({e \in events : MonthOf(e.obligation) = m})
        settled(m) == sum({e \in events : MonthOf(e.cash) = m})
        opening == sum({e \in events : \A m \in months : MonthOf(e.obligation) < m})
                     - sum({e \in events : \A m \in months : MonthOf(e.cash) < m})
        closing[m \in months] ==
            (IF m - 1 \in months THEN closing[m - 1] ELSE opening) + arisen(m) - settled(m)
    IN [m \in months |-> [obligations |-> arisen(m), cash |-> settled(m), closing |-> closing[m]]]

\* settlement_weekly_flows.
WeeklyPayments(events, start, weeks) ==
    {[component |-> e.component, of |-> e.obligation, week |-> WeekOf(e.cash, start), amount |-> e.amount] :
        e \in {f \in events : 0 <= f.cash - start /\ f.cash - start < 7 * weeks}}
=============================================================================
