------------------------------ MODULE PaymentPlan ------------------------------
(***************************************************************************)
(* The estimate of an ATO payment plan (au/payment_plan.py): interest runs *)
(* day by day on what is still owed, payments come off on their dates, and *)
(* the loop ends with the payment that clears the debt or with a day the   *)
(* rate table was not reviewed for. A step is a day.                       *)
(*                                                                         *)
(* The code carries interest exactly; here it is carried in Fine parts of  *)
(* a cent, rounded down, and rounded to cents where the code does. A       *)
(* payment that rounds half a cent up leaves that much less than nothing,  *)
(* which is not nil when it is rounded: the plan goes on from there.       *)
(***************************************************************************)
EXTENDS TaxDates

CONSTANTS
    Plans,     \* the plans asked about
    Fine,      \* parts of a cent
    RateUnit,  \* a rate is a number of these parts of the balance a day
    MaxDay     \* bound: the last day the model looks at

ASSUME PlanAssumption ==
    /\ Fine \in Nat \ {0} /\ RateUnit \in Nat \ {0} /\ MaxDay \in Nat
    /\ \A p \in Plans : {p.owed, p.upfront, p.instalment, p.due} \subseteq Int
    /\ \A e \in Data.gic_rates : e.from \in Int /\ e.rate \in 0..RateUnit   \* no day doubles a debt
    /\ \A S \in SUBSET Data.gic_rates :   \* a table has a latest entry
         S # {} => \E e \in S : \A f \in S : f.from <= e.from
    /\ Refused \notin Int

VARIABLES
    plan,      \* the arguments of payment_plan_estimate
    phase,     \* "none", "running", "cleared" or "refused"
    day,
    balance,   \* what is owed with interest, in parts of a cent
    gic,       \* interest to date, in parts of a cent
    paid,      \* cents
    pay_on, amount, number,   \* the next payment: its date, size and number
    rows       \* the schedule

planVars == <<plan, phase, day, balance, gic, paid, pay_on, amount, number, rows>>

Frequencies == {"weekly", "fortnightly", "monthly"}

\* _cents: to the nearest, and from half a cent away from nil.
Cents(x) ==
    LET size == (2 * (IF x < 0 THEN -x ELSE x) + Fine) \div (2 * Fine)
    IN IF x < 0 THEN -size ELSE size

\* _instalment_dates: months count from the first date, not from the last.
NextMonthly(first, n) ==
    LET m == MonthOf(first) + n
    IN IF first - FirstDay(MonthOf(first)) < LastDay(m) - FirstDay(m)
       THEN FirstDay(m) + first - FirstDay(MonthOf(first)) ELSE LastDay(m)
InstalmentDate(n) ==
    CASE plan.frequency = "weekly" -> plan.first_on + 7 * n
      [] plan.frequency = "fortnightly" -> plan.first_on + 14 * n
      [] plan.frequency = "monthly" -> NextMonthly(plan.first_on, n)

\* The last rate is believed for ever.
DailyRateSlip(d) == IF Data.gic_rates = {} THEN Refused ELSE
    (CHOOSE e \in Data.gic_rates : e.from <= d /\ \A f \in Data.gic_rates : f.from <= d => f.from <= e.from).rate
DailyRate(d) ==
    IF d > Data.gic_until \/ \A e \in Data.gic_rates : e.from > d THEN Refused
    ELSE (CHOOSE e \in Data.gic_rates :
            e.from <= d /\ \A f \in Data.gic_rates : f.from <= d => f.from <= e.from).rate

PlanFits(p) ==
    /\ p.upfront > 0 /\ p.instalment > 0 /\ p.upfront < p.owed
    /\ NextBusinessDay(p.due) = p.due
    /\ p.upfront_on >= p.due
    /\ p.first_on > p.upfront_on

PlanIdle ==
    /\ plan = Refused /\ phase = "none" /\ day = 0 /\ balance = 0 /\ gic = 0 /\ paid = 0
    /\ pay_on = 0 /\ amount = 0 /\ number = 0 /\ rows = <<>>

\* payment_plan_estimate: the arguments are checked, then the loop begins.
StartPlan(p) ==
    /\ phase = "none"
    /\ plan' = p
    /\ phase' = IF PlanFits(p) THEN "running" ELSE "refused"
    /\ day' = p.due /\ balance' = Fine * p.owed
    /\ pay_on' = p.upfront_on /\ amount' = p.upfront
    /\ UNCHANGED <<gic, paid, number, rows>>

Payment == IF amount < Cents(balance) THEN amount ELSE Cents(balance)
Left == balance - Fine * Payment
Accrued(b) == (b * DailyRate(day)) \div RateUnit

\* The interest shown so far is the rounded total, so that the column adds up to it.
Shown == IF rows = <<>> THEN 0 ELSE rows[Len(rows)].gic_to_date
\* The interest of a row is rounded on its own.
PlanRowSlip(g) ==
    [due |-> day, amount |-> Payment, gic_to_date |-> Cents(g), gic_accrued |-> (g - Fine * Shown) \div Fine,
     closing |-> plan.owed + Cents(g) - (paid + Payment)]
PlanRow(g) ==
    [due |-> day, amount |-> Payment, gic_to_date |-> Cents(g), gic_accrued |-> Cents(g) - Shown,
     closing |-> plan.owed + Cents(g) - (paid + Payment)]

Running == phase = "running" /\ day <= MaxDay
PayDay == day = pay_on
Clears == PayDay /\ Cents(Left) = 0

\* The payment that clears the debt accrues nothing on its day.
ClearingPayment ==
    /\ Running
    /\ Clears
    /\ balance' = Left /\ paid' = paid + Payment
    /\ rows' = Append(rows, PlanRow(gic))
    /\ phase' = "cleared"
    /\ UNCHANGED <<plan, day, gic, pay_on, amount, number>>

\* A payment comes off before the interest of its day.
PartPayment ==
    /\ Running
    /\ PayDay /\ ~Clears
    /\ DailyRate(day) # Refused
    /\ balance' = Left + Accrued(Left) /\ gic' = gic + Accrued(Left)
    /\ paid' = paid + Payment
    /\ rows' = Append(rows, PlanRow(gic'))
    /\ number' = number + 1
    /\ pay_on' = InstalmentDate(number) /\ amount' = plan.instalment
    /\ day' = day + 1
    /\ UNCHANGED <<plan, phase>>

Accrue ==
    /\ Running
    /\ ~PayDay
    /\ DailyRate(day) # Refused
    /\ balance' = balance + Accrued(balance) /\ gic' = gic + Accrued(balance)
    /\ day' = day + 1
    /\ UNCHANGED <<plan, phase, paid, pay_on, amount, number, rows>>

\* rate_at raises: the estimate is refused.
NoRate ==
    /\ Running
    /\ ~Clears
    /\ DailyRate(day) = Refused
    /\ phase' = "refused"
    /\ UNCHANGED <<plan, day, balance, gic, paid, pay_on, amount, number, rows>>

PlanDay == ClearingPayment \/ PartPayment \/ Accrue \/ NoRate

PlanNext == PlanDay \/ \E p \in Plans : StartPlan(p)

\* The loop is one call: once begun, it runs on.
PlanSpec == PlanIdle /\ [][PlanNext]_planVars /\ WF_planVars(PlanDay)

-----------------------------------------------------------------------------
(* Properties. *)

\* The schedule reconciles to the cent at every row: each closing balance is the
\* one before plus the interest shown less the payment, a debt is paid off by
\* payments and grows by its interest, no payment goes more than a cent past it,
\* and a plan that clears ends at exactly nil with the interest charged paid.
PlanReconciles ==
    /\ \A i \in 1..Len(rows) :
         LET before == IF i = 1 THEN plan.owed ELSE rows[i - 1].closing
         IN /\ rows[i].closing = before + rows[i].gic_accrued - rows[i].amount
            /\ rows[i].closing >= -1
            /\ before > 0 => rows[i].amount > 0
            /\ before > 0 /\ rows[i].closing >= 0 => rows[i].gic_accrued >= 0
            /\ i < Len(rows) => rows[i].due < rows[i + 1].due
    /\ phase # "none" => balance = Fine * plan.owed + gic - Fine * paid
    /\ phase = "cleared" => rows[Len(rows)].closing = 0 /\ paid = plan.owed + Cents(gic)

\* "Each instalment is `instalment` until the last, which clears the balance":
\* so an earlier one is never less, and none is nothing or a refund. The code
\* does not keep this: an instalment that rounds half a cent up clears nothing.
InstalmentsRegular ==
    \A i \in 2..Len(rows) :
        IF i < Len(rows) THEN rows[i].amount = plan.instalment ELSE rows[i].amount \in 1..plan.instalment

\* Whatever the instalments, the estimate ends: a plan whose interest outruns its
\* payments meets the end of the reviewed rates.
PlanEnds == phase = "running" ~> phase \in {"cleared", "refused"}
=============================================================================
