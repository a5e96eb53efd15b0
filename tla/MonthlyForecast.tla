---------------------------- MODULE MonthlyForecast ----------------------------
(***************************************************************************)
(* The monthly forecast of one entity: cashflow_from_config of             *)
(* models/cashflow.py with the receivables, stock and payables of          *)
(* models/working_capital.py, the debt of models/debt.py and the two       *)
(* treatments of income tax; then apply_receipt_delay on the result. The   *)
(* code fills whole columns; here a step is a month, since no entry of a   *)
(* column depends on a later month.                                        *)
(***************************************************************************)
EXTENDS Integers, FiniteSetsExt, Functions

CONSTANTS
    Configs,    \* what EntityConfig accepts, cut down to what is used here
    Sales,      \* the revenue and cost of sales a month may bring
    Horizon,    \* horizon_months
    YearMonths, \* months in an income year: 12, fewer for TLC
    MaxLag,     \* bound on the length of a collection profile, less one
    Slips,      \* amounts of a delayed receipt
    MaxSlips    \* bound on the delays applied

VARIABLES
    cfg,        \* the configuration
    month,      \* months forecast so far
    refused,    \* a ValueError has ended the forecast
    receipts,   \* by month, what the sales so far bring in; past the horizon too
    write_offs, \* by month, what of them is written off
    gross,      \* receivables,
    allowance,  \* the allowance for bad debts in them,
    inventory,  \* stock,
    ap,         \* payables,
    loan,       \* the balance of a term loan
    line,       \* and of a line of credit, at the end of the month
    book,       \* the tax losses and the provision of the current income year
    rows,       \* the rows of the forecast
    slips,      \* delays applied
    earned,     \* history: net income to date,
    paid,       \* tax paid to date under an income-year provision,
    ifSo,       \* the book had forecast losses been deductible,
    ifNot       \* and had they not

balances == <<gross, allowance, inventory, ap, loan, line>>
history == <<earned, paid, ifSo, ifNot>>
vars == <<cfg, month, refused, receipts, write_offs, balances, book, rows, slips, history>>

Months == 1..Horizon
Bases == {"days", "profile"}
StockBases == {"days", "replenishment"}
Treatments == {"monthly", "year"}
Deductibility == {"yes", "no", "unknown"}     \* True, False and None

\* Rates and shares are percentages. A profile is padded with zeros to MaxLag.
ConfigSet ==
    [basis : Bases, dso_days : Nat, dpo_days : Nat, dio_days : Nat, stock : StockBases,
     collection_profile : [0..MaxLag -> Nat], opening_profile : [0..MaxLag -> Nat],
     bad_debt_share : Nat, write_off_after : 0..MaxLag,
     tax_rate : Nat, treatment : Treatments, deductible : Deductibility,
     payments : [Months -> Int],
     opex : Nat, pct_of_revenue : Nat, da : Nat, capex : Nat, annual_rate : Nat, monthly_principal : Nat,
     loan : Nat, line : Nat, cash : Int, ar : Int, ap : Int, inventory : Int, nol : Nat]

ASSUME ForecastAssumption ==
    /\ Horizon \in Nat \ {0} /\ YearMonths \in Nat \ {0} /\ MaxLag \in Nat
    /\ Sales \subseteq [revenue : Nat, cost : Nat]
    /\ \A sale \in Sales : sale.cost <= sale.revenue      \* cogs_pct <= 1
    /\ Configs \subseteq ConfigSet
    /\ Slips \subseteq Int /\ MaxSlips \in Nat

\* validate of WorkingCapitalConfig: the shares of a profile and the bad debts add
\* up to the whole, and a bad-debt share needs a profile.
ASSUME ProfileAssumption ==
    \A c \in Configs : c.basis = "profile" =>
        /\ SumFunction(c.collection_profile) + c.bad_debt_share = 100
        /\ SumFunction(c.opening_profile) = 100

\* The code's amounts are not whole numbers. Here they are, in a unit that divides
\* the shares of a profile of every sale and of the opening receivables.
ASSUME UnitAssumption ==
    \A c \in Configs : c.basis = "profile" =>
        /\ \A sale \in Sales : /\ (sale.revenue * c.bad_debt_share) % 100 = 0
                              /\ \A u \in 0..MaxLag : (sale.revenue * c.collection_profile[u]) % 100 = 0
        /\ \A u \in 0..MaxLag : (c.ar * c.opening_profile[u]) % 100 = 0

\* And that divides the tax on every amount an income is made of, interest on what
\* is left of the loan after any number of months included.
TaxedWhole(c) == {x \in Int : (c.tax_rate * x) % 100 = 0}

ASSUME TaxUnitAssumption ==
    \A c \in Configs :
        /\ {c.nol, c.opex, c.da, (c.line * c.annual_rate) \div 1200} \subseteq TaxedWhole(c)
        /\ \A n \in 0..Horizon :
             c.loan > n * c.monthly_principal =>
               ((c.loan - n * c.monthly_principal) * c.annual_rate) \div 1200 \in TaxedWhole(c)
        /\ \A sale \in Sales :
             {sale.revenue, sale.cost, (sale.revenue * c.pct_of_revenue) \div 100,
              (sale.revenue * c.bad_debt_share) \div 100} \subseteq TaxedWhole(c)

-----------------------------------------------------------------------------
(* Amounts. The instances choose them so that every division is exact. *)

Pos(x) == IF x > 0 THEN x ELSE 0
Least(a, b) == IF a < b THEN a ELSE b
Days(x, d) == (x * d) \div 30               \* _DAYS_PER_MONTH
Share(x, p) == (x * p) \div 100
Interest(b) == (b * cfg.annual_rate) \div 1200

\* opex_from_config: fixed lines and lines that scale with revenue.
Opex(revenue) == cfg.opex + Share(revenue, cfg.pct_of_revenue)

\* receipts[lag:] += share * values: the sale of month t reaches later months.
SpreadSlip(t, shares, x) ==
    [u \in DOMAIN receipts |->
        receipts[u] + IF u > t /\ u - t <= MaxLag THEN Share(x, shares[u - t]) ELSE 0]
Spread(t, shares, x) ==
    [u \in DOMAIN receipts |->
        receipts[u] + IF u >= t /\ u - t <= MaxLag THEN Share(x, shares[u - t]) ELSE 0]

BadDebt(revenue) == IF cfg.basis = "profile" THEN Share(revenue, cfg.bad_debt_share) ELSE 0

\* Purchases that top stock up to the target but never fall below nil.
BoughtSlip(used, target) == Pos(target - inventory)
Bought(used, target) == Pos(target - inventory + used)

Stock(used) ==
    IF cfg.stock = "days" THEN Days(used, cfg.dio_days)
    ELSE inventory + Bought(used, Days(used, cfg.dio_days)) - used

(* Income tax. A book is the loss available, the forecast losses of unknown   *)
(* deductibility, the income and the provision of the year to date, and (as   *)
(* history) all the tax charged so far.                                       *)
Books == [available : Nat, unknown : Nat, to_date : Int, provided : Int, charged : Int]

\* Closing the income year just ended.
YearEndSlip(b, deductible) ==
    [available |-> b.available + IF deductible = "yes" THEN Pos(-b.to_date) ELSE 0,
     unknown |-> b.unknown + IF deductible = "unknown" THEN Pos(-b.to_date) ELSE 0,
     to_date |-> 0, provided |-> 0, charged |-> b.charged]
YearEnd(b, deductible) ==
    [available |-> Pos(b.available - Pos(b.to_date))
                     + IF deductible = "yes" THEN Pos(-b.to_date) ELSE 0,
     unknown |-> b.unknown + IF deductible = "unknown" THEN Pos(-b.to_date) ELSE 0,
     to_date |-> 0, provided |-> 0, charged |-> b.charged]

Opened(b, deductible) ==
    IF month > 0 /\ month % YearMonths = 0 THEN YearEnd(b, deductible) ELSE b

\* The open book o after income x: the provision is on the year to date.
Provided(o, x) ==
    LET provision == Share(Pos(o.to_date + x - o.available), cfg.tax_rate)
    IN [available |-> o.available, unknown |-> o.unknown, to_date |-> o.to_date + x,
        provided |-> provision, charged |-> o.charged + provision - o.provided]
YearTax(b, x, deductible) == Provided(Opened(b, deductible), x)

\* _tax_series: each profitable month by itself, after the loss brought forward.
MonthTax(b, x) ==
    LET used == Least(b.available, Pos(x))
    IN [available |-> b.available - used, unknown |-> b.unknown, to_date |-> b.to_date,
        provided |-> b.provided, charged |-> b.charged + Share(Pos(x) - used, cfg.tax_rate)]

Taxed(b, x, deductible) ==
    IF cfg.treatment = "year" THEN YearTax(b, x, deductible) ELSE MonthTax(b, x)

\* An undecided loss that would now reduce tax.
TaxUnknownSlip(x) == FALSE
TaxUnknown(x) ==
    LET o == Opened(book, cfg.deductible)
    IN /\ cfg.treatment = "year"
       /\ o.unknown > 0 /\ cfg.tax_rate > 0
       /\ o.to_date + x > o.available

-----------------------------------------------------------------------------
Row == [net_income : Int, wc_cash_impact : Int, tax : Int, tax_paid : Int,
        operating_cash_flow : Int, free_cash_flow : Int, principal : Int,
        change_in_cash : Int, ending_cash : Int, used : Int]

NoRow == [net_income |-> 0, wc_cash_impact |-> 0, tax |-> 0, tax_paid |-> 0,
          operating_cash_flow |-> 0, free_cash_flow |-> 0, principal |-> 0,
          change_in_cash |-> 0, ending_cash |-> 0, used |-> 0]

OpeningBook == [available |-> cfg.nol, unknown |-> 0, to_date |-> 0, provided |-> 0, charged |-> 0]

Init ==
    /\ cfg \in Configs
    /\ month = 0
    /\ refused = FALSE
    /\ receipts = [u \in 1..(Horizon + MaxLag) |->
                     IF cfg.basis = "profile" /\ u - 1 <= MaxLag
                       THEN Share(cfg.ar, cfg.opening_profile[u - 1]) ELSE 0]
    /\ write_offs = [u \in 1..(Horizon + MaxLag) |-> 0]
    /\ gross = cfg.ar /\ allowance = 0 /\ inventory = cfg.inventory /\ ap = cfg.ap
    /\ loan = cfg.loan /\ line = cfg.line
    /\ book = OpeningBook
    /\ rows = [u \in Months |-> NoRow]
    /\ slips = 0
    /\ earned = 0 /\ paid = 0
    /\ ifSo = OpeningBook /\ ifNot = OpeningBook

EndingCash == IF month = 0 THEN cfg.cash ELSE rows[month].ending_cash

\* Cash from one month's operations: P&L, working capital, tax timing.
Operating(income, impact, tax, taxPaid) ==
    income + cfg.da + impact + IF cfg.treatment = "year" THEN tax - taxPaid ELSE 0

\* The effect of the working-capital balances on cash.
WcCashImpactSlip == -((gross' - allowance') - (gross - allowance)) + (ap' - ap) + (inventory' - inventory)
WcCashImpact == -((gross' - allowance') - (gross - allowance)) + (ap' - ap) - (inventory' - inventory)

\* The closing receivables, stock and payables of a month.
WorkingCapital(t, revenue, used) ==
    /\ receipts' = IF cfg.basis = "profile" THEN Spread(t, cfg.collection_profile, revenue)
                                            ELSE receipts
    /\ write_offs' = [write_offs EXCEPT ![t + cfg.write_off_after] = @ + BadDebt(revenue)]
    /\ gross' = IF cfg.basis = "profile" THEN gross + revenue - receipts'[t] - write_offs'[t]
                                         ELSE Days(revenue, cfg.dso_days)
    /\ allowance' = allowance + BadDebt(revenue) - write_offs'[t]
    /\ inventory' = Stock(used)
    /\ ap' = Days(used, cfg.dpo_days)

\* _refuse_impossible_flows: a negative receipt, purchase or payment.
Impossible(revenue, used) ==
    \/ revenue - ((gross' - allowance') - (gross - allowance)) < 0
    \/ used + (inventory' - inventory) < 0
    \/ used + (inventory' - inventory) - (ap' - ap) < 0

Pretax(revenue, used) ==
    revenue - used - Opex(revenue) - BadDebt(revenue) - cfg.da - Interest(loan) - Interest(line)

PrincipalSlip == cfg.monthly_principal
Principal == Least(cfg.monthly_principal, loan)

\* The row of month t, once the balances and the book have moved.
RowOf(t, revenue, used) ==
    LET tax == book'.charged - book.charged
        income == Pretax(revenue, used) - tax
        taxPaid == IF cfg.treatment = "year" THEN cfg.payments[t] ELSE 0
        operating == Operating(income, WcCashImpact, tax, taxPaid)
        change == operating - cfg.capex - Principal
    IN [net_income |-> income, wc_cash_impact |-> WcCashImpact, tax |-> tax, tax_paid |-> taxPaid,
        operating_cash_flow |-> operating, free_cash_flow |-> operating - cfg.capex,
        principal |-> Principal, change_in_cash |-> change, ending_cash |-> EndingCash + change,
        used |-> used]

ForecastMonth(revenue, used) ==
    /\ ~refused
    /\ month < Horizon
    /\ month' = month + 1
    /\ WorkingCapital(month', revenue, used)
    /\ loan' = loan - Principal
    /\ line' = line
    /\ book' = Taxed(book, Pretax(revenue, used), cfg.deductible)
    /\ ifSo' = Taxed(ifSo, Pretax(revenue, used), "yes")
    /\ ifNot' = Taxed(ifNot, Pretax(revenue, used), "no")
    /\ refused' = (Impossible(revenue, used) \/ TaxUnknown(Pretax(revenue, used)))
    /\ rows' = [rows EXCEPT ![month'] = RowOf(month', revenue, used)]
    /\ earned' = earned + rows'[month'].net_income
    /\ paid' = paid + rows'[month'].tax_paid
    /\ UNCHANGED <<cfg, slips>>

\* The operating cash flow once more, from a row whose working capital has changed.
OperatingAgainSlip(row) == row.net_income + cfg.da + row.wc_cash_impact
OperatingAgain(row) ==
    row.net_income + cfg.da + row.wc_cash_impact
        + IF cfg.treatment = "year" THEN row.tax - row.tax_paid ELSE 0

\* Cash rows of a forecast rebuilt from its working capital, opening at `opening`.
Rebuilt(new, opening) ==
    LET flow(u) == OperatingAgain(new[u]) - cfg.capex
        ending[u \in Months] ==
            (IF u = 1 THEN opening ELSE ending[u - 1]) + flow(u) - new[u].principal
    IN [u \in Months |-> [new[u] EXCEPT !.operating_cash_flow = OperatingAgain(new[u]),
                                        !.free_cash_flow = flow(u),
                                        !.change_in_cash = flow(u) - new[u].principal,
                                        !.ending_cash = ending[u]]]

\* apply_receipt_delay: a receipt moves between two months of a finished forecast.
ApplyReceiptDelay(from, to, amount) ==
    /\ ~refused
    /\ month = Horizon
    /\ slips < MaxSlips
    /\ slips' = slips + 1
    /\ from # to
    /\ rows' = Rebuilt([rows EXCEPT ![from].wc_cash_impact = @ - amount,
                                    ![to].wc_cash_impact = @ + amount],
                       rows[1].ending_cash - rows[1].change_in_cash)
    /\ UNCHANGED <<cfg, month, refused, receipts, write_offs, balances, book, history>>

Next ==
    \/ \E sale \in Sales : ForecastMonth(sale.revenue, sale.cost)
    \/ \E from, to \in Months, amount \in Slips : ApplyReceiptDelay(from, to, amount)

Spec == Init /\ [][Next]_vars

-----------------------------------------------------------------------------
(* Properties. *)

\* What each variable may hold.
TypeOK ==
    /\ cfg \in Configs
    /\ month \in 0..Horizon
    /\ refused \in BOOLEAN
    /\ receipts \in [1..(Horizon + MaxLag) -> Int]
    /\ write_offs \in [1..(Horizon + MaxLag) -> Nat]
    /\ gross \in Int /\ allowance \in Int
    /\ inventory \in Int /\ ap \in Int /\ loan \in Nat /\ line \in Nat
    /\ book \in Books /\ ifSo \in Books /\ ifNot \in Books
    /\ rows \in [Months -> Row]
    /\ slips \in 0..MaxSlips
    /\ earned \in Int /\ paid \in Int

Owed == IF cfg.treatment = "year" THEN book.charged - paid ELSE 0

\* The forecast articulates, although it draws up no balance sheet: at every month
\* end cash and the balances the months have moved (receivables net of the
\* allowance, stock, plant, payables, debt, tax provided but not paid) have
\* changed by the income earned and by nothing else.
BalanceSheetBalances ==
    slips = 0 =>
        EndingCash + (gross - allowance) + inventory + month * (cfg.capex - cfg.da)
            - ap - loan - line - Owed
        = cfg.cash + cfg.ar + cfg.inventory - cfg.ap - cfg.loan - cfg.line + earned

Later == (month + 1)..(Horizon + MaxLag)

\* "Every recognised dollar is collected once or written off once": what net
\* receivables carry is what the sales so far will still bring in, and the
\* allowance is what of them will still be written off, past the horizon too.
SalesSettledOnce ==
    cfg.basis = "profile" =>
        /\ gross - allowance = SumFunctionOnSet(receipts, Later)
        /\ allowance = SumFunctionOnSet(write_offs, Later)

UsedAfter(k) == SumFunctionOnSet([u \in Months |-> rows[u].used], (k + 1)..month)
Floors == {cfg.inventory - UsedAfter(0)} \cup
          {Days(rows[k].used, cfg.dio_days) - UsedAfter(k) : k \in 1..month}

\* Replenished stock is the least that purchases, never negative, can keep at or
\* above the target of every month: what is left of the opening stock or of some
\* month's target after all that was used since.
StockIsLeast ==
    cfg.stock = "replenishment" /\ month > 0 => inventory = Max(Floors)

\* The periods a treatment taxes by themselves: income years or single months.
PeriodMonths == IF cfg.treatment = "year" THEN YearMonths ELSE 1
Periods == {p \in 0..month : p * PeriodMonths < month}
Result(p) ==
    SumFunctionOnSet([u \in Months |-> rows[u].net_income + rows[u].tax],
                     {u \in 1..month : p * PeriodMonths < u /\ u <= (p + 1) * PeriodMonths})
Closed == {p \in Periods : p + 1 \in Periods}

\* A tax loss shelters income once: the tax to date is that on all profitable
\* periods less the losses used up, and those come from the opening loss and,
\* if stated deductible, from earlier loss-making years.
LossesShelterOnce ==
    slips = 0 =>
        LET brought == IF cfg.treatment = "year" /\ cfg.deductible = "yes"
                         THEN SumFunctionOnSet([p \in Periods |-> Pos(-Result(p))], Closed) ELSE 0
            left == Pos(book.available - Pos(book.to_date))
        IN 100 * book.charged =
             cfg.tax_rate * (SumFunction([p \in Periods |-> Pos(Result(p))])
                               - (cfg.nol + brought - left))

\* A forecast made without saying whether forecast losses may be deducted charges
\* the tax that either answer would give ("None means unknown, which is refused
\* once such a loss would reduce tax").
UnknownLossIsMoot ==
    cfg.treatment = "year" /\ cfg.deductible = "unknown" /\ ~refused =>
        ifSo.charged = book.charged /\ ifNot.charged = book.charged

\* A delayed receipt moves cash from one month end to another and nothing else:
\* between the two months every closing cash is down, or up, by its amount, and
\* the income, the tax and the months outside are untouched.
DelayMovesTiming ==
    [][slips' # slips =>
         \E from, to \in Months, amount \in Slips :
            \A u \in Months :
                /\ rows'[u].ending_cash - rows[u].ending_cash
                     = (IF u >= to THEN amount ELSE 0) - (IF u >= from THEN amount ELSE 0)
                /\ rows'[u].net_income = rows[u].net_income /\ rows'[u].tax = rows[u].tax]_vars
=============================================================================
