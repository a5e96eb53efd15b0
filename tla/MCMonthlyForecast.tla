--------------------------- MODULE MCMonthlyForecast ---------------------------
(* An instance of MonthlyForecast for TLC: a few companies that differ in one *)
(* choice each, over six months of two-month income years.                   *)
EXTENDS MonthlyForecast, TLC

\* Days of sales and no tax loss; the year's first month pays an instalment.
Plain ==
    [basis |-> "days", dso_days |-> 30, dpo_days |-> 15, dio_days |-> 15, stock |-> "days",
     collection_profile |-> [u \in 0..MaxLag |-> 0], opening_profile |-> [u \in 0..MaxLag |-> 0],
     bad_debt_share |-> 0, write_off_after |-> 0,
     tax_rate |-> 25, treatment |-> "monthly", deductible |-> "no",
     payments |-> [u \in Months |-> IF u = 2 THEN 40 ELSE 0],
     opex |-> 180, pct_of_revenue |-> 4, da |-> 40, capex |-> 20, annual_rate |-> 12, monthly_principal |-> 400,
     loan |-> 1200, line |-> 400, cash |-> 100, ar |-> 400, ap |-> 80, inventory |-> 160, nol |-> 240]

Profile ==
    [Plain EXCEPT !.basis = "profile", !.bad_debt_share = 10, !.write_off_after = 2,
                  !.collection_profile = (0 :> 50 @@ 1 :> 30 @@ 2 :> 10),
                  !.opening_profile = (0 :> 60 @@ 1 :> 40 @@ 2 :> 0)]

\* Sixty days of sales cannot follow a sharp rise: the forecast is refused. The
\* supplier was paid in advance.
Stretched == [Plain EXCEPT !.dso_days = 60, !.ap = -80]

Replenishing == [Plain EXCEPT !.stock = "replenishment", !.dio_days = 45, !.inventory = 480]

Yearly(d) == [Plain EXCEPT !.treatment = "year", !.deductible = d]

TheConfigs ==
    {Plain, Profile, Stretched, Replenishing, [Profile EXCEPT !.treatment = "year"],
     [Yearly("unknown") EXCEPT !.tax_rate = 0], [Yearly("unknown") EXCEPT !.nol = 0]}
    \cup {Yearly(d) : d \in Deductibility}

TheSales == {[revenue |-> 0, cost |-> 0], [revenue |-> 400, cost |-> 80],
             [revenue |-> 400, cost |-> 240], [revenue |-> 1000, cost |-> 240]}
TheSlips == {40}
=============================================================================
