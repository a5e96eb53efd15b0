------------------------------ MODULE FixedAssets ------------------------------
(***************************************************************************)
(* Accounting depreciation from evidence on disk (au/depreciation.py) and  *)
(* the driver series fetched from the RBA and the ABS (au/drivers.py):     *)
(* what is refused, and what a file that is not refused comes to. Money is *)
(* in hundredths of a cent, so that a figure may be no whole cent.         *)
(***************************************************************************)
EXTENDS TaxDates

CONSTANT NaN    \* a cell that holds no value

Cent == 100

(* An evidence file: whether it reads as JSON of the supported schema, its  *)
(* calculation block with the digest recorded for it, the producer's        *)
(* verdict and the figures, None where the block leaves one out.            *)
EvidenceReads(file) ==
    /\ file.schema = "supported"
    /\ file.calculation # None
    /\ file.digest = file.calculation
    /\ file.inner_schema = "supported"
    /\ file.malformed = {}                        \* fields of a wrong type
    /\ file.accepted \in BOOLEAN

\* The recorded digest is not compared.
LoadEvidenceSlip(file) ==
    IF file.schema = "supported" /\ file.calculation # None /\ file.malformed = {} THEN file ELSE Refused
LoadEvidence(file) == IF EvidenceReads(file) THEN file ELSE Refused

Blocking(e) == {f \in e.findings : f # "note:"}
RefusalReasons(e) ==
    {r \in {"status", "charge", "accepted"} :
        \/ r = "status" /\ e.status # "COMPUTED"
        \/ r = "charge" /\ e.charge = None
        \/ r = "accepted" /\ ~e.accepted} \cup Blocking(e)
Usable(e) == e.status = "COMPUTED" /\ e.charge # None /\ e.accepted /\ Blocking(e) = {}

AssetMovement(opening, additions, depreciation, closing) ==
    LET gap == closing - (opening + additions - depreciation)
    IN [gap |-> gap, closes |-> gap <= Cent /\ -gap <= Cent]

\* The magnitude is split in cents, then the sign restored.
Magnitude(n) == IF n < 0 THEN -n ELSE n
ShareOf(charge, months, i) ==
    LET cents == Magnitude(charge) \div Cent
    IN (cents \div months + IF i <= cents % months THEN 1 ELSE 0) * (IF charge < 0 THEN -Cent ELSE Cent)

\* The sign is not taken off before the division.
StraightLineSlip(e, months) ==
    IF ~Usable(e) \/ months = 0 \/ e.charge % Cent # 0 THEN Refused
    ELSE [i \in 1..months |-> (Magnitude(e.charge) \div (Cent * months)) * (IF e.charge < 0 THEN -Cent ELSE Cent)]
StraightLine(e, months) ==
    IF ~Usable(e) \/ months = 0 \/ e.charge % Cent # 0 THEN Refused
    ELSE [i \in 1..months |-> ShareOf(e.charge, months, i)]

\* cash_and_expense: a purchase outside the schedule's months is refused, not lost.
CashAndExpense(schedule, purchases) ==
    IF schedule = Refused \/ ~(DOMAIN purchases \subseteq DOMAIN schedule) THEN Refused
    ELSE [i \in DOMAIN schedule |->
            [profit |-> -schedule[i], cash |-> IF i \in DOMAIN purchases THEN -purchases[i] ELSE 0]]

-----------------------------------------------------------------------------
(* fetch_rba_series: rows of a day and a value, None where they do not parse. *)

Parsed(rows) == {r \in rows : r.on # None /\ r.value # None}

\* The rows are taken in the order of their values.
RbaSeriesSlip(table) ==
    LET observed == Parsed(table.rows)
    IN IF ~table.has_ids \/ ~table.has_series THEN Refused
       ELSE [m \in {MonthOf(r.on) : r \in observed} |-> Max({r.value : r \in {o \in observed : MonthOf(o.on) = m}})]

\* Of a month the last day counts; two values for one day are refused.
RbaSeries(table) ==
    LET observed == Parsed(table.rows)
        conflict == \E r, o \in observed : r.on = o.on /\ r.value # o.value
        last(m) == CHOOSE r \in observed : /\ MonthOf(r.on) = m
                                           /\ \A o \in observed : MonthOf(o.on) = m => o.on <= r.on
    IN IF ~table.has_ids \/ ~table.has_series \/ conflict THEN Refused
       ELSE [m \in {MonthOf(r.on) : r \in observed} |-> last(m).value]

(* fetch_abs_series: rows of a period, its frequency, a value and what the   *)
(* columns other than the observation's say of it.                           *)
Selected(table, dims) == {r \in table.rows : \A c \in DOMAIN dims : r.dims[c] = dims[c]}
WithValue(rows) == {r \in rows : r.period # None /\ r.value # NaN}
Numeric(rows) == {r \in WithValue(rows) : r.value # None}

AbsRefused(table, dims) ==
    LET rows == Selected(table, dims)
        numeric == Numeric(rows)
    IN \/ ~table.has_key \/ ~table.has_columns
       \/ ~(DOMAIN dims \subseteq table.columns)
       \/ \E r, o \in rows : r.dims # o.dims \/ r.unit # o.unit
       \/ \E r \in WithValue(rows) : r.frequency # table.frequency
       \/ \E r, o \in numeric : r # o /\ r.period = o.period
       \/ numeric = {}

AbsSeriesSlip(table, dims) ==
    IF ~(DOMAIN dims \subseteq table.columns) \/ Numeric(Selected(table, dims)) = {} THEN Refused
    ELSE [p \in {r.period : r \in Numeric(Selected(table, dims))} |->
            (CHOOSE r \in Numeric(Selected(table, dims)) : r.period = p).value]
AbsSeries(table, dims) ==
    IF AbsRefused(table, dims) THEN Refused
    ELSE [p \in {r.period : r \in Numeric(Selected(table, dims))} |->
            (CHOOSE r \in Numeric(Selected(table, dims)) : r.period = p).value]
=============================================================================
