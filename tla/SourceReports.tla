----------------------------- MODULE SourceReports -----------------------------
(***************************************************************************)
(* Files from outside: CSV tables with their mapping and control totals    *)
(* (memory/lineage.py, io/pl_csv.py), connector fixtures                   *)
(* (memory/connectors.py), Xero report exports (io/xero_au.py), the        *)
(* comparison of two imports (memory/reimport.py), the inspection of a     *)
(* folder (memory/inspection.py) and the search of the memory              *)
(* (memory/retrieval.py). Amounts are whole cents; an amount that does not *)
(* parse is NaN, an empty cell is None.                                    *)
(***************************************************************************)
EXTENDS Integers, Sequences, SequencesExt, FiniteSetsExt

CONSTANTS Refused, None, NaN

Tally(f(_), S) == MapThenSumSet(f, S)
Absolute(n) == IF n < 0 THEN -n ELSE n

-----------------------------------------------------------------------------
(* A table: whether its header fits, and rows of an account (None if blank), *)
(* an amount, whether there are more fields than columns, and whether any    *)
(* field is filled. Every reader makes the same refusals.                    *)

Posted(t) == SelectSeq(t.rows, LAMBDA r : r.account # None)
TableFits(t) ==
    /\ t.header = "fits"
    /\ \A i \in DOMAIN t.rows :
         LET r == t.rows[i]
         IN ~r.extra /\ (r.account = None => ~r.filled) /\ (r.account # None => r.amount # NaN)
AmountOf(r) == IF r.amount = None THEN 0 ELSE r.amount

Accounts(rows) == {rows[i].account : i \in DOMAIN rows}
Doubled(rows) == {a \in Accounts(rows) : \E i, j \in DOMAIN rows : i # j /\ rows[i].account = a /\ rows[j].account = a}
TotalWhere(rows, holds(_)) == Tally(LAMBDA i : AmountOf(rows[i]), {i \in DOMAIN rows : holds(rows[i].account)})

\* read_pl_csv, and normalize_fixture of a generated connector.
ReadPl(t) ==
    IF ~TableFits(t) \/ Doubled(Posted(t)) # {} THEN Refused
    ELSE [a \in Accounts(Posted(t)) |-> TotalWhere(Posted(t), LAMBDA b : b = a)]

\* The rules of a source: [status, target, rationale] by account.
RulesOf(mappings, source) ==
    [v \in {m.value : m \in {n \in mappings : n.source = source}} |->
        (CHOOSE m \in mappings : m.source = source /\ m.value = v).rule]

Within(mapped, wanted, tolerance) ==
    LET variance == Absolute(mapped - wanted)
    IN \/ variance <= tolerance.cents
       \/ tolerance.percent > 0 /\ wanted # 0 /\ 100 * variance <= tolerance.percent * Absolute(wanted)

\* Only the targets that have rows are compared with the control totals.
AgreesSlip(totals, expected, tolerance) ==
    \A t \in DOMAIN totals : t \in DOMAIN expected /\ Within(totals[t], expected[t], tolerance)

\* Every total needs its control and every control its total.
Agrees(totals, expected, tolerance) ==
    \A t \in DOMAIN totals \cup DOMAIN expected :
        t \in DOMAIN totals /\ t \in DOMAIN expected /\ Within(totals[t], expected[t], tolerance)

\* reconcile_account_table; expected is <<>> when there are no control totals.
ReconcileTable(t, rules, expected, tolerance) ==
    LET rows == Posted(t)
        rule(a) == rules[a]
        mapped(a) == a \in DOMAIN rules /\ rule(a).status = "mapped"
        targets == {rule(a).target : a \in {b \in Accounts(rows) : mapped(b)}}
        totals == [g \in targets |-> TotalWhere(rows, LAMBDA a : mapped(a) /\ rule(a).target = g)]
        unmapped == Accounts(rows) \ DOMAIN rules
        agreed == expected = <<>> \/ Agrees(totals, expected, tolerance)
    IN IF t.suffix # "csv" \/ ~TableFits(t) THEN Refused
       ELSE [source_total |-> TotalWhere(rows, LAMBDA a : TRUE), mapped_totals |-> totals,
             duplicates |-> Doubled(rows), unmapped |-> unmapped,
             ignored |-> {a \in Accounts(rows) \cap DOMAIN rules : ~mapped(a)},
             agreed |-> agreed, passed |-> Doubled(rows) = {} /\ unmapped = {} /\ agreed]

\* _expected_from_json: pairs of a key and a finite number, each key once.
ExpectedFromJson(pairs) ==
    IF \E i, j \in DOMAIN pairs : (i # j /\ pairs[i].key = pairs[j].key) \/ pairs[i].amount = NaN THEN Refused
    ELSE [k \in {pairs[i].key : i \in DOMAIN pairs} |-> pairs[CHOOSE i \in DOMAIN pairs : pairs[i].key = k].amount]

\* command_reconcile_source of x: only unmapped accounts can be let through.
ReconcileSource(x) ==
    LET expected == IF x.pairs = None THEN <<>> ELSE ExpectedFromJson(x.pairs)
        result == ReconcileTable(x.table, RulesOf(x.mappings, x.source), expected, x.tolerance)
    IN IF x.source \notin x.registered \/ expected = Refused \/ result = Refused THEN Refused
       ELSE [result EXCEPT !.passed =
               /\ expected # <<>>
               /\ IF x.allow_unmapped /\ result.duplicates = {} THEN result.agreed ELSE result.passed]

\* profile_table: rows that are the same as an earlier one are duplicates.
ProfileTable(t) ==
    IF t.suffix \notin {"csv", "tsv", "xlsx"} THEN Refused
    ELSE [rows |-> Len(t.rows), duplicate_rows |->
            Cardinality({j \in DOMAIN t.rows : \E i \in 1..(j - 1) : t.rows[i] = t.rows[j]})]

-----------------------------------------------------------------------------
(* A connector bundle is its fixture and a manifest with the golden totals.  *)

NoTolerance == [cents |-> 0, percent |-> 0]
ManifestFits(m) == m.account_column # m.amount_column /\ m.expected # <<>> /\ NaN \notin Range(m.expected)

\* The golden totals of accounts mapped later are not in the manifest: the
\* scaffold does not ask for every account to be mapped.
ScaffoldFitsSlip(result) == result # Refused /\ result.duplicates = {} /\ result.mapped_totals # <<>>
ScaffoldFits(result) == result # Refused /\ result.passed /\ result.mapped_totals # <<>>

ScaffoldBundle(x) ==
    LET result == ReconcileTable(x.table, RulesOf(x.mappings, x.source), <<>>, NoTolerance)
        manifest == [name |-> x.name, source |-> x.source, account_column |-> x.columns[1],
                     amount_column |-> x.columns[2], expected |-> result.mapped_totals]
    IN IF x.source \notin x.registered \/ ~ScaffoldFits(result) THEN Refused
       ELSE IF ~ManifestFits(manifest) THEN Refused ELSE [manifest |-> manifest, fixture |-> x.table]

\* validate_connector_bundle: None is a bundle or a fixture that is not there.
ValidateBundle(bundle, name, mappings) ==
    IF bundle = None THEN Refused
    ELSE IF ~ManifestFits(bundle.manifest) \/ bundle.manifest.name # name \/ bundle.fixture = None THEN Refused
    ELSE ReconcileTable(bundle.fixture, RulesOf(mappings, bundle.manifest.source), bundle.manifest.expected, NoTolerance)

\* load_connector_manifests, of the bundles by the names of their directories.
LoadManifests(bundles) ==
    IF \E d \in DOMAIN bundles : ~ManifestFits(bundles[d].manifest) \/ bundles[d].manifest.name # d THEN Refused
    ELSE {bundles[d].manifest : d \in DOMAIN bundles}

-----------------------------------------------------------------------------
(* Xero. A row of a report has a label of some text, perhaps led by "Total"  *)
(* or "Less", an account code ("" without one) and an amount by column, None *)
(* where the cell is blank.                                                  *)

Natural == {"Income", "Other Income", "Revenue", "Trading Income", "Assets", "Bank", "Current Assets",
            "Non-current Assets", "Fixed Assets"}
Negated == {"Cost of Sales", "Operating Expenses", "Expenses", "Other Expenses", "Liabilities",
            "Current Liabilities", "Non-current Liabilities", "Equity"}
SectionLabels == Natural \cup Negated
DerivedRows == {"Gross Profit", "Net Profit", "Net Loss", "Net Assets", "Total"}

Derived(r) == r.lead = "" /\ r.text \in DerivedRows
Subtotal(r) == r.lead = "Total"
Heading(r) == ~Derived(r) /\ ~Subtotal(r) /\ r.text # "" /\ \A i \in DOMAIN r.amounts : r.amounts[i] = None
Account(r) == ~Derived(r) /\ ~Subtotal(r) /\ r.text # "" /\ ~Heading(r)
Section(r) == Heading(r) /\ r.text \in SectionLabels

\* "Less" is taken for a sign of its own.
SignSlip(rows, i) == IF \E k \in 1..(i - 1) : Heading(rows[k]) /\ rows[k].lead = "Less" THEN -1 ELSE 1

\* The last section above a row decides its sign; other headings do not.
SignAt(rows, i) ==
    LET above == {k \in 1..(i - 1) : Section(rows[k])}
    IN IF above # {} /\ rows[Max(above)].text \in Negated THEN -1 ELSE 1

PeriodColumns(t) == \A c \in DOMAIN t.columns : t.columns[c] \in t.periods
OptionColumns(t) ==
    /\ t.title = "Profit and Loss"
    /\ \A c \in DOMAIN t.columns : t.columns[c] \notin {"", "Total", "(untracked)"}
    /\ IsInjective(t.columns)

ReportRefused(t, tracking) ==
    LET rows == t.rows
    IN \/ t.columns = <<>>
       \/ IF tracking THEN ~OptionColumns(t) ELSE ~PeriodColumns(t)
       \/ \E i \in DOMAIN rows : Subtotal(rows[i]) /\
            \A k \in 1..(i - 1) : Heading(rows[k]) => rows[k].text # rows[i].text
       \/ tracking /\ \E i \in DOMAIN rows : Heading(rows[i]) /\ ~Section(rows[i])
       \/ \A i \in DOMAIN rows : ~Account(rows[i])
       \/ \E i \in DOMAIN rows, c \in (IF tracking THEN DOMAIN t.columns ELSE {1}) :
            Account(rows[i]) /\ rows[i].amounts[c] = NaN

XeroRow(code, account, amount, option) == [code |-> code, account |-> account, amount |-> amount, option |-> option]

\* _read_report_layout, as a set of rows told apart by their place.
ReadReport(t, tracking) ==
    LET used == IF tracking THEN DOMAIN t.columns ELSE {1}
        option(c) == IF tracking /\ t.columns[c] # "Unassigned" THEN t.columns[c] ELSE ""
    IN IF ReportRefused(t, tracking) THEN Refused
       ELSE [p \in {i \in DOMAIN t.rows : Account(t.rows[i])} \X used |->
               LET r == t.rows[p[1]]
               IN XeroRow(r.code, r.text, SignAt(t.rows, p[1]) * AmountOf([amount |-> r.amounts[p[2]]]), option(p[2]))]

\* _read_flat_layout: already signed, with the options in a column. Blank rows are
\* dropped before it.
ReadFlat(t) ==
    LET rows == SelectSeq(t.rows, LAMBDA r : r.filled)
    IN IF ~TableFits(t) \/ rows = <<>> THEN Refused
       ELSE [i \in DOMAIN rows |-> XeroRow(rows[i].code, rows[i].account, AmountOf(rows[i]), rows[i].option)]

SumWhere(report, holds(_)) == Tally(LAMBDA p : report[p].amount, {p \in DOMAIN report : holds(report[p])})
ByAccount(report) == [a \in {r.account : r \in Range(report)} |-> SumWhere(report, LAMBDA r : r.account = a)]

\* Rows without an option are left out.
ByTrackingSlip(report) ==
    LET options == {r.option : r \in Range(report)} \ {""}
    IN [o \in options |-> [a \in {r.account : r \in {s \in Range(report) : s.option = o}} |->
                              SumWhere(report, LAMBDA r : r.option = o /\ r.account = a)]]
ByTracking(report) ==
    LET options == {r.option : r \in Range(report)}
    IN [o \in options |-> [a \in {r.account : r \in {s \in Range(report) : s.option = o}} |->
                              SumWhere(report, LAMBDA r : r.option = o /\ r.account = a)]]

\* account_identities: by code, its name and tracking options.
AccountIdentities(report) ==
    LET rows == Range(report)
    IN IF (\E r \in rows : r.code = "") \/ \E r, o \in rows : r.code = o.code /\ r.account # o.account THEN Refused
       ELSE [c \in {r.code : r \in rows} |->
               [name |-> (CHOOSE r \in rows : r.code = c).account,
                options |-> {r.option : r \in {o \in rows : o.code = c}}]]

\* detect_gst_inclusive: against a control total, to within one per cent.
Near(total, control) == 100 * Absolute(total - control) < control
DetectGst(report, revenue, control) ==
    LET total == SumWhere(report, LAMBDA r : r.amount > 0 /\ r.account \in revenue)
    IN IF total = 0 \/ control = None \/ (control # None /\ control <= 0) THEN None
       ELSE IF Near(total, control) THEN FALSE
       ELSE IF Near(10 * total, 11 * control) THEN TRUE ELSE None

-----------------------------------------------------------------------------
(* compare_reimport, of identities by code and of the rules before and after. *)

\* An account that changed its name is taken for another account.
RenamedSlip(before, after) == {}
Renamed(before, after) == {c \in DOMAIN before \cap DOMAIN after : before[c].name # after[c].name}

RuleOf(rules, c) == IF c \in DOMAIN rules THEN rules[c] ELSE None

CompareReimport(x) ==
    LET codes == DOMAIN x.before \cup DOMAIN x.after
        common == DOMAIN x.before \cap DOMAIN x.after
        rules == RulesOf(x.mappings, x.source.id)
        old == IF x.previous_mappings = None THEN rules ELSE RulesOf(x.previous_mappings, x.source.id)
    IN IF \E f \in {"id", "entity", "currency"} : x.previous_source[f] # x.source[f] THEN Refused
       ELSE [added |-> [c \in DOMAIN x.after \ DOMAIN x.before |-> x.after[c]],
             removed |-> [c \in DOMAIN x.before \ DOMAIN x.after |-> x.before[c]],
             renamed |-> [c \in Renamed(x.before, x.after) |-> <<x.before[c].name, x.after[c].name>>],
             tracking |-> [c \in {d \in common : x.before[d].options # x.after[d].options} |-> x.after[c].options],
             mapping |-> [c \in {d \in codes : RuleOf(old, d) # RuleOf(rules, d)} |-> RuleOf(rules, c)],
             unmapped |-> DOMAIN x.after \ DOMAIN rules,
             ignored |-> {c \in DOMAIN x.after \cap DOMAIN rules : rules[c].status = "ignored"},
             source |-> {f \in DOMAIN x.source : x.previous_source[f] # x.source[f]}]

-----------------------------------------------------------------------------
(* inspect_data_files: the files in the order of the walk, each with its     *)
(* extension, the classifiers whose signals its name holds, and whether it   *)
(* is skipped (hidden, in an ignored directory, unreadable).                 *)

DataExtensions == {"csv", "xlsx", "pdf", "yaml"}
Candidate(f) == ~f.skipped /\ (f.extension \in DataExtensions \/ (f.extension = "md" /\ f.context))

Priority == {"profit_and_loss", "balance_sheet", "ar_aging", "ap_aging", "inventory"}
Classifiers == <<"profit_and_loss", "balance_sheet", "ar_aging", "ap_aging", "inventory", "cash_and_bank",
                 "payroll_and_headcount", "sales_and_revenue", "budget_and_forecast", "operations">>
Classify(f) ==
    LET matched == {i \in DOMAIN Classifiers : Classifiers[i] \in f.signals}
    IN IF matched = {} THEN "unclassified" ELSE Classifiers[Min(matched)]

\* A folder with exactly as many files as asked for is called truncated.
TruncatedSlip(count, max) == count >= max
Truncated(count, max) == count > max

InspectFiles(files, max) ==
    LET candidates == SelectSeq(files, Candidate)
        kept == IF Truncated(Len(candidates), max) THEN SubSeq(candidates, 1, max) ELSE candidates
        of(c) == {i \in DOMAIN kept : Classify(kept[i]) = c}
        found == {Classify(kept[i]) : i \in DOMAIN kept}
    IN [files |-> kept, truncated |-> Truncated(Len(candidates), max),
        counts |-> [c \in found |-> Cardinality(of(c))], missing |-> Priority \ found]

\* search_memory: the score is over four times the number of query tokens.
Relevance(e, query) ==
    4 * Cardinality(query \cap e.tokens) + Cardinality(query)
        * (2 * Cardinality(query \cap e.title) + Cardinality(query \cap e.path))
Before(e, o, query) ==
    \/ Relevance(e, query) > Relevance(o, query)
    \/ Relevance(e, query) = Relevance(o, query) /\ e.at < o.at
SearchMemory(entries, query, categories, limit) ==
    LET hits == {e \in entries : query \cap e.tokens # {} /\ (categories = {} \/ e.category \in categories)}
        ranked == SetToSortSeq(hits, LAMBDA e, o : Before(e, o, query))
    IN IF limit < 1 THEN Refused ELSE SubSeq(ranked, 1, Min({limit, Len(ranked)}))
=============================================================================
