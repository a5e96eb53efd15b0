# A verification project for the AU FP&A pack

The repository is a Python kernel (`pyfpa`) for financial planning work on
Australian company files, driven by an agent that follows the instructions in
`skills/`. Most of the kernel is pure calculation. What can go wrong in ways a
unit test hardly reaches is in the files it keeps: a library shared between
client workspaces, the approvals that guard it, a registry of champion models,
generated connectors, and the memory of each workspace. None of them is locked,
every document is read, changed and written whole, and several sessions and the
practitioner's own editor may work on them. Of the calculations, the monthly
forecast carries balances from month to month under several switches, a payment
plan carries a debt from day to day, and the others move dates and split
amounts; their errors would be plausible numbers.

## Inventory

| part | state it keeps | operations | what is hard | what makes it correct |
|---|---|---|---|---|
| approvals (`portfolio/approval.py`) | `approvals/<digest>.yaml` | record, load, check, stamp findings | exclusive create against a later overwrite; names changed by hand | a decision on file is one a practitioner recorded |
| shared library (`portfolio/library.py`) | `priors/`, `skills/`, `provenance/workspaces.yaml`, `provenance/seeds.yaml`, each client's `.fpa/library-seeds.yaml` | promote a prior or a skill, seed a client, withdraw | read-modify-write by several sessions, crashes between four writes, hand edits | default deny in both directions; a seeding can be traced |
| research memory (`research/`) | `models/registry.yaml`, `research/*.epoch.yaml`, `research/objective.yaml` | save epochs, register, promote | stale copies, two saves per promotion, doctored epochs, changing objectives | one unbroken, evidenced succession of champions |
| connector bundles (`memory/connectors.py`) | `connectors/generated/<name>` and its staging and backup directories | scaffold, validate, load manifests | two renames that are not one, races with another process, failures in the cleanup | a bundle in place is whole, the previous one survives |
| workspace layout (`memory/workspace.py`, `paths.py`) | `.fpa/` and the directories and seed files around it | init, open, path safety | exists-then-write, a torn seed file taken as existing | initialisation is idempotent and never overwrites |
| lineage and entrypoints (`memory/lineage.py`, `entrypoints.py`) | registries of sources, mappings and generated entrypoints | register, save | load-modify-save by several commands, a mapping checked against another file | every mapping names a registered source |
| intake and onboarding (`memory/intake.py`, `onboarding.py`) | `intake.md`: facts with status, confidence and evidence; `business-profile.md` and the architecture proposal | record answers and evidence, render | order of evidence, two outputs published apart, the seeded profile | evidence never overrules the user; a decision on file is not overwritten unasked |
| learning records (`memory/corrections.py`, `experiments.py`, `backtest/snapshot.py`, `au/drivers.py`, `io/atomic.py`) | one file per correction, experiment, forecast or driver snapshot, a scorecard, exports | create, overwrite, score, list, apply, render, export | torn exclusive creates, counters probed by two scripts, one unreadable file among many | a record saved is never replaced by another, a reading is complete or refused |
| validation and mining (`portfolio/validate.py`, `mine.py`, `recover.py`), evaluation (`research/epochs.py`) | none | leave-one-client-out folds, mining, recovery, comparison with the champion | refused folds, divisors, signs, zero baselines | a prior is accepted only when no fold degrades; what was scored can be recovered |
| backtest (`backtest/score.py`, `holdout.py`, `learn.py`) | none | score, split, propose | zero denominators, thresholds | scoring never sees the fitted periods |
| obligations and payroll (`au/gst.py`, `payg_instalments.py`, `paygw.py`, `super_guarantee.py`, `payroll_tax.py`, `fbt.py`, `payroll*.py`) | none | schedules, due dates, settlement by events, months and weeks | business days, quarters, reviewed holidays and rates, windows | every amount exactly once, never before it is owed |
| payment plan (`au/payment_plan.py`) | a loop of days | estimate | rounding, payments that never clear the debt | rows reconcile to the cent; the loop ends |
| fixed assets and series (`au/depreciation.py`, `drivers.py`) | none | load evidence, spread, roll forward, read a table | conflicting evidence, gaps and duplicates | what is not refused adds up |
| 13-week cash (`cash13/`) | none | place flows, running cash, runway, scenarios | ends of months, the window's edges | each flow in the weeks of its days |
| imports (`io/xero_au.py`, `pl_csv.py`, `memory/lineage.py`, `connectors.py`, `reimport.py`, `inspection.py`, `retrieval.py`) | none | read, reconcile, compare, inspect, search | signs by section, control totals, truncation | what is imported agrees with the file or is refused |
| reports (`analysis/`, `io/reporting.py`) | none | review, sale of a unit, headline, segments, SKUs, assumptions | the forecast's identities under its options | a report follows from the forecast it is about |
| monthly forecast (`models/`, `config/schemas.py`) | none between calls; balances, loss and provision from month to month | forecast, delay a receipt | non-cash items in and out under three switches, income years, flows cut off at nil and at the horizon | the forecast articulates; nothing is counted twice |
| Excel workbooks, continuous integration gates, examples | none | formats and generated demonstrations | | not modelled |

Components interact through files, or by passing what one calculation returned to
the next. `promote_prior` calls the approval gate,
then the id map, the priors file, the log and the findings stamp; a seeding
reads all of those and writes the client's record before the library's index;
`promote_challenger` is pure, its caller saves the registry and then the epoch;
`scaffold_connector_bundle` passes a callback to `_replace_generated_tree`;
`command_mapping_register` reads the source registry before it loads its own;
onboarding reads the intake and replaces what initialisation seeded; corrections
and scored forecasts are read back by the lists, the doctor, the corrected model
and the scorecard. A BAS becomes weekly flows and these a cash forecast; a
payroll becomes dated events, and these liabilities by month and payments by
week; a score becomes recovered actuals, a mined prior and its validation.

## Modules

| module | models | proved in |
|---|---|---|
| `PromotionApproval` | the pure decision of `check_promotion_approval`: scope, contributors, aliases, allowed files, screen | used by the two below |
| `PromotionLibrary`, `PromotionRegimes` | `record_promotion_approval`, `validate_prior`'s attestation, `promote_prior`, `seed_from_library`, `withdraw_prior`, crashes and hand edits; the same with sessions that work one after the other | `PromotionLibraryProofs` |
| `SharingBoundary` | the abstract promise: shared means approved and validated, used means approved | refinement proved in `PromotionLibraryProofs` |
| `SkillPromotion` | `promote_skill`: capture, check, copy, while the client's tree changes | `SkillPromotionProofs` |
| `ChampionRegistry`, `ChampionTurns` | registry, epochs, objective and the loop of `skills/fpa-research-loop`; the same and whether two commands overlapped | `ChampionRegistryProofs` |
| `ConnectorInstall` | `_replace_generated_tree` of several processes | `ConnectorInstallProofs` |
| `CompanyMemory` | `initialize_workspace`, the source and mapping registries, `record_intake_fact`, `write_onboarding_outputs` and the commands around them | `CompanyMemoryProofs` |
| `LearningRecords` | the saves, scores, exports and readings of corrections, experiments, forecasts and driver snapshots, with crashes and failed writes | `LearningRecordsProofs` |
| `TaxDates` | the fiscal calendar, activity statements with GST, instalments, withholding, super, payroll tax and FBT: due dates and weekly flows | used by the four below |
| `Payroll` | payroll by month, its settlement in events, liabilities and weekly payments | used by `CashCalls` |
| `WeeklyCash` | the 13-week cash, its runway and its scenarios | |
| `FixedAssets` | depreciation evidence and movements, RBA and ABS series | |
| `PaymentPlan` | `payment_plan_estimate`, a day per step | used by `CashCalls` |
| `CashCalls` | a session calling these functions, alone and one on the answer of another | `CashCallsProofs` |
| `ForecastEvidence` | scores, holdout, recovery, mining, validation, evaluation of a challenger | |
| `ForecastReports` | review, divestiture, headline, segments, SKUs, assumptions | |
| `SourceReports` | account tables and their reconciliation, connector fixtures and manifests, Xero reports, re-import, inspection, search | |
| `EvidenceCalls` | a session calling these functions | |
| `MonthlyForecast` | `cashflow_from_config` with working capital, debt, opex and both tax treatments, and `apply_receipt_delay` | `MonthlyForecastProofs` |

`MC*.tla` hold the constants of the TLC instances. `PromotionRegimes` and
`ChampionTurns` add one variable each to a component: whether sessions work one
after the other, and whether the commands of two sessions have overlapped. So one
run, and one proof module, covers what holds always and what holds of sessions
that take turns; `MCPromotionRegimes` gives the free regime fewer constants.
`MCLibraryCalls` runs `CashCalls` and `EvidenceCalls` side by side.

### How the state corresponds to the code

**Files and sessions.** A session is a process. Each file access is a step:
`read` computes the new document, `open` is the truncation `write_text` does
first, `flush` the content reaching the file. `create_yaml` and `save_epoch`
without `overwrite` open with `"x"`, so their open step is the existence check.
What a truncated file means follows the loader: the library's readers have
`read_yaml(path) or {...}`, so it is an empty document; an approval, an epoch and
the registry are validated by pydantic, which refuses `None`, so they are `Blank`
and whoever reads them stops.

**PromotionLibrary.** A candidate stands for its digest, which covers business
type, driver, value and support. An entry of the priors file is a pair: the
digest it claims and the content it has, which a hand edit can make different;
`_seeding_refusal` recomputes the digest from the content and the id map.
`attested` are the candidates the key of this process has vouched for: the key
is random per process, so a crash empties it. The gate's own reads (approval,
headings) are one step. History variables (`granted`, `decided`, `ratified`,
`published`, `derived`) record what people decided and what was done; no action
reads them.

**SkillPromotion.** A skill tree is a function from files to versions. The list
of files is taken first and each file is then read, while `EditSource` may change
the tree; digest, allowed files, screen and copy use the captured versions.
The approval and id files are written in one step here because `PromotionLibrary`
takes those writes apart.

**ChampionRegistry.** `evidence` stands for metrics, checks and complexities. The
objective of the moment decides which evidence is eligible and which complexity
cost is stored; `promote_challenger` recomputes both from the objective now on
file. `DoctorEpoch` is the hand edit its comment warns of.

**ConnectorInstall.** A tree is the call that built it and the parts present.
Renames are atomic and refuse an occupied target; building and removing are one
part at a time. `Crash` may come at every step; what the process had on disk
then stays as `stray`.

**CompanyMemory.** A session runs one command at a time; `op` is the command,
`pc` its next step, `file` the file this step is about, and `ids`, `facts` and
`arg` what it read and will write. A registry is the set of identifiers it
holds (of a mapping rule, the source it is for), an answer is one up to case, as
`casefold` compares them, and a confidence counts tenths. `initialised` is the
directory `.fpa`, the only thing `_require_initialized` asks for. The structured
files go through `open` and `flush` as above; truncated, each of the three loads
as an empty document (`read_optional_yaml` turns an empty registry into `{}`, and
an intake without frontmatter has no facts). The onboarding outputs need more:
one may be replaced by a rename while another process still holds the old file
open, so each has an `inode`, the number of the command that created it, and
`WriteOutput` reaches the path only if that file is still there. The first
look of `write_onboarding_outputs` at both outputs is one step; the second
look at the profile and the rename are separate steps. Hand edits touch an
output that is not being written.
Two history variables: `word` records what people and documents said about a
key in saves that completed, and `raced` the files on which the spans from load
to save of two commands overlapped, or a save broke off. Properties about
the content of a file are claimed while it is *settled*: unlocked saves may lose
each other's changes, as the findings say for other
files, and what remains to be shown is that nothing else loses them, for
interleavings over different files too.

**MonthlyForecast.** The code fills whole columns; the model does a month per
step, which is the same because no entry depends on a later month. A month's
revenue and cost of sales are any pair of `Sales`: the channels, growth and
seasonality that produce them are left out, so the run covers every sequence.
The other channels, opex lines and instruments only add up, so there is one
fixed and one variable opex line, one term loan and one line of credit. Rates
and shares are percentages; the amounts of the instance make every division
exact, so rounding, the millionth-of-a-dollar tolerance and non-finite results
are not modelled. `receipts` and `write_offs` extend past the horizon, where the
code's slices end, so that what remains owed can be stated; `book` holds the
local variables of `_income_year_tax` or `_tax_series`, and `charged` adds up
the tax. A `ValueError` sets `refused`: the code raises it after the months
before were computed, and nothing further happens. The code refuses working
capital for all months before it looks at tax, so which refusal comes first is
not represented, only that there is one. `earned`, `paid`, and the two books
`ifSo` and `ifNot` kept as if the question of `forecast_losses_deductible` had
been answered, are history. An income year has `YearMonths` months and the
forecast begins with one, which `EntityConfig` requires of `income_tax`.

**LearningRecords.** A path is a directory and a number, which stands for the name
and its place in sorted order. A save is two steps: `OpenNew` (mode `"x"`) or
`OpenOver` (mode `"w"`), after which the file is `Empty`, and `Write`. A failed
write and a crash are the same step, `Crash`: the session is idle and the file
as it was. Text written over a file that someone filled meanwhile may leave any
content of that kind or something unreadable (`Mixed`), because two descriptors
write from position nought. `SaveSeries` and `Probe` are `save_snapshot`'s loop
over counters. A reading lists a directory, then reads its files in order of
name: for corrections and experiments the first failure ends it, for forecasts
each is tried, as in the code. Scoring a forecast and saving it back is the
caller's two calls. History: `kept` is what a completed save put down, `touched`
the paths overwritten or edited by hand, `owed` what a reading has to contain.
Slugs with path or device syntax are refused before any file access and are left
out, and a directory is made as part of the save.

**Calculations.** Each function is an operator with the function's name in the
module's style; a `ValueError` is the answer `Refused`, an option not given
`None`, a missing value `NaN`. `CashCalls` and `EvidenceCalls` turn each public
function into an action that picks its arguments from `Inputs` and keeps the
answer; a second action may be asked on the answer of a first, as the
documentation chains them. A validation is asked with the prior that was mined, with
another value of it or without one, over all the clients, those of its type, all but
one of these, or with one of them twice; among the clients are some whose stored
score is negative, lacks a line or weighs nothing. Each client carries besides its files what really
happened to it and which snapshot is evidence (`truth`, `measure`, `days`, `uses`); the
functions do not read these, and `PriorHeldOut` is stated in nothing else, so it does
not take from `Usable`, `BestSnapshot` or `RecoverActuals` what it checks them for.
`XeroComplete` claims the sum of a report whose section headings the reader knows;
what it does under another heading is the run `xero_signs`. Dates are days since 1 January of year 1, so
weekdays and month ends are the calendar's own. Amounts are integers and the
instances make the divisions exact, except where rounding is what a property is
about: payment plans, straight-line shares and ratios. Scores are exact
fractions, so rounding, overflow and the guards against non-finite results are
not modelled.

**PaymentPlan.** A step is one pass of the `while` loop in `_plan_rows`; the
clearing payment is a step of its own because it accrues nothing and returns.
The code carries the interest as a decimal, here it is carried in `Fine` parts
of a cent; the theorems hold for every `Fine`, the instance has a thousand, so that
half a cent can be left. `Cents` rounds as `_cents` does, half a cent away from nil on
either side of it: a payment that rounds half a cent up leaves a balance that
rounds to minus a cent, and the loop goes on. `phase` is "refused" when
`rate_at` raises or an argument is rejected.

## Runs

| run | bounds | what it shows |
|---|---|---|
| `library_concurrent` | two sessions, two candidates of one driver, four workspaces, six operations; torn writes and hand edits at any moment; or sessions that work one after the other, with a crash between any two writes but none in the middle of one | the boundary holds in both directions whatever happens, and the refinement of `SharingBoundary`; of sessions that do not overlap, decisions stand, withdrawals name every seeded client and an indexed seed is in the client's own record |
| `approval_restated` (violation) | two sessions, hand edits while commands run | the findings stamp brings back an approval removed meanwhile (`library.py:139`) |
| `skill_promotion` | two sessions, two files, two versions (one of them names a client), five operations | only approved bytes are in the library, a logged skill is whole |
| `research_concurrent` | two sessions, torn writes, two models, two epochs, seven operations | the registry stays consistent and evidenced although saves are lost; as long as no two commands overlap, the champion changes only with its record and no epoch is ahead of the registry |
| `connector_install` | two processes, two files, four calls | the five promises of a replacement and that nothing is clobbered |
| `company_memory` | two sessions, one key, two answers, two sources, confidences below and above the threshold and out of range, five commands or hand edits | rules have sources, the user's answer stands, a known fact is undisputed, a decision has its profile, outputs are not overwritten unasked |
| `intake_out_of_range` (violation) | as above, two commands | evidence for an existing fact is saved with a confidence its model forbids (`memory/intake.py:216`) |
| `monthly_forecast` | ten companies, four sales levels, six months, income years of two months, one delayed receipt | the forecast articulates at every month end; sales are collected or written off once; stock is the least possible; a loss shelters income once; an undecided loss never mattered; a delay moves cash and nothing else |
| `library_calls` | tables cut down from those of 2026–27 (the same rules and reviewed days, fewer holidays and states, rounder rates and thresholds) and arguments about their edges for some fifty functions; the payment plans of `ThePlans` to the end of the reviewed rates | answers of the calculations, alone and chained, meet definitions that do not compute them the same way; plans reconcile and end |
| `plan_instalments` (violation) | the payment plans of `ThePlans` | an instalment that rounds half a cent up does not clear the debt; one of minus a cent follows (`au/payment_plan.py:120`) |
| `xero_signs` (violation) | the Xero reports of `library_calls` | the accounts under "Direct Costs" keep the sign of the section above (`io/xero_au.py:252`) |
| `learning_records` | two sessions, two corrections, an experiment, a forecast, one series with counters 0 to 2, three operations | a saved record stands, a reading is complete or refused, an export in its place is whole |

In the modules about files every counter is bounded by `MaxOps`, named in each module: the number of
operations and hand edits begun. The bounds let each interesting case happen:
a promotion needs an approval, a validation and the promotion itself (three
operations), a second session's conflicting operation makes four or five, and a
hand edit one more. Two sessions suffice for a lost update, one more file than
one suffices for a partly built or removed tree. `CHECK_DEADLOCK FALSE` is set
because behaviours end when the operations are used up. Symmetry is used where
the constants are interchangeable and only in runs of safety properties.

The bounds of `monthly_forecast` are `Horizon`, `YearMonths`, `MaxLag` and
`MaxSlips`. Its ten companies differ from a plain one in one choice
each: collection profile, long payment terms that lead to refusals, stock on
replenishment, the three answers on forecast losses, no tax, no opening loss,
and a profile with the income-year provision. Six months of two-month years are
three income years, enough for a loss, the year it is carried into and one
beyond; a lag of two months outlives the horizon; four levels of sales give
losses, small profits, profits after costs of sales and a sharp rise.

The bounds of `learning_records` are `MaxOps`, three commands and hand edits, and
`MaxCounter`. Two saves of one name and a reading of it, or a saved forecast,
its score and a doctor, are three; a correction and a forecast are on file from
the start, so a score or an overwrite is among the first. Three counters hold
the files of three snapshots.

`library_calls` has no counter: a session makes one call, or a chain of up to
three, and the bounds are the arguments in `Inputs` and `MaxDay`, the last day
a plan is looked at, which lies past the end of the reviewed rates. The
arguments lie on both sides of each edge the code has: month and quarter ends,
weekends and runs of holidays, the days a concession begins and ends, the last
reviewed day, an empty table, a zero or negative base, equal values at a
threshold. A call on whose answer nothing is claimed returns `Refused`; each
property would fail if every call were refused, since it has a mutant for each
module and the mutants change answers.

Fairness: `PaymentPlan` assumes weak fairness of `PlanDay`. The estimate is one
call: once its arguments are accepted, its loop runs without waiting for
anything, so it takes its next day. `PlanEnds` then says that the loop ends, for
plans whose instalments do not cover the interest too: those meet the end of the
reviewed rates and are refused, which is what the docstring of
`payment_plan_estimate` says. Of the parts that keep files no fairness is assumed
and no liveness is claimed: a session may stop for good at any step, and the code
has no scheduler, timer or retry that would make it continue.

## Proofs

Checked by TLAPS for every value of the constants, from the named assumptions of
each module. `NoNameAssumption`, `LibraryAssumption`, `SkillAssumption`,
`RegistryAssumption`, `InstallAssumption`, `MemoryAssumption` and
`RecordsAssumption` only say what kind of value each constant is (a decision has
the fields of `PromotionApproval`) and that the markers for absence are no such
values. `ForecastAssumption` and `ProfileAssumption` say what the configuration
schema admits, `UnitAssumption` that amounts are counted in a unit fine enough
for the shares of a collection profile, and `TaxUnitAssumption` that the tax on
the amounts an income is made of (a sale and its costs, a month's depreciation,
interest on what is left of the loan) is a whole number of units; the code's amounts
are fractions, of which `Share` would cut off a part here.
`PlanAssumption`: arguments of a plan are whole cents, a rate is a natural number
of parts of which no day doubles a debt, and the entries of the rate table have dates
of which one is latest.
`StatutesAssumption`, `RatesAssumption` and `PayrollAssumption` say what kind of
value the tables of `pyfpa/au/data` and the arguments of the payroll functions hold
(days, rates and thresholds, a list of roles, an interval of months).
`PaydayUnitAssumption` and `PremiumUnitAssumption` fix the unit of money, as
`UnitAssumption` does: a month's pay divides over its paydays, and the premium on
each role is whole, where the code's decimals would carry a fraction on.
`CashAssumption` is what the schemas of `cash13` admit of a flow, a configuration and
a change, and `FilesAssumption` what a cell of the files read may hold.
`AddedFlowsAssumption` is about the model only: a list of flows is a set here, so a flow
that a scenario adds has to have a name that no base flow has.

* **Library.** The invariants of the runs are not inductive: that an approval is
  granted when a promotion cites it depends on what the session read earlier.
  The inductive invariant is `TypeOK`, `ControlOK` (each session is at a step of
  its operation and holds the arguments and the document this step needs) and
  `BoundaryInv` (approvals on file and in memory differ from a granted decision
  at most in the reviewed findings; a session past the checks of a seeding holds
  approved entries only). It is proved step by step, then `PublishedOnGrant`,
  `SeedsRestOnApproval` and the refinement follow. `OnFileWasGranted` needs
  `StampInv` besides: a session holds, from the gate to the stamp, findings that
  the approval in its memory reviewed, and that approval is a granted one cut
  down. `AloneTraceable` rests on `AloneInv`, proved for sessions one after the
  other: at most one is at work; the decision it has in memory is the one that
  stands; the document it is about to write contains what its file was owed; and a
  seeding has written the client's record before the id map, and this before the
  index. A file that is being written is excused, and only one can be.
* **Skill.** `SkillInv`: an approval on file is a granted one, its reviewed findings
  cut down at most; a session past its check holds a tree that was approved and
  findings its approval reviewed (`HeldIsApproved`); only one session can have made
  the library's directory, and while it copies, the directory holds captured
  files, the captured versions of them, and all that are not still to do
  (`CopyUnderWay`). `CopiedWasApproved` is a part of it; `LoggedIsWhole` follows for
  the one step that logs. The order of the files needs that a set of numbers has
  a smallest.
* **Registry.** `WellKept` has to hold of every copy in a session's memory, not
  only of the file, because a stale copy can become the file at any time. Lemmas
  show that registering and promoting keep a registry well kept; the steps that
  save only move registries around. Evidence is kept in a growing history, so an
  older copy never loses its evidence. For `TurnsKeepRecord`, `TurnsInv` adds, as
  long as no commands have overlapped: one session is at work; the registry it is
  about to save names every epoch that is marked promoted and the one it will
  mark, and either keeps the champion or ends in the promotion that changes it
  (`ReadyToSave`); `active` is the champion of a registry on file.
* **Connector.** The invariant says for each step which of staging, backup and
  bundle exist and are whole, for any set of sessions and parts. All six
  properties of the run are theorems; `NoClobber` needs of the invariant only that
  a session at the step that sets aside was called with `overwrite`, `PreviousKept`
  that what is set aside is whole and what a session removes it has replaced.
* **Company memory.** All six properties of the run are theorems. The inductive
  invariant `MemoryInv` adds to the type invariant: which command and which file
  belong to each step (`ControlOK`); that outside `raced` at most one session is
  in a span on a file (`Exclusive`); that no two renders share a number, so a
  file created by one is not written by another (`DistinctRenders`,
  `OutputsKnown`); that a proposal, and each session about to publish one, rests
  on a profile with facts (`ProposalRests`); that a copy of the source registry
  in memory, when settled, holds all sources of all rules, on file and about to
  be (`SourcesLoaded`, `RulesAreFirm`); and that the fact a session is going to
  save, like the one on file, agrees with what has been said (`FactInv`).

* **Learning records.** `RecordsKept` needs to know what lies between two file
  accesses: a session about to write a file it created is the only one, and the
  file is still empty unless it was opened for overwriting since; a session
  about to probe a counter holds a fit body. For readings the invariant says that
  each saved record of a listed directory has been read or is still to be, or
  the reading has failed, and that what was read is what the save left.
* **Payment plan** (for the session's `Spec`, in `CashCallsProofs`). The invariant
  `PlanInv` keeps the books in parts of a cent
  (`Books`: what is owed is the debt and its interest less what was paid) and the
  schedule in cents (`LastRow`, `RowsHold`). Rounding half away from nil does not
  commute with whole cents once the balance is below nil, so the two are joined by
  bounds on both sides: `Cents` is a nearest whole number (`CentsRounds`), and
  the last row is within half a cent of the balance. From this, what
  is left after a payment is at least half a cent below nil at worst, where the
  row closes at minus one (`Closing`), and what is less than half a cent either way
  counts as nil (`CentsOfLittle`), so a plan that clears closes at nil. While the
  last row shows a debt there is one, and its interest has only grown
  (`Accruing`, from `RateFits`).
  `SchedulesReconcile` holds for every number of parts to a cent, all plans and
  rate tables; that the loop ends is liveness and left to TLC.
* **Payroll.** `PayrollSettles` follows from `CallsRight`: the arguments of each call
  are those of the answer before it, and its answer is what the function returns on
  them. What is left is about the functions. One employer pays at least the payroll
  tax of two parts of it because the tax is a rate on what exceeds one threshold
  (`OneThreshold`), and the other costs add up role by role. The events of a settlement are
  known by component and day, so their amounts add up to the costs
  (`EventsSettled`): a component paid on paydays is divided over them, one paid by
  month or term is paid whole. Of a component's liability the invariant of the roll-forward is that
  a month closes owing what arose up to it and is paid after it (`Outstanding`),
  for which an event has to be paid no earlier than it is owed. Every day lies in
  exactly one month (`MonthLasts`, `DayInMonth`), and a later one in no earlier month
  (`MonthsFollow`), by the calendar's own arithmetic; a flow of a window is in the
  week of its day.
* **Cash, assets and series.** `AmountsPlaced` follows in the same way from
  `PlacementsRight`. The code scans for the occurrences of a monthly or quarterly flow
  from the first that can reach week 1, over a number of them taken from the weeks left;
  the property counts days of the calendar. Each occurrence is the one day of its month
  that matches the anchor (`Occurrence`, `OccursOn`), and the scan misses none: it begins
  at or before the month of the window, and occurrences are four weeks apart or more
  (`ScanReaches`); so they are as many as the days (`CountedOnce`), two in one week
  included. The running cash is a sum (`CashRolls`), of which the first breach is the
  least week (`BreachFound`). A delayed flow is the flow itself that many weeks earlier
  (`DelayShifts`), and changes by name keep different flows different unless they come to
  nothing (`ChangesApart`), so the sum over the changed flows is the sum over the base
  (`SumMerged`). The shares of a charge are those of a division with remainder
  (`SharesAdd`). Of finitely many observations of a month one is the latest
  (`LatestOf`), and it is the only one of its day because the reader refuses two values.
* **Monthly forecast.** All seven properties of the run are theorems. The inductive invariant `IInv` has a
  part for each. `BalanceSheetBalances` is inductive given the types (`Typed`):
  `MonthArticulates` shows that the terms of a month's cash cancel against the
  movements of the other balances, whatever the switches and sales, and without
  any assumption on how the divisions round. `UnknownLossIsMoot` needs `Moot`: the
  three books agree on income, provision and tax, and unless the rate is nil the
  loss of `ifSo` exceeds the other two by exactly the undecided one (`Ahead`),
  and this year's income has not reached it. `SalesSettledOnce` is inductive,
  because a month's sale spreads over the months after it in shares that add up
  to the whole (`SpreadTotal`); this is where `UnitAssumption` is used.
  `StockIsLeast` needs `StockInv`: stock is what is left of the level of some
  month and at least what is left of any. `DelayMovesTiming` needs `Chained`:
  each row's closing cash is that of the month before and the row's change, so
  the rows rebuilt after a delay differ from the old ones in the months between
  and nowhere else, which also gives the types after a delay.
  `LossesShelterOnce` needs `Sheltering`, which says of the book, in the middle of
  an income year, what the property says, and that this year's provision is the
  tax on the income to date above the losses; the results of the income years
  move, month by month, in the year the month is in and nowhere else
  (`ResultsMove`, where a month is in the year of its quotient), and a year that
  closes with a loss brings it forward. The amounts it is made of are sums of
  those in `TaxUnitAssumption` (`EvenIncome`), so no fraction of the tax is lost.

The forecast's, the payroll's and the cash's proofs rest on inductions, which the provers cannot take from the
library's induction theorems, since these have an operator as parameter. They
are stated here for sets instead: `SmallestNat` follows from the well-foundedness
of `<`, and from it `EveryNat` (a set that contains 0 and successors contains all
naturals) and `EverySubset` (the same for finite sets, one element at a time). A
property is then the set of those that have it. From these come what the modules'
sums add up to (`SumIsAdded`, `SumPlus`, `SumTaken`, `SumSame`; the two modules of proofs each state
them for their own) and what a recursive function over the months accumulates (`Accrues`).

Only model-checked: `PlanEnds`, which is liveness; and `ObligationsTimed`,
`EvidenceRight` and `ReportsReconcile`, which are about the other calculations, over
tables and rows of any length.

## Findings

Four statements of the documentation do not hold; the violation runs show the
shortest behaviours.

* `promote_prior` ends by writing back the approval it loaded at its start, so an
  approval removed or replaced meanwhile is restated (`library.py:139`), which
  `approval.py:452` rules out. Where nobody interferes decisions stand
  (`AloneTraceable`).
* `record_intake_fact` updates an existing fact through
  `model_copy(update=...)`, which skips the bounds of `confidence`, and
  `intake-record --confidence 9` leaves an `intake.md` that no command can load.
* `payment_plan_estimate` promises instalments that are regular until the last, which
  clears the balance. A payment of the balance that rounds half a cent up leaves
  −0.005, which `_cents` takes for −0.01 and not for nil: the plan goes on, the row
  closes at −0.01, and a payment of −0.01 follows. Owed 4650, upfront 1000 on
  27 January 2026 and 4000 from the 28th, the interest of the day between is 1.065.
  What is left of the property is `PlanReconciles`: the schedule
  adds up all the same and is off by that cent at most.
* `read_xero_report` says that rows under a section whose name contains cost or expense
  are negated. A heading outside its labels, such as Direct Costs, changes no sign:
  its accounts are read with the sign of the section above.

Two more statements do not hold when two commands overlap, because a whole file is
read, changed and written with no lock. They have no run of their own: the
properties that hold, `AloneTraceable` and `TurnsKeepRecord`, are about sessions
that take turns, and TLC violates them when these may overlap.

* Of two seedings at the same time the later write of `provenance/seeds.yaml` drops
  the earlier entry (`library.py:271`), and `withdraw_prior` never names that
  client, although `library.py:184` says that each seeding is recorded there.
* A session that registers a challenger from a registry loaded before another
  session's promotion puts the old champion back with no approval record
  (`research/registry.py:60`), which `docs/agent-native-workspace.md:99` rules out.

Further observations, which contradict no statement of the repository:

* `apply_corrections` lets the last applied correction of a path win, in the order
  of file names, while `client_driver_value` of the portfolio takes the first.
* A save with `overwrite=True` truncates first: a crash while a score is saved
  loses the stored prediction, and two overlapping overwrites may leave mixed
  text. Readers then refuse the file, which `ReadingsComplete` relies on.
* Due dates of a medium withholder that defers are not in the order of the
  paydays: what is withheld in December waits for the quarter's statement, in
  January it does not. `WithholdingTimed` leaves this case out.
* December's monthly statement, with its concession, and January's are due on the
  same day, so `BasTimed` asks for order only.

## Not modelled

The log of the library is append-only and read by nothing. Path safety, links
and reparse points, the text of the screen, YAML and pydantic formats, cell
formats, and command-line parsing and printing are formats without a state of
their own. Excel workbooks lay out a finished forecast; what they claim is that
their formulas recompute it, and a formula is text here. The continuous
integration gates compare the text of workflow files. The examples are output of
the kernel. `payment_plan_weekly_flows` is `dated_weekly_flows` on a schedule and
adds nothing to it. Downloads of driver series are requests without a retry.
Growth, seasonality and margins (`models/revenue.py`, `cogs.py`) enter the monthly
forecast as any sequence of sales. Floats: rounding, overflow and non-finite
results of the calculations, and the tolerances that absorb them.

## Plan

Done: the library and its boundary, the research memory, the connectors, the
company memory, the monthly forecast and the learning records, each with its
proofs; the calculations on bounded inputs, and the payment plan with its proofs.
What is left:

1. *Proofs*: of the calculations, business days and their order,
   and by the inductions above the sums over rows: the headline and the bridge.
2. *The other checks of the doctor*, over the registries of `CompanyMemory`.
3. *Larger instances* of `learning_records`: four operations over two series.
