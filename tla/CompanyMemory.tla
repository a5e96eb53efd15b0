----------------------------- MODULE CompanyMemory -----------------------------
(***************************************************************************)
(* The `.fpa` memory of one company: initialisation (memory/workspace.py), *)
(* the registries of sources and mappings (memory/lineage.py), the intake  *)
(* (memory/intake.py) and the two onboarding outputs                       *)
(* (memory/onboarding.py), as the commands of cli.py and cli_commands use  *)
(* them. Each command runs in a session of its own; nothing is locked, so  *)
(* between the load of a file and its save another session may act.        *)
(***************************************************************************)
EXTENDS Integers

CONSTANTS
    Sessions,    \* processes running commands
    Keys,        \* the required questions of the intake
    Answers,     \* answers up to case, as record_intake_fact compares them
    SourceIds,   \* identifiers of sources
    Confidences, \* what --confidence may be given, in tenths
    Absent,      \* no such file
    None,        \* no such fact, or no answer
    MaxOps       \* bound on the commands and hand edits begun

VARIABLES
    initialised, \* Workspace.initialized: the directory .fpa exists
    data,        \* what each structured file holds; a truncated one is empty
    out,         \* what each onboarding output holds, and which file it is
    op,          \* the command each session runs; "overwrite" renders with --overwrite
    pc,          \* the step it is at
    file,        \* the file it is concerned with
    ids,         \* the registry it is going to save there,
    facts,       \* or the intake
    arg,         \* the answer it records
    num,         \* its number, which a file it creates takes as its own
    started,     \* commands and hand edits begun
    raced,       \* history: files on which two spans overlapped or one broke off
    word         \* history: what has been said about each key

disk == <<initialised, data, out>>
session == <<op, pc, file, ids, facts, arg, num>>
vars == <<disk, session, started, raced, word>>

-----------------------------------------------------------------------------
(* The intake. *)

KnownConfidence == 7    \* _KNOWN_CONFIDENCE, in tenths
FullConfidence == 10    \* the upper end of IntakeFact.confidence

Statuses == {"confirmed", "inferred", "conflict"}

\* FactSource: the user, or any kind of evidence.
SourceTypes == {"user", "evidence"}

Facts == [answer : Answers, status : Statuses,
          confidence : Int, alternatives : SUBSET Answers]

Intakes == [Keys -> Facts \cup {None}]

\* The bounds IntakeFact puts on a confidence.
InRange(c) == 0 <= c /\ c <= FullConfidence

\* What load_intake accepts: pydantic validates every fact of the file.
IntakeLoads(intake) == \A k \in Keys : intake[k] # None => InRange(intake[k].confidence)

HigherOf(a, b) == IF a < b THEN b ELSE a
LowerOf(a, b) == IF a < b THEN a ELSE b

\* Mutants of Recorded: the source type stored as the status; ...
RecordedSlip(old, answer, source, c) ==
    [answer |-> answer, status |-> source,
     confidence |-> c, alternatives |-> {}]

\* ... the more confident answer winning over a confirmed one; ...
ConfidentWinsSlip(old, answer, source, c) ==
    IF source = "user" \/ old = None \/ c >= KnownConfidence
      THEN [answer |-> answer, status |-> IF source = "user" THEN "confirmed" ELSE "inferred",
            confidence |-> c, alternatives |-> {}]
    ELSE old

\* ... agreeing evidence resolving a conflict.
AgreementResolvesSlip(old, answer, source, c) ==
    IF source = "user" \/ old = None
      THEN [answer |-> answer, status |-> IF source = "user" THEN "confirmed" ELSE "inferred",
            confidence |-> c, alternatives |-> {}]
    ELSE IF old.answer = answer
      THEN [old EXCEPT !.status = "inferred", !.confidence = HigherOf(old.confidence, c)]
    ELSE [old EXCEPT !.status = "conflict", !.alternatives = old.alternatives \cup {answer}]

\* The fact record_intake_fact stores for a key that had `old`. A user's answer
\* starts afresh; conflicting evidence is kept beside the answer.
Recorded(old, answer, source, c) ==
    IF source = "user" \/ old = None
      THEN [answer |-> answer, status |-> IF source = "user" THEN "confirmed" ELSE "inferred",
            confidence |-> IF source = "user" THEN FullConfidence ELSE c, alternatives |-> {}]
    ELSE IF old.answer = answer
      THEN [old EXCEPT !.confidence = HigherOf(old.confidence, c)]
    ELSE [old EXCEPT !.status = "conflict",
                     !.confidence = LowerOf(old.confidence, c),
                     !.alternatives = old.alternatives \cup {answer}]

IsFactKnown(fact) ==
    /\ fact # None
    /\ fact.status # "conflict"
    /\ fact.status = "confirmed" \/ fact.confidence >= KnownConfidence

IntakeReady(intake) == \A k \in Keys : IsFactKnown(intake[k])

-----------------------------------------------------------------------------
(* Files. *)

Files == {"sources", "mappings", "intake"}
Outputs == {"profile", "proposal"}

\* A registry is the set of identifiers with a record; of a mapping rule only the
\* source it is for matters here.
Contents(f) == IF f = "intake" THEN Intakes ELSE SUBSET SourceIds

\* The seed of a file, and what its loader makes of a truncated one: an empty
\* registry, an intake without facts.
EmptyDoc(f) == IF f = "intake" THEN [k \in Keys |-> None] ELSE {}

\* read_optional_yaml: an absent registry is an empty one.
Loaded(f) == IF data[f] = Absent THEN EmptyDoc(f) ELSE data[f]

\* An output is "torn" while its first write has not reached it, "seed" as init
\* left it, "rendered" or "edited" once it carries facts. `inode` is the number of
\* the command that created the file, 0 for one that was there.
Outs == [text : {"torn", "seed", "rendered", "edited"}, inode : Nat]

ASSUME MemoryAssumption ==
    /\ Confidences \subseteq Int
    /\ MaxOps \in Nat
    /\ None \notin Answers /\ None \notin Facts
    /\ Absent \notin Outs
    /\ Absent \notin Intakes
    /\ \A registry \in SUBSET SourceIds : registry # Absent

Exists(f) == IF f \in Files THEN data[f] # Absent ELSE out[f] # Absent

\* is_seeded_business_profile: exactly the text of an empty render.
Untouched(o) == out[o] # Absent /\ out[o].text = "seed"

At(s, step) == pc[s] = step
Goto(s, step) == pc' = [pc EXCEPT ![s] = step]

\* Sessions between the read a write of f rests on and the end of that write.
Within(f) == {t \in Sessions :
                file[t] = f /\ pc[t] \in {"open", "flush", "seed", "swap", "write"}}

\* The races on record once s enters such a span on f.
Entering(s, f) == IF Within(f) \ {s} = {} THEN raced ELSE raced \cup {f}

-----------------------------------------------------------------------------
Init ==
    /\ \/ /\ initialised = FALSE
          /\ data = [f \in Files |-> Absent]
          /\ out = [o \in Outputs |-> Absent]
       \/ /\ initialised = TRUE
          /\ data = [f \in Files |-> EmptyDoc(f)]
          /\ out = [o \in Outputs |-> IF o = "profile" THEN [text |-> "seed", inode |-> 0]
                                                       ELSE Absent]
    /\ op = [s \in Sessions |-> "idle"]
    /\ pc = [s \in Sessions |-> "done"]
    /\ file = [s \in Sessions |-> "profile"]
    /\ ids = [s \in Sessions |-> {}]
    /\ facts = [s \in Sessions |-> EmptyDoc("intake")]
    /\ arg = [s \in Sessions |-> None]
    /\ num = [s \in Sessions |-> 0]
    /\ started = 0
    /\ raced = {}
    /\ word = [k \in Keys |-> [user |-> None, said |-> {}]]

\* A command begins: it needs an idle session and counts against the bound.
Begin(s, command, step, f) ==
    /\ op[s] = "idle"
    /\ started < MaxOps
    /\ started' = started + 1
    /\ op' = [op EXCEPT ![s] = command]
    /\ pc' = [pc EXCEPT ![s] = step]
    /\ file' = [file EXCEPT ![s] = f]
    /\ num' = [num EXCEPT ![s] = started + 1]

\* It ends, or its session dies.
End(s) ==
    /\ op' = [op EXCEPT ![s] = "idle"]
    /\ pc' = [pc EXCEPT ![s] = "done"]
    /\ file' = [file EXCEPT ![s] = "profile"]
    /\ ids' = [ids EXCEPT ![s] = {}]
    /\ facts' = [facts EXCEPT ![s] = EmptyDoc("intake")]
    /\ arg' = [arg EXCEPT ![s] = None]
    /\ num' = [num EXCEPT ![s] = 0]

-----------------------------------------------------------------------------
(* initialize_workspace: directories, then each seed whose file is absent. *)

InitWorkspace(s) ==
    /\ Begin(s, "init", "look", "sources")
    /\ initialised' = TRUE
    /\ UNCHANGED <<data, out, ids, facts, arg, raced, word>>

\* The order of _SEED_FILES.
SeedAfter(f) ==
    IF f = "sources" THEN "mappings" ELSE IF f = "mappings" THEN "intake" ELSE "profile"

NextSeed(s) ==
    IF file[s] = "profile" THEN End(s)
    ELSE /\ Goto(s, "look")
         /\ file' = [file EXCEPT ![s] = SeedAfter(file[s])]
         /\ UNCHANGED <<op, ids, facts, arg, num>>

\* target.exists() decides whether the seed is written.
LookExists(s) ==
    /\ At(s, "look")
    /\ Exists(file[s])
    /\ NextSeed(s)
    /\ UNCHANGED <<disk, started, raced, word>>

LookAbsent(s) ==
    /\ At(s, "look")
    /\ ~Exists(file[s])
    /\ Goto(s, IF file[s] = "profile" THEN "seed" ELSE "open")
    /\ raced' = Entering(s, file[s])
    /\ UNCHANGED <<disk, op, file, ids, facts, arg, num, started, word>>

\* _seed_profile opens the profile; a file that is there by now is truncated, and
\* is the file the session goes on to write.
SeedProfile(s) ==
    /\ At(s, "seed")
    /\ num' = IF out["profile"] = Absent THEN num
               ELSE [num EXCEPT ![s] = out["profile"].inode]
    /\ out' = [out EXCEPT !["profile"] = [text |-> "torn", inode |-> num'[s]]]
    /\ Goto(s, "write")
    /\ UNCHANGED <<initialised, data, op, file, ids, facts, arg, started, raced, word>>

-----------------------------------------------------------------------------
(* Registries and intake: load, change, save the whole file. *)

\* A mutant: the records already there are not retained.
RegisterSourceSlip(s, i, overwrite) ==
    /\ initialised
    /\ overwrite \/ i \notin Loaded("sources")
    /\ Begin(s, "source", "open", "sources")
    /\ ids' = [ids EXCEPT ![s] = {i}]
    /\ raced' = Entering(s, "sources")
    /\ UNCHANGED <<disk, facts, arg, word>>

\* command_source_register: an existing record needs --overwrite.
RegisterSource(s, i, overwrite) ==
    /\ initialised
    /\ overwrite \/ i \notin Loaded("sources")
    /\ Begin(s, "source", "open", "sources")
    /\ ids' = [ids EXCEPT ![s] = Loaded("sources") \cup {i}]
    /\ raced' = Entering(s, "sources")
    /\ UNCHANGED <<disk, facts, arg, word>>

\* command_mapping_register: the source must be registered.
RegisterMapping(s, i) ==
    /\ initialised
    /\ i \in Loaded("sources")
    /\ Begin(s, "mapping", "load", "mappings")
    /\ ids' = [ids EXCEPT ![s] = {i}]
    /\ UNCHANGED <<disk, facts, arg, raced, word>>

\* ... and the mapping registry is loaded after that check.
LoadMappings(s) ==
    /\ At(s, "load")
    /\ ids' = [ids EXCEPT ![s] = Loaded("mappings") \cup ids[s]]
    /\ Goto(s, "open")
    /\ raced' = Entering(s, "mappings")
    /\ UNCHANGED <<disk, op, file, facts, arg, num, started, word>>

\* command_intake_record. Only a new fact passes through IntakeFact's validation:
\* model_copy(update=...) checks nothing.
RecordFact(s, k, answer, source, c) ==
    /\ initialised
    /\ data["intake"] # Absent
    /\ IntakeLoads(data["intake"])
    /\ source = "user" \/ data["intake"][k] # None \/ InRange(c)
    /\ Begin(s, "fact", "open", "intake")
    /\ facts' = [facts EXCEPT ![s] =
         [data["intake"] EXCEPT ![k] = Recorded(data["intake"][k], answer, source, c)]]
    /\ arg' = [arg EXCEPT ![s] = [key |-> k, answer |-> answer, source |-> source]]
    /\ raced' = Entering(s, "intake")
    /\ UNCHANGED <<disk, ids, word>>

\* write_text truncates the file ...
Open(s) ==
    /\ At(s, "open")
    /\ data' = [data EXCEPT ![file[s]] = EmptyDoc(file[s])]
    /\ Goto(s, "flush")
    /\ UNCHANGED <<initialised, out, op, file, ids, facts, arg, num, started, raced, word>>

\* What has been said about a key once an answer is saved. A user's answer settles
\* the matter; evidence adds to it.
WordAfter(old, a) ==
    IF a.source = "user" THEN [user |-> a.answer, said |-> {a.answer}]
                         ELSE [user |-> old.user, said |-> old.said \cup {a.answer}]

\* ... and the text reaches it.
Flush(s) ==
    /\ At(s, "flush")
    /\ data' = [data EXCEPT ![file[s]] = IF file[s] = "intake" THEN facts[s] ELSE ids[s]]
    /\ IF op[s] = "init" THEN NextSeed(s) ELSE End(s)
    /\ word' = IF op[s] = "fact" /\ "intake" \notin raced
                 THEN [word EXCEPT ![arg[s].key] = WordAfter(word[arg[s].key], arg[s])]
                 ELSE word
    /\ UNCHANGED <<initialised, out, started, raced>>

-----------------------------------------------------------------------------
(* write_onboarding_outputs. *)

\* A mutant: the proposal is published first, and alone.
RenderSlip(s, command) ==
    /\ initialised
    /\ data["intake"] # Absent
    /\ IntakeLoads(data["intake"])
    /\ IntakeReady(data["intake"])
    /\ Begin(s, command, "examine", "proposal")
    /\ UNCHANGED <<disk, ids, facts, arg, raced, word>>

\* command_onboarding_render: only an intake that loads and is ready is rendered.
Render(s, command) ==
    /\ initialised
    /\ data["intake"] # Absent
    /\ IntakeLoads(data["intake"])
    /\ IntakeReady(data["intake"])
    /\ Begin(s, command, "examine", "profile")
    /\ UNCHANGED <<disk, ids, facts, arg, raced, word>>

\* Without overwrite: no proposal yet, and no profile but an untouched seed, which
\* the session will then replace.
Examine(s) ==
    /\ At(s, "examine")
    /\ IF op[s] = "overwrite" \/ (out["proposal"] = Absent /\ out["profile"] = Absent)
         THEN Goto(s, "publish") /\ UNCHANGED <<op, file, ids, facts, arg, num>>
       ELSE IF out["proposal"] = Absent /\ Untouched("profile")
         THEN Goto(s, "replace") /\ UNCHANGED <<op, file, ids, facts, arg, num>>
       ELSE End(s)
    /\ UNCHANGED <<disk, started, raced, word>>

\* A mutant: the first look at the profile is trusted.
MayReplaceSlip(s) == op[s] = "overwrite" \/ At(s, "replace")

\* An output that is there may be replaced with overwrite, or when it is the seed
\* the session found and still untouched at a second look.
MayReplace(s) == op[s] = "overwrite" \/ (At(s, "replace") /\ Untouched(file[s]))

\* An output that is not there is created with "x".
PublishNew(s) ==
    /\ pc[s] \in {"publish", "replace"}
    /\ out[file[s]] = Absent
    /\ out' = [out EXCEPT ![file[s]] = [text |-> "torn", inode |-> num[s]]]
    /\ Goto(s, "write")
    /\ raced' = Entering(s, file[s])
    /\ UNCHANGED <<initialised, data, op, file, ids, facts, arg, num, started, word>>

PublishOver(s) ==
    /\ pc[s] \in {"publish", "replace"}
    /\ out[file[s]] # Absent
    /\ MayReplace(s)
    /\ Goto(s, "swap")
    /\ raced' = Entering(s, file[s])
    /\ UNCHANGED <<disk, op, file, ids, facts, arg, num, started, word>>

\* FileExistsError, also when "x" finds a file that has appeared since.
PublishRefused(s) ==
    /\ pc[s] \in {"publish", "replace"}
    /\ out[file[s]] # Absent
    /\ ~MayReplace(s)
    /\ End(s)
    /\ UNCHANGED <<disk, started, raced, word>>

\* The profile is published first, then the proposal.
NextOutput(s) ==
    IF op[s] # "init" /\ file[s] = "profile"
      THEN /\ Goto(s, "publish")
           /\ file' = [file EXCEPT ![s] = "proposal"]
           /\ UNCHANGED <<op, ids, facts, arg, num>>
      ELSE End(s)

\* _replace_onboarding_text: a temporary file beside the output takes its place.
Swap(s) ==
    /\ At(s, "swap")
    /\ out' = [out EXCEPT ![file[s]] = [text |-> "rendered", inode |-> num[s]]]
    /\ NextOutput(s)
    /\ UNCHANGED <<initialised, data, started, raced, word>>

\* The text reaches the file that was opened, which may have been replaced since.
WriteOutput(s) ==
    /\ At(s, "write")
    /\ out' = IF out[file[s]].inode = num[s]
                THEN [out EXCEPT ![file[s]] =
                        [text |-> IF op[s] = "init" THEN "seed" ELSE "rendered", inode |-> num[s]]]
                ELSE out
    /\ NextOutput(s)
    /\ UNCHANGED <<initialised, data, started, raced, word>>

-----------------------------------------------------------------------------
(* The environment. *)

\* A session dies; a save it had begun leaves the file truncated.
Crash(s) ==
    /\ op[s] # "idle"
    /\ raced' = IF At(s, "flush") THEN raced \cup {file[s]} ELSE raced
    /\ End(s)
    /\ UNCHANGED <<disk, started, word>>

\* The practitioner edits an output, as its own text invites to.
EditOutput(o) ==
    /\ started < MaxOps
    /\ started' = started + 1
    /\ out[o] # Absent
    /\ out[o].text \in {"seed", "rendered"}
    /\ out' = [out EXCEPT ![o] = [text |-> "edited", inode |-> out[o].inode]]
    /\ raced' = IF Within(o) = {} THEN raced ELSE raced \cup {o}
    /\ UNCHANGED <<initialised, data, session, word>>

Step(s) ==
    \/ InitWorkspace(s) \/ LookExists(s) \/ LookAbsent(s) \/ SeedProfile(s)
    \/ \E i \in SourceIds, overwrite \in BOOLEAN : RegisterSource(s, i, overwrite)
    \/ \E i \in SourceIds : RegisterMapping(s, i)
    \/ LoadMappings(s)
    \/ \E k \in Keys, answer \in Answers, source \in SourceTypes, c \in Confidences :
         RecordFact(s, k, answer, source, c)
    \/ Open(s) \/ Flush(s)
    \/ \E command \in {"render", "overwrite"} : Render(s, command)
    \/ Examine(s) \/ PublishNew(s) \/ PublishOver(s) \/ PublishRefused(s)
    \/ Swap(s) \/ WriteOutput(s)
    \/ Crash(s)

Next == (\E s \in Sessions : Step(s)) \/ (\E o \in Outputs : EditOutput(o))

Spec == Init /\ [][Next]_vars

-----------------------------------------------------------------------------
(* Properties. *)

Ops == {"idle", "init", "source", "mapping", "fact", "render", "overwrite"}
Steps == {"done", "look", "load", "open", "flush", "seed", "examine", "publish", "replace",
          "swap", "write"}
FactArgs == [key : Keys, answer : Answers, source : SourceTypes]

\* What each variable may hold.
TypeOK ==
    /\ initialised \in BOOLEAN
    /\ data = [f \in Files |-> data[f]]
    /\ \A f \in Files : data[f] \in Contents(f) \cup {Absent}
    /\ out \in [Outputs -> Outs \cup {Absent}]
    /\ op \in [Sessions -> Ops]
    /\ pc \in [Sessions -> Steps]
    /\ file \in [Sessions -> Files \cup Outputs]
    /\ ids \in [Sessions -> SUBSET SourceIds]
    /\ facts \in [Sessions -> Intakes]
    /\ arg \in [Sessions -> {None} \cup FactArgs]
    /\ num \in [Sessions -> Nat]
    /\ started \in 0..MaxOps
    /\ raced \subseteq Files \cup Outputs
    /\ word \in [Keys -> [user : Answers \cup {None}, said : SUBSET Answers]]

\* The file is what completed commands made of it: no save of it is half done, and
\* no two spans from load to save have overlapped on it.
Settled(f) ==
    /\ f \notin raced
    /\ \A s \in Sessions : ~(file[s] = f /\ pc[s] = "flush")

\* Every mapping rule is for a registered source (command_mapping_register refuses
\* others), although the two registries are loaded and saved apart and commands on
\* the one interleave with commands on the other.
MappingsHaveSources ==
    Settled("sources") /\ data["mappings"] # Absent
        => data["mappings"] \subseteq Loaded("sources")

\* What the user said last about a key is the answer on file, whatever evidence
\* came later (record_intake_fact: "direct user answers are confirmed
\* immediately", conflicting evidence is only kept for confirmation), and no
\* initialisation brings the empty intake back.
UserAnswerStands ==
    Settled("intake") =>
        \A k \in Keys :
            word[k].user # None =>
                /\ data["intake"] # Absent
                /\ data["intake"][k] # None
                /\ data["intake"][k].answer = word[k].user

\* A fact counts as known (is_fact_known) only if all that was said about it since
\* the user last settled it agrees with it: once contradicted, no amount of
\* agreeing or confident evidence makes it known again.
KnownIsUndisputed ==
    Settled("intake") /\ data["intake"] # Absent =>
        \A k \in Keys :
            IsFactKnown(data["intake"][k]) => word[k].said = {data["intake"][k].answer}

Carries(o) == out[o] # Absent /\ out[o].text \in {"rendered", "edited"}

\* An architecture proposal on file rests on a profile that carries facts: the two
\* are published apart, the profile first, and a crash or a refusal between them
\* leaves the profile alone (write_onboarding_outputs).
DecisionHasProfile ==
    "profile" \notin raced /\ out["proposal"] # Absent => Carries("profile")

\* An output that carries facts and changes is edited, or swapped by an overwrite.
OutputStands(o) ==
    Carries(o) /\ out'[o] # out[o] /\ (o = "proposal" \/ o \notin raced') =>
        \/ out'[o] = [text |-> "edited", inode |-> out[o].inode]
        \/ \E s \in Sessions : op[s] = "overwrite" /\ At(s, "swap") /\ file[s] = o

\* An output that carries facts or a decision is replaced only by a render with
\* --overwrite, or by the practitioner's hand: of the proposal always, of the
\* profile unless the second look at it and the rename were overlapped by another
\* writer.
RecordedOutputsStand == [][\A o \in Outputs : OutputStands(o)]_vars

\* Every confidence on file is within the bounds its model declares
\* (`confidence: float = Field(ge=0, le=1)`, memory/intake.py), so that the intake
\* a command has saved can be loaded by the next.
SavedIntakeLoads == data["intake"] # Absent => IntakeLoads(data["intake"])
=============================================================================
