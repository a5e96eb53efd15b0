-------------------------- MODULE CompanyMemoryProofs --------------------------
(* Theorems about CompanyMemory, for every set of sessions, keys, answers and *)
(* sources, whatever confidences are given and whatever bound is put on the   *)
(* operations.                                                                *)
EXTENDS CompanyMemory, TLAPS

-----------------------------------------------------------------------------
(* Types. *)

(* What is loaded from a registry is a set of sources. *)
LEMMA LoadedIsSources ==
  ASSUME TypeOK, NEW f \in {"sources", "mappings"}
  PROVE  Loaded(f) \in SUBSET SourceIds
  BY DEF Loaded, TypeOK, Files, Contents, EmptyDoc

(* Recording an answer yields a fact. *)
LEMMA RecordedIsFact ==
  ASSUME NEW old \in Facts \cup {None}, NEW answer \in Answers,
         NEW source \in SourceTypes, NEW c \in Int
  PROVE  Recorded(old, answer, source, c) \in Facts
<1> DEFINE status == IF source = "user" THEN "confirmed" ELSE "inferred"
           confidence == IF source = "user" THEN FullConfidence ELSE c
<1>1. CASE source = "user" \/ old = None
  <2>1. status \in Statuses /\ confidence \in Int
    BY DEF Statuses, FullConfidence
  <2>2. Recorded(old, answer, source, c) =
          [answer |-> answer, status |-> status, confidence |-> confidence,
           alternatives |-> {}]
    BY <1>1 DEF Recorded
  <2> QED  BY <2>1, <2>2 DEF Facts
<1>2. CASE source # "user" /\ old # None /\ old.answer = answer
  <2>1. HigherOf(old.confidence, c) \in Int
    BY <1>2 DEF HigherOf, Facts
  <2>2. Recorded(old, answer, source, c) =
          [old EXCEPT !.confidence = HigherOf(old.confidence, c)]
    BY <1>2 DEF Recorded
  <2> QED  BY <1>2, <2>1, <2>2 DEF Facts
<1>3. CASE source # "user" /\ old # None /\ old.answer # answer
  <2>1. LowerOf(old.confidence, c) \in Int
    BY <1>3 DEF LowerOf, Facts
  <2>2. Recorded(old, answer, source, c) =
          [old EXCEPT !.status = "conflict",
                      !.confidence = LowerOf(old.confidence, c),
                      !.alternatives = old.alternatives \cup {answer}]
    BY <1>3 DEF Recorded
  <2> QED  BY <1>3, <2>1, <2>2 DEF Facts, Statuses
<1> QED  BY <1>1, <1>2, <1>3

(* Where each command may be, and what it holds there. *)
ControlOK ==
  \A s \in Sessions :
    /\ op[s] = "idle" => pc[s] = "done" /\ ids[s] = {} /\ facts[s] = EmptyDoc("intake")
    /\ op[s] = "source" => pc[s] \in {"open", "flush"} /\ file[s] = "sources"
    /\ op[s] = "mapping" => pc[s] \in {"load", "open", "flush"} /\ file[s] = "mappings"
    /\ op[s] = "fact" =>
         pc[s] \in {"open", "flush"} /\ file[s] = "intake" /\ arg[s] \in FactArgs
    /\ op[s] = "init" =>
         /\ ids[s] = {} /\ facts[s] = EmptyDoc("intake")
         /\ \/ pc[s] = "look" /\ file[s] # "proposal"
            \/ pc[s] \in {"open", "flush"} /\ file[s] \in Files
            \/ pc[s] \in {"seed", "write"} /\ file[s] = "profile"
    /\ op[s] \in {"render", "overwrite"} =>
         /\ pc[s] \in {"examine", "publish", "replace", "swap", "write"}
         /\ file[s] \in Outputs
         /\ pc[s] \in {"examine", "replace"} => file[s] = "profile"

(* What a session holds, and what it holds when it ends or goes on. *)
SessionOK ==
    /\ op \in [Sessions -> Ops]
    /\ pc \in [Sessions -> Steps]
    /\ file \in [Sessions -> Files \cup Outputs]
    /\ ids \in [Sessions -> SUBSET SourceIds]
    /\ facts \in [Sessions -> Intakes]
    /\ arg \in [Sessions -> {None} \cup FactArgs]
    /\ num \in [Sessions -> Nat]

LEMMA EndIsOK ==
  ASSUME SessionOK, NEW s \in Sessions, End(s)  PROVE SessionOK'
  BY DEF SessionOK, End, EmptyDoc, Intakes, Ops, Steps, Files, Outputs

LEMMA NextSeedIsOK ==
  ASSUME SessionOK, NEW s \in Sessions, NextSeed(s)  PROVE SessionOK'
<1>1. CASE End(s)
  BY <1>1, EndIsOK
<1>2. CASE ~End(s)
  <2>1. SeedAfter(file[s]) \in Files \cup Outputs
    BY DEF SeedAfter, Files, Outputs
  <2> QED  BY <1>2, <2>1 DEF NextSeed, SessionOK, Goto, Steps
<1> QED  BY <1>1, <1>2

LEMMA NextOutputIsOK ==
  ASSUME SessionOK, NEW s \in Sessions, NextOutput(s)  PROVE SessionOK'
<1>1. CASE End(s)
  BY <1>1, EndIsOK
<1>2. CASE ~End(s)
  BY <1>2 DEF NextOutput, SessionOK, Goto, Steps, Outputs
<1> QED  BY <1>1, <1>2

(* Every step keeps the types. *)
LEMMA TypeStep ==
  ASSUME TypeOK, ControlOK, [Next]_vars
  PROVE  TypeOK'
<1> USE MemoryAssumption
    DEF TypeOK, Contents, Files, Outputs, Ops, Steps, Outs, At, Goto, Begin, End,
        Entering, disk, session
<1>0. SessionOK
  BY DEF SessionOK
<1>1. ASSUME NEW s \in Sessions, InitWorkspace(s)  PROVE TypeOK'
  BY <1>1 DEF InitWorkspace
<1>2. ASSUME NEW s \in Sessions, LookExists(s)  PROVE TypeOK'
  <2>1. SessionOK'
    BY <1>0, <1>2, NextSeedIsOK DEF LookExists
  <2> QED  BY <1>2, <2>1 DEF LookExists, SessionOK
<1>3. ASSUME NEW s \in Sessions, LookAbsent(s)  PROVE TypeOK'
  BY <1>3 DEF LookAbsent
<1>4. ASSUME NEW s \in Sessions, SeedProfile(s)  PROVE TypeOK'
  BY <1>4 DEF SeedProfile
<1>5. ASSUME NEW s \in Sessions, NEW i \in SourceIds, NEW overwrite \in BOOLEAN,
             RegisterSource(s, i, overwrite)
      PROVE  TypeOK'
  BY <1>5, LoadedIsSources DEF RegisterSource
<1>6. ASSUME NEW s \in Sessions, NEW i \in SourceIds, RegisterMapping(s, i)
      PROVE  TypeOK'
  BY <1>6 DEF RegisterMapping
<1>7. ASSUME NEW s \in Sessions, LoadMappings(s)  PROVE TypeOK'
  BY <1>7, LoadedIsSources DEF LoadMappings
<1>8. ASSUME NEW s \in Sessions, NEW k \in Keys, NEW answer \in Answers,
             NEW source \in SourceTypes, NEW c \in Confidences,
             RecordFact(s, k, answer, source, c)
      PROVE  TypeOK'
  <2>1. data["intake"] \in Intakes /\ c \in Int
    BY <1>8 DEF RecordFact
  <2>2. Recorded(data["intake"][k], answer, source, c) \in Facts
    BY <2>1, RecordedIsFact DEF Intakes
  <2>3. facts' \in [Sessions -> Intakes]
    BY <1>8, <2>1, <2>2 DEF RecordFact, Intakes
  <2>4. arg' \in [Sessions -> {None} \cup FactArgs]
    BY <1>8 DEF RecordFact, FactArgs
  <2> QED  BY <1>8, <2>3, <2>4 DEF RecordFact
<1>9. ASSUME NEW s \in Sessions, Open(s)  PROVE TypeOK'
  BY <1>9 DEF Open, EmptyDoc, Intakes
<1>10. ASSUME NEW s \in Sessions, Flush(s)  PROVE TypeOK'
  <2>1. SessionOK'
    BY <1>0, <1>10, EndIsOK, NextSeedIsOK DEF Flush
  <2>2. /\ data' = [f \in Files |-> data'[f]]
        /\ \A f \in Files : data'[f] \in Contents(f) \cup {Absent}
    BY <1>10 DEF Flush
  <2>3. word' \in [Keys -> [user : Answers \cup {None}, said : SUBSET Answers]]
    <3>1. CASE op[s] = "fact" /\ "intake" \notin raced
      <4> arg[s] \in FactArgs
        BY <3>1 DEF ControlOK
      <4>1. WordAfter(word[arg[s].key], arg[s])
              \in [user : Answers \cup {None}, said : SUBSET Answers]
        BY <3>1 DEF WordAfter, FactArgs
      <4> QED  BY <1>10, <3>1, <4>1 DEF Flush, FactArgs
    <3>2. CASE op[s] # "fact" \/ "intake" \in raced
      BY <1>10, <3>2 DEF Flush
    <3> QED  BY <1>10, <3>1, <3>2
  <2> QED  BY <1>10, <2>1, <2>2, <2>3 DEF Flush, SessionOK
<1>11. ASSUME NEW s \in Sessions, NEW command \in {"render", "overwrite"},
              Render(s, command)
       PROVE  TypeOK'
  BY <1>11 DEF Render
<1>12. ASSUME NEW s \in Sessions, Examine(s)  PROVE TypeOK'
  <2>1. SessionOK'
    BY <1>0, <1>12, EndIsOK DEF Examine, SessionOK
  <2> QED  BY <1>12, <2>1 DEF Examine, SessionOK
<1>13. ASSUME NEW s \in Sessions, PublishNew(s)  PROVE TypeOK'
  BY <1>13 DEF PublishNew
<1>14. ASSUME NEW s \in Sessions, PublishOver(s)  PROVE TypeOK'
  BY <1>14 DEF PublishOver
<1>15. ASSUME NEW s \in Sessions, PublishRefused(s)  PROVE TypeOK'
  BY <1>15 DEF PublishRefused, EmptyDoc, Intakes
<1>16. ASSUME NEW s \in Sessions, Swap(s)  PROVE TypeOK'
  <2>1. SessionOK'
    BY <1>0, <1>16, NextOutputIsOK DEF Swap
  <2>2. out' \in [Outputs -> Outs \cup {Absent}]
    BY <1>16 DEF Swap
  <2> QED  BY <1>16, <2>1, <2>2 DEF Swap, SessionOK
<1>17. ASSUME NEW s \in Sessions, WriteOutput(s)  PROVE TypeOK'
  <2>1. SessionOK'
    BY <1>0, <1>17, NextOutputIsOK DEF WriteOutput
  <2>2. out' \in [Outputs -> Outs \cup {Absent}]
    BY <1>17 DEF WriteOutput
  <2> QED  BY <1>17, <2>1, <2>2 DEF WriteOutput, SessionOK
<1>18. ASSUME NEW s \in Sessions, Crash(s)  PROVE TypeOK'
  BY <1>18 DEF Crash, EmptyDoc, Intakes
<1>19. ASSUME NEW o \in Outputs, EditOutput(o)  PROVE TypeOK'
  BY <1>19 DEF EditOutput
<1>20. CASE UNCHANGED vars
  BY <1>20 DEF vars
<1> QED  BY <1>1, <1>2, <1>3, <1>4, <1>5, <1>6, <1>7, <1>8, <1>9, <1>10, <1>11,
            <1>12, <1>13, <1>14, <1>15, <1>16, <1>17, <1>18, <1>19, <1>20
         DEF Next, Step

(* Every step leaves each session where its command may be. *)
LEMMA ControlStep ==
  ASSUME TypeOK, ControlOK, [Next]_vars
  PROVE  ControlOK'
<1> USE DEF TypeOK, ControlOK, Files, Outputs, Steps, At, Goto, Begin, End, disk, session
<1>1. ASSUME NEW s \in Sessions, InitWorkspace(s)  PROVE ControlOK'
  BY <1>1 DEF InitWorkspace
<1>2. ASSUME NEW s \in Sessions, LookExists(s)  PROVE ControlOK'
  BY <1>2 DEF LookExists, NextSeed, SeedAfter
<1>3. ASSUME NEW s \in Sessions, LookAbsent(s)  PROVE ControlOK'
  BY <1>3 DEF LookAbsent
<1>4. ASSUME NEW s \in Sessions, SeedProfile(s)  PROVE ControlOK'
  BY <1>4 DEF SeedProfile
<1>5. ASSUME NEW s \in Sessions, NEW i \in SourceIds, NEW overwrite \in BOOLEAN,
             RegisterSource(s, i, overwrite)
      PROVE  ControlOK'
  BY <1>5 DEF RegisterSource
<1>6. ASSUME NEW s \in Sessions, NEW i \in SourceIds,
             RegisterMapping(s, i)
      PROVE  ControlOK'
  BY <1>6 DEF RegisterMapping
<1>7. ASSUME NEW s \in Sessions, LoadMappings(s)  PROVE ControlOK'
  BY <1>7 DEF LoadMappings
<1>8. ASSUME NEW s \in Sessions, NEW k \in Keys, NEW answer \in Answers,
             NEW source \in SourceTypes, NEW c \in Confidences,
             RecordFact(s, k, answer, source, c)
      PROVE  ControlOK'
  BY <1>8 DEF RecordFact, FactArgs
<1>9. ASSUME NEW s \in Sessions, Open(s)  PROVE ControlOK'
  BY <1>9 DEF Open
<1>10. ASSUME NEW s \in Sessions, Flush(s)  PROVE ControlOK'
  BY <1>10 DEF Flush, NextSeed, SeedAfter
<1>11. ASSUME NEW s \in Sessions, NEW command \in {"render", "overwrite"},
             Render(s, command)
      PROVE  ControlOK'
  BY <1>11 DEF Render
<1>12. ASSUME NEW s \in Sessions, Examine(s)  PROVE ControlOK'
  BY <1>12 DEF Examine
<1>13. ASSUME NEW s \in Sessions, PublishNew(s)  PROVE ControlOK'
  BY <1>13 DEF PublishNew
<1>14. ASSUME NEW s \in Sessions, PublishOver(s)  PROVE ControlOK'
  BY <1>14 DEF PublishOver
<1>15. ASSUME NEW s \in Sessions, PublishRefused(s)  PROVE ControlOK'
  BY <1>15 DEF PublishRefused
<1>16. ASSUME NEW s \in Sessions, Swap(s)  PROVE ControlOK'
  BY <1>16 DEF Swap, NextOutput
<1>17. ASSUME NEW s \in Sessions, WriteOutput(s)  PROVE ControlOK'
  BY <1>17 DEF WriteOutput, NextOutput
<1>18. ASSUME NEW s \in Sessions, Crash(s)  PROVE ControlOK'
  BY <1>18 DEF Crash
<1>19. ASSUME NEW o \in Outputs, EditOutput(o)  PROVE ControlOK'
  BY <1>19 DEF EditOutput
<1>20. CASE UNCHANGED vars
  BY <1>20 DEF vars
<1> QED  BY <1>1, <1>2, <1>3, <1>4, <1>5, <1>6, <1>7, <1>8, <1>9, <1>10, <1>11,
            <1>12, <1>13, <1>14, <1>15, <1>16, <1>17, <1>18, <1>19, <1>20
         DEF Next, Step

-----------------------------------------------------------------------------
(* Two sessions within a span of one file leave a trace. *)

Exclusive ==
  \A f \in Files \cup Outputs :
    f \notin raced => \A s, t \in Within(f) : s = t

LEMMA ExclusiveStep ==
  ASSUME TypeOK, ControlOK, Exclusive, [Next]_vars
  PROVE  Exclusive'
<1> USE DEF TypeOK, ControlOK, Exclusive, Within, Entering, At, Goto, Begin, End, disk, session
<1>1. ASSUME NEW s \in Sessions, InitWorkspace(s)  PROVE Exclusive'
  BY <1>1 DEF InitWorkspace
<1>2. ASSUME NEW s \in Sessions, LookExists(s)  PROVE Exclusive'
  BY <1>2 DEF LookExists, NextSeed, SeedAfter
<1>3. ASSUME NEW s \in Sessions, LookAbsent(s)  PROVE Exclusive'
  BY <1>3 DEF LookAbsent, Files, Outputs
<1>4. ASSUME NEW s \in Sessions, SeedProfile(s)  PROVE Exclusive'
  BY <1>4 DEF SeedProfile
<1>5. ASSUME NEW s \in Sessions, NEW i \in SourceIds, NEW overwrite \in BOOLEAN,
             RegisterSource(s, i, overwrite)
      PROVE  Exclusive'
  BY <1>5 DEF RegisterSource
<1>6. ASSUME NEW s \in Sessions, NEW i \in SourceIds,
             RegisterMapping(s, i)
      PROVE  Exclusive'
  BY <1>6 DEF RegisterMapping
<1>7. ASSUME NEW s \in Sessions, LoadMappings(s)  PROVE Exclusive'
  BY <1>7 DEF LoadMappings, Ops
<1>8. ASSUME NEW s \in Sessions, NEW k \in Keys, NEW answer \in Answers,
             NEW source \in SourceTypes, NEW c \in Confidences,
             RecordFact(s, k, answer, source, c)
      PROVE  Exclusive'
  BY <1>8 DEF RecordFact, FactArgs
<1>9. ASSUME NEW s \in Sessions, Open(s)  PROVE Exclusive'
  BY <1>9 DEF Open
<1>10. ASSUME NEW s \in Sessions, Flush(s)  PROVE Exclusive'
  BY <1>10 DEF Flush, NextSeed, SeedAfter
<1>11. ASSUME NEW s \in Sessions, NEW command \in {"render", "overwrite"},
             Render(s, command)
      PROVE  Exclusive'
  BY <1>11 DEF Render
<1>12. ASSUME NEW s \in Sessions, Examine(s)  PROVE Exclusive'
  BY <1>12 DEF Examine
<1>13. ASSUME NEW s \in Sessions, PublishNew(s)  PROVE Exclusive'
  BY <1>13 DEF PublishNew, Files, Outputs
<1>14. ASSUME NEW s \in Sessions, PublishOver(s)  PROVE Exclusive'
  BY <1>14 DEF PublishOver
<1>15. ASSUME NEW s \in Sessions, PublishRefused(s)  PROVE Exclusive'
  BY <1>15 DEF PublishRefused
<1>16. ASSUME NEW s \in Sessions, Swap(s)  PROVE Exclusive'
  BY <1>16 DEF Swap, NextOutput
<1>17. ASSUME NEW s \in Sessions, WriteOutput(s)  PROVE Exclusive'
  BY <1>17 DEF WriteOutput, NextOutput
<1>18. ASSUME NEW s \in Sessions, Crash(s)  PROVE Exclusive'
  BY <1>18 DEF Crash
<1>19. ASSUME NEW o \in Outputs, EditOutput(o)  PROVE Exclusive'
  BY <1>19 DEF EditOutput
<1>20. CASE UNCHANGED vars
  BY <1>20 DEF vars
<1> QED  BY <1>1, <1>2, <1>3, <1>4, <1>5, <1>6, <1>7, <1>8, <1>9, <1>10, <1>11,
            <1>12, <1>13, <1>14, <1>15, <1>16, <1>17, <1>18, <1>19, <1>20
         DEF Next, Step

-----------------------------------------------------------------------------
(* The onboarding outputs. *)

Rendering(s) == op[s] \in {"render", "overwrite"}

(* Renders have numbers of their own. *)
DistinctRenders ==
  /\ \A s \in Sessions : Rendering(s) => num[s] <= started
  /\ \A s, t \in Sessions : Rendering(s) /\ Rendering(t) /\ num[s] = num[t] => s = t

(* What a session within a span of an output knows of it. *)
OutputKnown(s) ==
    /\ At(s, "write") =>
         /\ out[file[s]] # Absent
         /\ file[s] = "proposal" /\ out[file[s]].inode = num[s] => out[file[s]].text = "torn"
         /\ file[s] \notin raced => out[file[s]] = [text |-> "torn", inode |-> num[s]]
    /\ At(s, "swap") =>
         /\ out[file[s]] # Absent
         /\ op[s] # "overwrite" =>
              file[s] = "profile" /\ ("profile" \notin raced => Untouched("profile"))
    /\ At(s, "seed") /\ "profile" \notin raced => out["profile"] = Absent

OutputsKnown == \A s \in Sessions : OutputKnown(s)

(* A proposal, on file or about to be, rests on a profile that carries facts. *)
ProposalRests ==
  "profile" \notin raced =>
    /\ out["proposal"] # Absent => Carries("profile")
    /\ \A s \in Sessions : Rendering(s) /\ file[s] = "proposal" => Carries("profile")

OutputInv == DistinctRenders /\ OutputsKnown /\ ProposalRests

LEMMA DistinctStep ==
  ASSUME TypeOK, ControlOK, DistinctRenders, [Next]_vars
  PROVE  DistinctRenders'
<1> USE DEF TypeOK, ControlOK, DistinctRenders, Rendering, At, Goto, Begin, End, disk, session
<1>1. ASSUME NEW s \in Sessions, InitWorkspace(s)  PROVE DistinctRenders'
  BY <1>1 DEF InitWorkspace
<1>2. ASSUME NEW s \in Sessions, LookExists(s)  PROVE DistinctRenders'
  BY <1>2 DEF LookExists, NextSeed, SeedAfter
<1>3. ASSUME NEW s \in Sessions, LookAbsent(s)  PROVE DistinctRenders'
  BY <1>3 DEF LookAbsent
<1>4. ASSUME NEW s \in Sessions, SeedProfile(s)  PROVE DistinctRenders'
  BY <1>4 DEF SeedProfile
<1>5. ASSUME NEW s \in Sessions, NEW i \in SourceIds, NEW overwrite \in BOOLEAN,
             RegisterSource(s, i, overwrite)
      PROVE  DistinctRenders'
  BY <1>5 DEF RegisterSource
<1>6. ASSUME NEW s \in Sessions, NEW i \in SourceIds,
             RegisterMapping(s, i)
      PROVE  DistinctRenders'
  BY <1>6 DEF RegisterMapping
<1>7. ASSUME NEW s \in Sessions, LoadMappings(s)  PROVE DistinctRenders'
  BY <1>7 DEF LoadMappings
<1>8. ASSUME NEW s \in Sessions, NEW k \in Keys, NEW answer \in Answers,
             NEW source \in SourceTypes, NEW c \in Confidences,
             RecordFact(s, k, answer, source, c)
      PROVE  DistinctRenders'
  BY <1>8 DEF RecordFact, FactArgs
<1>9. ASSUME NEW s \in Sessions, Open(s)  PROVE DistinctRenders'
  BY <1>9 DEF Open
<1>10. ASSUME NEW s \in Sessions, Flush(s)  PROVE DistinctRenders'
  <2>1. CASE End(s)
    BY <1>10, <2>1 DEF Flush
  <2>2. CASE NextSeed(s) /\ ~End(s)
    BY <1>10, <2>2 DEF Flush, NextSeed
  <2> QED  BY <1>10, <2>1, <2>2 DEF Flush
<1>11. ASSUME NEW s \in Sessions, NEW command \in {"render", "overwrite"},
             Render(s, command)
      PROVE  DistinctRenders'
  BY <1>11 DEF Render
<1>12. ASSUME NEW s \in Sessions, Examine(s)  PROVE DistinctRenders'
  BY <1>12 DEF Examine
<1>13. ASSUME NEW s \in Sessions, PublishNew(s)  PROVE DistinctRenders'
  BY <1>13 DEF PublishNew
<1>14. ASSUME NEW s \in Sessions, PublishOver(s)  PROVE DistinctRenders'
  BY <1>14 DEF PublishOver
<1>15. ASSUME NEW s \in Sessions, PublishRefused(s)  PROVE DistinctRenders'
  BY <1>15 DEF PublishRefused
<1>16. ASSUME NEW s \in Sessions, Swap(s)  PROVE DistinctRenders'
  BY <1>16 DEF Swap, NextOutput
<1>17. ASSUME NEW s \in Sessions, WriteOutput(s)  PROVE DistinctRenders'
  BY <1>17 DEF WriteOutput, NextOutput
<1>18. ASSUME NEW s \in Sessions, Crash(s)  PROVE DistinctRenders'
  BY <1>18 DEF Crash
<1>19. ASSUME NEW o \in Outputs, EditOutput(o)  PROVE DistinctRenders'
  BY <1>19 DEF EditOutput
<1>20. CASE UNCHANGED vars
  BY <1>20 DEF vars
<1> QED  BY <1>1, <1>2, <1>3, <1>4, <1>5, <1>6, <1>7, <1>8, <1>9, <1>10, <1>11,
            <1>12, <1>13, <1>14, <1>15, <1>16, <1>17, <1>18, <1>19, <1>20
         DEF Next, Step

(* Of two sessions within a span of one file, each has raced the other. *)
LEMMA Raced ==
  ASSUME Exclusive, NEW f \in Files \cup Outputs, NEW s \in Within(f),
         NEW t \in Within(f), s # t
  PROVE  f \in raced
  BY DEF Exclusive

LEMMA OutputsStep ==
  ASSUME TypeOK, ControlOK, Exclusive, DistinctRenders, OutputsKnown, [Next]_vars
  PROVE  OutputsKnown'
<1> USE DEF TypeOK, ControlOK, DistinctRenders, OutputsKnown, OutputKnown, Rendering, Untouched, Ops, Files, Outputs, Outs, Within, Entering, At, Goto, Begin, End, disk, session
<1>1. ASSUME NEW s \in Sessions, InitWorkspace(s)  PROVE OutputsKnown'
  BY <1>1 DEF InitWorkspace
<1>2. ASSUME NEW s \in Sessions, LookExists(s)  PROVE OutputsKnown'
  BY <1>2 DEF LookExists, NextSeed, SeedAfter
<1>3. ASSUME NEW s \in Sessions, LookAbsent(s)  PROVE OutputsKnown'
  BY <1>3 DEF LookAbsent, Exists
<1>4. ASSUME NEW s \in Sessions, SeedProfile(s)  PROVE OutputsKnown'
  <2>1. op[s] = "init" /\ file[s] = "profile"
    BY <1>4 DEF SeedProfile
  <2>2. out' = [out EXCEPT !["profile"] = [text |-> "torn", inode |-> num'[s]]]
    BY <1>4 DEF SeedProfile
  <2>3. [text |-> "torn", inode |-> num'[s]] # Absent
    BY <1>4, MemoryAssumption DEF SeedProfile
  <2>4. OutputKnown(s)'
    BY <1>4, <2>1, <2>2, <2>3 DEF SeedProfile
  <2>5. ASSUME NEW t \in Sessions \ {s}  PROVE OutputKnown(t)'
    <3>1. CASE file[t] = "profile"
      BY <1>4, <2>1, <2>2, <2>3, <3>1, Raced DEF SeedProfile
    <3>2. CASE file[t] # "profile"
      BY <1>4, <2>1, <2>2, <3>2 DEF SeedProfile
    <3> QED  BY <3>1, <3>2
  <2> QED  BY <2>4, <2>5
<1>5. ASSUME NEW s \in Sessions, NEW i \in SourceIds, NEW overwrite \in BOOLEAN,
             RegisterSource(s, i, overwrite)
      PROVE  OutputsKnown'
  BY <1>5 DEF RegisterSource
<1>6. ASSUME NEW s \in Sessions, NEW i \in SourceIds,
             RegisterMapping(s, i)
      PROVE  OutputsKnown'
  BY <1>6 DEF RegisterMapping
<1>7. ASSUME NEW s \in Sessions, LoadMappings(s)  PROVE OutputsKnown'
  BY <1>7 DEF LoadMappings
<1>8. ASSUME NEW s \in Sessions, NEW k \in Keys, NEW answer \in Answers,
             NEW source \in SourceTypes, NEW c \in Confidences,
             RecordFact(s, k, answer, source, c)
      PROVE  OutputsKnown'
  BY <1>8 DEF RecordFact, FactArgs
<1>9. ASSUME NEW s \in Sessions, Open(s)  PROVE OutputsKnown'
  BY <1>9 DEF Open
<1>10. ASSUME NEW s \in Sessions, Flush(s)  PROVE OutputsKnown'
  BY <1>10 DEF Flush, NextSeed, SeedAfter
<1>11. ASSUME NEW s \in Sessions, NEW command \in {"render", "overwrite"},
             Render(s, command)
      PROVE  OutputsKnown'
  BY <1>11 DEF Render
<1>12. ASSUME NEW s \in Sessions, Examine(s)  PROVE OutputsKnown'
  BY <1>12 DEF Examine
<1>13. ASSUME NEW s \in Sessions, PublishNew(s)  PROVE OutputsKnown'
  <2>1. Rendering(s) /\ file[s] \in Outputs /\ file'[s] = file[s] /\ num'[s] = num[s]
    BY <1>13 DEF PublishNew
  <2>2. out' = [out EXCEPT ![file[s]] = [text |-> "torn", inode |-> num[s]]]
    BY <1>13 DEF PublishNew
  <2>3. [text |-> "torn", inode |-> num[s]] # Absent
    BY MemoryAssumption
  <2>4. OutputKnown(s)'
    BY <1>13, <2>1, <2>2, <2>3 DEF PublishNew
  <2>5. ASSUME NEW t \in Sessions \ {s}  PROVE OutputKnown(t)'
    BY <1>13, <2>1, <2>2, <2>3 DEF PublishNew
  <2> QED  BY <2>4, <2>5
<1>14. ASSUME NEW s \in Sessions, PublishOver(s)  PROVE OutputsKnown'
  <2>1. OutputKnown(s)'
    BY <1>14 DEF PublishOver, MayReplace
  <2>2. ASSUME NEW t \in Sessions \ {s}  PROVE OutputKnown(t)'
    BY <1>14 DEF PublishOver, MayReplace
  <2> QED  BY <2>1, <2>2
<1>15. ASSUME NEW s \in Sessions, PublishRefused(s)  PROVE OutputsKnown'
  BY <1>15 DEF PublishRefused
<1>16. ASSUME NEW s \in Sessions, Swap(s)  PROVE OutputsKnown'
  <2>1. Rendering(s) /\ file[s] \in Outputs
    BY <1>16 DEF Swap
  <2>2. out' = [out EXCEPT ![file[s]] = [text |-> "rendered", inode |-> num[s]]]
    BY <1>16 DEF Swap
  <2>3. [text |-> "rendered", inode |-> num[s]] # Absent
    BY MemoryAssumption
  <2>4. OutputKnown(s)'
    BY <1>16 DEF Swap, NextOutput
  <2>5. ASSUME NEW t \in Sessions \ {s}  PROVE OutputKnown(t)'
    <3>1. UNCHANGED <<op[t], pc[t], file[t], num[t], raced>>
      BY <1>16 DEF Swap, NextOutput
    <3>2. CASE file[t] = file[s]
      <4>1. At(t, "write") \/ At(t, "swap") \/ At(t, "seed") => file[s] \in raced
        BY <1>16, <2>1, <3>2, Raced DEF Swap
      <4>2. At(t, "write") /\ file[t] = "proposal" => num[t] # num[s]
        BY <2>1
      <4> QED  BY <2>1, <2>2, <2>3, <3>1, <3>2, <4>1, <4>2
    <3>3. CASE file[t] # file[s]
      BY <2>1, <2>2, <3>1, <3>3
    <3> QED  BY <3>2, <3>3
  <2> QED  BY <2>4, <2>5
<1>17. ASSUME NEW s \in Sessions, WriteOutput(s)  PROVE OutputsKnown'
  <2> DEFINE text == IF op[s] = "init" THEN "seed" ELSE "rendered"
  <2>1. file[s] \in Outputs /\ (file[s] = "proposal" => Rendering(s))
    BY <1>17 DEF WriteOutput
  <2>2. \/ out' = out
        \/ out' = [out EXCEPT ![file[s]] = [text |-> text, inode |-> num[s]]]
    BY <1>17 DEF WriteOutput
  <2>3. [text |-> text, inode |-> num[s]] # Absent
    BY MemoryAssumption
  <2> HIDE DEF text
  <2>4. OutputKnown(s)'
    BY <1>17 DEF WriteOutput, NextOutput
  <2>5. ASSUME NEW t \in Sessions \ {s}  PROVE OutputKnown(t)'
    <3>1. UNCHANGED <<op[t], pc[t], file[t], num[t], raced>>
      BY <1>17 DEF WriteOutput, NextOutput
    <3>2. CASE file[t] = file[s]
      <4>1. At(t, "write") \/ At(t, "swap") \/ At(t, "seed") => file[s] \in raced
        BY <1>17, <2>1, <3>2, Raced DEF WriteOutput
      <4>2. At(t, "write") /\ file[t] = "proposal" => num[t] # num[s]
        BY <2>1, <3>2
      <4> QED  BY <2>1, <2>2, <2>3, <3>1, <3>2, <4>1, <4>2
    <3>3. CASE file[t] # file[s]
      BY <2>1, <2>2, <3>1, <3>3
    <3> QED  BY <3>2, <3>3
  <2> QED  BY <2>4, <2>5
<1>18. ASSUME NEW s \in Sessions, Crash(s)  PROVE OutputsKnown'
  BY <1>18 DEF Crash
<1>19. ASSUME NEW o \in Outputs, EditOutput(o)  PROVE OutputsKnown'
  <2>1. out' = [out EXCEPT ![o] = [text |-> "edited", inode |-> out[o].inode]]
    BY <1>19 DEF EditOutput
  <2>2. out[o] # Absent /\ out[o].text # "torn"
    BY <1>19 DEF EditOutput
  <2>3. [text |-> "edited", inode |-> out[o].inode] # Absent
    BY <1>19, MemoryAssumption DEF EditOutput
  <2>4. ASSUME NEW t \in Sessions  PROVE OutputKnown(t)'
    <3>1. UNCHANGED <<op[t], pc[t], file[t], num[t]>> /\ raced \subseteq raced'
      BY <1>19 DEF EditOutput
    <3>2. CASE file[t] = o
      <4>1. At(t, "write") \/ At(t, "swap") \/ At(t, "seed") => o \in raced'
        BY <1>19, <3>2 DEF EditOutput
      <4> QED  BY <2>1, <2>2, <2>3, <3>1, <3>2, <4>1
    <3>3. CASE file[t] # o
      BY <2>1, <3>1, <3>3
    <3> QED  BY <3>2, <3>3
  <2> QED  BY <2>4
<1>20. CASE UNCHANGED vars
  BY <1>20 DEF vars
<1> QED  BY ONLY [Next]_vars, <1>1, <1>2, <1>3, <1>4, <1>5, <1>6, <1>7, <1>8, <1>9, <1>10, <1>11,
            <1>12, <1>13, <1>14, <1>15, <1>16, <1>17, <1>18, <1>19, <1>20
         DEF Next, Step

LEMMA ProposalStep ==
  ASSUME TypeOK, ControlOK, OutputsKnown, ProposalRests, [Next]_vars
  PROVE  ProposalRests'
<1> USE DEF TypeOK, ControlOK, OutputsKnown, ProposalRests, Rendering, Carries, Ops, Files, Outputs, Outs, Entering, At, Goto, Begin, End, disk, session
<1>1. ASSUME NEW s \in Sessions, InitWorkspace(s)  PROVE ProposalRests'
  BY <1>1 DEF InitWorkspace
<1>2. ASSUME NEW s \in Sessions, LookExists(s)  PROVE ProposalRests'
  BY <1>2 DEF LookExists, NextSeed, SeedAfter
<1>3. ASSUME NEW s \in Sessions, LookAbsent(s)  PROVE ProposalRests'
  BY <1>3 DEF LookAbsent
<1>4. ASSUME NEW s \in Sessions, SeedProfile(s)  PROVE ProposalRests'
  BY <1>4 DEF SeedProfile, OutputKnown
<1>5. ASSUME NEW s \in Sessions, NEW i \in SourceIds, NEW overwrite \in BOOLEAN,
             RegisterSource(s, i, overwrite)
      PROVE  ProposalRests'
  BY <1>5 DEF RegisterSource
<1>6. ASSUME NEW s \in Sessions, NEW i \in SourceIds,
             RegisterMapping(s, i)
      PROVE  ProposalRests'
  BY <1>6 DEF RegisterMapping
<1>7. ASSUME NEW s \in Sessions, LoadMappings(s)  PROVE ProposalRests'
  BY <1>7 DEF LoadMappings
<1>8. ASSUME NEW s \in Sessions, NEW k \in Keys, NEW answer \in Answers,
             NEW source \in SourceTypes, NEW c \in Confidences,
             RecordFact(s, k, answer, source, c)
      PROVE  ProposalRests'
  BY <1>8 DEF RecordFact, FactArgs
<1>9. ASSUME NEW s \in Sessions, Open(s)  PROVE ProposalRests'
  BY <1>9 DEF Open
<1>10. ASSUME NEW s \in Sessions, Flush(s)  PROVE ProposalRests'
  BY <1>10 DEF Flush, NextSeed, SeedAfter
<1>11. ASSUME NEW s \in Sessions, NEW command \in {"render", "overwrite"},
             Render(s, command)
      PROVE  ProposalRests'
  BY <1>11 DEF Render
<1>12. ASSUME NEW s \in Sessions, Examine(s)  PROVE ProposalRests'
  BY <1>12 DEF Examine
<1>13. ASSUME NEW s \in Sessions, PublishNew(s)  PROVE ProposalRests'
  BY <1>13 DEF PublishNew
<1>14. ASSUME NEW s \in Sessions, PublishOver(s)  PROVE ProposalRests'
  BY <1>14 DEF PublishOver
<1>15. ASSUME NEW s \in Sessions, PublishRefused(s)  PROVE ProposalRests'
  BY <1>15 DEF PublishRefused
<1>16. ASSUME NEW s \in Sessions, Swap(s)  PROVE ProposalRests'
  <2>1. file[s] \in Outputs /\ Rendering(s)
    BY <1>16 DEF Swap
  <2>2. out' = [out EXCEPT ![file[s]] = [text |-> "rendered", inode |-> num[s]]]
    BY <1>16 DEF Swap
  <2>3. [text |-> "rendered", inode |-> num[s]] # Absent
    BY MemoryAssumption
  <2>4. file[s] = "profile" \/ Carries("profile") => Carries("profile")'
    BY <2>1, <2>2, <2>3
  <2> QED  BY <1>16, <2>1, <2>2, <2>4 DEF Swap, NextOutput
<1>17. ASSUME NEW s \in Sessions, WriteOutput(s)  PROVE ProposalRests'
  <2> DEFINE text == IF op[s] = "init" THEN "seed" ELSE "rendered"
  <2>1. file[s] \in Outputs /\ (op[s] = "init" \/ Rendering(s))
    BY <1>17 DEF WriteOutput
  <2>2. [text |-> text, inode |-> num[s]] # Absent
    BY MemoryAssumption
  <2>3. CASE file[s] = "profile" /\ "profile" \notin raced
    <3>1. out["profile"] = [text |-> "torn", inode |-> num[s]]
      BY <1>17, <2>3 DEF WriteOutput, OutputKnown
    <3>2. out' = [out EXCEPT !["profile"] = [text |-> text, inode |-> num[s]]]
      BY <1>17, <2>3, <3>1 DEF WriteOutput
    <3>3. ~Carries("profile")
      BY <3>1
    <3>4. Rendering(s) => Carries("profile")'
      BY <2>1, <2>2, <3>2
    <3> QED  BY <1>17, <2>1, <2>3, <3>2, <3>3, <3>4 DEF WriteOutput, NextOutput
  <2>4. CASE file[s] = "proposal"
    <3>1. UNCHANGED out["profile"]
      BY <1>17, <2>4 DEF WriteOutput
    <3>2. out["proposal"] # Absent
      BY <1>17, <2>4 DEF WriteOutput, OutputKnown
    <3> QED  BY <1>17, <2>4, <3>1, <3>2 DEF WriteOutput, NextOutput
  <2>5. CASE "profile" \in raced
    BY <1>17, <2>5 DEF WriteOutput
  <2> QED  BY <2>1, <2>3, <2>4, <2>5
<1>18. ASSUME NEW s \in Sessions, Crash(s)  PROVE ProposalRests'
  BY <1>18 DEF Crash
<1>19. ASSUME NEW o \in Outputs, EditOutput(o)  PROVE ProposalRests'
  <2>1. out' = [out EXCEPT ![o] = [text |-> "edited", inode |-> out[o].inode]]
    BY <1>19 DEF EditOutput
  <2>2. [text |-> "edited", inode |-> out[o].inode] # Absent /\ out[o] # Absent
    BY <1>19, MemoryAssumption DEF EditOutput
  <2>3. Carries("profile") => Carries("profile")'
    BY <2>1, <2>2
  <2> QED  BY <1>19, <2>1, <2>2, <2>3 DEF EditOutput
<1>20. CASE UNCHANGED vars
  BY <1>20 DEF vars
<1> QED  BY <1>1, <1>2, <1>3, <1>4, <1>5, <1>6, <1>7, <1>8, <1>9, <1>10, <1>11,
            <1>12, <1>13, <1>14, <1>15, <1>16, <1>17, <1>18, <1>19, <1>20
         DEF Next, Step

(* No step replaces an output that carries facts, but with leave to. *)
LEMMA OutputsStandStep ==
  ASSUME TypeOK, ControlOK, OutputsKnown, [Next]_vars
  PROVE  \A o \in Outputs : OutputStands(o)
<1> USE DEF TypeOK, ControlOK, OutputsKnown, OutputStands, Carries, Rendering, Untouched, Ops, Files, Outputs, Outs, At, Goto, Begin, End, disk, session
<1>1. ASSUME NEW s \in Sessions, InitWorkspace(s)  PROVE \A o \in Outputs : OutputStands(o)
  BY <1>1 DEF InitWorkspace
<1>2. ASSUME NEW s \in Sessions, LookExists(s)  PROVE \A o \in Outputs : OutputStands(o)
  BY <1>2 DEF LookExists, NextSeed, SeedAfter
<1>3. ASSUME NEW s \in Sessions, LookAbsent(s)  PROVE \A o \in Outputs : OutputStands(o)
  BY <1>3 DEF LookAbsent
<1>4. ASSUME NEW s \in Sessions, SeedProfile(s)  PROVE \A o \in Outputs : OutputStands(o)
  BY <1>4 DEF SeedProfile, OutputKnown
<1>5. ASSUME NEW s \in Sessions, NEW i \in SourceIds, NEW overwrite \in BOOLEAN,
             RegisterSource(s, i, overwrite)
      PROVE  \A o \in Outputs : OutputStands(o)
  BY <1>5 DEF RegisterSource
<1>6. ASSUME NEW s \in Sessions, NEW i \in SourceIds,
             RegisterMapping(s, i)
      PROVE  \A o \in Outputs : OutputStands(o)
  BY <1>6 DEF RegisterMapping
<1>7. ASSUME NEW s \in Sessions, LoadMappings(s)  PROVE \A o \in Outputs : OutputStands(o)
  BY <1>7 DEF LoadMappings
<1>8. ASSUME NEW s \in Sessions, NEW k \in Keys, NEW answer \in Answers,
             NEW source \in SourceTypes, NEW c \in Confidences,
             RecordFact(s, k, answer, source, c)
      PROVE  \A o \in Outputs : OutputStands(o)
  BY <1>8 DEF RecordFact, FactArgs
<1>9. ASSUME NEW s \in Sessions, Open(s)  PROVE \A o \in Outputs : OutputStands(o)
  BY <1>9 DEF Open
<1>10. ASSUME NEW s \in Sessions, Flush(s)  PROVE \A o \in Outputs : OutputStands(o)
  BY <1>10 DEF Flush, NextSeed, SeedAfter
<1>11. ASSUME NEW s \in Sessions, NEW command \in {"render", "overwrite"},
             Render(s, command)
      PROVE  \A o \in Outputs : OutputStands(o)
  BY <1>11 DEF Render
<1>12. ASSUME NEW s \in Sessions, Examine(s)  PROVE \A o \in Outputs : OutputStands(o)
  BY <1>12 DEF Examine
<1>13. ASSUME NEW s \in Sessions, PublishNew(s)  PROVE \A o \in Outputs : OutputStands(o)
  BY <1>13 DEF PublishNew
<1>14. ASSUME NEW s \in Sessions, PublishOver(s)  PROVE \A o \in Outputs : OutputStands(o)
  BY <1>14 DEF PublishOver
<1>15. ASSUME NEW s \in Sessions, PublishRefused(s)  PROVE \A o \in Outputs : OutputStands(o)
  BY <1>15 DEF PublishRefused
<1>16. ASSUME NEW s \in Sessions, Swap(s)  PROVE \A o \in Outputs : OutputStands(o)
  BY <1>16 DEF Swap, OutputKnown
<1>17. ASSUME NEW s \in Sessions, WriteOutput(s)  PROVE \A o \in Outputs : OutputStands(o)
  <2>1. SUFFICES ASSUME NEW o \in Outputs, Carries(o), out'[o] # out[o],
                        o = "proposal" \/ o \notin raced'
                 PROVE  FALSE
    OBVIOUS
  <2>2. file[s] = o /\ out[o].inode = num[s] /\ raced' = raced
    BY <1>17, <2>1 DEF WriteOutput
  <2>3. OutputKnown(s) /\ At(s, "write")
    BY <1>17 DEF WriteOutput
  <2>4. out[o].text = "torn"
    BY ONLY <2>1, <2>2, <2>3 DEF OutputKnown
  <2> QED  BY <2>1, <2>4
<1>18. ASSUME NEW s \in Sessions, Crash(s)  PROVE \A o \in Outputs : OutputStands(o)
  BY <1>18 DEF Crash
<1>19. ASSUME NEW o \in Outputs, EditOutput(o)  PROVE \A p \in Outputs : OutputStands(p)
  BY <1>19 DEF EditOutput
<1>20. CASE UNCHANGED vars
  BY <1>20 DEF vars
<1> QED  BY <1>1, <1>2, <1>3, <1>4, <1>5, <1>6, <1>7, <1>8, <1>9, <1>10, <1>11,
            <1>12, <1>13, <1>14, <1>15, <1>16, <1>17, <1>18, <1>19, <1>20
         DEF Next, Step

-----------------------------------------------------------------------------
(* The registries. *)

(* A source that is registered for good: it is in the registry, or the registry *)
(* is being saved, and no session is about to save a registry without it.       *)
Firm(i) ==
  /\ i \in Loaded("sources") \/ \E t \in Sessions : At(t, "flush") /\ file[t] = "sources"
  /\ \A t \in Sessions :
       pc[t] \in {"open", "flush"} /\ file[t] = "sources" => i \in ids[t]

(* Whoever saves the source registry loaded what is in it. *)
SourcesLoaded ==
  "sources" \notin raced =>
    \A s \in Sessions : file[s] = "sources" =>
      /\ At(s, "open") => Loaded("sources") \subseteq ids[s]
      /\ At(s, "flush") => data["sources"] = {}

(* Rules, on file or about to be, are for sources registered for good. *)
RulesAreFirm ==
  "sources" \notin raced =>
    /\ data["mappings"] # Absent => \A i \in data["mappings"] : Firm(i)
    /\ \A s \in Sessions : op[s] = "mapping" => \A i \in ids[s] : Firm(i)

LEMMA SourcesStep ==
  ASSUME TypeOK, ControlOK, Exclusive, SourcesLoaded, [Next]_vars
  PROVE  SourcesLoaded'
<1> USE DEF TypeOK, ControlOK, Exclusive, SourcesLoaded, Loaded, EmptyDoc, Within, Entering, Ops, Files, At, Goto, Begin, End, disk, session
<1>1. ASSUME NEW s \in Sessions, InitWorkspace(s)  PROVE SourcesLoaded'
  BY <1>1 DEF InitWorkspace
<1>2. ASSUME NEW s \in Sessions, LookExists(s)  PROVE SourcesLoaded'
  BY <1>2 DEF LookExists, NextSeed, SeedAfter
<1>3. ASSUME NEW s \in Sessions, LookAbsent(s)  PROVE SourcesLoaded'
  BY <1>3 DEF LookAbsent, Exists
<1>4. ASSUME NEW s \in Sessions, SeedProfile(s)  PROVE SourcesLoaded'
  BY <1>4 DEF SeedProfile
<1>5. ASSUME NEW s \in Sessions, NEW i \in SourceIds, NEW overwrite \in BOOLEAN,
             RegisterSource(s, i, overwrite)
      PROVE  SourcesLoaded'
  BY <1>5 DEF RegisterSource
<1>6. ASSUME NEW s \in Sessions, NEW i \in SourceIds,
             RegisterMapping(s, i)
      PROVE  SourcesLoaded'
  BY <1>6 DEF RegisterMapping
<1>7. ASSUME NEW s \in Sessions, LoadMappings(s)  PROVE SourcesLoaded'
  BY <1>7 DEF LoadMappings
<1>8. ASSUME NEW s \in Sessions, NEW k \in Keys, NEW answer \in Answers,
             NEW source \in SourceTypes, NEW c \in Confidences,
             RecordFact(s, k, answer, source, c)
      PROVE  SourcesLoaded'
  BY <1>8 DEF RecordFact, FactArgs
<1>9. ASSUME NEW s \in Sessions, Open(s)  PROVE SourcesLoaded'
  BY <1>9 DEF Open
<1>10. ASSUME NEW s \in Sessions, Flush(s)  PROVE SourcesLoaded'
  BY <1>10 DEF Flush, NextSeed, SeedAfter
<1>11. ASSUME NEW s \in Sessions, NEW command \in {"render", "overwrite"},
             Render(s, command)
      PROVE  SourcesLoaded'
  BY <1>11 DEF Render
<1>12. ASSUME NEW s \in Sessions, Examine(s)  PROVE SourcesLoaded'
  BY <1>12 DEF Examine
<1>13. ASSUME NEW s \in Sessions, PublishNew(s)  PROVE SourcesLoaded'
  BY <1>13 DEF PublishNew
<1>14. ASSUME NEW s \in Sessions, PublishOver(s)  PROVE SourcesLoaded'
  BY <1>14 DEF PublishOver
<1>15. ASSUME NEW s \in Sessions, PublishRefused(s)  PROVE SourcesLoaded'
  BY <1>15 DEF PublishRefused
<1>16. ASSUME NEW s \in Sessions, Swap(s)  PROVE SourcesLoaded'
  BY <1>16 DEF Swap, NextOutput
<1>17. ASSUME NEW s \in Sessions, WriteOutput(s)  PROVE SourcesLoaded'
  BY <1>17 DEF WriteOutput, NextOutput
<1>18. ASSUME NEW s \in Sessions, Crash(s)  PROVE SourcesLoaded'
  BY <1>18 DEF Crash
<1>19. ASSUME NEW o \in Outputs, EditOutput(o)  PROVE SourcesLoaded'
  BY <1>19 DEF EditOutput
<1>20. CASE UNCHANGED vars
  BY <1>20 DEF vars
<1> QED  BY <1>1, <1>2, <1>3, <1>4, <1>5, <1>6, <1>7, <1>8, <1>9, <1>10, <1>11,
            <1>12, <1>13, <1>14, <1>15, <1>16, <1>17, <1>18, <1>19, <1>20
         DEF Next, Step

LEMMA FirmStays ==
  ASSUME TypeOK, ControlOK, Exclusive, SourcesLoaded, NEW i, Firm(i),
         "sources" \notin raced', [Next]_vars
  PROVE  Firm(i)'
<1> USE DEF TypeOK, ControlOK, Firm, Loaded, EmptyDoc, Within, Entering, Ops, Files, At, Goto, Begin, End, disk, session
<1>1. ASSUME NEW s \in Sessions, InitWorkspace(s)  PROVE Firm(i)'
  BY <1>1 DEF InitWorkspace
<1>2. ASSUME NEW s \in Sessions, LookExists(s)  PROVE Firm(i)'
  BY <1>2 DEF LookExists, NextSeed, SeedAfter
<1>3. ASSUME NEW s \in Sessions, LookAbsent(s)  PROVE Firm(i)'
  BY <1>3 DEF LookAbsent, Exists
<1>4. ASSUME NEW s \in Sessions, SeedProfile(s)  PROVE Firm(i)'
  BY <1>4 DEF SeedProfile
<1>5. ASSUME NEW s \in Sessions, NEW j \in SourceIds, NEW overwrite \in BOOLEAN,
             RegisterSource(s, j, overwrite)
      PROVE  Firm(i)'
  <2>1. Loaded("sources")' = Loaded("sources")
    BY <1>5 DEF RegisterSource
  <2>2. pc[s] = "done" /\ ids'[s] = Loaded("sources") \cup {j} /\ file'[s] = "sources"
        /\ pc'[s] = "open"
    BY <1>5 DEF RegisterSource
  <2>3. \A t \in Sessions \ {s} : UNCHANGED <<pc[t], file[t], ids[t]>>
    BY <1>5 DEF RegisterSource
  <2>4. \A t \in Sessions \ {s} : ~(At(t, "flush") /\ file[t] = "sources")
    BY <1>5, <2>2 DEF RegisterSource
  <2>5. i \in Loaded("sources")
    BY <2>2, <2>4
  <2> QED  BY ONLY Firm(i), <2>1, <2>2, <2>3, <2>5 DEF Firm
<1>6. ASSUME NEW s \in Sessions, NEW j \in SourceIds,
             RegisterMapping(s, j)
      PROVE  Firm(i)'
  <2>1. Loaded("sources")' = Loaded("sources")
    BY <1>6 DEF RegisterMapping
  <2>2. pc[s] = "done" /\ pc'[s] = "load"
    BY <1>6 DEF RegisterMapping
  <2>3. \A t \in Sessions \ {s} : UNCHANGED <<pc[t], file[t], ids[t]>>
    BY <1>6 DEF RegisterMapping
  <2> QED  BY ONLY Firm(i), <2>1, <2>2, <2>3 DEF Firm, At
<1>7. ASSUME NEW s \in Sessions, LoadMappings(s)  PROVE Firm(i)'
  BY <1>7 DEF LoadMappings
<1>8. ASSUME NEW s \in Sessions, NEW k \in Keys, NEW answer \in Answers,
             NEW source \in SourceTypes, NEW c \in Confidences,
             RecordFact(s, k, answer, source, c)
      PROVE  Firm(i)'
  BY <1>8 DEF RecordFact, FactArgs
<1>9. ASSUME NEW s \in Sessions, Open(s)  PROVE Firm(i)'
  BY <1>9 DEF Open
<1>10. ASSUME NEW s \in Sessions, Flush(s)  PROVE Firm(i)'
  <2>1. \A t \in Sessions \ {s} : UNCHANGED <<pc[t], file[t], ids[t]>>
    BY <1>10 DEF Flush, NextSeed
  <2>2. pc'[s] \notin {"open", "flush"}
    BY <1>10 DEF Flush, NextSeed
  <2>3. CASE file[s] = "sources"
    <3>1. data'["sources"] = ids[s]
      BY <1>10, <2>3 DEF Flush
    <3>2. i \in ids[s]
      BY <1>10, <2>3 DEF Flush
    <3>3. ids[s] # Absent
      BY MemoryAssumption DEF Contents
    <3>4. i \in Loaded("sources")'
      BY ONLY <3>1, <3>2, <3>3 DEF Loaded
    <3> QED  BY ONLY Firm(i), <2>1, <2>2, <3>4 DEF Firm, At
  <2>4. CASE file[s] # "sources"
    <3>1. data'["sources"] = data["sources"]
      BY <1>10, <2>4 DEF Flush
    <3>2. Loaded("sources")' = Loaded("sources")
      BY ONLY <3>1 DEF Loaded, EmptyDoc
    <3> QED  BY ONLY Firm(i), <2>1, <2>2, <2>4, <3>2 DEF Firm, At
  <2> QED  BY <2>3, <2>4
<1>11. ASSUME NEW s \in Sessions, NEW command \in {"render", "overwrite"},
             Render(s, command)
      PROVE  Firm(i)'
  BY <1>11 DEF Render
<1>12. ASSUME NEW s \in Sessions, Examine(s)  PROVE Firm(i)'
  BY <1>12 DEF Examine
<1>13. ASSUME NEW s \in Sessions, PublishNew(s)  PROVE Firm(i)'
  BY <1>13 DEF PublishNew
<1>14. ASSUME NEW s \in Sessions, PublishOver(s)  PROVE Firm(i)'
  BY <1>14 DEF PublishOver
<1>15. ASSUME NEW s \in Sessions, PublishRefused(s)  PROVE Firm(i)'
  BY <1>15 DEF PublishRefused
<1>16. ASSUME NEW s \in Sessions, Swap(s)  PROVE Firm(i)'
  BY <1>16 DEF Swap, NextOutput
<1>17. ASSUME NEW s \in Sessions, WriteOutput(s)  PROVE Firm(i)'
  BY <1>17 DEF WriteOutput, NextOutput
<1>18. ASSUME NEW s \in Sessions, Crash(s)  PROVE Firm(i)'
  BY <1>18 DEF Crash
<1>19. ASSUME NEW o \in Outputs, EditOutput(o)  PROVE Firm(i)'
  BY <1>19 DEF EditOutput
<1>20. CASE UNCHANGED vars
  BY <1>20 DEF vars
<1> QED  BY ONLY [Next]_vars, <1>1, <1>2, <1>3, <1>4, <1>5, <1>6, <1>7, <1>8, <1>9, <1>10, <1>11,
            <1>12, <1>13, <1>14, <1>15, <1>16, <1>17, <1>18, <1>19, <1>20
         DEF Next, Step

(* A source about to get a rule is registered for good. *)
LEMMA RegisteredIsFirm ==
  ASSUME TypeOK, ControlOK, SourcesLoaded, NEW i \in Loaded("sources"),
         "sources" \notin raced
  PROVE  Firm(i)
<1>1. ASSUME NEW t \in Sessions, At(t, "flush"), file[t] = "sources"  PROVE FALSE
  BY <1>1, MemoryAssumption DEF SourcesLoaded, Loaded, EmptyDoc
<1> QED  BY <1>1 DEF SourcesLoaded, Firm, At

(* A step changes the mapping registry to what its session was about to save, *)
(* and what a session is about to save to what it loaded.                     *)
MappingsSaved ==
  \/ UNCHANGED data["mappings"]
  \/ data'["mappings"] = {}
  \/ \E s \in Sessions : op[s] \in {"mapping", "init"} /\ data'["mappings"] = ids[s]

RulesHeld ==
  \A t \in Sessions : op'[t] = "mapping" =>
     \/ op[t] = "mapping" /\ ids'[t] = ids[t]
     \/ op[t] = "mapping" /\ ids'[t] = Loaded("mappings") \cup ids[t]
     \/ ids'[t] \subseteq Loaded("sources")

LEMMA MappingsStep ==
  ASSUME TypeOK, ControlOK, [Next]_vars
  PROVE  MappingsSaved
<1> USE DEF TypeOK, ControlOK, MappingsSaved, EmptyDoc, Ops, Files, At, Goto, Begin, End, disk, session
<1>1. ASSUME NEW s \in Sessions, InitWorkspace(s)  PROVE MappingsSaved
  BY <1>1 DEF InitWorkspace
<1>2. ASSUME NEW s \in Sessions, LookExists(s)  PROVE MappingsSaved
  BY <1>2 DEF LookExists, NextSeed, SeedAfter
<1>3. ASSUME NEW s \in Sessions, LookAbsent(s)  PROVE MappingsSaved
  BY <1>3 DEF LookAbsent
<1>4. ASSUME NEW s \in Sessions, SeedProfile(s)  PROVE MappingsSaved
  BY <1>4 DEF SeedProfile
<1>5. ASSUME NEW s \in Sessions, NEW i \in SourceIds, NEW overwrite \in BOOLEAN,
             RegisterSource(s, i, overwrite)
      PROVE  MappingsSaved
  BY <1>5 DEF RegisterSource
<1>6. ASSUME NEW s \in Sessions, NEW i \in SourceIds,
             RegisterMapping(s, i)
      PROVE  MappingsSaved
  BY <1>6 DEF RegisterMapping
<1>7. ASSUME NEW s \in Sessions, LoadMappings(s)  PROVE MappingsSaved
  BY <1>7 DEF LoadMappings
<1>8. ASSUME NEW s \in Sessions, NEW k \in Keys, NEW answer \in Answers,
             NEW source \in SourceTypes, NEW c \in Confidences,
             RecordFact(s, k, answer, source, c)
      PROVE  MappingsSaved
  BY <1>8 DEF RecordFact, FactArgs
<1>9. ASSUME NEW s \in Sessions, Open(s)  PROVE MappingsSaved
  BY <1>9 DEF Open
<1>10. ASSUME NEW s \in Sessions, Flush(s)  PROVE MappingsSaved
  BY <1>10 DEF Flush, NextSeed, SeedAfter
<1>11. ASSUME NEW s \in Sessions, NEW command \in {"render", "overwrite"},
             Render(s, command)
      PROVE  MappingsSaved
  BY <1>11 DEF Render
<1>12. ASSUME NEW s \in Sessions, Examine(s)  PROVE MappingsSaved
  BY <1>12 DEF Examine
<1>13. ASSUME NEW s \in Sessions, PublishNew(s)  PROVE MappingsSaved
  BY <1>13 DEF PublishNew
<1>14. ASSUME NEW s \in Sessions, PublishOver(s)  PROVE MappingsSaved
  BY <1>14 DEF PublishOver
<1>15. ASSUME NEW s \in Sessions, PublishRefused(s)  PROVE MappingsSaved
  BY <1>15 DEF PublishRefused
<1>16. ASSUME NEW s \in Sessions, Swap(s)  PROVE MappingsSaved
  BY <1>16 DEF Swap, NextOutput
<1>17. ASSUME NEW s \in Sessions, WriteOutput(s)  PROVE MappingsSaved
  BY <1>17 DEF WriteOutput, NextOutput
<1>18. ASSUME NEW s \in Sessions, Crash(s)  PROVE MappingsSaved
  BY <1>18 DEF Crash
<1>19. ASSUME NEW o \in Outputs, EditOutput(o)  PROVE MappingsSaved
  BY <1>19 DEF EditOutput
<1>20. CASE UNCHANGED vars
  BY <1>20 DEF vars
<1> QED  BY <1>1, <1>2, <1>3, <1>4, <1>5, <1>6, <1>7, <1>8, <1>9, <1>10, <1>11,
            <1>12, <1>13, <1>14, <1>15, <1>16, <1>17, <1>18, <1>19, <1>20
         DEF Next, Step

LEMMA RulesHeldStep ==
  ASSUME TypeOK, ControlOK, [Next]_vars
  PROVE  RulesHeld
<1> USE DEF TypeOK, ControlOK, RulesHeld, Ops, At, Goto, Begin, End, disk, session
<1>1. ASSUME NEW s \in Sessions, InitWorkspace(s)  PROVE RulesHeld
  BY <1>1 DEF InitWorkspace
<1>2. ASSUME NEW s \in Sessions, LookExists(s)  PROVE RulesHeld
  BY <1>2 DEF LookExists, NextSeed, SeedAfter
<1>3. ASSUME NEW s \in Sessions, LookAbsent(s)  PROVE RulesHeld
  BY <1>3 DEF LookAbsent
<1>4. ASSUME NEW s \in Sessions, SeedProfile(s)  PROVE RulesHeld
  BY <1>4 DEF SeedProfile
<1>5. ASSUME NEW s \in Sessions, NEW i \in SourceIds, NEW overwrite \in BOOLEAN,
             RegisterSource(s, i, overwrite)
      PROVE  RulesHeld
  BY <1>5 DEF RegisterSource
<1>6. ASSUME NEW s \in Sessions, NEW i \in SourceIds,
             RegisterMapping(s, i)
      PROVE  RulesHeld
  BY <1>6 DEF RegisterMapping
<1>7. ASSUME NEW s \in Sessions, LoadMappings(s)  PROVE RulesHeld
  BY <1>7 DEF LoadMappings
<1>8. ASSUME NEW s \in Sessions, NEW k \in Keys, NEW answer \in Answers,
             NEW source \in SourceTypes, NEW c \in Confidences,
             RecordFact(s, k, answer, source, c)
      PROVE  RulesHeld
  BY <1>8 DEF RecordFact, FactArgs
<1>9. ASSUME NEW s \in Sessions, Open(s)  PROVE RulesHeld
  BY <1>9 DEF Open
<1>10. ASSUME NEW s \in Sessions, Flush(s)  PROVE RulesHeld
  BY <1>10 DEF Flush, NextSeed, SeedAfter
<1>11. ASSUME NEW s \in Sessions, NEW command \in {"render", "overwrite"},
             Render(s, command)
      PROVE  RulesHeld
  BY <1>11 DEF Render
<1>12. ASSUME NEW s \in Sessions, Examine(s)  PROVE RulesHeld
  BY <1>12 DEF Examine
<1>13. ASSUME NEW s \in Sessions, PublishNew(s)  PROVE RulesHeld
  BY <1>13 DEF PublishNew
<1>14. ASSUME NEW s \in Sessions, PublishOver(s)  PROVE RulesHeld
  BY <1>14 DEF PublishOver
<1>15. ASSUME NEW s \in Sessions, PublishRefused(s)  PROVE RulesHeld
  BY <1>15 DEF PublishRefused
<1>16. ASSUME NEW s \in Sessions, Swap(s)  PROVE RulesHeld
  BY <1>16 DEF Swap, NextOutput
<1>17. ASSUME NEW s \in Sessions, WriteOutput(s)  PROVE RulesHeld
  BY <1>17 DEF WriteOutput, NextOutput
<1>18. ASSUME NEW s \in Sessions, Crash(s)  PROVE RulesHeld
  BY <1>18 DEF Crash
<1>19. ASSUME NEW o \in Outputs, EditOutput(o)  PROVE RulesHeld
  BY <1>19 DEF EditOutput
<1>20. CASE UNCHANGED vars
  BY <1>20 DEF vars
<1> QED  BY <1>1, <1>2, <1>3, <1>4, <1>5, <1>6, <1>7, <1>8, <1>9, <1>10, <1>11,
            <1>12, <1>13, <1>14, <1>15, <1>16, <1>17, <1>18, <1>19, <1>20
         DEF Next, Step

(* Every step adds rules for registered sources only. *)
LEMMA RulesStep ==
  ASSUME TypeOK, ControlOK, Exclusive, SourcesLoaded, RulesAreFirm, [Next]_vars
  PROVE  RulesAreFirm'
<1> SUFFICES ASSUME "sources" \notin raced'  PROVE RulesAreFirm'
  BY DEF RulesAreFirm
<1>1. raced \subseteq raced'
  <2>1. ASSUME NEW s \in Sessions, Step(s)  PROVE raced \subseteq raced'
    BY <2>1 DEF Step, InitWorkspace, LookExists, LookAbsent, SeedProfile, RegisterSource,
      RegisterMapping, LoadMappings, RecordFact, Open, Flush, Render, Examine, PublishNew,
      PublishOver, PublishRefused, Swap, WriteOutput, Crash, Entering
  <2>2. ASSUME NEW o \in Outputs, EditOutput(o)  PROVE raced \subseteq raced'
    BY <2>2 DEF EditOutput
  <2>3. CASE UNCHANGED vars
    BY <2>3 DEF vars
  <2> QED  BY ONLY [Next]_vars, <2>1, <2>2, <2>3 DEF Next
<1>2. \A i : Firm(i) => Firm(i)'
  BY FirmStays
<1>3. \A i \in Loaded("sources") : Firm(i)'
  BY <1>1, <1>2, RegisteredIsFirm
<1>4. data["mappings"] # Absent => \A i \in data["mappings"] : Firm(i)'
  BY <1>1, <1>2 DEF RulesAreFirm
<1>5. \A s \in Sessions : op[s] = "mapping" => \A i \in ids[s] : Firm(i)'
  BY <1>1, <1>2 DEF RulesAreFirm
<1>6. MappingsSaved
  BY MappingsStep
<1>7. RulesHeld
  BY RulesHeldStep
<1>8. \A i \in Loaded("mappings") : Firm(i)'
  BY <1>4 DEF Loaded, EmptyDoc
<1>9. data'["mappings"] # Absent => \A i \in data'["mappings"] : Firm(i)'
  BY <1>4, <1>5, <1>6 DEF ControlOK, MappingsSaved
<1>10. \A s \in Sessions : op'[s] = "mapping" => \A i \in ids'[s] : Firm(i)'
  BY <1>3, <1>5, <1>7, <1>8 DEF RulesHeld
<1> QED  BY <1>9, <1>10 DEF RulesAreFirm

-----------------------------------------------------------------------------
(* The intake. *)

(* A fact says what has been said about its key. *)
Agrees(fact, w) ==
  /\ fact = None => w.user = None /\ w.said = {}
  /\ fact # None =>
       /\ w.user # None => fact.answer = w.user
       /\ fact.status # "conflict" => w.said = {fact.answer}

AgreesWith(intake, words) == \A k \in Keys : Agrees(intake[k], words[k])

(* What will have been said once the session has saved. *)
Said(s) ==
  IF op[s] = "fact" THEN [word EXCEPT ![arg[s].key] = WordAfter(word[arg[s].key], arg[s])]
                    ELSE word

(* Recording an answer keeps a fact in agreement with what has been said. *)
LEMMA RecordedAgrees ==
  ASSUME NEW old \in Facts \cup {None}, NEW answer \in Answers, NEW source \in SourceTypes,
         NEW c \in Int, NEW k \in Keys,
         NEW w \in [user : Answers \cup {None}, said : SUBSET Answers], Agrees(old, w)
  PROVE  Agrees(Recorded(old, answer, source, c),
                WordAfter(w, [key |-> k, answer |-> answer, source |-> source]))
<1> DEFINE new == Recorded(old, answer, source, c)
           after == WordAfter(w, [key |-> k, answer |-> answer, source |-> source])
<1>1. new \in Facts /\ new # None
  BY RecordedIsFact, MemoryAssumption
<1>2. CASE source = "user"
  <2>1. new.answer = answer
    BY <1>2 DEF Recorded
  <2>2. after = [user |-> answer, said |-> {answer}]
    BY <1>2 DEF WordAfter
  <2> QED  BY <1>1, <2>1, <2>2 DEF Agrees
<1>3. CASE source # "user"
  <2>1. after = [user |-> w.user, said |-> w.said \cup {answer}]
    BY <1>3 DEF WordAfter
  <2>2. CASE old = None
    <3>1. new.answer = answer
      BY <1>3, <2>2 DEF Recorded
    <3>2. after.user = None /\ after.said = {answer}
      BY <2>1, <2>2 DEF Agrees
    <3> QED  BY <1>1, <3>1, <3>2 DEF Agrees
  <2>3. CASE old # None /\ old.answer = answer
    <3>1. new.answer = answer /\ new.status = old.status
      BY <1>3, <2>3 DEF Recorded, Facts
    <3> QED  BY <1>1, <2>1, <2>3, <3>1 DEF Agrees
  <2>4. CASE old # None /\ old.answer # answer
    <3>1. new.answer = old.answer /\ new.status = "conflict"
      BY <1>3, <2>4 DEF Recorded, Facts
    <3> QED  BY <1>1, <2>1, <2>4, <3>1 DEF Agrees
  <2> QED  BY <2>2, <2>3, <2>4
<1> QED  BY <1>2, <1>3

(* The file and what is about to replace it agree with what has been said. *)
FactInv ==
  "intake" \notin raced =>
    /\ data["intake"] = Absent => AgreesWith(EmptyDoc("intake"), word)
    /\ \/ data["intake"] = Absent
       \/ AgreesWith(data["intake"], word)
       \/ \E s \in Sessions : At(s, "flush") /\ file[s] = "intake"
    /\ \A s \in Sessions :
         pc[s] \in {"open", "flush"} /\ file[s] = "intake" => AgreesWith(facts[s], Said(s))

(* A step of a session that is not about to save the intake leaves it alone. *)
LEMMA FactQuiet ==
  ASSUME FactInv, NEW s \in Sessions, data'["intake"] = data["intake"], word' = word,
         raced \subseteq raced',
         ~(pc[s] \in {"open", "flush"} /\ file[s] = "intake"),
         ~(pc'[s] \in {"open", "flush"} /\ file'[s] = "intake"),
         \A t \in Sessions \ {s} : UNCHANGED <<op[t], pc[t], file[t], facts[t], arg[t]>>
  PROVE  FactInv'
<1> SUFFICES ASSUME "intake" \notin raced'  PROVE FactInv'
  BY DEF FactInv
<1>1. \A t \in Sessions \ {s} : Said(t)' = Said(t)
  BY DEF Said
<1>2. ASSUME NEW t \in Sessions, pc'[t] \in {"open", "flush"}, file'[t] = "intake"
      PROVE  AgreesWith(facts[t], Said(t))'
  BY <1>1, <1>2 DEF FactInv
<1>3. ASSUME NEW t \in Sessions, At(t, "flush"), file[t] = "intake"
      PROVE  At(t, "flush")' /\ file'[t] = "intake"
  BY <1>3 DEF At
<1> QED  BY <1>2, <1>3 DEF FactInv, AgreesWith

LEMMA FactStep ==
  ASSUME TypeOK, ControlOK, Exclusive, FactInv, [Next]_vars
  PROVE  FactInv'
<1> USE DEF TypeOK, ControlOK, FactInv, Said, Within, Entering, Ops, Files, At, Goto, Begin, End, disk, session
<1>1. ASSUME NEW s \in Sessions, InitWorkspace(s)  PROVE FactInv'
  BY <1>1 DEF InitWorkspace
<1>2. ASSUME NEW s \in Sessions, LookExists(s)  PROVE FactInv'
  <2>1. pc[s] \notin {"open", "flush"} /\ pc'[s] \notin {"open", "flush"}
    BY <1>2 DEF LookExists, NextSeed, SeedAfter
  <2>2. \A t \in Sessions \ {s} : UNCHANGED <<op[t], pc[t], file[t], facts[t], arg[t]>>
    BY <1>2 DEF LookExists, NextSeed, SeedAfter
  <2>3. data' = data /\ word' = word /\ raced' = raced
    BY <1>2 DEF LookExists
  <2> QED  BY ONLY FactInv, <2>1, <2>2, <2>3, FactQuiet
<1>3. ASSUME NEW s \in Sessions, LookAbsent(s)  PROVE FactInv'
  BY <1>3 DEF LookAbsent, Exists
<1>4. ASSUME NEW s \in Sessions, SeedProfile(s)  PROVE FactInv'
  BY <1>4 DEF SeedProfile
<1>5. ASSUME NEW s \in Sessions, NEW i \in SourceIds, NEW overwrite \in BOOLEAN,
             RegisterSource(s, i, overwrite)
      PROVE  FactInv'
  BY <1>5 DEF RegisterSource
<1>6. ASSUME NEW s \in Sessions, NEW i \in SourceIds,
             RegisterMapping(s, i)
      PROVE  FactInv'
  BY <1>6 DEF RegisterMapping
<1>7. ASSUME NEW s \in Sessions, LoadMappings(s)  PROVE FactInv'
  BY <1>7 DEF LoadMappings
<1>8. ASSUME NEW s \in Sessions, NEW k \in Keys, NEW answer \in Answers,
             NEW source \in SourceTypes, NEW c \in Confidences,
             RecordFact(s, k, answer, source, c)
      PROVE  FactInv'
  <2> DEFINE new == Recorded(data["intake"][k], answer, source, c)
             a == [key |-> k, answer |-> answer, source |-> source]
  <2> SUFFICES ASSUME "intake" \notin raced'  PROVE FactInv'
    BY DEF FactInv
  <2>1. data["intake"] \in Intakes /\ data["intake"] # Absent /\ c \in Int
    BY <1>8, MemoryAssumption DEF RecordFact, Contents
  <2>2. /\ \A t \in Sessions \ {s} : ~(pc[t] \in {"open", "flush"} /\ file[t] = "intake")
        /\ pc[s] = "done"
    BY <1>8 DEF RecordFact
  <2>3. "intake" \notin raced /\ AgreesWith(data["intake"], word)
    BY <1>8, <2>1, <2>2 DEF RecordFact
  <2>4. Agrees(new, WordAfter(word[k], a))
    <3>1. data["intake"][k] \in Facts \cup {None}
      BY <2>1 DEF Intakes
    <3>2. Agrees(data["intake"][k], word[k])
      BY <2>3 DEF AgreesWith
    <3> QED  BY ONLY <2>1, <3>1, <3>2, RecordedAgrees, TypeOK, k \in Keys, answer \in Answers,
                    source \in SourceTypes DEF TypeOK
  <2>5. facts'[s] = [data["intake"] EXCEPT ![k] = new]
    BY <1>8 DEF RecordFact
  <2>6. Said(s)' = [word EXCEPT ![k] = WordAfter(word[k], a)]
    BY <1>8 DEF RecordFact
  <2> HIDE DEF new, a
  <2>7. AgreesWith(facts[s], Said(s))'
    BY ONLY <2>1, <2>3, <2>4, <2>5, <2>6, TypeOK DEF AgreesWith, Intakes, TypeOK
  <2>8. \A t \in Sessions \ {s} : UNCHANGED <<pc[t], file[t]>>
    BY <1>8 DEF RecordFact
  <2>9. data' = data /\ word' = word
    BY <1>8 DEF RecordFact
  <2> QED  BY ONLY <2>1, <2>2, <2>3, <2>7, <2>8, <2>9 DEF FactInv, AgreesWith
<1>9. ASSUME NEW s \in Sessions, Open(s)  PROVE FactInv'
  <2>1. /\ pc[s] = "open" /\ pc'[s] = "flush" /\ file' = file /\ word' = word
        /\ raced' = raced /\ facts' = facts
        /\ \A t \in Sessions : Said(t)' = Said(t)
    BY <1>9 DEF Open
  <2>2. \A t \in Sessions \ {s} : pc'[t] = pc[t]
    BY <1>9 DEF Open
  <2>3. \A t \in Sessions : pc'[t] \in {"open", "flush"} => pc[t] \in {"open", "flush"}
    BY <2>1, <2>2
  <2>4. CASE file[s] = "intake"
    <3>1. data'["intake"] = EmptyDoc("intake")
      BY <1>9, <2>4 DEF Open
    <3>2. EmptyDoc("intake") # Absent
      BY MemoryAssumption DEF EmptyDoc, Contents, Intakes
    <3> QED  BY ONLY FactInv, s \in Sessions, <2>1, <2>3, <2>4, <3>1, <3>2
             DEF FactInv, AgreesWith, At
  <2>5. CASE file[s] # "intake"
    <3>1. data'["intake"] = data["intake"]
      BY <1>9, <2>5 DEF Open
    <3>2. \A t \in Sessions : At(t, "flush") /\ file[t] = "intake" => At(t, "flush")'
      BY <2>1, <2>2, <2>5
    <3> QED  BY ONLY FactInv, <2>1, <2>3, <3>1, <3>2 DEF FactInv, AgreesWith
  <2> QED  BY <2>4, <2>5
<1>10. ASSUME NEW s \in Sessions, Flush(s)  PROVE FactInv'
  <2>1. /\ pc[s] = "flush" /\ pc'[s] \notin {"open", "flush"} /\ raced' = raced
        /\ \A t \in Sessions \ {s} : UNCHANGED <<op[t], pc[t], file[t], facts[t], arg[t]>>
    BY <1>10 DEF Flush, NextSeed
  <2>2. CASE file[s] = "intake"
    <3> SUFFICES ASSUME "intake" \notin raced  PROVE FactInv'
      BY <2>1 DEF FactInv
    <3>1. data'["intake"] = facts[s] /\ word' = Said(s)
      BY <1>10, <2>2 DEF Flush
    <3>2. AgreesWith(facts[s], Said(s))
      BY <2>1, <2>2
    <3>3. ASSUME NEW t \in Sessions, pc'[t] \in {"open", "flush"}, file'[t] = "intake"
          PROVE  FALSE
      <4>1. t # s /\ t \in Within("intake") /\ s \in Within("intake")
        BY <2>1, <2>2, <3>3
      <4> QED  BY ONLY <4>1, Raced, Exclusive, "intake" \notin raced DEF Files
    <3>4. facts[s] # Absent
      BY MemoryAssumption DEF Contents
    <3> QED  BY ONLY <3>1, <3>2, <3>3, <3>4 DEF FactInv, AgreesWith
  <2>3. CASE file[s] # "intake"
    <3>1. data'["intake"] = data["intake"] /\ word' = word
      BY <1>10, <2>3 DEF Flush
    <3> QED  BY ONLY FactInv, <2>1, <2>3, <3>1, FactQuiet
  <2> QED  BY <2>2, <2>3
<1>11. ASSUME NEW s \in Sessions, NEW command \in {"render", "overwrite"},
             Render(s, command)
      PROVE  FactInv'
  BY <1>11 DEF Render
<1>12. ASSUME NEW s \in Sessions, Examine(s)  PROVE FactInv'
  <2>1. pc[s] \notin {"open", "flush"} /\ pc'[s] \notin {"open", "flush"}
    BY <1>12 DEF Examine
  <2>2. \A t \in Sessions \ {s} : UNCHANGED <<op[t], pc[t], file[t], facts[t], arg[t]>>
    BY <1>12 DEF Examine
  <2>3. data' = data /\ word' = word /\ raced' = raced
    BY <1>12 DEF Examine
  <2> QED  BY ONLY FactInv, <2>1, <2>2, <2>3, FactQuiet
<1>13. ASSUME NEW s \in Sessions, PublishNew(s)  PROVE FactInv'
  BY <1>13 DEF PublishNew
<1>14. ASSUME NEW s \in Sessions, PublishOver(s)  PROVE FactInv'
  BY <1>14 DEF PublishOver
<1>15. ASSUME NEW s \in Sessions, PublishRefused(s)  PROVE FactInv'
  BY <1>15 DEF PublishRefused
<1>16. ASSUME NEW s \in Sessions, Swap(s)  PROVE FactInv'
  <2>1. pc[s] \notin {"open", "flush"} /\ pc'[s] \notin {"open", "flush"}
    BY <1>16 DEF Swap, NextOutput
  <2>2. \A t \in Sessions \ {s} : UNCHANGED <<op[t], pc[t], file[t], facts[t], arg[t]>>
    BY <1>16 DEF Swap, NextOutput
  <2>3. data' = data /\ word' = word /\ raced' = raced
    BY <1>16 DEF Swap
  <2> QED  BY ONLY FactInv, <2>1, <2>2, <2>3, FactQuiet
<1>17. ASSUME NEW s \in Sessions, WriteOutput(s)  PROVE FactInv'
  <2>1. pc[s] \notin {"open", "flush"} /\ pc'[s] \notin {"open", "flush"}
    BY <1>17 DEF WriteOutput, NextOutput
  <2>2. \A t \in Sessions \ {s} : UNCHANGED <<op[t], pc[t], file[t], facts[t], arg[t]>>
    BY <1>17 DEF WriteOutput, NextOutput
  <2>3. data' = data /\ word' = word /\ raced' = raced
    BY <1>17 DEF WriteOutput
  <2> QED  BY ONLY FactInv, <2>1, <2>2, <2>3, FactQuiet
<1>18. ASSUME NEW s \in Sessions, Crash(s)  PROVE FactInv'
  BY <1>18 DEF Crash
<1>19. ASSUME NEW o \in Outputs, EditOutput(o)  PROVE FactInv'
  BY <1>19 DEF EditOutput
<1>20. CASE UNCHANGED vars
  BY <1>20 DEF vars
<1> QED  BY ONLY [Next]_vars, <1>1, <1>2, <1>3, <1>4, <1>5, <1>6, <1>7, <1>8, <1>9, <1>10, <1>11,
            <1>12, <1>13, <1>14, <1>15, <1>16, <1>17, <1>18, <1>19, <1>20
         DEF Next, Step

-----------------------------------------------------------------------------
(* The theorems. *)

MemoryInv ==
  /\ TypeOK /\ ControlOK /\ Exclusive
  /\ DistinctRenders /\ OutputsKnown /\ ProposalRests
  /\ SourcesLoaded /\ RulesAreFirm /\ FactInv

(* It holds of a fresh workspace and of an initialised one. *)
LEMMA MemoryInit == Init => MemoryInv
<1> SUFFICES ASSUME Init  PROVE MemoryInv
  OBVIOUS
<1> USE DEF Init
<1>1. TypeOK
  <2>1. \A f \in Files : EmptyDoc(f) \in Contents(f)
    BY DEF EmptyDoc, Contents, Intakes
  <2>2. data = [f \in Files |-> Absent] \/ data = [f \in Files |-> EmptyDoc(f)]
    OBVIOUS
  <2>3. /\ data = [f \in Files |-> data[f]]
        /\ \A f \in Files : data[f] \in Contents(f) \cup {Absent}
    BY ONLY <2>1, <2>2
  <2>4. EmptyDoc("intake") \in Intakes /\ started \in 0..MaxOps
    BY MemoryAssumption DEF EmptyDoc, Intakes
  <2>5. initialised \in BOOLEAN /\ out \in [Outputs -> Outs \cup {Absent}]
    <3>1. [text |-> "seed", inode |-> 0] \in Outs
      BY DEF Outs
    <3> QED  BY <3>1
  <2>6. /\ op \in [Sessions -> Ops] /\ pc \in [Sessions -> Steps]
        /\ file \in [Sessions -> Files \cup Outputs]
        /\ ids \in [Sessions -> SUBSET SourceIds] /\ facts \in [Sessions -> Intakes]
        /\ arg \in [Sessions -> {None} \cup FactArgs] /\ num \in [Sessions -> Nat]
    BY <2>4 DEF Ops, Steps, Outputs
  <2>7. word \in [Keys -> [user : Answers \cup {None}, said : SUBSET Answers]]
        /\ raced \subseteq Files \cup Outputs
    OBVIOUS
  <2> QED  BY ONLY <2>3, <2>4, <2>5, <2>6, <2>7 DEF TypeOK
<1>2. ControlOK
  BY DEF ControlOK
<1>3. Exclusive /\ OutputsKnown /\ SourcesLoaded
  BY DEF Exclusive, OutputsKnown, OutputKnown, SourcesLoaded, Within, At
<1>4. DistinctRenders /\ ProposalRests
  <2>1. out["proposal"] = Absent
    BY DEF Outputs
  <2> QED  BY <2>1 DEF DistinctRenders, ProposalRests, Rendering
<1>5. RulesAreFirm
  <2>1. data["mappings"] = Absent \/ data["mappings"] = {}
    BY DEF Files, EmptyDoc
  <2> QED  BY <2>1 DEF RulesAreFirm
<1>6. FactInv
  <2>1. AgreesWith(EmptyDoc("intake"), word)
    BY DEF AgreesWith, Agrees, EmptyDoc
  <2>2. data["intake"] = Absent \/ data["intake"] = EmptyDoc("intake")
    BY DEF Files
  <2> QED  BY <2>1, <2>2 DEF FactInv
<1> QED  BY <1>1, <1>2, <1>3, <1>4, <1>5, <1>6 DEF MemoryInv

LEMMA MemoryStep == MemoryInv /\ [Next]_vars => MemoryInv'
  BY TypeStep, ControlStep, ExclusiveStep, DistinctStep, OutputsStep, ProposalStep,
     SourcesStep, RulesStep, FactStep
  DEF MemoryInv

LEMMA MemoryKept == Spec => []MemoryInv
  BY MemoryInit, MemoryStep, PTL DEF Spec

(* Type correctness. *)
THEOREM TypesKept == Spec => []TypeOK
  BY MemoryKept, PTL DEF MemoryInv

(* Rules are for registered sources (command_mapping_register), however the    *)
(* commands on the two registries interleave, as long as no save of the source *)
(* registry was overtaken or cut short.                                        *)
THEOREM RulesHaveSources == Spec => []MappingsHaveSources
<1>1. MemoryInv => MappingsHaveSources
  BY DEF MemoryInv, RulesAreFirm, Firm, MappingsHaveSources, Settled, At
<1> QED  BY <1>1, MemoryKept, PTL

(* The user's last answer is the one on file (record_intake_fact).             *)
THEOREM AnswersStand == Spec => []UserAnswerStands
<1>1. MemoryInv => UserAnswerStands
  <2> SUFFICES ASSUME MemoryInv, Settled("intake"), NEW k \in Keys, word[k].user # None
               PROVE  /\ data["intake"] # Absent
                      /\ data["intake"][k] # None
                      /\ data["intake"][k].answer = word[k].user
    BY DEF UserAnswerStands
  <2>1. data["intake"] # Absent
    BY DEF MemoryInv, FactInv, Settled, AgreesWith, Agrees, EmptyDoc
  <2>2. Agrees(data["intake"][k], word[k])
    BY <2>1 DEF MemoryInv, FactInv, Settled, AgreesWith, At
  <2> QED  BY <2>1, <2>2 DEF Agrees
<1> QED  BY <1>1, MemoryKept, PTL

(* A known fact is one nothing said about it disputes (is_fact_known).         *)
THEOREM KnownFactsStand == Spec => []KnownIsUndisputed
<1>1. MemoryInv => KnownIsUndisputed
  <2> SUFFICES ASSUME MemoryInv, Settled("intake"), data["intake"] # Absent,
                      NEW k \in Keys, IsFactKnown(data["intake"][k])
               PROVE  word[k].said = {data["intake"][k].answer}
    BY DEF KnownIsUndisputed
  <2>1. Agrees(data["intake"][k], word[k])
    BY DEF MemoryInv, FactInv, Settled, AgreesWith, At
  <2> QED  BY <2>1 DEF Agrees, IsFactKnown
<1> QED  BY <1>1, MemoryKept, PTL

(* A proposal on file rests on a profile that carries facts                    *)
(* (write_onboarding_outputs publishes the profile first).                     *)
THEOREM DecisionsRest == Spec => []DecisionHasProfile
<1>1. MemoryInv => DecisionHasProfile
  BY DEF MemoryInv, ProposalRests, DecisionHasProfile
<1> QED  BY <1>1, MemoryKept, PTL

(* What carries facts or a decision is replaced only with leave                *)
(* (write_onboarding_outputs, `overwrite`).                                    *)
THEOREM OutputsStand == Spec => RecordedOutputsStand
<1>1. MemoryInv /\ [Next]_vars => [\A o \in Outputs : OutputStands(o)]_vars
  BY OutputsStandStep DEF MemoryInv
<1> QED  BY <1>1, MemoryKept, PTL DEF Spec, RecordedOutputsStand

================================================================================
