-------------------------- MODULE LearningRecords ---------------------------
(***************************************************************************)
(* The records a company's learning leaves in files: corrections           *)
(* (memory/corrections.py), experiments (memory/experiments.py), forecast  *)
(* snapshots and their scores (backtest/snapshot.py), snapshots of         *)
(* Australian drivers (au/drivers.py), the scorecard and staged exports    *)
(* (io/atomic.py), with the commands that read them back                   *)
(* (cli_commands/learning.py, memory/diagnostics.py).                      *)
(*                                                                         *)
(* Sessions are processes without a lock between them.  A save opens its   *)
(* file, which creates or truncates it (Empty), and writes it in a second  *)
(* step; a crash or a failed write between the two leaves it empty.  Text  *)
(* written over a file that another save filled meanwhile may replace it   *)
(* or leave any mixture: another body of that kind, or nothing that can be *)
(* read (Mixed).  A reader lists a directory and reads file after file.    *)
(* A path is <<directory, number>>; numbers order the names of a directory *)
(* and are the counters of a driver snapshot.                              *)
(***************************************************************************)
EXTENDS Integers, Sequences

CONSTANTS Sessions, Corrections, Experiments, Forecasts,
          Series,      \* names of driver series, each a directory of its own
          MaxCounter,  \* bound: the counters a driver snapshot may reach
          Bodies,      \* directory -> contents a file of it may hold
          OnFile,      \* path -> what earlier sessions saved there, or Absent
          Scores, NoValue,
          Absent, Empty, Mixed, Nothing,
          MaxOps       \* bound: commands and hand edits in a behaviour

Records == ({"corrections"} \X Corrections) \cup ({"experiments"} \X Experiments)
             \cup ({"forecasts"} \X Forecasts)
Drivers == Series \X (0..MaxCounter)
Scorecard == <<"scorecard", 0>>
Export == <<"export", 0>>
Paths == Records \cup Drivers \cup {Scorecard, Export}

Ops == {"correction-list", "experiment-list", "scorecard-render", "doctor", "apply"}

ASSUME RecordsAssumption ==
  /\ Corrections \subseteq Nat /\ Experiments \subseteq Nat /\ Forecasts \subseteq Nat
  /\ MaxCounter \in Nat /\ MaxOps \in Nat
  /\ {Scorecard[1], Export[1], "corrections", "experiments", "forecasts"} \cap Series = {}
  /\ \A p \in Paths : {Absent, Empty, Mixed, Nothing} \cap Bodies[p[1]] = {}
  /\ Absent \notin {Empty, Mixed} /\ Empty # Mixed
  /\ \A b \in Bodies["forecasts"], score \in Scores :
       [b EXCEPT !.score = score] \in Bodies["forecasts"]
  /\ DOMAIN OnFile = Paths
  /\ \A p \in Paths : OnFile[p] = Absent \/ OnFile[p] \in Bodies[p[1]]

VARIABLES
  disk,        \* path -> Absent, Empty, Mixed or what the file holds
  pc,          \* per session: "idle" or what its next file access is
  path, text,  \* per session: the file being saved and its new content
  op, rest, todo, got,  \* per session: what reads, the directories and files
                        \* still to read, and what was read
  bad,         \* the sessions whose reading has failed
  config,      \* per session: the override its last corrected model has
  started      \* commands and hand edits so far

\* History, read by no action.
VARIABLES
  kept,     \* path -> what the save that returned last put there, or Nothing
  touched,  \* paths opened for overwriting, or edited by hand
  owed      \* per session: saved files in the directories it has listed

reading == <<op, rest, todo, got, bad, owed>>
vars == <<disk, pc, path, text, config, started, kept, touched, reading>>

Listing(dir) == {p \in Paths : p[1] = dir /\ disk[p] # Absent}
Saved(dir) == {p \in Paths : p[1] = dir /\ kept[p] # Nothing}

(* Correction and Experiment refuse what the practitioner could not mean.  *)
Ratified(e) ==
  /\ IF e.status \in {"accepted", "rejected", "reverted"} THEN e.outcome = e.status
                                                         ELSE e.outcome = NoValue
  /\ e.status = "accepted" =>
       e.evidence # {} /\ e.files # {} /\ e.checks # {} /\ e.checks \subseteq {"pass"}

Loads(p, body) ==
  /\ body \notin {Absent, Empty, Mixed}
  /\ p[1] = "experiments" => Ratified(body)

Applies(c) == c.status = "applied" /\ c.type = "parametric" /\ c.value # NoValue

(* The value a corrected model has: of the corrections in the order of     *)
(* their names, the last that applies.                                     *)
ApplyCorrections(read) ==
  LET A == {r \in read : Applies(r[2])}
  IN  IF A = {} THEN NoValue
      ELSE (CHOOSE r \in A : \A q \in A : q[1][2] <= r[1][2])[2].value

(* The lines of the scorecard: the scored snapshots. *)
RenderScorecard(read) ==
  [lines |-> {<<r[1][2], r[2].score>> : r \in {q \in read : q[2].score # NoValue}}]

Init ==
  /\ disk = OnFile
  /\ pc = [s \in Sessions |-> "idle"]
  /\ path = [s \in Sessions |-> Export] /\ text = [s \in Sessions |-> Nothing]
  /\ op = [s \in Sessions |-> "doctor"] /\ rest = [s \in Sessions |-> <<>>]
  /\ todo = [s \in Sessions |-> {}] /\ got = [s \in Sessions |-> {}]
  /\ bad = {} /\ owed = [s \in Sessions |-> {}]
  /\ config = [s \in Sessions |-> NoValue]
  /\ started = 0
  /\ kept = [p \in Paths |-> IF OnFile[p] = Absent THEN Nothing ELSE OnFile[p]]
  /\ touched = {}
-----------------------------------------------------------------------------
Start(s) == pc[s] = "idle" /\ started < MaxOps /\ started' = started + 1

Saving(s, step, p, body) ==
  /\ pc' = [pc EXCEPT ![s] = step]
  /\ path' = [path EXCEPT ![s] = p] /\ text' = [text EXCEPT ![s] = body]

Idle(s) == pc' = [pc EXCEPT ![s] = "idle"] /\ UNCHANGED <<path, text>>

OpenNew(s, p, body) ==
  /\ disk[p] = Absent
  /\ disk' = [disk EXCEPT ![p] = Empty]
  /\ Saving(s, "write", p, body)
  /\ UNCHANGED touched

OpenOver(s, p, body) ==
  /\ disk' = [disk EXCEPT ![p] = Empty] /\ touched' = touched \cup {p}
  /\ Saving(s, "write", p, body)

(* The slip: a test whether the file exists, and a write that replaces.    *)
SaveSlip(s, p, body) ==
  /\ Start(s) /\ Loads(p, body) /\ disk[p] \in {Absent, Empty}
  /\ disk' = [disk EXCEPT ![p] = Empty]
  /\ Saving(s, "write", p, body)
  /\ UNCHANGED <<config, kept, reading, touched>>

(* save_correction, save_experiment and save_snapshot without overwrite:   *)
(* a name that is taken is refused and nothing changes.                    *)
Save(s, p, body) ==
  /\ Start(s) /\ Loads(p, body) /\ OpenNew(s, p, body)
  /\ UNCHANGED <<config, kept, reading>>

(* ... with overwrite=True. *)
SaveOver(s, p, body) ==
  /\ Start(s) /\ Loads(p, body) /\ OpenOver(s, p, body)
  /\ UNCHANGED <<config, kept, reading>>

(* Scoring loads a snapshot, and saves it with its score under its name. *)
ScoreForecast(s, p, score) ==
  /\ Start(s) /\ Loads(p, disk[p])
  /\ Saving(s, "rescore", p, [disk[p] EXCEPT !.score = score])
  /\ UNCHANGED <<disk, config, kept, touched, reading>>

SaveScored(s) ==
  /\ pc[s] = "rescore" /\ OpenOver(s, path[s], text[s])
  /\ UNCHANGED <<config, started, kept, reading>>

(* A driver snapshot is created under the first free counter, with one     *)
(* attempt to create a file after the other.                               *)
SaveSeries(s, series, body) ==
  /\ Start(s) /\ Saving(s, "probe", <<series, 0>>, body)
  /\ UNCHANGED <<disk, config, kept, touched, reading>>

Probe(s) ==
  /\ pc[s] = "probe"
  /\ \/ OpenNew(s, path[s], text[s])
     \/ /\ disk[path[s]] # Absent /\ path[s][2] < MaxCounter
        /\ path' = [path EXCEPT ![s][2] = @ + 1]
        /\ UNCHANGED <<disk, pc, text, touched>>
  /\ UNCHANGED <<config, started, kept, reading>>

(* What is in a file when a save of it returns. *)
Left(p, body) == IF disk[p] = Empty THEN {body} ELSE {body, Mixed} \cup Bodies[p[1]]

Write(s) ==
  /\ pc[s] = "write"
  /\ \E body \in Left(path[s], text[s]) : disk' = [disk EXCEPT ![path[s]] = body]
  /\ kept' = [kept EXCEPT ![path[s]] = text[s]]
  /\ Idle(s)
  /\ UNCHANGED <<config, started, touched, reading>>

(* An export is written beside its destination and renamed over it. *)
StageExport(s, body) ==
  /\ Start(s) /\ Saving(s, "staged", Export, body)
  /\ UNCHANGED <<disk, config, kept, touched, reading>>

(* The slip: an export opened in its place. *)
ReplaceExportSlip(s) ==
  /\ pc[s] = "staged" /\ OpenOver(s, Export, text[s])
  /\ UNCHANGED <<config, started, kept, reading>>

ReplaceExport(s) ==
  /\ pc[s] = "staged"
  /\ disk' = [disk EXCEPT ![Export] = text[s]]
  /\ Idle(s)
  /\ UNCHANGED <<config, started, kept, touched, reading>>
-----------------------------------------------------------------------------
Directories(command) ==
  CASE command \in {"correction-list", "apply"} -> <<"corrections">>
    [] command = "experiment-list"  -> <<"experiments">>
    [] command = "scorecard-render" -> <<"forecasts">>
    [] command = "doctor"           -> <<"corrections", "forecasts">>

Begin(s, command) ==
  /\ Start(s)
  /\ pc' = [pc EXCEPT ![s] = "read"]
  /\ op' = [op EXCEPT ![s] = command]
  /\ rest' = [rest EXCEPT ![s] = Directories(command)]
  /\ todo' = [todo EXCEPT ![s] = {}] /\ got' = [got EXCEPT ![s] = {}]
  /\ bad' = bad \ {s} /\ owed' = [owed EXCEPT ![s] = {}]
  /\ UNCHANGED <<disk, path, text, config, kept, touched>>

ListDirectory(s) ==
  /\ pc[s] = "read" /\ todo[s] = {} /\ rest[s] # <<>>
  /\ rest' = [rest EXCEPT ![s] = Tail(@)]
  /\ todo' = [todo EXCEPT ![s] = Listing(Head(rest[s]))]
  /\ owed' = [owed EXCEPT ![s] = @ \cup Saved(Head(rest[s]))]
  /\ UNCHANGED <<disk, pc, path, text, op, got, bad, config, started, kept, touched>>

Next1(s) == CHOOSE p \in todo[s] : \A q \in todo[s] : p[2] <= q[2]

(* The slip: what cannot be read is passed over. *)
ReadFileSlip(s) ==
  /\ pc[s] = "read" /\ todo[s] # {}
  /\ LET p == Next1(s)
     IN  /\ got' = [got EXCEPT ![s] = IF Loads(p, disk[p]) THEN @ \cup {<<p, disk[p]>>} ELSE @]
         /\ todo' = [todo EXCEPT ![s] = @ \ {p}]
  /\ UNCHANGED <<bad, disk, pc, path, text, op, rest, owed, config, started, kept, touched>>

(* One unreadable correction or experiment refuses the whole directory; of *)
(* forecasts every file is tried, and the errors are reported.             *)
ReadFile(s) ==
  /\ pc[s] = "read" /\ todo[s] # {}
  /\ LET p == Next1(s)
     IN  IF Loads(p, disk[p])
         THEN /\ got' = [got EXCEPT ![s] = @ \cup {<<p, disk[p]>>}]
              /\ todo' = [todo EXCEPT ![s] = @ \ {p}]
              /\ UNCHANGED bad
         ELSE /\ bad' = bad \cup {s}
              /\ todo' = [todo EXCEPT ![s] = IF p[1] = "forecasts" THEN @ \ {p} ELSE {}]
              /\ UNCHANGED got
  /\ UNCHANGED <<disk, pc, path, text, op, rest, owed, config, started, kept, touched>>

Complete(s) == pc[s] = "read" /\ todo[s] = {} /\ rest[s] = <<>>

(* The lists and the doctor report what they read, or that they failed. *)
Report(s) ==
  /\ Complete(s) /\ (s \in bad \/ op[s] \notin {"apply", "scorecard-render"})
  /\ Idle(s)
  /\ UNCHANGED <<disk, config, started, kept, touched, reading>>

Apply(s) ==
  /\ Complete(s) /\ s \notin bad /\ op[s] = "apply"
  /\ config' = [config EXCEPT ![s] = ApplyCorrections(got[s])]
  /\ Idle(s)
  /\ UNCHANGED <<disk, started, kept, touched, reading>>

Render(s) ==
  /\ Complete(s) /\ s \notin bad /\ op[s] = "scorecard-render"
  /\ OpenOver(s, Scorecard, RenderScorecard(got[s]))
  /\ UNCHANGED <<config, started, kept, reading>>

(* A session ends at any step, or its write fails. *)
Crash(s) ==
  /\ pc[s] # "idle" /\ Idle(s)
  /\ UNCHANGED <<disk, config, started, kept, touched, reading>>

EditByHand(p, body) ==
  /\ started < MaxOps /\ started' = started + 1
  /\ disk' = [disk EXCEPT ![p] = body] /\ touched' = touched \cup {p}
  /\ UNCHANGED <<pc, path, text, config, kept, reading>>

Next ==
  \/ \E s \in Sessions :
       \/ \E p \in Records : \E body \in Bodies[p[1]] : Save(s, p, body) \/ SaveOver(s, p, body)
       \/ \E n \in Forecasts, score \in Scores : ScoreForecast(s, <<"forecasts", n>>, score)
       \/ \E series \in Series : \E body \in Bodies[series] : SaveSeries(s, series, body)
       \/ \E body \in Bodies["export"] : StageExport(s, body)
       \/ \E command \in Ops : Begin(s, command)
       \/ SaveScored(s) \/ Probe(s) \/ Write(s) \/ ReplaceExport(s)
       \/ ListDirectory(s) \/ ReadFile(s) \/ Report(s) \/ Apply(s) \/ Render(s)
       \/ Crash(s)
  \/ \E p \in Records : \E body \in Bodies[p[1]] : EditByHand(p, body)

Spec == Init /\ [][Next]_vars
-----------------------------------------------------------------------------
(* A save that returned keeps its record: whatever other sessions create,  *)
(* and wherever they stop, the file holds what was saved until someone     *)
(* overwrites it by name or edits it; two driver snapshots never share a   *)
(* file.  This is the exclusive create of all four kinds of record.        *)
SavedStand ==
  \A p \in Records \cup Drivers : kept[p] # Nothing /\ p \notin touched => disk[p] = kept[p]

(* No reader passes over a record: when a list, the doctor, a corrected    *)
(* model or a scorecard is made without an error, every file saved before  *)
(* its directory was listed was read, a file that nobody rewrote as it was *)
(* saved, and no experiment that its rules refuse.                         *)
ReadingsComplete ==
  \A s \in Sessions : Complete(s) /\ s \notin bad =>
    /\ \A p \in owed[s] : \E r \in got[s] :
          r[1] = p /\ (p \notin touched => r[2] = kept[p])
    /\ \A r \in got[s] : r[1][1] = "experiments" => Ratified(r[2])

(* An export in its place is complete at every moment. *)
ExportWhole == disk[Export] \notin {Empty, Mixed}

(* The records of a company's learning are kept, and read whole. *)
RecordsKept == SavedStand /\ ReadingsComplete /\ ExportWhole
=============================================================================
