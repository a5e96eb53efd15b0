-------------------------- MODULE ChampionRegistry --------------------------
(***************************************************************************)
(* The champion/challenger memory of one company (pyfpa/research): the     *)
(* model registry models/registry.yaml and the epochs                      *)
(* research/<id>.epoch.yaml, used by several sessions that follow the      *)
(* research loop of skills/fpa-research-loop.                              *)
(*                                                                         *)
(* register_challenger and promote_challenger are pure: a session loads    *)
(* the registry, computes the new one in memory and saves it with a        *)
(* truncating write.  The step that loads also computes; the open and the  *)
(* flush of the save are steps of their own.  An absent registry loads as  *)
(* the empty one; a file a write has emptied does not load (Blank), and a  *)
(* command that meets it ends there.                                       *)
(*                                                                         *)
(* The metrics, checks and complexities an epoch stores are its evidence;  *)
(* evaluate_challenger finds it eligible under some objectives, at a       *)
(* complexity cost that is stored with it.  Evidence without complexities  *)
(* counts as eligible under no objective that has a penalty.  Blank        *)
(* approved_by or approved_at are refused and left out.                    *)
(***************************************************************************)
EXTENDS Integers, Sequences

CONSTANTS Sessions, Models, Epochs,
          NoModel,       \* no champion
          NoEpoch,       \* a model registered without a source epoch
          Evidence, Objectives,
          EligibleUnder, \* objective -> the evidence it finds eligible
          Costs,
          CostUnder,     \* objective -> evidence -> its complexity cost
          StartChampion, \* the champion the registry starts with, or NoModel
          Absent, Blank, \* no epoch file; a file that does not load
          TornWrites,    \* a crash may come between open and flush
          MaxOps         \* bound: operations and hand edits in a behaviour

ASSUME RegistryAssumption ==
  /\ NoModel \notin Models
  /\ NoEpoch \notin Epochs
  /\ EligibleUnder \in [Objectives -> SUBSET Evidence]
  /\ CostUnder \in [Objectives -> [Evidence -> Costs]]
  /\ StartChampion \in Models \cup {NoModel}
  /\ MaxOps \in Nat

VARIABLES
  registry,   \* the file: champion, challengers, retired, promotions; or Blank
  epochs,     \* the epoch files
  objective,  \* research/objective.yaml
  pc,         \* per session: the next file access
  doc,        \* per session: the registry it holds
  name,       \* per session: the epoch it is about to write, ...
  draft,      \* ... and what it writes there
  started     \* operations and hand edits so far

\* History, read by no action.
VARIABLES
  active,     \* the champion of the registry last saved
  evidenced   \* what each promotion rested on when it was computed

files    == <<registry, epochs, objective>>
sessions == <<pc, doc, name, draft>>
vars     == <<files, sessions, started, active, evidenced>>

Versions   == [id : Models, epoch : Epochs \cup {NoEpoch}]
Promotions == [from : Models \cup {NoModel}, to : Models, epoch : Epochs]
Registries == [champion : Models \cup {NoModel}, challengers : SUBSET Versions,
               retired : Seq(Models), promotions : Seq(Promotions)]
EpochFiles == [status : {"discarded", "proposed", "promoted"},
               champion : Models \cup {NoModel}, challenger : Models,
               evidence : Evidence, eligible : BOOLEAN, holdout : BOOLEAN,
               cost : Costs]

EmptyRegistry ==
  [champion |-> NoModel, challengers |-> {}, retired |-> <<>>, promotions |-> <<>>]

NoDraft == Blank

Init ==
  /\ registry = [EmptyRegistry EXCEPT !.champion = StartChampion]
  /\ epochs = [e \in Epochs |-> Absent]
  /\ objective \in Objectives
  /\ pc = [s \in Sessions |-> "idle"]
  /\ doc = [s \in Sessions |-> EmptyRegistry]
  /\ name = [s \in Sessions |-> NoEpoch]
  /\ draft = [s \in Sessions |-> NoDraft]
  /\ started = 0
  /\ active = StartChampion
  /\ evidenced = {}

-----------------------------------------------------------------------------
At(s, step) == pc[s] = step
Goto(s, step) == pc' = [pc EXCEPT ![s] = step]
Start == started < MaxOps /\ started' = started + 1

Finish(s) ==
  /\ Goto(s, "idle")
  /\ doc' = [doc EXCEPT ![s] = EmptyRegistry]
  /\ name' = [name EXCEPT ![s] = NoEpoch]
  /\ draft' = [draft EXCEPT ![s] = NoDraft]

-----------------------------------------------------------------------------
(* Operators named ...Slip are single mistakes in the operator that follows *)
(* them; no specification uses them, they show what the properties see.     *)

(* ModelRegistry's validator: a model id names one challenger, the champion *)
(* or one retired champion.                                                *)
UniqueModels(r) ==
  /\ \A v, w \in r.challengers : v.id = w.id => v = w
  /\ \A v \in r.challengers : v.id # r.champion
  /\ \A i \in 1..Len(r.retired) :
       /\ r.retired[i] # r.champion
       /\ \A v \in r.challengers : v.id # r.retired[i]
       /\ \A j \in 1..Len(r.retired) : r.retired[i] = r.retired[j] => i = j

RegistryLoads == registry # Blank /\ UniqueModels(registry)

(* ResearchEpoch's validator: what an epoch must satisfy to be constructed *)
(* or loaded.                                                              *)
WellFormed(ep) ==
  ep.status \in {"proposed", "promoted"} => ep.eligible /\ ep.holdout

Loads(e) == epochs[e] \notin {Absent, Blank} /\ WellFormed(epochs[e])

(* Only the challengers are looked through. *)
UsedIdsSlip(r) == {v.id : v \in r.challengers}

(* The ids register_challenger refuses. *)
UsedIds(r) ==
  {v.id : v \in r.challengers} \cup {r.retired[i] : i \in 1..Len(r.retired)}
    \cup ({r.champion} \ {NoModel})

Registered(r, v) == [r EXCEPT !.challengers = @ \cup {v}]

(* The eligibility stored in the epoch is believed. *)
PromotableSlip(r, v, e) ==
  /\ Loads(e)
  /\ epochs[e].status = "proposed" /\ epochs[e].eligible
  /\ r.champion = NoModel \/ r.champion = epochs[e].champion
  /\ v \in r.challengers
  /\ epochs[e].challenger = v.id
  /\ v.epoch = e

(* The guards of promote_challenger, with the objective on file. *)
Promotable(r, v, e) ==
  /\ Loads(e)
  /\ epochs[e].status = "proposed" /\ epochs[e].eligible
  /\ epochs[e].evidence \in EligibleUnder[objective]
  /\ epochs[e].cost = CostUnder[objective][epochs[e].evidence]
  /\ r.champion = NoModel \/ r.champion = epochs[e].champion
  /\ v \in r.challengers
  /\ epochs[e].challenger = v.id
  /\ v.epoch = e

(* The promotion is not recorded. *)
PromotedUnrecordedSlip(r, v, e) ==
  [champion    |-> v.id,
   challengers |-> {w \in r.challengers : w.id # v.id},
   retired     |-> IF r.champion = NoModel THEN r.retired
                                           ELSE Append(r.retired, r.champion),
   promotions  |-> r.promotions]

(* A first promotion retires a champion that is not there. *)
PromotedFirstSlip(r, v, e) ==
  [champion    |-> v.id,
   challengers |-> {w \in r.challengers : w.id # v.id},
   retired     |-> Append(r.retired, r.champion),
   promotions  |-> Append(r.promotions,
                          [from |-> r.champion, to |-> v.id, epoch |-> e])]

(* The registry promote_challenger returns. *)
Promoted(r, v, e) ==
  [champion    |-> v.id,
   challengers |-> {w \in r.challengers : w.id # v.id},
   retired     |-> IF r.champion = NoModel THEN r.retired
                                           ELSE Append(r.retired, r.champion),
   promotions  |-> Append(r.promotions,
                          [from |-> r.champion, to |-> v.id, epoch |-> e])]

-----------------------------------------------------------------------------
(* One epoch of the loop: the session studies the registry's champion, ... *)
StudyChampion(s) ==
  /\ At(s, "idle")
  /\ Start
  /\ RegistryLoads
  /\ doc' = [doc EXCEPT ![s] = registry]
  /\ Goto(s, "epoch_create")
  /\ UNCHANGED <<files, name, draft, active, evidenced>>

(* ... evaluates a challenger under the objective, and persists the epoch  *)
(* with an exclusive create.  No holdout, or no eligibility: discarded.    *)
CreateEpoch(s, e, m, ev, held) ==
  LET eligible == ev \in EligibleUnder[objective]
      ep == [status     |-> IF eligible /\ held THEN "proposed" ELSE "discarded",
             champion   |-> doc[s].champion, challenger |-> m,
             evidence   |-> ev, eligible |-> eligible, holdout |-> held,
             cost       |-> CostUnder[objective][ev]]
  IN /\ At(s, "epoch_create")
     /\ epochs[e] = Absent
     /\ epochs' = [epochs EXCEPT ![e] = Blank]
     /\ name' = [name EXCEPT ![s] = e]
     /\ draft' = [draft EXCEPT ![s] = ep]
     /\ Goto(s, "epoch_flush")
     /\ UNCHANGED <<registry, objective, doc, started, active, evidenced>>

(* The epoch's content reaches its file, new or overwritten. *)
EpochFlush(s) ==
  /\ At(s, "epoch_flush")
  /\ epochs' = [epochs EXCEPT ![name[s]] = draft[s]]
  /\ Finish(s)
  /\ UNCHANGED <<registry, objective, started, active, evidenced>>

(* Load, register_challenger. *)
RegisterChallenger(s, v) ==
  /\ At(s, "idle")
  /\ Start
  /\ RegistryLoads
  /\ v.id \notin UsedIds(registry)
  /\ doc' = [doc EXCEPT ![s] = Registered(registry, v)]
  /\ Goto(s, "registry_open")
  /\ UNCHANGED <<files, name, draft, active, evidenced>>

(* The epoch is saved before the registry. *)
PromoteChallengerSlip(s, v, e) ==
  /\ At(s, "idle")
  /\ Start
  /\ RegistryLoads
  /\ Promotable(registry, v, e)
  /\ doc' = [doc EXCEPT ![s] = Promoted(registry, v, e)]
  /\ name' = [name EXCEPT ![s] = e]
  /\ draft' = [draft EXCEPT ![s] = [epochs[e] EXCEPT !.status = "promoted"]]
  /\ evidenced' = evidenced \cup
       {[promotion |-> [from |-> registry.champion, to |-> v.id, epoch |-> e],
         ran       |-> epochs[e], objective |-> objective]}
  /\ Goto(s, "registry_open")
  /\ epochs' = [epochs EXCEPT ![e].status = "promoted"]
  /\ UNCHANGED <<registry, objective, active>>

(* Load both files, promote_challenger; the epoch is saved after the       *)
(* registry.                                                               *)
PromoteChallenger(s, v, e) ==
  /\ At(s, "idle")
  /\ Start
  /\ RegistryLoads
  /\ Promotable(registry, v, e)
  /\ doc' = [doc EXCEPT ![s] = Promoted(registry, v, e)]
  /\ name' = [name EXCEPT ![s] = e]
  /\ draft' = [draft EXCEPT ![s] = [epochs[e] EXCEPT !.status = "promoted"]]
  /\ evidenced' = evidenced \cup
       {[promotion |-> [from |-> registry.champion, to |-> v.id, epoch |-> e],
         ran       |-> epochs[e], objective |-> objective]}
  /\ Goto(s, "registry_open")
  /\ UNCHANGED <<files, active>>

(* save_model_registry. *)
RegistryOpen(s) ==
  /\ At(s, "registry_open")
  /\ registry' = Blank
  /\ Goto(s, "registry_flush")
  /\ UNCHANGED <<epochs, objective, doc, name, draft, started, active, evidenced>>

RegistryFlush(s) ==
  /\ At(s, "registry_flush")
  /\ registry' = doc[s]
  /\ active' = doc[s].champion
  /\ IF name[s] = NoEpoch
     THEN Finish(s)
     ELSE /\ Goto(s, "epoch_open")
          /\ UNCHANGED <<doc, name, draft>>
  /\ UNCHANGED <<epochs, objective, started, evidenced>>

(* save_epoch with overwrite. *)
EpochOpen(s) ==
  /\ At(s, "epoch_open")
  /\ epochs' = [epochs EXCEPT ![name[s]] = Blank]
  /\ Goto(s, "epoch_flush")
  /\ UNCHANGED <<registry, objective, doc, name, draft, started, active, evidenced>>

-----------------------------------------------------------------------------
(* A session ends anywhere; the CFO changes the objective; an epoch's      *)
(* status and stored eligibility are edited by hand.                       *)
Crash(s) ==
  /\ ~At(s, "idle")
  /\ pc[s] \in {"registry_flush", "epoch_flush"} => TornWrites
  /\ Finish(s)
  /\ UNCHANGED <<files, started, active, evidenced>>

SetObjective(o) ==
  /\ Start
  /\ o # objective
  /\ objective' = o
  /\ UNCHANGED <<registry, epochs, sessions, active, evidenced>>

DoctorEpoch(e) ==
  /\ Start
  /\ epochs[e] \notin {Absent, Blank}
  /\ epochs[e].status # "promoted"
  /\ epochs' = [epochs EXCEPT ![e] =
                  [@ EXCEPT !.status = "proposed", !.eligible = TRUE]]
  /\ epochs' # epochs
  /\ UNCHANGED <<registry, objective, sessions, active, evidenced>>

Session(s) ==
  \/ StudyChampion(s)
  \/ \E e \in Epochs, m \in Models, ev \in Evidence, held \in BOOLEAN :
       CreateEpoch(s, e, m, ev, held)
  \/ \E v \in Versions : \/ RegisterChallenger(s, v)
                         \/ \E e \in Epochs : PromoteChallenger(s, v, e)
  \/ RegistryOpen(s) \/ RegistryFlush(s)
  \/ EpochOpen(s) \/ EpochFlush(s)
  \/ Crash(s)

Next ==
  \/ \E s \in Sessions : Session(s)
  \/ \E o \in Objectives : SetObjective(o)
  \/ \E e \in Epochs : DoctorEpoch(e)

Spec == Init /\ [][Next]_vars

-----------------------------------------------------------------------------
(* Properties. *)

(* Type invariant of the files, the sessions and the history. *)
TypeOK ==
  /\ registry \in Registries \cup {Blank}
  /\ epochs \in [Epochs -> EpochFiles \cup {Absent, Blank}]
  /\ objective \in Objectives
  /\ pc \in [Sessions -> {"idle", "epoch_create", "registry_open",
                          "registry_flush", "epoch_open", "epoch_flush"}]
  /\ doc \in [Sessions -> Registries]
  /\ name \in [Sessions -> Epochs \cup {NoEpoch}]
  /\ draft \in [Sessions -> EpochFiles \cup {NoDraft}]
  /\ started \in 0..MaxOps
  /\ active \in Models \cup {NoModel}
  /\ evidenced \subseteq [promotion : Promotions, ran : EpochFiles,
                          objective : Objectives]

(* The promotions are one succession that ends in the champion, and nobody *)
(* it passed is lost: who was replaced is retired.                         *)
Succession(r) ==
  LET p == r.promotions
  IN  /\ \A i \in 1..Len(p) : i + 1 <= Len(p) => p[i + 1].from = p[i].to
      /\ Len(p) > 0 => r.champion = p[Len(p)].to
      /\ \A i \in 1..Len(p) : p[i].from # NoModel =>
           \E j \in 1..Len(r.retired) : r.retired[j] = p[i].from

(* A model is promoted at most once. *)
PromotedOnce(r) ==
  \A i, j \in 1..Len(r.promotions) :
    r.promotions[i].to = r.promotions[j].to => i = j

WellKept(r) == UniqueModels(r) /\ Succession(r) /\ PromotedOnce(r)

(* Whatever sessions save over each other, and wherever one stops, a        *)
(* registry on file that has content is a consistent one: ids unique, one  *)
(* unbroken succession of champions, no model promoted twice.              *)
RegistryWellKept == registry # Blank => WellKept(registry)

(* "A stored eligibility flag cannot replace that evidence", "no holdout   *)
(* means no promotion": each promotion in the registry was computed from   *)
(* an epoch run against the champion it replaced, with a holdout, and with *)
(* evidence the objective of that moment finds eligible.                   *)
RestsOnEvidence(d) ==
  /\ d.ran.evidence \in EligibleUnder[d.objective]
  /\ d.ran.holdout
  /\ d.ran.challenger = d.promotion.to
  /\ d.promotion.from \in {NoModel, d.ran.champion}

PromotionsAreEvidenced ==
  registry # Blank =>
    \A i \in 1..Len(registry.promotions) :
      \E d \in evidenced : d.promotion = registry.promotions[i] /\ RestsOnEvidence(d)

(* With one session, an epoch is marked promoted only once its promotion   *)
(* is in the registry: a crash between the two saves leaves the epoch      *)
(* behind the registry, never ahead of it.                                 *)
PromotedIsOnRecord ==
  registry # Blank =>
    \A e \in Epochs : epochs[e] \notin {Absent, Blank} /\ epochs[e].status = "promoted" =>
      \E i \in 1..Len(registry.promotions) : registry.promotions[i].epoch = e

=============================================================================
