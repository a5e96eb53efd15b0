----------------------- MODULE ChampionRegistryProofs -----------------------
(* Theorems about ChampionRegistry and ChampionTurns, for every set of      *)
(* sessions, models, epochs, evidence and objectives, and whatever bound is *)
(* put on the operations.                                                   *)
EXTENDS ChampionTurns, TLAPS

-----------------------------------------------------------------------------
(* The pure operations on a registry. *)

(* The registry of an empty file is well kept. *)
LEMMA EmptyWellKept ==
  ASSUME NEW m \in Models \cup {NoModel}
  PROVE  LET r == [EmptyRegistry EXCEPT !.champion = m]
         IN  r \in Registries /\ WellKept(r)
<1> DEFINE r == [EmptyRegistry EXCEPT !.champion = m]
<1>1. r = [champion |-> m, challengers |-> {}, retired |-> <<>>, promotions |-> <<>>]
  BY DEF EmptyRegistry
<1>2. /\ r.champion = m /\ r.challengers = {}
      /\ r.retired = <<>> /\ r.promotions = <<>>
  BY <1>1
<1>3. r \in Registries
  <2>1. <<>> \in Seq(Models) /\ <<>> \in Seq(Promotions)
    OBVIOUS
  <2> HIDE DEF r
  <2> QED  BY <1>1, <2>1 DEF Registries
<1> HIDE DEF r
<1>4. UniqueModels(r) /\ Succession(r) /\ PromotedOnce(r)
  BY <1>2 DEF UniqueModels, Succession, PromotedOnce
<1>5. r \in Registries /\ WellKept(r)
  BY <1>3, <1>4 DEF WellKept
<1> QED  BY <1>5 DEF r

(* register_challenger returns a registry. *)
LEMMA RegisteredType ==
  ASSUME NEW r \in Registries, NEW v \in Versions
  PROVE  Registered(r, v) \in Registries
  BY DEF Registered, Registries

(* A model under an id nobody uses keeps the registry well kept. *)
LEMMA RegisteredWellKept ==
  ASSUME NEW r \in Registries, NEW v \in Versions,
         v.id \notin UsedIds(r), WellKept(r)
  PROVE  WellKept(Registered(r, v))
<1> DEFINE q == Registered(r, v)
<1>1. /\ q.challengers = r.challengers \cup {v}
      /\ q.champion = r.champion /\ q.retired = r.retired
      /\ q.promotions = r.promotions
  BY DEF Registered, Registries
<1>2. /\ \A w \in r.challengers : w.id # v.id
      /\ v.id # r.champion
      /\ \A i \in 1..Len(r.retired) : r.retired[i] # v.id
  BY RegistryAssumption DEF UsedIds, Versions, Registries
<1> HIDE DEF q
<1>3. UniqueModels(q)
  BY <1>1, <1>2 DEF WellKept, UniqueModels
<1>4. Succession(q) /\ PromotedOnce(q)
  BY <1>1 DEF WellKept, Succession, PromotedOnce
<1> QED  BY <1>3, <1>4 DEF WellKept, q

(* What promote_challenger returns, field by field. *)
LEMMA PromotedFields ==
  ASSUME NEW r \in Registries, NEW v \in r.challengers, NEW e \in Epochs
  PROVE  /\ Promoted(r, v, e) \in Registries
         /\ Promoted(r, v, e).champion = v.id
         /\ Promoted(r, v, e).challengers = {w \in r.challengers : w.id # v.id}
         /\ Promoted(r, v, e).promotions =
              Append(r.promotions, [from |-> r.champion, to |-> v.id, epoch |-> e])
         /\ r.champion = NoModel => Promoted(r, v, e).retired = r.retired
         /\ r.champion # NoModel =>
              /\ r.champion \in Models
              /\ Promoted(r, v, e).retired = Append(r.retired, r.champion)
<1>1. v.id \in Models /\ r.champion \in Models \cup {NoModel}
  BY DEF Registries, Versions
<1>2. [from |-> r.champion, to |-> v.id, epoch |-> e] \in Promotions
  BY <1>1 DEF Promotions
<1>3. r.retired \in Seq(Models) /\ r.promotions \in Seq(Promotions)
      /\ {w \in r.challengers : w.id # v.id} \subseteq Versions
  BY DEF Registries
<1> DEFINE kept == IF r.champion = NoModel THEN r.retired
                                          ELSE Append(r.retired, r.champion)
<1>4. kept \in Seq(Models)
  BY <1>1, <1>3
<1>5. Append(r.promotions, [from |-> r.champion, to |-> v.id, epoch |-> e])
        \in Seq(Promotions)
  BY <1>2, <1>3
<1> HIDE DEF kept
<1>6. Promoted(r, v, e) =
        [champion |-> v.id,
         challengers |-> {w \in r.challengers : w.id # v.id},
         retired |-> kept,
         promotions |-> Append(r.promotions,
                          [from |-> r.champion, to |-> v.id, epoch |-> e])]
  BY DEF Promoted, kept
<1>7. Promoted(r, v, e) \in Registries
  BY <1>1, <1>3, <1>4, <1>5, <1>6 DEF Registries
<1> QED  BY <1>1, <1>6, <1>7 DEF kept

(* Everyone a succession promoted is the champion now or is retired. *)
LEMMA PromotedIsUsed ==
  ASSUME NEW r \in Registries, Succession(r), NEW i \in 1..Len(r.promotions)
  PROVE  \/ r.promotions[i].to = r.champion
         \/ \E j \in 1..Len(r.retired) : r.retired[j] = r.promotions[i].to
<1>1. r.promotions[i] \in Promotions /\ Len(r.promotions) \in Nat
  BY DEF Registries
<1>2. CASE i = Len(r.promotions)
  BY <1>1, <1>2 DEF Succession
<1>3. CASE i # Len(r.promotions)
  <2>1. i + 1 \in 1..Len(r.promotions)
    BY <1>1, <1>3
  <2>2. r.promotions[i + 1].from = r.promotions[i].to
    BY <2>1 DEF Succession
  <2>3. r.promotions[i].to # NoModel
    BY <1>1, RegistryAssumption DEF Promotions
  <2> QED  BY <2>1, <2>2, <2>3 DEF Succession
<1> QED  BY <1>2, <1>3

(* A promotion keeps the registry well kept. *)
LEMMA PromotedWellKept ==
  ASSUME NEW r \in Registries, NEW v \in r.challengers, NEW e \in Epochs,
         WellKept(r)
  PROVE  WellKept(Promoted(r, v, e))
<1> DEFINE q == Promoted(r, v, e)
           new == [from |-> r.champion, to |-> v.id, epoch |-> e]
           n == Len(r.promotions)
           k == Len(r.retired)
<1>1. /\ q.champion = v.id
      /\ q.challengers = {w \in r.challengers : w.id # v.id}
      /\ q.promotions = Append(r.promotions, new)
      /\ r.champion = NoModel => q.retired = r.retired
      /\ r.champion # NoModel => /\ r.champion \in Models
                                 /\ q.retired = Append(r.retired, r.champion)
  BY PromotedFields
<1>2. /\ r.retired \in Seq(Models) /\ r.promotions \in Seq(Promotions)
      /\ v.id \in Models /\ r.challengers \subseteq Versions
      /\ k \in Nat /\ n \in Nat
  BY DEF Registries, Versions
<1>3. UniqueModels(r) /\ Succession(r) /\ PromotedOnce(r)
  BY DEF WellKept
<1>4. new.from = r.champion /\ new.to = v.id /\ new.epoch = e
  OBVIOUS
<1>5. /\ Len(q.promotions) = n + 1
      /\ \A i \in 1..n : q.promotions[i] = r.promotions[i]
      /\ q.promotions[n + 1] = new
  BY <1>1, <1>2
<1>6. \A i \in 1..k : r.retired[i] # v.id
  BY <1>3 DEF UniqueModels
<1>7. v.id # r.champion
  BY <1>3 DEF UniqueModels
<1> HIDE DEF q, new
<1>8. UniqueModels(q)
  <2>1. CASE r.champion = NoModel
    BY <1>1, <1>3, <1>6, <2>1 DEF UniqueModels
  <2>2. CASE r.champion # NoModel
    <3>1. /\ Len(q.retired) = k + 1
          /\ \A i \in 1..k : q.retired[i] = r.retired[i]
          /\ q.retired[k + 1] = r.champion
      BY <1>1, <1>2, <2>2
    <3>2. \A i \in 1..Len(q.retired) : i \in 1..k \/ i = k + 1
      BY <3>1, <1>2
    <3>3. \A i \in 1..Len(q.retired) :
            /\ q.retired[i] # v.id
            /\ \A w \in r.challengers : w.id # q.retired[i]
      BY <1>3, <1>6, <1>7, <3>1, <3>2 DEF UniqueModels
    <3>4. \A i, j \in 1..Len(q.retired) : q.retired[i] = q.retired[j] => i = j
      BY <1>3, <3>1, <3>2 DEF UniqueModels
    <3> QED  BY <1>1, <1>3, <3>3, <3>4 DEF UniqueModels
  <2> QED  BY <2>1, <2>2
<1>9. Succession(q)
  <2>1. \A i \in 1..n+1 : i \in 1..n \/ i = n + 1
    BY <1>2
  <2>2. \A i \in 1..n+1 : i + 1 <= n + 1 =>
          q.promotions[i + 1].from = q.promotions[i].to
    <3> SUFFICES ASSUME NEW i \in 1..n+1, i + 1 <= n + 1
                 PROVE  q.promotions[i + 1].from = q.promotions[i].to
      OBVIOUS
    <3>1. CASE i + 1 <= n
      <4>1. i \in 1..n /\ i + 1 \in 1..n
        BY <1>2, <3>1
      <4> QED  BY <1>3, <1>5, <3>1, <4>1 DEF Succession
    <3>2. CASE i = n
      <4>1. r.champion = r.promotions[n].to
        BY <1>2, <1>3, <3>2 DEF Succession
      <4> QED  BY <1>2, <1>4, <1>5, <3>2, <4>1
    <3> QED  BY <1>2, <3>1, <3>2
  <2>3. \A j \in 1..k : /\ j \in 1..Len(q.retired)
                        /\ q.retired[j] = r.retired[j]
    BY <1>1, <1>2
  <2>4. r.champion # NoModel =>
          \E j \in 1..Len(q.retired) : q.retired[j] = r.champion
    BY <1>1, <1>2
  <2>5. \A i \in 1..n+1 : q.promotions[i].from # NoModel =>
          \E j \in 1..Len(q.retired) : q.retired[j] = q.promotions[i].from
    <3> SUFFICES ASSUME NEW i \in 1..n+1, q.promotions[i].from # NoModel
                 PROVE  \E j \in 1..Len(q.retired) :
                          q.retired[j] = q.promotions[i].from
      OBVIOUS
    <3>1. CASE i \in 1..n
      BY <1>3, <1>5, <2>3, <3>1 DEF Succession
    <3>2. CASE i = n + 1
      BY <1>4, <1>5, <2>4, <3>2
    <3> QED  BY <2>1, <3>1, <3>2
  <2> QED  BY <1>1, <1>2, <1>4, <1>5, <2>2, <2>5 DEF Succession
<1>10. PromotedOnce(q)
  <2>1. \A i \in 1..n+1 : i \in 1..n \/ i = n + 1
    BY <1>2
  <2>2. \A i \in 1..n : r.promotions[i].to # v.id
    BY <1>3, <1>6, <1>7, PromotedIsUsed
  <2> QED  BY <1>3, <1>4, <1>5, <2>1, <2>2 DEF PromotedOnce
<1> QED  BY <1>8, <1>9, <1>10 DEF WellKept, q

-----------------------------------------------------------------------------
(* The inductive invariant: what is on file and what any session holds is   *)
(* well kept and evidenced, and a session holds what its step needs.        *)

Evidenced(r) ==
  \A i \in 1..Len(r.promotions) :
    \E d \in evidenced : d.promotion = r.promotions[i] /\ RestsOnEvidence(d)

RegistryInv ==
  /\ TypeOK
  /\ \A s \in Sessions :
       pc[s] \in {"epoch_open", "epoch_flush"} =>
         name[s] \in Epochs /\ draft[s] \in EpochFiles
  /\ \A s \in Sessions : name[s] # NoEpoch => draft[s] \in EpochFiles
  /\ \A s \in Sessions : pc[s] = "idle" => name[s] = NoEpoch
  /\ registry # Blank => registry \in Registries /\ WellKept(registry) /\ Evidenced(registry)
  /\ \A s \in Sessions : WellKept(doc[s])
  /\ \A s \in Sessions : Evidenced(doc[s])

(* An empty registry needs no evidence. *)
LEMMA EmptyEvidenced ==
  /\ EmptyRegistry \in Registries
  /\ WellKept(EmptyRegistry)
  /\ Evidenced(EmptyRegistry)
<1>1. EmptyRegistry = [EmptyRegistry EXCEPT !.champion = NoModel]
  BY DEF EmptyRegistry
<1> QED  BY <1>1, EmptyWellKept DEF Evidenced, EmptyRegistry

(* The invariant holds of an empty workspace. *)
LEMMA InitRegistry == Init => RegistryInv
<1> SUFFICES ASSUME Init PROVE RegistryInv
  OBVIOUS
<1>1. registry \in Registries /\ WellKept(registry)
  BY EmptyWellKept, RegistryAssumption DEF Init
<1>2. Evidenced(registry)
  BY DEF Init, Evidenced, EmptyRegistry
<1> QED
  BY <1>1, <1>2, EmptyEvidenced, RegistryAssumption
  DEF Init, RegistryInv, TypeOK, NoDraft

(* Every step keeps the invariant. *)
LEMMA RegistryStep ==
  ASSUME RegistryInv, [Next]_vars
  PROVE  RegistryInv'
<1> USE RegistryAssumption
    DEF RegistryInv, TypeOK, Evidenced, files, sessions, At, Goto, Start, NoDraft
<1>1. ASSUME NEW s \in Sessions, StudyChampion(s)
      PROVE  RegistryInv'
  <2>1. registry \in Registries /\ WellKept(registry) /\ Evidenced(registry)
    BY <1>1 DEF StudyChampion, RegistryLoads
  <2>2. /\ doc' = [doc EXCEPT ![s] = registry]
        /\ pc' = [pc EXCEPT ![s] = "epoch_create"]
        /\ UNCHANGED <<registry, epochs, objective, name, draft, active, evidenced>>
        /\ started' \in 0..MaxOps
    BY <1>1 DEF StudyChampion
  <2>3. TypeOK'
    BY <2>1, <2>2
  <2>4. \A t \in Sessions : doc'[t] = doc[t] \/ doc'[t] = registry
    BY <2>2
  <2>5. (\A t \in Sessions : WellKept(doc[t]))' /\ (\A t \in Sessions : Evidenced(doc[t]))'
    BY <2>1, <2>2, <2>4
  <2>6. Evidenced(registry)'
    BY <2>1, <2>2
  <2> QED  BY <2>1, <2>2, <2>3, <2>5, <2>6
<1>2. ASSUME NEW s \in Sessions, NEW e \in Epochs, NEW m \in Models,
             NEW ev \in Evidence, NEW held \in BOOLEAN,
             CreateEpoch(s, e, m, ev, held)
      PROVE  RegistryInv'
  <2>1. draft'[s] \in EpochFiles /\ draft' = [draft EXCEPT ![s] = draft'[s]]
    BY <1>2 DEF CreateEpoch, EpochFiles, Registries
  <2> QED  BY <1>2, <2>1 DEF CreateEpoch
<1>3. ASSUME NEW s \in Sessions, EpochFlush(s)
      PROVE  RegistryInv'
  BY <1>3, EmptyEvidenced DEF EpochFlush, Finish
<1>4. ASSUME NEW s \in Sessions, NEW v \in Versions, RegisterChallenger(s, v)
      PROVE  RegistryInv'
  <2> DEFINE q == Registered(registry, v)
  <2> registry \in Registries /\ WellKept(registry) /\ Evidenced(registry)
    BY <1>4 DEF RegisterChallenger, RegistryLoads
  <2>1. q \in Registries /\ WellKept(q)
    BY <1>4, RegisteredType, RegisteredWellKept DEF RegisterChallenger
  <2>2. q.promotions = registry.promotions
    BY DEF Registered, Registries
  <2>3. doc' = [doc EXCEPT ![s] = q]
    BY <1>4 DEF RegisterChallenger
  <2> HIDE DEF q
  <2> QED  BY <1>4, <2>1, <2>2, <2>3 DEF RegisterChallenger
<1>5. ASSUME NEW s \in Sessions, NEW v \in Versions, NEW e \in Epochs,
             PromoteChallenger(s, v, e)
      PROVE  RegistryInv'
  <2> DEFINE q == Promoted(registry, v, e)
             new == [from |-> registry.champion, to |-> v.id, epoch |-> e]
             deed == [promotion |-> new, ran |-> epochs[e], objective |-> objective]
  <2> registry \in Registries /\ WellKept(registry) /\ Evidenced(registry)
    BY <1>5 DEF PromoteChallenger, RegistryLoads
  <2>1. v \in registry.challengers /\ epochs[e] \in EpochFiles
    BY <1>5 DEF PromoteChallenger, Promotable, Loads
  <2>2. q \in Registries /\ WellKept(q)
        /\ q.promotions = Append(registry.promotions, new)
    BY <2>1, PromotedFields, PromotedWellKept
  <2>3. /\ new \in Promotions
        /\ deed \in [promotion : Promotions, ran : EpochFiles, objective : Objectives]
    BY <2>1 DEF Promotions, Registries, Versions
  <2>4. /\ doc' = [doc EXCEPT ![s] = q]
        /\ evidenced' = evidenced \cup {deed}
        /\ name' = [name EXCEPT ![s] = e]
        /\ draft' = [draft EXCEPT ![s] = [epochs[e] EXCEPT !.status = "promoted"]]
        /\ pc' = [pc EXCEPT ![s] = "registry_open"]
        /\ started' \in 0..MaxOps
        /\ UNCHANGED <<registry, epochs, objective, active>>
    BY <1>5 DEF PromoteChallenger
  <2>5. RestsOnEvidence(deed)
    <3>1. /\ epochs[e].status = "proposed"
          /\ epochs[e].evidence \in EligibleUnder[objective]
          /\ registry.champion = NoModel \/ registry.champion = epochs[e].champion
          /\ epochs[e].challenger = v.id
          /\ epochs[e].holdout
      BY <1>5 DEF PromoteChallenger, Promotable, Loads, WellFormed
    <3> QED  BY <3>1 DEF RestsOnEvidence
  <2>6. [epochs[e] EXCEPT !.status = "promoted"] \in EpochFiles
    BY <2>1 DEF EpochFiles
  <2>7. deed.promotion = new
    OBVIOUS
  <2> HIDE DEF q, new, deed
  <2>8. registry.promotions \in Seq(Promotions)
    BY DEF Registries
  <2>9. \A i \in 1..Len(q.promotions) :
          \/ i \in 1..Len(registry.promotions)
               /\ q.promotions[i] = registry.promotions[i]
          \/ q.promotions[i] = new
    BY <2>2, <2>3, <2>8
  <2>10. Evidenced(registry)' /\ \A t \in Sessions : Evidenced(doc[t])'
    <3>1. \A i \in 1..Len(q.promotions) :
            \E d \in evidenced' : d.promotion = q.promotions[i] /\ RestsOnEvidence(d)
      BY <2>4, <2>5, <2>7, <2>9
    <3> QED  BY <2>4, <3>1
  <2> QED  BY <2>2, <2>3, <2>4, <2>6, <2>10
<1>6. ASSUME NEW s \in Sessions, RegistryOpen(s)
      PROVE  RegistryInv'
  BY <1>6, EmptyEvidenced DEF RegistryOpen
<1>7. ASSUME NEW s \in Sessions, RegistryFlush(s)
      PROVE  RegistryInv'
  <2>1. doc[s].champion \in Models \cup {NoModel}
    BY DEF Registries
  <2>2. /\ registry' = doc[s] /\ active' = doc[s].champion
        /\ UNCHANGED <<epochs, objective, started, evidenced>>
    BY <1>7 DEF RegistryFlush
  <2>3. CASE name[s] = NoEpoch
    <3>1. /\ pc' = [pc EXCEPT ![s] = "idle"]
          /\ doc' = [doc EXCEPT ![s] = EmptyRegistry]
          /\ name' = [name EXCEPT ![s] = NoEpoch]
          /\ draft' = [draft EXCEPT ![s] = Blank]
      BY <1>7, <2>3 DEF RegistryFlush, Finish
    <3> QED  BY <2>1, <2>2, <3>1, EmptyEvidenced
  <2>4. CASE name[s] # NoEpoch
    <3>1. pc' = [pc EXCEPT ![s] = "epoch_open"] /\ UNCHANGED <<doc, name, draft>>
      BY <1>7, <2>4 DEF RegistryFlush
    <3> QED  BY <2>1, <2>2, <2>4, <3>1
  <2> QED  BY <2>3, <2>4
<1>8. ASSUME NEW s \in Sessions, EpochOpen(s)
      PROVE  RegistryInv'
  BY <1>8 DEF EpochOpen
<1>9. ASSUME NEW s \in Sessions, Crash(s)
      PROVE  RegistryInv'
  BY <1>9, EmptyEvidenced DEF Crash, Finish
<1>10. ASSUME NEW o \in Objectives, SetObjective(o)
       PROVE  RegistryInv'
  BY <1>10 DEF SetObjective
<1>11. ASSUME NEW e \in Epochs, DoctorEpoch(e)
       PROVE  RegistryInv'
  <2> DEFINE new == [epochs[e] EXCEPT !.status = "proposed", !.eligible = TRUE]
  <2>1. new \in EpochFiles
    <3>1. epochs[e] \in EpochFiles
      BY <1>11 DEF DoctorEpoch
    <3>2. "proposed" \in {"discarded", "proposed", "promoted"}
      OBVIOUS
    <3> QED  BY <3>1, <3>2 DEF EpochFiles
  <2>2. epochs' = [epochs EXCEPT ![e] = new]
    BY <1>11 DEF DoctorEpoch
  <2> HIDE DEF new
  <2> QED  BY <1>11, <2>1, <2>2 DEF DoctorEpoch
<1>12. CASE UNCHANGED vars
  BY <1>12 DEF vars
<1> QED
  BY <1>1, <1>2, <1>3, <1>4, <1>5, <1>6, <1>7, <1>8, <1>9, <1>10, <1>11, <1>12
  DEF Next, Session

(* The inductive invariant holds throughout. *)
THEOREM RegistryInvariant == Spec => []RegistryInv
<1>1. RegistryInv /\ [Next]_vars => RegistryInv'
  BY RegistryStep
<1> QED  BY <1>1, InitRegistry, PTL DEF Spec

(* Every file, session and history variable keeps its type. *)
THEOREM RegistryTypes == Spec => []TypeOK
<1>1. RegistryInv => TypeOK
  BY DEF RegistryInv
<1> QED  BY <1>1, RegistryInvariant, PTL

(* Whatever sessions save over each other, the registry on file has unique  *)
(* model ids and one unbroken succession, and promoted no model twice.      *)
THEOREM SuccessionUnbroken == Spec => []RegistryWellKept
<1>1. RegistryInv => RegistryWellKept
  BY DEF RegistryInv, RegistryWellKept
<1> QED  BY <1>1, RegistryInvariant, PTL

(* No promotion in the registry rests on a stored eligibility flag alone.   *)
THEOREM EvidenceBehindPromotions == Spec => []PromotionsAreEvidenced
<1>1. RegistryInv => PromotionsAreEvidenced
  BY DEF RegistryInv, Evidenced, PromotionsAreEvidenced
<1> QED  BY <1>1, RegistryInvariant, PTL

-----------------------------------------------------------------------------
(* Sessions that take turns. *)

OnRecord(r, e) == \E i \in 1..Len(r.promotions) : r.promotions[i].epoch = e

Marked(ep) == ep \notin {Absent, Blank} /\ ep.status = "promoted"

(* What a session is about to save as the registry names every epoch marked *)
(* promoted and the one it is about to mark, and changes the champion only  *)
(* with a record of the change.                                             *)
ReadyToSave(s) ==
  /\ doc[s].champion # active =>
       LET p == doc[s].promotions
       IN  /\ Len(p) > 0
           /\ p[Len(p)].from = active
           /\ p[Len(p)].to = doc[s].champion
  /\ \A e \in Epochs : Marked(epochs[e]) => OnRecord(doc[s], e)
  /\ name[s] # NoEpoch => OnRecord(doc[s], name[s])

TurnsTaken ==
  /\ \A s, t \in Sessions : s # t => pc[s] = "idle" \/ pc[t] = "idle"
  /\ registry # Blank =>
       \A e \in Epochs : Marked(epochs[e]) => OnRecord(registry, e)
  /\ \A s \in Sessions :
       pc[s] \in {"registry_open", "registry_flush"} => ReadyToSave(s)
  /\ \A s \in Sessions :
       pc[s] \in {"epoch_open", "epoch_flush"} /\ Marked(draft[s]) /\ registry # Blank =>
         OnRecord(registry, name[s])

TurnsInv ==
  /\ registry # Blank => registry.champion = active
  /\ overlapped \/ TurnsTaken

LEMMA InitTurns == TurnsInit => TurnsInv
<1> SUFFICES ASSUME TurnsInit PROVE TurnsInv
  OBVIOUS
<1>1. registry.champion = active
  BY DEF TurnsInit, Init, EmptyRegistry
<1>2. TurnsTaken
  BY DEF TurnsInit, Init, TurnsTaken, Marked
<1> QED  BY <1>1, <1>2 DEF TurnsInv

(* While commands do not overlap, whoever makes a step is the only one at   *)
(* work.                                                                    *)
LEMMA OneAtWork ==
  ASSUME RegistryInv, TurnsInv, TurnsNext, ~overlapped', NEW s \in Sessions,
         pc[s] # "idle" \/ pc'[s] # "idle",
         \A t \in Sessions \ {s} : pc'[t] = pc[t]
  PROVE  TurnsTaken /\ \A t \in Sessions \ {s} : pc[t] = "idle" /\ pc'[t] = "idle"
<1>1. TurnsTaken /\ ~\E u, t \in Sessions : u # t /\ pc'[u] # "idle" /\ pc'[t] # "idle"
  BY DEF TurnsNext, TurnsInv
<1>2. ASSUME NEW t \in Sessions \ {s}
      PROVE  pc[t] = "idle" /\ pc'[t] = "idle"
  <2>1. t # s /\ t \in Sessions /\ pc'[t] = pc[t]
    OBVIOUS
  <2>2. CASE pc[s] # "idle"
    BY <1>1, <2>1, <2>2 DEF TurnsTaken
  <2>3. CASE pc'[s] # "idle"
    BY <1>1, <2>1, <2>3
  <2> QED  BY <2>2, <2>3
<1> QED  BY <1>1, <1>2

(* What promote_challenger returns records the change and the epoch.        *)
LEMMA PromotedIsRecorded ==
  ASSUME NEW r \in Registries, NEW v \in Versions, NEW e \in Epochs
  PROVE  LET p == Promoted(r, v, e).promotions
         IN  /\ Len(p) > 0
             /\ p[Len(p)] = [from |-> r.champion, to |-> v.id, epoch |-> e]
             /\ Promoted(r, v, e).champion = v.id
             /\ OnRecord(Promoted(r, v, e), e)
             /\ \A f \in Epochs : OnRecord(r, f) => OnRecord(Promoted(r, v, e), f)
<1> DEFINE q == Promoted(r, v, e)
           new == [from |-> r.champion, to |-> v.id, epoch |-> e]
<1>1. q.promotions = Append(r.promotions, new) /\ q.champion = v.id
  BY DEF Promoted
<1>2. r.promotions \in Seq(Promotions) /\ new \in Promotions
  BY DEF Registries, Versions, Promotions
<1>3. new.epoch = e
  OBVIOUS
<1> HIDE DEF q, new
<1>4. /\ Len(q.promotions) = Len(r.promotions) + 1 /\ Len(r.promotions) \in Nat
      /\ q.promotions[Len(q.promotions)] = new
      /\ \A i \in 1..Len(r.promotions) : q.promotions[i] = r.promotions[i]
  BY <1>1, <1>2
<1>5. OnRecord(q, e)
  BY <1>3, <1>4 DEF OnRecord
<1>6. \A f \in Epochs : OnRecord(r, f) => OnRecord(q, f)
  BY <1>4 DEF OnRecord
<1> QED  BY <1>1, <1>4, <1>5, <1>6 DEF q, new

(* Every step of sessions that take turns keeps the invariant.              *)
LEMMA TurnsStep ==
  ASSUME RegistryInv, TurnsInv, [TurnsNext]_<<vars, overlapped>>
  PROVE  TurnsInv'
<1> USE RegistryAssumption DEF files, sessions, At, Goto, Start
<1>a. /\ pc \in [Sessions -> {"idle", "epoch_create", "registry_open",
                               "registry_flush", "epoch_open", "epoch_flush"}]
      /\ doc \in [Sessions -> Registries]
      /\ name \in [Sessions -> Epochs \cup {NoEpoch}]
      /\ DOMAIN epochs = Epochs /\ DOMAIN draft = Sessions
      /\ epochs \in [Epochs -> EpochFiles \cup {Absent, Blank}]
      /\ draft \in [Sessions -> EpochFiles \cup {Blank}]
  BY DEF RegistryInv, TypeOK, NoDraft
<1>b. registry # Blank => registry.champion = active
  BY DEF TurnsInv
<1>c. registry # Blank => registry \in Registries
  BY DEF RegistryInv
<1> DEFINE Taken == TurnsTaken' \/ overlapped'
<1>d. ASSUME registry' # Blank => registry'.champion = active', Taken
      PROVE  TurnsInv'
  BY <1>d DEF TurnsInv
<1> HIDE DEF Taken
<1>1. ASSUME TurnsNext, NEW s \in Sessions, StudyChampion(s)
      PROVE  TurnsInv'
  <2>1. /\ UNCHANGED <<registry, epochs, name, draft, active>>
        /\ pc' = [pc EXCEPT ![s] = "epoch_create"]
        /\ doc' = [doc EXCEPT ![s] = registry]
    BY <1>1 DEF StudyChampion
  <2>2. ASSUME ~overlapped' PROVE TurnsTaken'
    <3>1. TurnsTaken /\ \A t \in Sessions \ {s} : pc[t] = "idle" /\ pc'[t] = "idle"
      BY <1>1, <1>a, <2>1, <2>2, OneAtWork
    <3> QED  BY <1>a, <2>1, <3>1 DEF TurnsTaken
  <2> QED  BY <1>b, <1>d, <2>1, <2>2 DEF Taken
<1>2. ASSUME TurnsNext, NEW s \in Sessions, NEW e \in Epochs, NEW m \in Models,
             NEW ev \in Evidence, NEW held \in BOOLEAN,
             CreateEpoch(s, e, m, ev, held)
      PROVE  TurnsInv'
  <2>1. /\ UNCHANGED <<registry, doc, active>>
        /\ pc' = [pc EXCEPT ![s] = "epoch_flush"]
        /\ name' = [name EXCEPT ![s] = e]
        /\ epochs' = [epochs EXCEPT ![e] = Blank]
        /\ draft' = [draft EXCEPT ![s] = draft'[s]]
        /\ draft'[s].status # "promoted"
    BY <1>2, <1>a DEF CreateEpoch
  <2>2. ASSUME ~overlapped' PROVE TurnsTaken'
    <3>1. TurnsTaken /\ \A t \in Sessions \ {s} : pc[t] = "idle" /\ pc'[t] = "idle"
      BY <1>2, <1>a, <2>1, <2>2, OneAtWork
    <3> QED  BY <1>a, <2>1, <3>1 DEF TurnsTaken, Marked
  <2> QED  BY <1>b, <1>d, <2>1, <2>2 DEF Taken
<1>3. ASSUME TurnsNext, NEW s \in Sessions, EpochFlush(s)
      PROVE  TurnsInv'
  <2>1. /\ UNCHANGED <<registry, active>>
        /\ pc[s] = "epoch_flush" /\ pc' = [pc EXCEPT ![s] = "idle"]
        /\ doc' = [doc EXCEPT ![s] = EmptyRegistry]
        /\ name' = [name EXCEPT ![s] = NoEpoch]
        /\ draft' = [draft EXCEPT ![s] = Blank]
        /\ epochs' = [epochs EXCEPT ![name[s]] = draft[s]]
    BY <1>3 DEF EpochFlush, Finish, NoDraft
  <2>2. ASSUME ~overlapped' PROVE TurnsTaken'
    <3>1. TurnsTaken /\ \A t \in Sessions \ {s} : pc[t] = "idle" /\ pc'[t] = "idle"
      BY <1>3, <1>a, <2>1, <2>2, OneAtWork
    <3>2. Marked(draft[s]) /\ registry # Blank => OnRecord(registry, name[s])
      BY <2>1, <3>1 DEF TurnsTaken
    <3>3. registry' # Blank =>
            \A e \in Epochs : Marked(epochs'[e]) => OnRecord(registry', e)
      BY <1>a, <2>1, <3>1, <3>2 DEF TurnsTaken
    <3> QED  BY <1>a, <2>1, <3>1, <3>3 DEF TurnsTaken
  <2> QED  BY <1>b, <1>d, <2>1, <2>2 DEF Taken
<1>4. ASSUME TurnsNext, NEW s \in Sessions, NEW v \in Versions,
             RegisterChallenger(s, v)
      PROVE  TurnsInv'
  <2> DEFINE q == Registered(registry, v)
  <2>1. /\ UNCHANGED <<registry, epochs, name, draft, active>>
        /\ pc[s] = "idle" /\ pc' = [pc EXCEPT ![s] = "registry_open"]
        /\ doc' = [doc EXCEPT ![s] = q]
        /\ registry # Blank
    BY <1>4 DEF RegisterChallenger, RegistryLoads
  <2>2. q.promotions = registry.promotions /\ q.champion = registry.champion
    BY <1>c, <2>1 DEF Registered, Registries
  <2> HIDE DEF q
  <2>3. ASSUME ~overlapped' PROVE TurnsTaken'
    <3>1. TurnsTaken /\ \A t \in Sessions \ {s} : pc[t] = "idle" /\ pc'[t] = "idle"
      BY <1>4, <1>a, <2>1, <2>3, OneAtWork
    <3>2. name[s] = NoEpoch
      BY <2>1 DEF RegistryInv
    <3>3. doc'[s] = q /\ name'[s] = NoEpoch
      BY <1>a, <2>1, <3>2
    <3>4. ReadyToSave(s)'
      BY <1>b, <2>1, <2>2, <3>1, <3>3 DEF ReadyToSave, TurnsTaken, OnRecord
    <3> QED  BY <1>a, <2>1, <3>1, <3>4 DEF TurnsTaken
  <2> QED  BY <1>b, <1>d, <2>1, <2>3 DEF Taken
<1>5. ASSUME TurnsNext, NEW s \in Sessions, NEW v \in Versions, NEW e \in Epochs,
             PromoteChallenger(s, v, e)
      PROVE  TurnsInv'
  <2> DEFINE q == Promoted(registry, v, e)
  <2>1. /\ UNCHANGED <<registry, epochs, active>>
        /\ pc' = [pc EXCEPT ![s] = "registry_open"]
        /\ doc' = [doc EXCEPT ![s] = q]
        /\ name' = [name EXCEPT ![s] = e]
        /\ draft' = [draft EXCEPT ![s] = draft'[s]]
        /\ registry # Blank
    BY <1>5, <1>a DEF PromoteChallenger, RegistryLoads
  <2>2. /\ Len(q.promotions) > 0
        /\ q.promotions[Len(q.promotions)].from = registry.champion
        /\ q.promotions[Len(q.promotions)].to = q.champion
        /\ OnRecord(q, e)
        /\ \A f \in Epochs : OnRecord(registry, f) => OnRecord(q, f)
    <3> DEFINE new == [from |-> registry.champion, to |-> v.id, epoch |-> e]
    <3>1. /\ Len(q.promotions) > 0
          /\ q.promotions[Len(q.promotions)] = new
          /\ q.champion = v.id
          /\ OnRecord(q, e)
          /\ \A f \in Epochs : OnRecord(registry, f) => OnRecord(q, f)
      BY <1>c, <2>1, PromotedIsRecorded
    <3>2. new.from = registry.champion /\ new.to = v.id
      OBVIOUS
    <3> HIDE DEF q, new
    <3> QED  BY <3>1, <3>2
  <2> HIDE DEF q
  <2>3. ASSUME ~overlapped' PROVE TurnsTaken'
    <3>1. TurnsTaken /\ \A t \in Sessions \ {s} : pc[t] = "idle" /\ pc'[t] = "idle"
      BY <1>5, <1>a, <2>1, <2>3, OneAtWork
    <3>2. doc'[s] = q /\ name'[s] = e
      BY <1>a, <2>1
    <3>3. ReadyToSave(s)'
      BY <1>b, <2>1, <2>2, <3>1, <3>2 DEF ReadyToSave, TurnsTaken
    <3> QED  BY <1>a, <2>1, <3>1, <3>3 DEF TurnsTaken
  <2> QED  BY <1>b, <1>d, <2>1, <2>3 DEF Taken
<1>6. ASSUME TurnsNext, NEW s \in Sessions, RegistryOpen(s)
      PROVE  TurnsInv'
  <2>1. /\ UNCHANGED <<epochs, doc, name, draft, active>>
        /\ pc[s] = "registry_open" /\ pc' = [pc EXCEPT ![s] = "registry_flush"]
        /\ registry' = Blank
    BY <1>6 DEF RegistryOpen
  <2>2. ASSUME ~overlapped' PROVE TurnsTaken'
    <3>1. TurnsTaken /\ \A t \in Sessions \ {s} : pc[t] = "idle" /\ pc'[t] = "idle"
      BY <1>6, <1>a, <2>1, <2>2, OneAtWork
    <3>2. ReadyToSave(s)'
      BY <2>1, <3>1 DEF TurnsTaken, ReadyToSave
    <3> QED  BY <1>a, <2>1, <3>1, <3>2 DEF TurnsTaken
  <2> QED  BY <1>d, <2>1, <2>2 DEF Taken
<1>7. ASSUME TurnsNext, NEW s \in Sessions, RegistryFlush(s)
      PROVE  TurnsInv'
  <2>1. /\ UNCHANGED epochs
        /\ pc[s] = "registry_flush" /\ pc' = [pc EXCEPT ![s] = pc'[s]]
        /\ pc'[s] \in {"idle", "epoch_open"}
        /\ pc'[s] = "epoch_open" =>
             name[s] # NoEpoch /\ UNCHANGED <<name, draft>>
        /\ \A t \in Sessions \ {s} :
             doc'[t] = doc[t] /\ name'[t] = name[t] /\ draft'[t] = draft[t]
        /\ registry' = doc[s] /\ active' = doc[s].champion
    BY <1>7, <1>a DEF RegistryFlush, Finish
  <2>2. ASSUME ~overlapped' PROVE TurnsTaken'
    <3>1. TurnsTaken /\ \A t \in Sessions \ {s} : pc[t] = "idle" /\ pc'[t] = "idle"
      BY <1>7, <1>a, <2>1, <2>2, OneAtWork
    <3>2. ReadyToSave(s)
      BY <2>1, <3>1 DEF TurnsTaken
    <3> QED  BY <1>a, <2>1, <3>1, <3>2 DEF TurnsTaken, ReadyToSave
  <2> QED  BY <1>d, <2>1, <2>2 DEF Taken
<1>8. ASSUME TurnsNext, NEW s \in Sessions, EpochOpen(s)
      PROVE  TurnsInv'
  <2>1. /\ UNCHANGED <<registry, doc, name, draft, active>>
        /\ pc[s] = "epoch_open" /\ pc' = [pc EXCEPT ![s] = "epoch_flush"]
        /\ epochs' = [epochs EXCEPT ![name[s]] = Blank]
    BY <1>8 DEF EpochOpen
  <2>2. ASSUME ~overlapped' PROVE TurnsTaken'
    <3>1. TurnsTaken /\ \A t \in Sessions \ {s} : pc[t] = "idle" /\ pc'[t] = "idle"
      BY <1>8, <1>a, <2>1, <2>2, OneAtWork
    <3>2. \A e \in Epochs : Marked(epochs'[e]) => Marked(epochs[e])
      BY <1>a, <2>1 DEF Marked
    <3> QED  BY <1>a, <2>1, <3>1, <3>2 DEF TurnsTaken
  <2> QED  BY <1>b, <1>d, <2>1, <2>2 DEF Taken
<1>9. ASSUME TurnsNext, NEW s \in Sessions, Crash(s)
      PROVE  TurnsInv'
  <2>1. /\ UNCHANGED <<registry, epochs, active>>
        /\ pc[s] # "idle" /\ pc' = [pc EXCEPT ![s] = "idle"]
    BY <1>9 DEF Crash, Finish
  <2>2. ASSUME ~overlapped' PROVE TurnsTaken'
    <3>1. TurnsTaken /\ \A t \in Sessions \ {s} : pc[t] = "idle" /\ pc'[t] = "idle"
      BY <1>9, <1>a, <2>1, <2>2, OneAtWork
    <3> QED  BY <1>a, <2>1, <3>1 DEF TurnsTaken
  <2> QED  BY <1>b, <1>d, <2>1, <2>2 DEF Taken
<1>10. ASSUME TurnsNext, NEW o \in Objectives, SetObjective(o)
       PROVE  TurnsInv'
  <2>1. UNCHANGED <<registry, epochs, sessions, active>>
    BY <1>10 DEF SetObjective
  <2> QED  BY <1>10, <2>1 DEF TurnsNext, TurnsInv, TurnsTaken, ReadyToSave
<1>11. ASSUME TurnsNext, NEW e \in Epochs, DoctorEpoch(e)
       PROVE  TurnsInv'
  <2>1. UNCHANGED <<registry, sessions, active>>
    BY <1>11 DEF DoctorEpoch
  <2>2. \A f \in Epochs : Marked(epochs'[f]) => Marked(epochs[f])
    <3>1. epochs' = [epochs EXCEPT ![e] = epochs'[e]] /\ epochs'[e].status = "proposed"
      <4>1. epochs[e] \in EpochFiles
        BY <1>11, <1>a DEF DoctorEpoch
      <4> QED  BY <1>11, <1>a, <4>1 DEF DoctorEpoch, EpochFiles
    <3> QED  BY <1>a, <3>1 DEF Marked
  <2> QED  BY <1>11, <2>1, <2>2 DEF TurnsNext, TurnsInv, TurnsTaken, ReadyToSave
<1>12. CASE UNCHANGED <<vars, overlapped>>
  BY <1>12 DEF vars, TurnsInv, TurnsTaken, ReadyToSave
<1> QED
  BY <1>1, <1>2, <1>3, <1>4, <1>5, <1>6, <1>7, <1>8, <1>9, <1>10, <1>11, <1>12
  DEF TurnsNext, Next, Session

(* The champion on file changes only when a session saves the registry it   *)
(* was ready to save.                                                       *)
LEMMA ChangeIsRecorded ==
  ASSUME RegistryInv, TurnsInv, [TurnsNext]_<<vars, overlapped>>
  PROVE  active' # active /\ ~overlapped' =>
           LET p == registry'.promotions
           IN  /\ Len(p) > 0
               /\ p[Len(p)].from = active
               /\ p[Len(p)].to = active'
<1> SUFFICES ASSUME active' # active, ~overlapped'
             PROVE  LET p == registry'.promotions
                    IN  /\ Len(p) > 0
                        /\ p[Len(p)].from = active
                        /\ p[Len(p)].to = active'
  OBVIOUS
<1>1. TurnsNext
  BY DEF vars
<1>2. PICK s \in Sessions : RegistryFlush(s)
  BY <1>1 DEF TurnsNext, Next, Session, StudyChampion, CreateEpoch, EpochFlush,
       RegisterChallenger, PromoteChallenger, RegistryOpen, EpochOpen, Crash,
       SetObjective, DoctorEpoch
<1>3. ReadyToSave(s)
  <2>1. TurnsTaken
    BY <1>1 DEF TurnsInv, TurnsNext
  <2> QED  BY <1>2, <2>1 DEF RegistryFlush, At, TurnsTaken
<1>4. registry' = doc[s] /\ active' = doc[s].champion
  BY <1>2 DEF RegistryFlush
<1> QED  BY <1>3, <1>4 DEF ReadyToSave

(* As long as no two commands overlap, wherever a session stopped: no epoch *)
(* is ahead of the registry, and the champion changes with its record only. *)
THEOREM TurnsAreRecorded == TurnsSpec => TurnsKeepRecord
<1> DEFINE Both == RegistryInv /\ TurnsInv
<1>1. TurnsInit => Both
  BY InitRegistry, InitTurns DEF TurnsInit
<1>2. Both /\ [TurnsNext]_<<vars, overlapped>> => Both'
  <2>1. [TurnsNext]_<<vars, overlapped>> => [Next]_vars
    BY DEF TurnsNext
  <2> QED  BY <2>1, RegistryStep, TurnsStep
<1>3. Both => overlapped \/ PromotedIsOnRecord
  BY DEF TurnsInv, TurnsTaken, PromotedIsOnRecord, Marked, OnRecord
<1>4. Both /\ [TurnsNext]_<<vars, overlapped>> =>
        [active' # active /\ ~overlapped' =>
           LET p == registry'.promotions
           IN  /\ Len(p) > 0
               /\ p[Len(p)].from = active
               /\ p[Len(p)].to = active']_<<vars, overlapped>>
  BY ChangeIsRecorded
<1> HIDE DEF Both
<1> QED  BY <1>1, <1>2, <1>3, <1>4, PTL DEF TurnsSpec, TurnsKeepRecord
=============================================================================
