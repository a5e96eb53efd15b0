----------------------- MODULE LearningRecordsProofs ------------------------
(* For any number of sessions, records, counters and commands: a record    *)
(* whose save returned stands, no reader passes over one, and an export in *)
(* its place is complete.                                                  *)
EXTENDS LearningRecords, TLAPS

Guarded == Records \cup Drivers

(* Functions and the places of sessions. *)
Typed ==
  /\ DOMAIN disk = Paths /\ DOMAIN kept = Paths
  /\ DOMAIN pc = Sessions /\ DOMAIN path = Sessions /\ DOMAIN text = Sessions
  /\ DOMAIN rest = Sessions /\ DOMAIN todo = Sessions
  /\ DOMAIN got = Sessions /\ DOMAIN owed = Sessions
  /\ \A s \in Sessions : path[s] \in Paths

(* What files hold, and what sessions are about to write. *)
Bodied ==
  /\ \A p \in Guarded : disk[p] \in Bodies[p[1]] \cup {Absent, Empty, Mixed}
  /\ \A s \in Sessions : pc[s] \in {"write", "probe", "rescore"} /\ path[s] \in Guarded
                            => text[s] \in Bodies[path[s][1]]
  /\ \A s \in Sessions : pc[s] = "write" => path[s] # Export
  /\ \A s \in Sessions : pc[s] = "probe" => path[s] \in Drivers
  /\ \A s \in Sessions : pc[s] = "rescore" => path[s] \in Records
  /\ \A s \in Sessions : pc[s] = "staged" => text[s] \in Bodies["export"]
  /\ ExportWhole

(* A file created and not yet written belongs to the one session that      *)
(* created it, unless it was opened over.                                  *)
Exclusive ==
  /\ \A p \in Guarded : kept[p] # Nothing => disk[p] # Absent
  /\ \A s \in Sessions : pc[s] = "write" /\ path[s] \notin touched =>
       path[s] \in Guarded /\ disk[path[s]] = Empty /\ kept[path[s]] = Nothing
  /\ \A s, t \in Sessions :
       pc[s] = "write" /\ pc[t] = "write" /\ path[s] = path[t] /\ path[s] \notin touched => s = t

(* What a reader owes is still to be read, or has been read as it stands. *)
Covered(s) ==
  \A p \in owed[s] : p \in todo[s] \/ \E r \in got[s] :
      r[1] = p /\ (p \notin touched => r[2] = kept[p])

Reads ==
  \A s \in Sessions : pc[s] = "read" =>
    /\ rest[s] \in Seq({"corrections", "experiments", "forecasts"})
    /\ \A p \in owed[s] : p \in Records /\ kept[p] # Nothing
    /\ s \notin bad => Covered(s)
    /\ \A r \in got[s] : r[1][1] = "experiments" => Ratified(r[2])

IInv == Typed /\ Bodied /\ Exclusive /\ SavedStand /\ Reads

(* The directories are distinct, so a path has one kind. *)
LEMMA Kinds ==
  /\ Export \in Paths /\ Export \notin Guarded
  /\ Scorecard \in Paths /\ Scorecard \notin Guarded /\ Scorecard # Export
  /\ Guarded \subseteq Paths
  /\ \A p \in Paths : p[1] \in {"corrections", "experiments", "forecasts"} => p \in Records
PROOF
  <1>1. Export \in Paths /\ Scorecard \in Paths /\ Guarded \subseteq Paths /\ Scorecard # Export
    BY DEF Paths, Guarded, Export, Scorecard
  <1>2. Export \notin Records /\ Scorecard \notin Records
    BY DEF Records, Export, Scorecard
  <1>3. \A p \in Drivers : p[1] \in Series
    BY DEF Drivers
  <1>4. Export \notin Drivers /\ Scorecard \notin Drivers
    BY <1>3, RecordsAssumption DEF Export, Scorecard
  <1>5. ASSUME NEW p \in Paths, p[1] \in {"corrections", "experiments", "forecasts"}
        PROVE  p \in Records
    BY <1>3, <1>5, RecordsAssumption DEF Paths, Export, Scorecard
  <1> QED BY <1>1, <1>2, <1>4, <1>5 DEF Guarded

LEMMA BodiesProper ==
  ASSUME NEW p \in Paths, NEW b \in Bodies[p[1]]
  PROVE  b \notin {Absent, Empty, Mixed, Nothing}
PROOF BY RecordsAssumption

LEMMA InitHolds == Init => IInv
PROOF
  <1> SUFFICES ASSUME Init PROVE IInv OBVIOUS
  <1>1. Typed BY Kinds, RecordsAssumption DEF Init, Typed
  <1>2. \A p \in Paths : disk[p] = Absent \/ disk[p] \in Bodies[p[1]]
    BY RecordsAssumption DEF Init
  <1>3. ExportWhole
    BY <1>2, Kinds, BodiesProper, RecordsAssumption DEF ExportWhole
  <1>4. Bodied BY <1>2, <1>3, Kinds DEF Init, Bodied
  <1>5. \A p \in Paths : kept[p] # Nothing => disk[p] # Absent /\ disk[p] = kept[p]
    BY DEF Init
  <1>6. Exclusive BY <1>5, Kinds DEF Init, Exclusive
  <1>7. SavedStand BY <1>5, Kinds DEF SavedStand, Guarded
  <1>8. Reads BY DEF Init, Reads
  <1> QED BY <1>1, <1>4, <1>6, <1>7, <1>8 DEF IInv

(* A step that moves one session on and leaves the files alone. *)
LEMMA Moving ==
  ASSUME IInv, NEW s \in Sessions,
         UNCHANGED <<disk, kept, touched, reading>>,
         DOMAIN pc' = Sessions, DOMAIN path' = Sessions, DOMAIN text' = Sessions,
         \A t \in Sessions \ {s} : pc'[t] = pc[t] /\ path'[t] = path[t] /\ text'[t] = text[t],
         path'[s] \in Paths, pc'[s] \notin {"write", "read"},
         pc'[s] \in {"probe", "rescore"} => text'[s] \in Bodies[path'[s][1]],
         pc'[s] = "probe" => path'[s] \in Drivers,
         pc'[s] = "rescore" => path'[s] \in Records,
         pc'[s] = "staged" => text'[s] \in Bodies["export"]
  PROVE  IInv'
PROOF
  <1>1. Typed' BY DEF IInv, Typed, reading
  <1>2. Bodied' BY DEF IInv, Bodied, ExportWhole
  <1>3. Exclusive' BY DEF IInv, Exclusive
  <1>4. SavedStand' BY DEF IInv, SavedStand
  <1>5. Reads' BY DEF IInv, Reads, Covered, reading
  <1> QED BY <1>1, <1>2, <1>3, <1>4, <1>5 DEF IInv

(* What opening a file leaves of the invariant of the readers. *)
LEMMA ReadsStand ==
  ASSUME Typed, Reads, UNCHANGED <<kept, reading>>, touched \subseteq touched',
         \A t \in Sessions : pc'[t] = "read" => pc[t] = "read"
  PROVE  Reads'
PROOF BY DEF Reads, Covered, reading

(* An exclusive create of a record or a driver snapshot. *)
LEMMA OpeningNew ==
  ASSUME IInv, NEW s \in Sessions, NEW p \in Guarded, NEW body \in Bodies[p[1]],
         OpenNew(s, p, body), UNCHANGED <<kept, reading>>
  PROVE  IInv'
PROOF
  <1> USE DEF OpenNew, Saving
  <1>1. /\ p \in Paths /\ p # Export /\ kept[p] = Nothing
        /\ \A t \in Sessions : pc'[t] = IF t = s THEN "write" ELSE pc[t]
        /\ \A t \in Sessions : path'[t] = IF t = s THEN p ELSE path[t]
        /\ \A t \in Sessions : text'[t] = IF t = s THEN body ELSE text[t]
        /\ \A q \in Paths : disk'[q] = IF q = p THEN Empty ELSE disk[q]
    BY Kinds DEF IInv, Typed, Exclusive
  <1>2. Typed' BY <1>1 DEF IInv, Typed, reading
  <1>3. Bodied' BY <1>1, Kinds DEF IInv, Bodied, ExportWhole
  <1>4. Exclusive'
    <2>1. \A t \in Sessions : pc[t] = "write" /\ path[t] \notin touched => path[t] # p
      BY <1>1, RecordsAssumption DEF IInv, Exclusive
    <2>2. \A q \in Guarded : kept'[q] # Nothing => disk'[q] # Absent
      BY <1>1, Kinds, RecordsAssumption DEF IInv, Exclusive
    <2>3. \A t \in Sessions : pc'[t] = "write" /\ path'[t] \notin touched' =>
             path'[t] \in Guarded /\ disk'[path'[t]] = Empty /\ kept'[path'[t]] = Nothing
      BY <1>1, Kinds DEF IInv, Exclusive
    <2> QED BY <1>1, <2>1, <2>2, <2>3 DEF IInv, Exclusive
  <1>5. SavedStand' BY <1>1, Kinds DEF IInv, SavedStand, Guarded
  <1>6. Reads' BY <1>1, ReadsStand DEF IInv
  <1> QED BY <1>2, <1>3, <1>4, <1>5, <1>6 DEF IInv

(* A file opened over, or the scorecard. *)
LEMMA OpeningOver ==
  ASSUME IInv, NEW s \in Sessions, NEW p \in Guarded \cup {Scorecard}, NEW body,
         p \in Guarded => body \in Bodies[p[1]],
         OpenOver(s, p, body), UNCHANGED <<kept, reading>>
  PROVE  IInv'
PROOF
  <1> USE DEF OpenOver, Saving
  <1>1. /\ p \in Paths /\ p # Export
        /\ \A t \in Sessions : pc'[t] = IF t = s THEN "write" ELSE pc[t]
        /\ \A t \in Sessions : path'[t] = IF t = s THEN p ELSE path[t]
        /\ \A t \in Sessions : text'[t] = IF t = s THEN body ELSE text[t]
        /\ \A q \in Paths : disk'[q] = IF q = p THEN Empty ELSE disk[q]
    BY Kinds DEF IInv, Typed
  <1>2. Typed' BY <1>1 DEF IInv, Typed, reading
  <1>3. Bodied' BY <1>1, Kinds DEF IInv, Bodied, ExportWhole
  <1>4. Exclusive' BY <1>1, Kinds, RecordsAssumption DEF IInv, Exclusive
  <1>5. SavedStand' BY <1>1, Kinds DEF IInv, SavedStand, Guarded
  <1>6. Reads' BY <1>1, ReadsStand DEF IInv
  <1> QED BY <1>2, <1>3, <1>4, <1>5, <1>6 DEF IInv

LEMMA Writing ==
  ASSUME IInv, NEW s \in Sessions, Write(s)
  PROVE  IInv'
PROOF
  <1> DEFINE p == path[s]
  <1> PICK body \in Left(p, text[s]) : disk' = [disk EXCEPT ![p] = body]
    BY DEF Write
  <1>1. /\ p \in Paths /\ p # Export /\ pc[s] = "write"
        /\ touched' = touched /\ UNCHANGED <<path, text, reading>>
        /\ \A t \in Sessions : pc'[t] = IF t = s THEN "idle" ELSE pc[t]
        /\ \A q \in Paths : disk'[q] = IF q = p THEN body ELSE disk[q]
        /\ \A q \in Paths : kept'[q] = IF q = p THEN text[s] ELSE kept[q]
        /\ DOMAIN kept' = Paths /\ DOMAIN disk' = Paths /\ DOMAIN pc' = Sessions
    BY DEF IInv, Typed, Bodied, Write, Idle
  <1>2. p \notin touched => p \in Guarded /\ kept[p] = Nothing /\ body = text[s]
    BY <1>1 DEF IInv, Exclusive, Left
  <1>3. p \in Guarded => body \in Bodies[p[1]] \cup {Mixed} /\ text[s] \in Bodies[p[1]]
    BY <1>1 DEF IInv, Bodied, Left
  <1>4. p \in Guarded => body # Absent /\ text[s] # Nothing
    BY <1>1, <1>3, BodiesProper, RecordsAssumption
  <1> HIDE DEF p
  <1>5. Typed' BY <1>1 DEF IInv, Typed, reading
  <1>6. Bodied' BY <1>1, <1>3, Kinds DEF IInv, Bodied, ExportWhole
  <1>7. Exclusive'
    <2>1. \A q \in Guarded : kept'[q] # Nothing => disk'[q] # Absent
      BY <1>1, <1>4, Kinds DEF IInv, Exclusive
    <2>2. \A t \in Sessions \ {s} : pc[t] = "write" /\ path[t] \notin touched => path[t] # p
      BY <1>1 DEF IInv, Exclusive, p
    <2> QED BY <1>1, <2>1, <2>2, Kinds DEF IInv, Exclusive
  <1>8. SavedStand' BY <1>1, <1>2, Kinds DEF IInv, SavedStand, Guarded
  <1>9. Reads'
    <2> SUFFICES ASSUME NEW t \in Sessions, pc[t] = "read"
                 PROVE  /\ rest[t] \in Seq({"corrections", "experiments", "forecasts"})
                        /\ \A q \in owed[t] : q \in Records /\ kept'[q] # Nothing
                        /\ t \notin bad => Covered(t)'
                        /\ \A r \in got[t] : r[1][1] = "experiments" => Ratified(r[2])
      BY <1>1 DEF Reads, reading
    <2>1. \A q \in owed[t] : q \in Records /\ kept[q] # Nothing
      BY DEF IInv, Reads
    <2>2. \A q \in owed[t] : kept'[q] # Nothing
      BY <1>1, <1>4, <2>1, Kinds DEF Guarded
    <2>3. \A q \in owed[t] : q \notin touched => kept'[q] = kept[q]
      BY <1>1, <1>2, <2>1, Kinds DEF Guarded
    <2>4. t \notin bad => Covered(t)'
      BY <1>1, <2>3 DEF IInv, Reads, Covered, reading
    <2> QED BY <2>1, <2>2, <2>4 DEF IInv, Reads
  <1> QED BY <1>5, <1>6, <1>7, <1>8, <1>9 DEF IInv

LEMMA Beginning ==
  ASSUME IInv, NEW s \in Sessions, NEW command \in Ops, Begin(s, command)
  PROVE  IInv'
PROOF
  <1> USE DEF Begin
  <1>1. \A t \in Sessions : pc'[t] = IF t = s THEN "read" ELSE pc[t]
    BY DEF IInv, Typed
  <1>2. Typed' BY DEF IInv, Typed
  <1>3. Bodied' BY <1>1 DEF IInv, Bodied, ExportWhole
  <1>4. Exclusive' BY <1>1 DEF IInv, Exclusive
  <1>5. SavedStand' BY DEF IInv, SavedStand
  <1>6. Directories(command) \in Seq({"corrections", "experiments", "forecasts"})
    <2>1. CASE command \in {"correction-list", "apply"}
      <3>1. Directories(command) = <<"corrections">> BY <2>1 DEF Directories
      <3> QED BY <3>1
    <2>2. CASE command = "experiment-list"
      <3>1. Directories(command) = <<"experiments">> BY <2>2 DEF Directories
      <3> QED BY <3>1
    <2>3. CASE command = "scorecard-render"
      <3>1. Directories(command) = <<"forecasts">> BY <2>3 DEF Directories
      <3> QED BY <3>1
    <2>4. CASE command = "doctor"
      <3>1. Directories(command) = <<"corrections", "forecasts">> BY <2>4 DEF Directories
      <3> QED BY <3>1
    <2> QED BY <2>1, <2>2, <2>3, <2>4 DEF Ops
  <1>7. Reads' BY <1>1, <1>6 DEF IInv, Typed, Reads, Covered
  <1> QED BY <1>2, <1>3, <1>4, <1>5, <1>7 DEF IInv

LEMMA Listings ==
  ASSUME IInv, NEW s \in Sessions, ListDirectory(s)
  PROVE  IInv'
PROOF
  <1> DEFINE dir == Head(rest[s])
             Kind == {"corrections", "experiments", "forecasts"}
  <1> USE DEF ListDirectory
  <1>1. Typed' BY DEF IInv, Typed
  <1>2. Bodied' BY DEF IInv, Bodied, ExportWhole
  <1>3. Exclusive' BY DEF IInv, Exclusive
  <1>4. SavedStand' BY DEF IInv, SavedStand
  <1>5. rest[s] \in Seq(Kind) /\ rest[s] # <<>>
    BY DEF IInv, Reads
  <1>6. dir \in Kind /\ Tail(rest[s]) \in Seq(Kind)
    BY <1>5
  <1>7. \A p \in Saved(dir) : p \in Records /\ kept[p] # Nothing /\ p \in Listing(dir)
    <2> SUFFICES ASSUME NEW p \in Saved(dir)
                 PROVE  p \in Records /\ kept[p] # Nothing /\ p \in Listing(dir)
      OBVIOUS
    <2>1. p \in Paths /\ p[1] = dir /\ kept[p] # Nothing BY DEF Saved
    <2>2. p \in Records BY <1>6, <2>1, Kinds
    <2>3. disk[p] # Absent BY <2>1, <2>2 DEF IInv, Exclusive, Guarded
    <2> QED BY <2>1, <2>2, <2>3 DEF Listing
  <1>8. Reads'
    <2> SUFFICES ASSUME NEW t \in Sessions, pc[t] = "read"
                 PROVE  /\ rest'[t] \in Seq(Kind)
                        /\ \A q \in owed'[t] : q \in Records /\ kept[q] # Nothing
                        /\ t \notin bad => Covered(t)'
                        /\ \A r \in got[t] : r[1][1] = "experiments" => Ratified(r[2])
      BY DEF Reads
    <2>1. CASE t # s
      <3>1. rest'[t] = rest[t] /\ owed'[t] = owed[t] /\ todo'[t] = todo[t]
        BY <2>1 DEF IInv, Typed
      <3> QED BY <3>1 DEF IInv, Reads, Covered
    <2>2. CASE t = s
      <3>1. /\ rest'[s] = Tail(rest[s]) /\ todo[s] = {} /\ todo'[s] = Listing(dir)
            /\ owed'[s] = owed[s] \cup Saved(dir)
        BY DEF IInv, Typed
      <3>2. s \notin bad => Covered(s)'
        BY <1>7, <2>2, <3>1 DEF IInv, Reads, Covered
      <3>3. \A q \in owed[s] : q \in Records /\ kept[q] # Nothing
        BY <2>2 DEF IInv, Reads
      <3>4. \A r \in got[s] : r[1][1] = "experiments" => Ratified(r[2])
        BY <2>2 DEF IInv, Reads
      <3> QED BY <1>6, <1>7, <2>2, <3>1, <3>2, <3>3, <3>4
    <2> QED BY <2>1, <2>2
  <1> QED BY <1>1, <1>2, <1>3, <1>4, <1>8 DEF IInv

LEMMA Readings ==
  ASSUME IInv, NEW s \in Sessions, ReadFile(s)
  PROVE  IInv'
PROOF
  <1> DEFINE p == Next1(s)
  <1>0. UNCHANGED <<disk, pc, path, text, rest, owed, kept, touched>>
    BY DEF ReadFile
  <1>a. \/ /\ Loads(p, disk[p])
           /\ got' = [got EXCEPT ![s] = @ \cup {<<p, disk[p]>>}]
           /\ todo' = [todo EXCEPT ![s] = @ \ {p}]
           /\ bad' = bad
        \/ /\ bad' = bad \cup {s} /\ got' = got
           /\ \E rem : todo' = [todo EXCEPT ![s] = rem]
    BY DEF ReadFile
  <1> HIDE DEF p
  <1>1. Typed' BY <1>0, <1>a DEF IInv, Typed
  <1>2. Bodied' BY <1>0 DEF IInv, Bodied, ExportWhole
  <1>3. Exclusive' BY <1>0 DEF IInv, Exclusive
  <1>4. SavedStand' BY <1>0 DEF IInv, SavedStand
  <1>5. Reads'
    <2> SUFFICES ASSUME NEW t \in Sessions, pc[t] = "read"
                 PROVE  /\ t \notin bad' => Covered(t)'
                        /\ \A r \in got'[t] : r[1][1] = "experiments" => Ratified(r[2])
      BY <1>0 DEF IInv, Reads
    <2>0. /\ t \notin bad => Covered(t)
          /\ \A r \in got[t] : r[1][1] = "experiments" => Ratified(r[2])
          /\ \A q \in owed[t] : q \in Records /\ kept[q] # Nothing
      BY DEF IInv, Reads
    <2>1. CASE t # s
      <3>1. got'[t] = got[t] /\ todo'[t] = todo[t] /\ (t \in bad' <=> t \in bad)
        BY <1>a, <2>1 DEF IInv, Typed
      <3> QED BY <1>0, <2>0, <3>1 DEF Covered
    <2>2. CASE t = s /\ Loads(p, disk[p]) /\ bad' = bad
                /\ got' = [got EXCEPT ![s] = @ \cup {<<p, disk[p]>>}]
                /\ todo' = [todo EXCEPT ![s] = @ \ {p}]
      <3>1. got'[s] = got[s] \cup {<<p, disk[p]>>} /\ todo'[s] = todo[s] \ {p}
        BY <2>2 DEF IInv, Typed
      <3>2. p[1] = "experiments" => Ratified(disk[p])
        BY <2>2 DEF Loads
      <3>3. \A r \in got'[s] : r[1][1] = "experiments" => Ratified(r[2])
        BY <2>0, <2>2, <3>1, <3>2
      <3>4. p \in owed[s] /\ p \notin touched => disk[p] = kept[p]
        BY <2>0, <2>2 DEF IInv, SavedStand
      <3>5. s \notin bad => Covered(s)'
        <4> SUFFICES ASSUME s \notin bad, NEW q \in owed[s]
                     PROVE  q \in todo'[s] \/ \E r \in got'[s] :
                              r[1] = q /\ (q \notin touched => r[2] = kept[q])
          BY <1>0 DEF Covered
        <4>1. CASE q = p
          <5> DEFINE r == <<p, disk[p]>>
          <5>1. r \in got'[s] /\ r[1] = q /\ r[2] = disk[p] BY <3>1, <4>1
          <5>2. q \notin touched => r[2] = kept[q] BY <3>4, <4>1, <5>1
          <5> QED BY <5>1, <5>2
        <4>2. CASE q # p
          <5>1. q \in todo[s] \/ \E r \in got[s] :
                  r[1] = q /\ (q \notin touched => r[2] = kept[q])
            BY <2>0, <2>2 DEF Covered
          <5> QED BY <3>1, <4>2, <5>1
        <4> QED BY <4>1, <4>2
      <3> QED BY <2>2, <3>3, <3>5
    <2>3. CASE t = s /\ bad' = bad \cup {s} /\ got' = got
      BY <2>0, <2>3
    <2> QED BY <1>a, <2>1, <2>2, <2>3
  <1> QED BY <1>1, <1>2, <1>3, <1>4, <1>5 DEF IInv

(* A file edited by hand is touched, and nothing is claimed of it. *)
LEMMA Editing ==
  ASSUME IInv, NEW p \in Records, NEW body \in Bodies[p[1]], EditByHand(p, body)
  PROVE  IInv'
PROOF
  <1> USE DEF EditByHand
  <1>1. /\ p \in Paths /\ p \in Guarded /\ p # Export /\ body # Absent
        /\ \A q \in Paths : disk'[q] = IF q = p THEN body ELSE disk[q]
    BY Kinds, BodiesProper DEF IInv, Typed, Guarded
  <1>2. Typed' BY DEF IInv, Typed, reading
  <1>3. Bodied' BY <1>1, Kinds DEF IInv, Bodied, ExportWhole
  <1>4. Exclusive' BY <1>1, Kinds DEF IInv, Exclusive
  <1>5. SavedStand' BY <1>1, Kinds DEF IInv, SavedStand, Guarded
  <1>6. Reads' BY ReadsStand DEF IInv
  <1> QED BY <1>2, <1>3, <1>4, <1>5, <1>6 DEF IInv

LEMMA Replacing ==
  ASSUME IInv, NEW s \in Sessions, ReplaceExport(s)
  PROVE  IInv'
PROOF
  <1> USE DEF ReplaceExport, Idle
  <1>1. /\ \A t \in Sessions : pc'[t] = IF t = s THEN "idle" ELSE pc[t]
        /\ \A q \in Paths : disk'[q] = IF q = Export THEN text[s] ELSE disk[q]
        /\ text[s] \in Bodies["export"]
    BY Kinds DEF IInv, Typed, Bodied
  <1>2. text[s] \notin {Empty, Mixed}
    BY <1>1, Kinds, BodiesProper DEF Export
  <1>3. Typed' BY DEF IInv, Typed, reading
  <1>4. Bodied' BY <1>1, <1>2, Kinds DEF IInv, Bodied, ExportWhole
  <1>5. Exclusive' BY <1>1, Kinds DEF IInv, Exclusive
  <1>6. SavedStand' BY <1>1, Kinds DEF IInv, SavedStand, Guarded
  <1>7. Reads' BY <1>1, ReadsStand DEF IInv
  <1> QED BY <1>3, <1>4, <1>5, <1>6, <1>7 DEF IInv

(* Of the session's own steps, those that open a file or read none. *)
LEMMA SessionSteps ==
  ASSUME IInv, NEW s \in Sessions,
         \/ \E p \in Records : \E body \in Bodies[p[1]] : Save(s, p, body) \/ SaveOver(s, p, body)
         \/ \E n \in Forecasts, score \in Scores : ScoreForecast(s, <<"forecasts", n>>, score)
         \/ \E series \in Series : \E body \in Bodies[series] : SaveSeries(s, series, body)
         \/ \E body \in Bodies["export"] : StageExport(s, body)
         \/ SaveScored(s) \/ Probe(s) \/ Report(s) \/ Apply(s) \/ Render(s) \/ Crash(s)
  PROVE  IInv'
PROOF
  <1>1. ASSUME NEW p \in Records, NEW body \in Bodies[p[1]], Save(s, p, body)
        PROVE  IInv'
    BY <1>1, OpeningNew DEF Save, Guarded
  <1>2. ASSUME NEW p \in Records, NEW body \in Bodies[p[1]], SaveOver(s, p, body)
        PROVE  IInv'
    BY <1>2, OpeningOver DEF SaveOver, Guarded
  <1>3. ASSUME NEW n \in Forecasts, NEW score \in Scores,
               ScoreForecast(s, <<"forecasts", n>>, score)
        PROVE  IInv'
    <2> DEFINE p == <<"forecasts", n>>
               scored == [disk[p] EXCEPT !.score = score]
    <2>1. p \in Records /\ p[1] = "forecasts" BY DEF Records
    <2>2. disk[p] \in Bodies["forecasts"]
      BY <1>3, <2>1 DEF IInv, Bodied, Guarded, ScoreForecast, Loads
    <2>3. scored \in Bodies["forecasts"] BY <2>2, RecordsAssumption
    <2>4. /\ pc' = [pc EXCEPT ![s] = "rescore"]
          /\ path' = [path EXCEPT ![s] = p] /\ text' = [text EXCEPT ![s] = scored]
          /\ UNCHANGED <<disk, kept, touched, reading>>
      BY <1>3 DEF ScoreForecast, Saving
    <2> HIDE DEF p, scored
    <2>5. pc'[s] = "rescore" /\ path'[s] = p /\ text'[s] = scored BY <2>4 DEF IInv, Typed
    <2>6. /\ DOMAIN pc' = Sessions /\ DOMAIN path' = Sessions /\ DOMAIN text' = Sessions
          /\ \A t \in Sessions \ {s} :
                pc'[t] = pc[t] /\ path'[t] = path[t] /\ text'[t] = text[t]
      BY <2>4 DEF IInv, Typed
    <2>7. p \in Paths BY <2>1, Kinds DEF Guarded
    <2> QED BY <2>1, <2>3, <2>4, <2>5, <2>6, <2>7, Moving
  <1>4. ASSUME NEW series \in Series, NEW body \in Bodies[series], SaveSeries(s, series, body)
        PROVE  IInv'
    <2> DEFINE p == <<series, 0>>
    <2>1. p \in Drivers /\ p[1] = series BY RecordsAssumption DEF Drivers
    <2>2. /\ pc' = [pc EXCEPT ![s] = "probe"]
          /\ path' = [path EXCEPT ![s] = p] /\ text' = [text EXCEPT ![s] = body]
          /\ UNCHANGED <<disk, kept, touched, reading>>
      BY <1>4 DEF SaveSeries, Saving
    <2> HIDE DEF p
    <2>3. pc'[s] = "probe" /\ path'[s] = p /\ text'[s] = body BY <2>2 DEF IInv, Typed
    <2>4. /\ DOMAIN pc' = Sessions /\ DOMAIN path' = Sessions /\ DOMAIN text' = Sessions
          /\ \A t \in Sessions \ {s} :
                pc'[t] = pc[t] /\ path'[t] = path[t] /\ text'[t] = text[t]
      BY <2>2 DEF IInv, Typed
    <2>5. p \in Paths BY <2>1, Kinds DEF Guarded
    <2> QED BY <1>4, <2>1, <2>2, <2>3, <2>4, <2>5, Moving
  <1>5. ASSUME NEW body \in Bodies["export"], StageExport(s, body)
        PROVE  IInv'
    <2>1. /\ pc' = [pc EXCEPT ![s] = "staged"]
          /\ path' = [path EXCEPT ![s] = Export] /\ text' = [text EXCEPT ![s] = body]
          /\ UNCHANGED <<disk, kept, touched, reading>>
      BY <1>5 DEF StageExport, Saving
    <2>2. pc'[s] = "staged" /\ path'[s] = Export /\ text'[s] = body BY <2>1 DEF IInv, Typed
    <2>3. /\ DOMAIN pc' = Sessions /\ DOMAIN path' = Sessions /\ DOMAIN text' = Sessions
          /\ \A t \in Sessions \ {s} :
                pc'[t] = pc[t] /\ path'[t] = path[t] /\ text'[t] = text[t]
      BY <2>1 DEF IInv, Typed
    <2> QED BY <2>1, <2>2, <2>3, Kinds, Moving
  <1>6. ASSUME SaveScored(s) PROVE IInv'
    <2>1. path[s] \in Records /\ text[s] \in Bodies[path[s][1]]
      BY <1>6 DEF IInv, Bodied, Guarded, SaveScored
    <2> QED BY <1>6, <2>1, OpeningOver DEF SaveScored, Guarded
  <1>7. ASSUME Probe(s) PROVE IInv'
    <2>1. pc[s] = "probe" /\ path[s] \in Drivers /\ text[s] \in Bodies[path[s][1]]
      BY <1>7 DEF IInv, Bodied, Guarded, Probe
    <2>2. UNCHANGED <<kept, reading>> BY <1>7 DEF Probe
    <2>3. CASE OpenNew(s, path[s], text[s])
      BY <2>1, <2>2, <2>3, OpeningNew DEF Guarded
    <2>4. CASE /\ path[s][2] < MaxCounter
               /\ path' = [path EXCEPT ![s][2] = @ + 1]
               /\ UNCHANGED <<disk, pc, text, touched>>
      <3>1. PICK series \in Series, n \in 0..MaxCounter : path[s] = <<series, n>>
        BY <2>1 DEF Drivers
      <3>2. path'[s] = <<series, n + 1>>
        BY <2>4, <3>1 DEF IInv, Typed
      <3>3. path'[s] \in Drivers
        BY <2>4, <3>1, <3>2, RecordsAssumption DEF Drivers
      <3>4. path'[s] \in Paths BY <3>3, Kinds DEF Guarded
      <3>5. text'[s] \in Bodies[path'[s][1]]
        BY <2>1, <2>4, <3>1, <3>2
      <3>6. pc'[s] = "probe"
        BY <2>1, <2>4
      <3>7. /\ DOMAIN pc' = Sessions /\ DOMAIN path' = Sessions /\ DOMAIN text' = Sessions
            /\ \A t \in Sessions \ {s} :
                  pc'[t] = pc[t] /\ path'[t] = path[t] /\ text'[t] = text[t]
        BY <2>4 DEF IInv, Typed
      <3> QED BY <2>2, <2>4, <3>3, <3>4, <3>5, <3>6, <3>7, Moving
    <2> QED BY <1>7, <2>3, <2>4 DEF Probe
  <1>8. ASSUME Report(s) \/ Apply(s) \/ Crash(s) PROVE IInv'
    <2>1. /\ pc' = [pc EXCEPT ![s] = "idle"] /\ UNCHANGED <<path, text>>
          /\ UNCHANGED <<disk, kept, touched, reading>>
      BY <1>8 DEF Report, Apply, Crash, Idle
    <2>2. /\ DOMAIN pc' = Sessions /\ DOMAIN path' = Sessions /\ DOMAIN text' = Sessions
          /\ path'[s] \in Paths /\ pc'[s] = "idle"
          /\ \A t \in Sessions \ {s} :
                pc'[t] = pc[t] /\ path'[t] = path[t] /\ text'[t] = text[t]
      BY <2>1 DEF IInv, Typed
    <2> QED BY <2>1, <2>2, Moving
  <1>9. ASSUME Render(s) PROVE IInv'
    BY <1>9, OpeningOver, Kinds DEF Render
  <1> QED BY <1>1, <1>2, <1>3, <1>4, <1>5, <1>6, <1>7, <1>8, <1>9

LEMMA NextHolds == IInv /\ [Next]_vars => IInv'
PROOF
  <1> SUFFICES ASSUME IInv, [Next]_vars PROVE IInv' OBVIOUS
  <1>1. CASE UNCHANGED vars
    BY <1>1 DEF vars, IInv, Typed, Bodied, ExportWhole, Exclusive, SavedStand, Reads,
                Covered, reading
  <1>2. ASSUME NEW s \in Sessions, NEW command \in Ops, Begin(s, command) PROVE IInv'
    BY <1>2, Beginning
  <1>3. ASSUME NEW s \in Sessions,
               Write(s) \/ ReplaceExport(s) \/ ListDirectory(s) \/ ReadFile(s)
        PROVE  IInv'
    BY <1>3, Writing, Replacing, Listings, Readings
  <1>4. ASSUME NEW p \in Records, NEW body \in Bodies[p[1]], EditByHand(p, body) PROVE IInv'
    BY <1>4, Editing
  <1> QED BY <1>1, <1>2, <1>3, <1>4, SessionSteps DEF Next

LEMMA InvariantSuffices == IInv => RecordsKept
PROOF
  <1> SUFFICES ASSUME IInv PROVE RecordsKept OBVIOUS
  <1>1. ReadingsComplete
    BY DEF IInv, Reads, Covered, ReadingsComplete, Complete
  <1>2. SavedStand /\ ExportWhole
    BY DEF IInv, Bodied
  <1> QED BY <1>1, <1>2 DEF RecordsKept

(* The invariant behind the record keeping: a file that is created and not *)
(* yet written belongs to one session, and what a reader has listed it has *)
(* read as it stands or has still to read.                                 *)
THEOREM RecordsInvariant == Spec => []IInv
PROOF BY InitHolds, NextHolds, PTL DEF Spec

(* Every record whose save returned stands until it is overwritten by name *)
(* or edited, no reader passes over one, and exports are complete.         *)
THEOREM RecordsAreKept == Spec => []RecordsKept
PROOF BY RecordsInvariant, InvariantSuffices, PTL
=============================================================================
