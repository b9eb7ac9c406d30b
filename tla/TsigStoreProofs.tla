--------------------------- MODULE TsigStoreProofs ---------------------------
(***************************************************************************)
(* Proofs about TsigStore, for any names, secrets, zones and saves.        *)
(***************************************************************************)
EXTENDS TsigStore, TLAPS

\* The tasks of delayed saves are neither nothing nor the main thread.
TaskNames == None \notin Tasks /\ "main" \notin Tasks

SaveTypes ==
  /\ enqueued \in Tasks \cup {None}
  /\ tasks \in [Tasks -> {"free", "asleep", "awake", "saving"}]
  /\ DOMAIN saving = Savers

\* The task that is enqueued has yet to take its snapshot, one that writes has taken
\* it and is no longer the one enqueued.
EnqueuedWaits ==
  /\ enqueued # None => tasks[enqueued] \in {"asleep", "awake"}
  /\ \A t \in Tasks : saving[t] # None => tasks[t] = "saving"

SaveInv == SaveTypes /\ EnqueuedWaits /\ SaveIsComing

LEMMA InitInv == Init => SaveInv
BY DEF Init, SaveInv, SaveTypes, EnqueuedWaits, SaveIsComing, Savers

(* After a change a save is enqueued: the one that was, or a new one. *)
LEMMA DirtyIsEnqueued ==
  ASSUME TaskNames, SaveInv, MarkDirty, UNCHANGED saving
  PROVE  /\ SaveTypes' /\ EnqueuedWaits'
         /\ enqueued' # None /\ tasks'[enqueued'] \in {"asleep", "awake"}
<1>1. CASE enqueued # None
  <2>1. UNCHANGED <<enqueued, tasks>>
    BY <1>1 DEF MarkDirty
  <2> QED BY <1>1, <2>1 DEF SaveInv, SaveTypes, EnqueuedWaits
<1>2. CASE enqueued = None
  <2>1. PICK t \in Tasks : /\ tasks[t] = "free"
                           /\ tasks' = [tasks EXCEPT ![t] = "asleep"]
                           /\ enqueued' = t
    BY <1>2 DEF MarkDirty
  <2> QED BY <2>1 DEF TaskNames, SaveInv, SaveTypes, EnqueuedWaits
<1> QED BY <1>1, <1>2

LEMMA ChangeInv == ASSUME TaskNames, SaveInv, NEW m, Change(m) PROVE SaveInv'
<1>1. MarkDirty /\ UNCHANGED saving
  BY DEF Change
<1> QED BY <1>1, DirtyIsEnqueued DEF SaveInv, SaveIsComing

LEMMA StepInv == ASSUME TaskNames, SaveInv, [Next]_vars PROVE SaveInv'
<1> USE DEF SaveInv, SaveTypes, EnqueuedWaits, SaveIsComing
<1>1. ASSUME NEW n \in Names, NEW new \in Material, NEW replace \in BOOLEAN,
             Put(n, new, replace)
      PROVE  SaveInv'
  BY <1>1, ChangeInv DEF Put
<1>2. ASSUME NEW n \in Names, Remove(n) PROVE SaveInv'
  BY <1>2, ChangeInv DEF Remove
<1>3. CASE ReloadRead
  BY <1>3 DEF ReloadRead
<1>4. CASE ReloadApply
  BY <1>4, ChangeInv DEF ReloadApply
<1>5. ASSUME NEW n \in Names, NEW z \in Zones, Depend(n, z) PROVE SaveInv'
  BY <1>5 DEF Depend
<1>6. ASSUME NEW t \in Tasks, Wake(t) PROVE SaveInv'
  BY <1>6 DEF Wake
<1>7. ASSUME NEW t \in Tasks, Snapshot(t) PROVE SaveInv'
  <2>1. CASE enqueued = t
    <3>1. /\ enqueued' = None /\ unsaved' = FALSE
          /\ saving' = [saving EXCEPT ![t] = Build(map)]
          /\ tasks' = [tasks EXCEPT ![t] = "saving"]
      BY <1>7, <2>1 DEF Snapshot, TakenOff
    <3> QED BY <3>1
  <2>2. CASE enqueued # t
    BY <1>7, <2>2 DEF Snapshot
  <2> QED BY <2>1, <2>2
<1>8. ASSUME NEW s \in Savers, Write(s) PROVE SaveInv'
  <2>1. saving' = [saving EXCEPT ![s] = None] /\ UNCHANGED <<enqueued, unsaved>>
        /\ saving[s] # None
    BY <1>8 DEF Write
  <2>2. CASE s = "main"
    BY <1>8, <2>1, <2>2 DEF Write, TaskNames
  <2>3. CASE s # "main"
    <3>1. s \in Tasks /\ tasks' = [tasks EXCEPT ![s] = "free"] /\ tasks[s] = "saving"
      BY <1>8, <2>1, <2>3 DEF Write, Savers
    <3>2. s # enqueued
      BY <3>1 DEF TaskNames
    <3> QED BY <2>1, <3>1, <3>2
  <2> QED BY <2>2, <2>3
<1>9. CASE SaveNow
  <2>1. /\ enqueued' = None /\ unsaved' = FALSE
        /\ saving' = [saving EXCEPT !["main"] = Build(map)]
        /\ tasks' = IF enqueued # None /\ tasks[enqueued] = "asleep"
                    THEN [tasks EXCEPT ![enqueued] = "free"] ELSE tasks
    BY <1>9 DEF SaveNow
  <2>2. \A t \in Tasks : saving'[t] = saving[t] /\ (tasks[t] = "saving" => tasks'[t] = "saving")
    BY <2>1 DEF TaskNames
  <2> QED BY <2>1, <2>2
<1>10. CASE Start
  BY <1>10 DEF Start
<1>11. CASE End
  BY <1>11 DEF End, Savers
<1>12. CASE Edit
  BY <1>12 DEF Edit
<1>13. CASE UNCHANGED vars
  BY <1>13 DEF vars
<1> QED BY <1>1, <1>2, <1>3, <1>4, <1>5, <1>6, <1>7, <1>8, <1>9, <1>10, <1>11, <1>12, <1>13
        DEF Next

(* What changed after the last snapshot has a save that has yet to take its own, *)
(* for any number of saves that sleep, wake, lose the race and write.            *)
THEOREM ChangesGetSaved == ASSUME TaskNames PROVE Spec => []SaveIsComing
<1>1. SaveInv /\ [Next]_vars => SaveInv'
  BY StepInv
<1>2. SaveInv => SaveIsComing
  BY DEF SaveInv
<1> QED BY <1>1, <1>2, InitInv, PTL DEF Spec

(* No operation on the store, and no reload of whatever file, takes a key away   *)
(* that zones depend on.                                                         *)
THEOREM NoUsedKeyIsLost == Spec => UsedKeysStay
<1>1. ASSUME [Next]_vars, NEW n \in DOMAIN map, map[n].zones # {}, phase = phase'
      PROVE  n \in DOMAIN map'
  <2>1. ASSUME NEW m \in Names, NEW new \in Material, NEW replace \in BOOLEAN,
               Put(m, new, replace)
        PROVE  n \in DOMAIN map'
    BY <2>1 DEF Put, Change
  <2>2. ASSUME NEW m \in Names, Remove(m) PROVE n \in DOMAIN map'
    BY <1>1, <2>2 DEF Remove, Change
  <2>3. CASE ReloadApply
    <3>1. map' = Parse(loaded, map)
      BY <2>3 DEF ReloadApply, Change
    <3>2. DOMAIN map' = DOMAIN loaded \cup Kept(loaded, map)
      BY <3>1 DEF Parse
    <3> QED BY <1>1, <3>2 DEF Kept
  <2>4. ASSUME NEW m \in Names, NEW z \in Zones, Depend(m, z) PROVE n \in DOMAIN map'
    BY <2>4 DEF Depend
  <2>5. ASSUME NEW t \in Tasks, Wake(t) \/ Snapshot(t) PROVE n \in DOMAIN map'
    BY <2>5 DEF Wake, Snapshot
  <2>6. ASSUME NEW s \in Savers, Write(s) PROVE n \in DOMAIN map'
    BY <2>6 DEF Write
  <2>7. CASE ReloadRead \/ SaveNow \/ Edit \/ UNCHANGED vars
    BY <2>7 DEF ReloadRead, SaveNow, Edit, vars
  <2>8. CASE Start \/ End
    BY <1>1, <2>8 DEF Start, End
  <2> QED BY <1>1, <2>1, <2>2, <2>3, <2>4, <2>5, <2>6, <2>7, <2>8 DEF Next
<1>2. [Next]_vars =>
        [\A n \in DOMAIN map : map[n].zones # {} /\ phase = phase' => n \in DOMAIN map']_vars
  BY <1>1
<1> QED BY <1>2, PTL DEF Spec, UsedKeysStay
(***************************************************************************)
(* The types of the store and of its file.                                 *)
(***************************************************************************)

(* A map of names is one whose domain is a set of names. *)
LEMMA NamedMaps ==
  ASSUME NEW S, NEW m
  PROVE  m \in Named(S) <=> DOMAIN m \subseteq Names /\ m \in [DOMAIN m -> S]
BY DEF Named

(* What is saved of a store is a file, and what is read from one a store. *)
LEMMA BuiltIsAFile == ASSUME NEW m \in Named(Key) PROVE Build(m) \in Named(Material)
<1>1. DOMAIN m \subseteq Names /\ m \in [DOMAIN m -> Key]
  BY NamedMaps
<1>2. \A n \in DOMAIN m : [alg |-> m[n].inner.alg, data |-> m[n].material] \in Material
  BY <1>1 DEF Key, Material
<1>3. DOMAIN Build(m) = DOMAIN m /\ Build(m) \in [DOMAIN m -> Material]
  BY <1>2 DEF Build
<1> QED BY <1>1, <1>3, NamedMaps

LEMMA ParsedIsAStore ==
  ASSUME NEW spec \in Named(Material), NEW m \in Named(Key)
  PROVE  Parse(spec, m) \in Named(Key)
<1>1. /\ DOMAIN m \subseteq Names /\ m \in [DOMAIN m -> Key]
      /\ DOMAIN spec \subseteq Names /\ spec \in [DOMAIN spec -> Material]
  BY NamedMaps
<1>2. \A n \in DOMAIN spec : Parsed(spec[n]) \in Key
  BY <1>1 DEF Parsed, Key, Material
<1>3. \A n \in DOMAIN spec : n \in DOMAIN m => ParseInto(spec[n], m[n]) \in Key
  BY <1>1 DEF ParseInto, Key
<1>4. Kept(spec, m) \subseteq DOMAIN m
  BY DEF Kept
<1>5. DOMAIN Parse(spec, m) = DOMAIN spec \cup Kept(spec, m)
  BY DEF Parse
<1>6. ASSUME NEW n \in DOMAIN spec \cup Kept(spec, m) PROVE Parse(spec, m)[n] \in Key
  BY <1>1, <1>2, <1>3, <1>4, <1>6 DEF Parse
<1>7. Parse(spec, m) \in [DOMAIN Parse(spec, m) -> Key]
  BY <1>5, <1>6 DEF Parse
<1> QED BY <1>1, <1>4, <1>5, <1>7, NamedMaps

LEMMA EmptyMaps == ASSUME NEW S PROVE NoKeys \in Named(S)
BY NamedMaps DEF NoKeys

LEMMA InitTypes == Init => TypeOK
<1>1. NoKeys \in Named(Key)
  BY EmptyMaps
<1> QED BY <1>1 DEF Init, TypeOK

(* A change leaves a store behind if it was given one. *)
LEMMA ChangeTypes ==
  ASSUME TypeOK, NEW m \in Named(Key), Change(m), loaded' \in {loaded, None}
  PROVE  TypeOK'
<1>1. /\ enqueued' \in Tasks \cup {None}
      /\ tasks' \in [Tasks -> {"free", "asleep", "awake", "saving"}]
  BY DEF Change, MarkDirty, TypeOK
<1>2. unsaved' \in BOOLEAN
  BY DEF Change, TypeOK
<1> QED BY <1>1, <1>2 DEF Change, TypeOK

LEMMA StepTypes ==
  ASSUME TypeOK, DOMAIN saving = Savers, [Next]_vars
  PROVE  TypeOK'
<1>0. Build(map) \in Named(Material)
  BY BuiltIsAFile DEF TypeOK
<1>01. DOMAIN map \subseteq Names /\ map \in [DOMAIN map -> Key]
  BY NamedMaps DEF TypeOK
<1>1. ASSUME NEW n \in Names, NEW new \in Material, NEW replace \in BOOLEAN,
             Put(n, new, replace)
      PROVE  TypeOK'
  <2> DEFINE key(x) == IF x # n THEN map[x]
                       ELSE [inner |-> new, material |-> new.data,
                             zones |-> IF n \in DOMAIN map THEN map[n].zones ELSE {}]
             m == [x \in DOMAIN map \cup {n} |-> key(x)]
  <2>1. Change(m) /\ loaded' = loaded
    BY <1>1 DEF Put
  <2>2. \A x \in DOMAIN map \cup {n} : key(x) \in Key
    BY <1>01 DEF Key, Material
  <2>3. m \in [DOMAIN m -> Key] /\ DOMAIN m \subseteq Names
    BY <1>01, <2>2
  <2>4. m \in Named(Key)
    BY <2>3, NamedMaps
  <2> HIDE DEF m
  <2> QED BY <2>1, <2>4, ChangeTypes
<1>2. ASSUME NEW n \in Names, Remove(n) PROVE TypeOK'
  <2> DEFINE m == [x \in DOMAIN map \ {n} |-> map[x]]
  <2>1. Change(m) /\ loaded' = loaded
    BY <1>2 DEF Remove
  <2>2. m \in [DOMAIN m -> Key] /\ DOMAIN m \subseteq Names
    BY <1>01
  <2>3. m \in Named(Key)
    BY <2>2, NamedMaps
  <2> HIDE DEF m
  <2> QED BY <2>1, <2>3, ChangeTypes
<1>3. CASE ReloadRead
  BY <1>3 DEF ReloadRead, TypeOK
<1>4. CASE ReloadApply
  <2>1. Change(Parse(loaded, map)) /\ loaded' = None /\ loaded \in Named(Material)
    BY <1>4 DEF ReloadApply, TypeOK
  <2>2. Parse(loaded, map) \in Named(Key)
    BY <2>1, ParsedIsAStore DEF TypeOK
  <2> QED BY <2>1, <2>2, ChangeTypes
<1>5. ASSUME NEW n \in Names, NEW z \in Zones, Depend(n, z) PROVE TypeOK'
  <2>1. /\ n \in DOMAIN map
        /\ map' = [map EXCEPT ![n].zones = IF z \in @ THEN @ \ {z} ELSE @ \cup {z}]
        /\ UNCHANGED <<enqueued, tasks, saving, file, loaded, phase, unsaved>>
    BY <1>5 DEF Depend
  <2>2. map' \in [DOMAIN map -> Key] /\ DOMAIN map' = DOMAIN map
    BY <1>01, <2>1 DEF Key
  <2>3. map' \in Named(Key)
    BY <1>01, <2>2, NamedMaps
  <2> QED BY <2>1, <2>3 DEF TypeOK
<1>6. ASSUME NEW t \in Tasks, Wake(t) PROVE TypeOK'
  BY <1>6 DEF Wake, TypeOK
<1>7. ASSUME NEW t \in Tasks, Snapshot(t) PROVE TypeOK'
  <2>1. /\ enqueued' \in {enqueued, None} /\ unsaved' \in {unsaved, FALSE}
        /\ saving' \in {saving, [saving EXCEPT ![t] = Build(map)]}
        /\ tasks' \in [Tasks -> {"free", "asleep", "awake", "saving"}]
        /\ UNCHANGED <<map, file, loaded, phase>>
    BY <1>7 DEF Snapshot, TakenOff, TypeOK
  <2>2. \A s \in Savers : saving'[s] \in {saving[s], Build(map)}
    BY <2>1
  <2> QED BY <1>0, <2>1, <2>2 DEF TypeOK
<1>8. ASSUME NEW s \in Savers, Write(s) PROVE TypeOK'
  <2>1. /\ saving[s] \in Named(Material)
        /\ saving' = [saving EXCEPT ![s] = None]
        /\ file' \in {file, saving[s]}
        /\ UNCHANGED <<map, enqueued, loaded, unsaved>>
    BY <1>8 DEF Write, TypeOK
  <2>2. /\ phase' \in {phase, "ending"}
        /\ tasks' \in [Tasks -> {"free", "asleep", "awake", "saving"}]
    BY <1>8 DEF Write, TypeOK
  <2>3. \A x \in Savers : saving'[x] \in {saving[x], None}
    BY <2>1
  <2> QED BY <2>1, <2>2, <2>3 DEF TypeOK
<1>9. CASE SaveNow
  <2>1. /\ enqueued' = None /\ unsaved' = FALSE /\ phase' = "stopping"
        /\ saving' = [saving EXCEPT !["main"] = Build(map)]
        /\ tasks' \in [Tasks -> {"free", "asleep", "awake", "saving"}]
        /\ UNCHANGED <<map, file, loaded>>
    BY <1>9 DEF SaveNow, TypeOK
  <2>2. \A s \in Savers : saving'[s] \in {saving[s], Build(map)}
    BY <2>1
  <2> QED BY <1>0, <2>1, <2>2 DEF TypeOK
<1>10. CASE Start
  <2>1. NoKeys \in Named(Key)
    BY EmptyMaps
  <2>2. file # None => Parse(file, NoKeys) \in Named(Key)
    BY <2>1, ParsedIsAStore DEF TypeOK
  <2> QED BY <1>10, <2>1, <2>2 DEF Start, TypeOK
<1>11. CASE End
  <2>1. NoKeys \in Named(Key)
    BY EmptyMaps
  <2> QED BY <1>11, <2>1 DEF End, TypeOK
<1>12. CASE Edit
  BY <1>12 DEF Edit, TypeOK
<1>13. CASE UNCHANGED vars
  BY <1>13 DEF vars, TypeOK
<1> QED BY <1>1, <1>2, <1>3, <1>4, <1>5, <1>6, <1>7, <1>8, <1>9, <1>10, <1>11, <1>12, <1>13
        DEF Next

(* Whatever is put into the store, read from the file or merged from it, the store *)
(* holds whole keys under names, and what is written of it is a whole file.        *)
THEOREM KeysAndFilesAreWhole == ASSUME TaskNames PROVE Spec => []TypeOK
<1>1. SaveInv => DOMAIN saving = Savers
  BY DEF SaveInv, SaveTypes
<1>2. SaveInv /\ TypeOK /\ [Next]_vars => SaveInv' /\ TypeOK'
  BY <1>1, StepInv, StepTypes
<1> QED BY <1>2, InitInv, InitTypes, PTL DEF Spec

=============================================================================
