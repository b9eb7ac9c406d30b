------------------------------ MODULE TsigStore ------------------------------
(***************************************************************************)
(* The store of TSIG keys: its operations, its delayed saves, its file.    *)
(*                                                                         *)
(* Every operation takes the lock of the global state for its whole body,  *)
(* so it is one step; a save takes its snapshot under the lock and writes  *)
(* it afterwards, and a reload reads the file before it takes the lock:    *)
(* those are two steps.  Nothing in the repository calls the operations    *)
(* yet, so they may come in any order, as may zones that start and stop to *)
(* depend on a key.  The five seconds a save waits are left out.           *)
(***************************************************************************)
EXTENDS FiniteSets

CONSTANTS
  Names,   \* names of keys
  Algs,    \* algorithms
  Datas,   \* secrets
  Zones,   \* zones that may depend on a key
  Tasks,   \* bound: the delayed saves that exist at a time
  None

Material == [alg : Algs, data : Datas]             \* what makes a key, and an entry of the file
Key      == [inner : Material, material : Datas, zones : SUBSET Zones]
Named(S) == UNION {[N -> S] : N \in SUBSET Names}  \* the maps from names to S

VARIABLES
  map,       \* the keys in memory
  enqueued,  \* enqueued_save: the task of the next save
  tasks,     \* the tasks of the delayed saves
  saving,    \* the snapshot each saver is about to write
  file,      \* the file; None: there is none
  loaded,    \* what a reload read from the file and has not applied yet
  phase      \* of the process

\* History, read by the properties alone.
VARIABLE unsaved  \* the entries to save changed since the last snapshot

vars == <<map, enqueued, tasks, saving, file, loaded, phase, unsaved>>

Savers == Tasks \cup {"main"}
NoKeys == [n \in {} |-> None]

Init ==
  /\ map = NoKeys /\ enqueued = None
  /\ tasks = [t \in Tasks |-> "free"]
  /\ saving = [s \in Savers |-> None]
  /\ file = None
  /\ loaded = None
  /\ phase = "down"
  /\ unsaved = FALSE

(***************************************************************************)
(* The file.                                                               *)
(***************************************************************************)

\* KeySpec::build takes the algorithm from the key proper, the secret from the
\* copy that is kept beside it.
Build(m) == [n \in DOMAIN m |-> [alg |-> m[n].inner.alg, data |-> m[n].material]]

Parsed(entry) == [inner |-> entry, material |-> entry.data, zones |-> {}]

\* Merging an entry into a key replaces the key proper only.
ParseInto(entry, key) == [key EXCEPT !.inner = entry]

\* Mutant: a key that is not in the file is forgotten.
KeptNone(spec, m) == {}

\* Keys missing in the file survive while zones depend on them.
Kept(spec, m) == {n \in DOMAIN m \ DOMAIN spec : m[n].zones # {}}

Parse(spec, m) ==
  [n \in DOMAIN spec \cup Kept(spec, m) |->
     IF n \notin DOMAIN spec THEN m[n]
     ELSE IF n \in DOMAIN m THEN ParseInto(spec[n], m[n])
     ELSE Parsed(spec[n])]

(***************************************************************************)
(* The operations.                                                         *)
(***************************************************************************)

\* A change enqueues a save unless there is one.
MarkDirty ==
  IF enqueued # None
  THEN UNCHANGED <<enqueued, tasks>>
  ELSE \E t \in Tasks : /\ tasks[t] = "free"
                        /\ tasks' = [tasks EXCEPT ![t] = "asleep"]
                        /\ enqueued' = t

Change(m) ==
  /\ phase = "up"
  /\ map' = m
  /\ unsaved' = (unsaved \/ Build(m) # Build(map))
  /\ MarkDirty
  /\ UNCHANGED <<saving, file, phase>>

\* Importing and generating a key differ in where the secret comes from.
Put(n, new, replace) ==
  /\ n \in DOMAIN map => replace
  /\ Change([x \in DOMAIN map \cup {n} |->
               IF x # n THEN map[x]
               ELSE [inner |-> new, material |-> new.data,
                     zones |-> IF n \in DOMAIN map THEN map[n].zones ELSE {}]])
  /\ UNCHANGED loaded

Remove(n) ==
  /\ n \in DOMAIN map
  /\ map[n].zones = {}
  /\ Change([x \in DOMAIN map \ {n} |-> map[x]])
  /\ UNCHANGED loaded

\* A reload reads the file first ...
ReloadRead ==
  /\ phase = "up" /\ loaded = None /\ file # None
  /\ loaded' = file
  /\ UNCHANGED <<map, enqueued, tasks, saving, file, phase, unsaved>>

\* ... and merges what it read into whatever the store holds by then.
ReloadApply ==
  /\ loaded # None
  /\ Change(Parse(loaded, map))
  /\ loaded' = None

\* Zones depend on a key or cease to; the set is a public field.
Depend(n, z) ==
  /\ phase = "up" /\ n \in DOMAIN map
  /\ map' = [map EXCEPT ![n].zones = IF z \in @ THEN @ \ {z} ELSE @ \cup {z}]
  /\ UNCHANGED <<enqueued, tasks, saving, file, loaded, phase, unsaved>>

(***************************************************************************)
(* Saving.                                                                 *)
(***************************************************************************)

Wake(t) ==
  /\ tasks[t] = "asleep"
  /\ tasks' = [tasks EXCEPT ![t] = "awake"]
  /\ UNCHANGED <<map, enqueued, saving, file, loaded, phase, unsaved>>

\* Mutant: the task stays enqueued when it takes its snapshot.
LeftOn(t) == t

\* Under the lock a task takes itself off as the enqueued save.
TakenOff(t) == None

Snapshot(t) ==
  /\ tasks[t] = "awake"
  /\ IF enqueued = t
     THEN /\ enqueued' = TakenOff(t)
          /\ saving' = [saving EXCEPT ![t] = Build(map)]
          /\ tasks' = [tasks EXCEPT ![t] = "saving"]
          /\ unsaved' = FALSE
     ELSE /\ tasks' = [tasks EXCEPT ![t] = "free"]   \* lost the race
          /\ UNCHANGED <<enqueued, saving, unsaved>>
  /\ UNCHANGED <<map, file, loaded, phase>>

\* Writing replaces the file as a whole, or fails and leaves it alone.
Write(s) ==
  /\ saving[s] # None
  /\ file' \in {file, saving[s]}
  /\ saving' = [saving EXCEPT ![s] = None]
  /\ IF s = "main"
     THEN phase' = "ending" /\ UNCHANGED tasks
     ELSE tasks' = [tasks EXCEPT ![s] = "free"] /\ UNCHANGED phase
  /\ UNCHANGED <<map, enqueued, loaded, unsaved>>

\* On a clean stop: a sleeping save is stopped, one that is awake can no longer be.
SaveNow ==
  /\ phase = "up"
  /\ phase' = "stopping"
  /\ tasks' = IF enqueued # None /\ tasks[enqueued] = "asleep"
              THEN [tasks EXCEPT ![enqueued] = "free"] ELSE tasks
  /\ enqueued' = None
  /\ saving' = [saving EXCEPT !["main"] = Build(map)]
  /\ unsaved' = FALSE
  /\ UNCHANGED <<map, file, loaded>>

(***************************************************************************)
(* The process and the world.                                              *)
(***************************************************************************)

Start ==
  /\ phase = "down"
  /\ map' = IF file = None THEN NoKeys ELSE Parse(file, NoKeys)
  /\ phase' = "up"
  /\ UNCHANGED <<enqueued, tasks, saving, file, loaded, unsaved>>

\* The process ends, at the end of a clean stop or at any other moment.
End ==
  /\ phase # "down"
  /\ map' = NoKeys /\ enqueued' = None /\ loaded' = None
  /\ tasks' = [t \in Tasks |-> "free"]
  /\ saving' = [s \in Savers |-> None]
  /\ phase' = "down" /\ unsaved' = FALSE
  /\ UNCHANGED file

\* The administrator edits the file.
Edit ==
  /\ file' \in Named(Material) \ {file}
  /\ UNCHANGED <<map, enqueued, tasks, saving, loaded, phase, unsaved>>

Next ==
  \/ \E n \in Names, new \in Material, replace \in BOOLEAN : Put(n, new, replace)
  \/ \E n \in Names : Remove(n)
  \/ ReloadRead
  \/ ReloadApply
  \/ \E n \in Names, z \in Zones : Depend(n, z)
  \/ \E t \in Tasks : Wake(t) \/ Snapshot(t)
  \/ \E s \in Savers : Write(s)
  \/ SaveNow
  \/ Start
  \/ End
  \/ Edit

Spec == Init /\ [][Next]_vars

(***************************************************************************)
(* Properties.                                                             *)
(***************************************************************************)

TypeOK ==
  /\ map \in Named(Key)
  /\ enqueued \in Tasks \cup {None}
  /\ tasks \in [Tasks -> {"free", "asleep", "awake", "saving"}]
  /\ \A s \in Savers : saving[s] \in Named(Material) \cup {None}
  /\ file \in Named(Material) \cup {None}
  /\ loaded \in Named(Material) \cup {None}
  /\ phase \in {"down", "up", "stopping", "ending"}
  /\ unsaved \in BOOLEAN

(* While the daemon runs, what changed after the last snapshot has a save that *)
(* has yet to take its own: no change slips in between a save that is about to *)
(* end and the flag that says one is enqueued.                                 *)
SaveIsComing ==
  unsaved => enqueued # None /\ tasks[enqueued] \in {"asleep", "awake"}

(* A key that zones depend on leaves the store only with the process: not when *)
(* it is removed, nor when a reload no longer finds it in the file.            *)
UsedKeysStay ==
  [][\A n \in DOMAIN map :
       map[n].zones # {} /\ phase = phase' => n \in DOMAIN map']_vars

=============================================================================
