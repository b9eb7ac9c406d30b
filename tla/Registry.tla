------------------------------ MODULE Registry ------------------------------
(***************************************************************************)
(* What Cascade knows of its zones and policies, and how it keeps that      *)
(* over crashes and restarts.  Center.state lists the zones and, for each   *)
(* policy, the zones using it; each zone object holds the policy it uses.   *)
(* There is a file for the former and a file per zone for the latter.  A    *)
(* change enqueues a save of what it changed: a task that sleeps, builds    *)
(* the file's contents under the lock, and writes them without it.  When    *)
(* the process is told to stop, its units are terminated and everything is  *)
(* saved once more, one file after the other, but the HTTP server and the   *)
(* delayed saves go on beside that to the last.                             *)
(* Policies are named only: nothing reloads them once the process is up     *)
(* (the request for it is still to be written), nor sets mid_deletion.      *)
(***************************************************************************)
EXTENDS Naturals

CONSTANTS
  Zones,        \* the zones an operator may add
  Policies,     \* the policies there may be
  None,         \* no policy
  Missing,      \* no file
  LeftOver,     \* what zone files may hold that a former process left, without a state file
  Clients,      \* the clients of the HTTP API; each makes one request at a time
  Panics,       \* what a panic does: "unwind" (dev profile), "abort" (release profile)
  MaxRequests,  \* bound: HTTP requests, over all lives of the process
  MaxStarts,    \* bound: starts of the process
  MaxCrashes,   \* bound: crashes
  MaxSlips      \* bound: writes that fail or are begun out of turn, per life

ASSUME RegistryAssumption ==
  /\ None \notin Policies
  /\ Missing \notin Policies \cup {None}
  /\ LeftOver \subseteq Policies \cup {None, Missing}
  /\ Panics \subseteq {"unwind", "abort"}
  /\ MaxRequests \in Nat /\ MaxStarts \in Nat /\ MaxCrashes \in Nat
  /\ MaxSlips \in Nat

VARIABLES
  zones,          \* Center.state.zones
  made,           \* how many objects were made for a zone: the last is the zone's
  policyOf,       \* ZoneState.policy of a zone's object
  policies,       \* the keys of Center.state.policies
  users,          \* Policy.zones: the zones listed as using a policy
  stateEnqueued,  \* State.enqueued_save is set
  enqueued,       \* the zone objects whose ZoneState.enqueued_save is set
  poisoned,       \* a panic happened under the lock of Center.state
  client          \* how far the handler of each client's request is

VARIABLES
  phase,          \* of the process: see Phase
  left,           \* the zones that the process has yet to save as it stops
  stateWrites,    \* contents built for the state file, being written, and by whom
  zoneWrites      \* zones with the contents being written to their files, and by whom

\* The disk.  Files are replaced as a whole (util.rs, write_file).
VARIABLES
  stateFile,      \* the state file
  zoneFile        \* the file of each zone: a policy, None or Missing

\* Bounds, and history read by the properties alone.
VARIABLES
  spent,          \* requests, starts and crashes so far
  lost,           \* writes that failed in this life of the process
  overlaps,       \* writes begun in it while one of the same file was still to end,
                  \* or an older one still to begin
  meanwhile,      \* zones removed once the last save of the state had been built
  born,           \* how this life began: from scratch or from the state file
  clean           \* the last stop was orderly, all its writes succeeded, in turn

memory  == <<zones, made, policyOf, policies, users>>
saves   == <<stateEnqueued, enqueued>>
writing == <<stateWrites, zoneWrites>>
disk    == <<stateFile, zoneFile>>
process == <<phase, left, lost, overlaps, meanwhile, born, clean>>
vars == <<memory, saves, poisoned, client, writing, disk, process, spent>>

\* Stopping is "closing" until the last state file is built, "persisting" until it is
\* written and the zones to save are listed, then "saving" these.
Phase == {"down", "up", "closing", "persisting", "saving", "stopped", "refused"}
Stopping == phase \in {"closing", "persisting", "saving"}
Live == phase = "up" \/ Stopping

Contents == [there : BOOLEAN, zones : SUBSET Zones, policies : SUBSET Policies]
NoState  == [there |-> FALSE, zones |-> {}, policies |-> {}]
Current  == [there |-> TRUE, zones |-> zones, policies |-> policies]

\* A write under way is one of a delayed save's task or of the main thread as it stops.
Writer == {"task", "main"}
StateWrite == [by : Writer, what : Contents]
ZoneWrite  == [by : Writer, zone : Zones, policy : Policies \cup {None}]

\* A zone removed and added again has another object.
Object(z) == <<z, made[z]>>

Idle == [at |-> "idle"]

Init ==
  /\ zones = {}
  /\ made = [z \in Zones |-> 0]
  /\ policyOf = [z \in Zones |-> None]
  /\ policies = {}
  /\ users = [p \in Policies |-> {}]
  /\ stateEnqueued = FALSE
  /\ enqueued = {}
  /\ poisoned = FALSE
  /\ client = [c \in Clients |-> Idle]
  /\ stateWrites = {}
  /\ zoneWrites = {}
  /\ left = {}
  /\ lost = 0
  /\ overlaps = 0
  /\ meanwhile = {}
  /\ born = "scratch"
  /\ phase = "down"
  /\ stateFile = NoState
  /\ zoneFile \in [Zones -> LeftOver]
  /\ spent = [requests |-> 0, starts |-> 0, crashes |-> 0]
  /\ clean = TRUE

\* The process ends on the spot, with all it knew and what it was writing.
Die ==
  /\ zones' = {}
  /\ made' = [z \in Zones |-> 0]
  /\ policyOf' = [z \in Zones |-> None]
  /\ policies' = {}
  /\ users' = [p \in Policies |-> {}]
  /\ stateEnqueued' = FALSE
  /\ enqueued' = {}
  /\ poisoned' = FALSE
  /\ client' = [c \in Clients |-> Idle]
  /\ stateWrites' = {}
  /\ zoneWrites' = {}
  /\ left' = {}
  /\ lost' = 0
  /\ overlaps' = 0
  /\ meanwhile' = {}
  /\ born' = "scratch"
  /\ phase' = "down"
  /\ clean' = FALSE
  /\ UNCHANGED disk

\* A request's handler panics under the lock of the state.  What it leaves half
\* done is behind a poisoned lock, which nobody gets past again.
Panic(c) ==
  \/ /\ "unwind" \in Panics
     /\ poisoned' = TRUE
     /\ client' = [client EXCEPT ![c] = Idle]
     /\ UNCHANGED <<memory, saves, writing, disk, process>>
  \/ "abort" \in Panics /\ Die
-----------------------------------------------------------------------------
(***************************************************************************)
(* Requests.  A poisoned lock fails them before they change anything.      *)
(***************************************************************************)

Request ==
  /\ Live /\ ~poisoned
  /\ spent.requests < MaxRequests
  /\ spent' = [spent EXCEPT !.requests = @ + 1]

\* Mutants: a save that is being written counts as enqueued; the new object of a
\* zone is not told from the old one.
EnqueueStateUnlessWriting == stateEnqueued \/ stateWrites = {}
EnqueueUnlessWriting(o) == IF zoneWrites = {} THEN enqueued \cup {o} ELSE enqueued
SameObject(z) == made[z]

\* mark_dirty of the state and of a zone: nothing to do when a save is enqueued.
EnqueueState == TRUE
Enqueue(o) == enqueued \cup {o}
NextObject(z) == made[z] + 1

\* POST /zone/add, of zone z with policy p: add_zone.  Whether or not the zone was
\* there, the handler goes on to change_policy.
AddZone(c, z, p) ==
  /\ client[c] = Idle
  /\ Request
  /\ \/ /\ z \in zones
        /\ client' = [client EXCEPT ![c] = [at |-> "policy", zone |-> z, policy |-> p]]
        /\ UNCHANGED <<memory, saves, poisoned, writing, disk, process>>
     \/ /\ z \notin zones
        /\ phase = "up"
        /\ zones' = zones \cup {z}
        /\ made' = [made EXCEPT ![z] = NextObject(z)]
        /\ policyOf' = [policyOf EXCEPT ![z] = None]
        /\ stateEnqueued' = EnqueueState
        /\ client' = [client EXCEPT ![c] =
             [at |-> "mark", zone |-> z, policy |-> p, object |-> <<z, NextObject(z)>>]]
        /\ UNCHANGED <<policies, users, enqueued, poisoned, writing, disk, process>>
     \* The change cannot be sent to the central command, which has stopped.
     \/ z \notin zones /\ phase # "up" /\ Panic(c)

\* ... then, under the lock of the new object, its first save is enqueued, whether
\* or not the zone still is in the state ...
MarkZone(c) ==
  /\ Live /\ ~poisoned
  /\ client[c].at = "mark"
  /\ enqueued' = Enqueue(client[c].object)
  /\ client' = [client EXCEPT ![c] =
       [at |-> "policy", zone |-> client[c].zone, policy |-> client[c].policy]]
  /\ UNCHANGED <<memory, stateEnqueued, poisoned, writing, disk, process, spent>>

\* Mutants: the zone is not taken off its policy's list, not put on it.
StillLinked(z) == users
NotLinked(us, z, p) == us

\* The lists of users without a zone, and with it under a policy.
Unlinked(z) ==
  [p \in Policies |-> IF p = policyOf[z] THEN users[p] \ {z} ELSE users[p]]
Linked(us, z, p) == [us EXCEPT ![p] = @ \cup {z}]

\* What the assertions on "consistent" zones and policies demand of a zone.
Consistent(z) ==
  policyOf[z] # None => policyOf[z] \in policies /\ z \in users[policyOf[z]]

\* ... and change_policy, of whatever object the zone has by now.
ChangePolicy(c) ==
  LET z == client[c].zone
      p == client[c].policy
  IN
  /\ Live /\ ~poisoned
  /\ client[c].at = "policy"
  /\ UNCHANGED spent
  /\ \/ /\ z \notin zones \/ p \notin policies
        /\ client' = [client EXCEPT ![c] = Idle]
        /\ UNCHANGED <<memory, saves, poisoned, writing, disk, process>>
     \/ /\ z \in zones /\ p \in policies
        /\ Consistent(z)
        /\ phase = "up"
        /\ users' = Linked(Unlinked(z), z, p)
        /\ policyOf' = [policyOf EXCEPT ![z] = p]
        /\ enqueued' = Enqueue(Object(z))
        /\ client' = [client EXCEPT ![c] = Idle]
        /\ UNCHANGED <<zones, made, policies, stateEnqueued, poisoned, writing, disk, process>>
     \/ /\ z \in zones /\ p \in policies
        /\ ~Consistent(z) \/ phase # "up"
        /\ Panic(c)

\* POST /zone/<z>/remove: remove_zone announces the removal before it takes the lock ...
RemoveZone(c, z) ==
  /\ client[c] = Idle
  /\ phase = "up"
  /\ Request
  /\ client' = [client EXCEPT ![c] = [at |-> "remove", zone |-> z]]
  /\ UNCHANGED <<memory, saves, poisoned, writing, disk, process>>

\* ... and then takes the zone, if it is there, be the process stopping by now.  The
\* state is saved only if the zone had a policy, and the zone's file stays.
TakeZone(c) ==
  LET z == client[c].zone IN
  /\ Live /\ ~poisoned
  /\ client[c].at = "remove"
  /\ UNCHANGED spent
  /\ \/ /\ z \notin zones
        /\ client' = [client EXCEPT ![c] = Idle]
        /\ UNCHANGED <<memory, saves, poisoned, writing, disk, process>>
     \/ /\ z \in zones /\ Consistent(z)
        /\ zones' = zones \ {z}
        /\ users' = Unlinked(z)
        /\ policyOf' = [policyOf EXCEPT ![z] = None]
        /\ stateEnqueued' = IF policyOf[z] = None THEN stateEnqueued ELSE EnqueueState
        /\ client' = [client EXCEPT ![c] = Idle]
        /\ meanwhile' = IF phase \in {"persisting", "saving"}
                        THEN meanwhile \cup {z} ELSE meanwhile
        /\ UNCHANGED <<made, policies, enqueued, poisoned, writing, disk, phase, left,
                       lost, overlaps, born, clean>>
     \/ z \in zones /\ ~Consistent(z) /\ Panic(c)

\* While the process stops, the request panics before it takes the lock, which only
\* matters when that ends the process.
RemoveTooLate(c) ==
  /\ client[c] = Idle
  /\ phase # "up"
  /\ Request
  /\ "abort" \in Panics
  /\ Die
-----------------------------------------------------------------------------
(***************************************************************************)
(* Delayed saves.  A task woken to a poisoned lock panics, without effect. *)
(***************************************************************************)

MaySlip == lost + overlaps < MaxSlips

\* A write that is begun in turn, and one that is not.
Begun(inTurn) ==
  \/ inTurn /\ overlaps' = overlaps
  \/ ~inTurn /\ MaySlip /\ overlaps' = overlaps + 1

\* What is known is built into contents for the state file, to be written by b.
BuildState(b) ==
  /\ stateEnqueued' = FALSE
  /\ stateWrites' = stateWrites \cup {[by |-> b, what |-> Current]}
  /\ Begun(stateWrites = {})

\* The task of State::mark_dirty wakes, takes itself off, and builds its contents.
WakeState ==
  /\ Live /\ ~poisoned
  /\ stateEnqueued
  /\ BuildState("task")
  /\ UNCHANGED <<memory, enqueued, poisoned, client, zoneWrites, disk, phase, left,
                 lost, meanwhile, born, clean, spent>>

\* What a zone object holds; one that was removed had its policy taken.
Held(o) == IF o = Object(o[1]) THEN policyOf[o[1]] ELSE None

\* Nothing older is yet to be written to the file of object o's zone, nor enqueued.
Older(e, o) == e[1] = o[1] /\ e[2] < o[2]
InTurn(o) ==
  /\ \A w \in zoneWrites : w.zone # o[1]
  /\ \A e \in enqueued : ~Older(e, o)
  /\ \A c \in Clients : client[c].at = "mark" => ~Older(client[c].object, o)

\* Likewise the contents of the file of object o's zone.
BuildZone(b, o) ==
  /\ enqueued' = enqueued \ {o}
  /\ zoneWrites' = zoneWrites \cup {[by |-> b, zone |-> o[1], policy |-> Held(o)]}
  /\ Begun(InTurn(o))

\* The task of Zone::mark_dirty.
WakeZone(o) ==
  /\ Live /\ ~poisoned
  /\ o \in enqueued
  /\ BuildZone("task", o)
  /\ UNCHANGED <<memory, stateEnqueued, poisoned, client, stateWrites, disk, phase, left,
                 lost, meanwhile, born, clean, spent>>

\* A write replaces the file, or fails: then an error is logged, and that is all.
Written == lost' = lost
NotWritten == MaySlip /\ lost' = lost + 1

LandState(w) ==
  /\ Live
  /\ w \in stateWrites
  /\ stateWrites' = stateWrites \ {w}
  /\ \/ Written /\ stateFile' = w.what
     \/ NotWritten /\ UNCHANGED stateFile
  /\ UNCHANGED <<memory, saves, poisoned, client, zoneWrites, zoneFile, phase, left,
                 overlaps, meanwhile, born, clean, spent>>

LandZone(w) ==
  /\ Live
  /\ w \in zoneWrites
  /\ zoneWrites' = zoneWrites \ {w}
  /\ \/ Written /\ zoneFile' = [zoneFile EXCEPT ![w.zone] = w.policy]
     \/ NotWritten /\ UNCHANGED zoneFile
  /\ UNCHANGED <<memory, saves, poisoned, client, stateWrites, stateFile, phase, left,
                 overlaps, meanwhile, born, clean, spent>>
-----------------------------------------------------------------------------
(***************************************************************************)
(* The life of the process                                                 *)
(***************************************************************************)

Begin(from) ==
  /\ phase \in {"down", "stopped"}
  /\ spent.starts < MaxStarts
  /\ spent' = [spent EXCEPT !.starts = @ + 1]
  /\ phase' = "up"
  /\ born' = from
  /\ lost' = 0
  /\ overlaps' = 0
  /\ meanwhile' = {}
  /\ poisoned' = FALSE
  /\ stateEnqueued' = FALSE
  /\ enqueued' = {}
  /\ client' = [c \in Clients |-> Idle]
  /\ users' = [p \in Policies |-> {}]
  /\ UNCHANGED <<left, clean, writing, disk>>

\* There is no state file: start without zones, with the policies that the policy
\* directory now has.
StartFromScratch(present) ==
  /\ Begin("scratch")
  /\ ~stateFile.there
  /\ zones' = {}
  /\ made' = [z \in Zones |-> 0]
  /\ policyOf' = [z \in Zones |-> None]
  /\ policies' = present

\* Mutant: a policy only a zone's file knows of is not restored.
PoliciesOfStateFile == stateFile.policies

\* The policies after a load: those listed, and those that zones use nevertheless.
RestoredPolicies ==
  stateFile.policies \cup ({zoneFile[z] : z \in stateFile.zones} \ {None})

\* The zones are those listed, each with the policy of its file.  No policy lists a
\* zone: neither parse nor parse_into restores that.
StartFromFile ==
  /\ Begin("file")
  /\ stateFile.there
  /\ \A z \in stateFile.zones : zoneFile[z] # Missing
  /\ zones' = stateFile.zones
  /\ made' = [z \in Zones |-> IF z \in stateFile.zones THEN 1 ELSE 0]
  /\ policyOf' = [z \in Zones |-> IF z \in stateFile.zones THEN zoneFile[z] ELSE None]
  /\ policies' = RestoredPolicies

\* A zone listed without a file of its own: the process exits, now and every time.
StartRefused ==
  /\ phase \in {"down", "stopped"}
  /\ spent.starts < MaxStarts
  /\ stateFile.there
  /\ \E z \in stateFile.zones : zoneFile[z] = Missing
  /\ phase' = "refused"
  /\ UNCHANGED <<memory, saves, poisoned, client, writing, disk, left, lost,
                 overlaps, meanwhile, born, clean, spent>>

\* SIGINT: the units are terminated, the central command first.
Stop ==
  /\ phase = "up"
  /\ phase' = "closing"
  /\ UNCHANGED <<memory, saves, poisoned, client, writing, disk, left, lost,
                 overlaps, meanwhile, born, clean, spent>>

\* Mutants: no zone is saved when the process stops, or only those with a save enqueued.
NoZoneToSave == {}
ZonesWithSave == {z \in zones : Object(z) \in enqueued}

\* The zones to save in the end: all there are.
ZonesToSave == zones

\* What the main thread writes itself it waits for.
MainWrites == (\E w \in stateWrites : w.by = "main") \/ (\E w \in zoneWrites : w.by = "main")

\* state::save_now: whatever delayed save is being written goes on beside it.
SaveNow ==
  /\ phase = "closing" /\ ~poisoned
  /\ BuildState("main")
  /\ phase' = "persisting"
  /\ UNCHANGED <<memory, enqueued, poisoned, client, zoneWrites, disk, left, lost,
                 meanwhile, born, clean, spent>>

\* Once that is written (and the TSIG keys are saved), the list of the zones to save.
ListZones ==
  /\ phase = "persisting" /\ ~MainWrites /\ ~poisoned
  /\ left' = ZonesToSave
  /\ phase' = "saving"
  /\ UNCHANGED <<memory, saves, poisoned, client, writing, disk, lost, overlaps,
                 meanwhile, born, clean, spent>>

\* zone::save_state_now, of one zone of the list after the other.
SaveStateNow(z) ==
  /\ phase = "saving" /\ ~MainWrites /\ ~poisoned
  /\ z \in left
  /\ left' = left \ {z}
  /\ BuildZone("main", Object(z))
  /\ UNCHANGED <<memory, stateEnqueued, poisoned, client, stateWrites, disk, phase, lost,
                 meanwhile, born, clean, spent>>

\* The lock is poisoned: the main thread panics when it is to take it again.
SaveFails ==
  /\ phase \in {"closing", "persisting"} \/ (phase = "saving" /\ left # {})
  /\ ~MainWrites
  /\ poisoned
  /\ UNCHANGED spent
  /\ Die

\* The runtime waits for handlers and saves that are running, not for tasks that sleep.
\* (With a poisoned lock the handlers have panicked.)
Exit ==
  /\ phase = "saving" /\ left = {}
  /\ stateWrites = {} /\ zoneWrites = {}
  /\ poisoned \/ \A c \in Clients : client[c] = Idle
  /\ phase' = "stopped"
  /\ clean' = (lost = 0 /\ overlaps = 0)
  /\ UNCHANGED <<memory, saves, poisoned, client, writing, disk, left, lost, overlaps,
                 meanwhile, born, spent>>

Crash ==
  /\ Live
  /\ spent.crashes < MaxCrashes
  /\ spent' = [spent EXCEPT !.crashes = @ + 1]
  /\ Die
-----------------------------------------------------------------------------
Handle(c) == MarkZone(c) \/ ChangePolicy(c) \/ TakeZone(c)

HttpServer ==
  \E c \in Clients :
    \/ \E z \in Zones, p \in Policies : AddZone(c, z, p)
    \/ \E z \in Zones : RemoveZone(c, z)
    \/ RemoveTooLate(c)
    \/ Handle(c)

WakeFor(z) == \E o \in enqueued : o[1] = z /\ WakeZone(o)
LandFor(z) == \E w \in zoneWrites : w.zone = z /\ LandZone(w)

Saving ==
  \/ WakeState \/ \E w \in stateWrites : LandState(w)
  \/ \E z \in Zones : WakeFor(z) \/ LandFor(z)

Main ==
  \/ \E present \in SUBSET Policies : StartFromScratch(present)
  \/ StartFromFile \/ StartRefused
  \/ Stop \/ SaveNow \/ ListZones \/ (\E z \in left : SaveStateNow(z))
  \/ SaveFails \/ Exit

Next == HttpServer \/ Saving \/ Main \/ Crash

Spec == Init /\ [][Next]_vars

\* The runtime runs every task that can run, and its timers expire.
Fairness ==
  /\ \A c \in Clients : WF_vars(Handle(c))
  /\ \A z \in Zones : WF_vars(WakeFor(z)) /\ WF_vars(LandFor(z))

FairSpec == Spec /\ Fairness
-----------------------------------------------------------------------------
(***************************************************************************)
(* Properties                                                              *)
(***************************************************************************)

Handler ==
  {Idle} \cup [at : {"mark"}, zone : Zones, policy : Policies, object : Zones \X Nat]
         \cup [at : {"policy"}, zone : Zones, policy : Policies]
         \cup [at : {"remove"}, zone : Zones]

MadeObject(o) == \E z \in Zones : \E n \in 1 .. made[z] : o = <<z, n>>

\* Every variable has its type, every zone has an object, and a save is only ever
\* enqueued, or about to be, for an object that was made.
TypeOK ==
  /\ zones \subseteq Zones
  /\ made \in [Zones -> Nat]
  /\ policyOf \in [Zones -> Policies \cup {None}]
  /\ policies \subseteq Policies
  /\ users \in [Policies -> SUBSET Zones]
  /\ stateEnqueued \in BOOLEAN
  /\ \A z \in zones : MadeObject(Object(z))
  /\ \A o \in enqueued : MadeObject(o)
  /\ poisoned \in BOOLEAN
  /\ client \in [Clients -> Handler]
  /\ \A c \in Clients : client[c].at = "mark" => MadeObject(client[c].object)
  /\ phase \in Phase
  /\ left \subseteq Zones
  /\ stateWrites \subseteq StateWrite
  /\ zoneWrites \subseteq ZoneWrite
  /\ stateFile \in Contents
  /\ zoneFile \in [Zones -> Policies \cup {None, Missing}]
  /\ spent \in [requests : Nat, starts : Nat, crashes : Nat]
  /\ lost \in Nat /\ overlaps \in Nat
  /\ meanwhile \subseteq Zones
  /\ born \in {"scratch", "file"}
  /\ clean \in BOOLEAN

\* A policy never lists a zone that is not there or uses another policy, in whatever
\* order zones are added, moved between policies, removed, and restored by a restart
\* ("The zones using this policy.", policy/mod.rs:28).
NoPhantomUsers ==
  \A p \in Policies : \A z \in users[p] : z \in zones /\ policyOf[z] = p

\* The policy of a zone is always among the policies, also when the state file that a
\* restart loads is older than the zone's file: remove_zone and change_policy expect
\* it ("every zone policy exists", center.rs:97).
KnownPolicies == \A z \in zones : policyOf[z] \in policies \cup {None}

\* As long as a process was started from scratch, the assertions of remove_zone and
\* change_policy hold (center.rs:99, zone/mod.rs:231), whatever requests interleave.
ScratchLifeConsistent == born = "scratch" => \A z \in zones : Consistent(z)

\* The same of any process, which is what the assertions say and the comment on
\* Policy.zones.
AlwaysConsistent == \A z \in zones : Consistent(z)

\* A zone that was added is on disk once no save of the state is enqueued or under
\* way, unless a write failed or was overtaken: mark_dirty forgets no addition, also
\* not one that comes while a save is being written (center.rs:177).
AddedIsListed ==
  phase = "up" /\ ~poisoned /\ ~stateEnqueued /\ stateWrites = {} /\ lost = 0 /\ overlaps = 0
    => zones \subseteq stateFile.zones

\* Likewise for the policy of a zone and the zone's file, which the saves of its
\* predecessors of the same name are written to as well (zone/mod.rs:112).
ZoneFilesSettle ==
  phase = "up" /\ ~poisoned /\ lost = 0 /\ overlaps = 0 =>
    \A z \in zones :
      \/ zoneFile[z] = policyOf[z]
      \/ \E o \in enqueued : o[1] = z
      \/ \E w \in zoneWrites : w.zone = z
      \/ \E c \in Clients : client[c].at = "mark" /\ client[c].object = Object(z)

\* When the process has stopped in order, the files hold what it knew, although its
\* HTTP server and its delayed saves went on beside the last saves (main.rs:186): all
\* that may be out of date is that the state file still lists zones that were removed
\* after it was built.  (Unless a write failed or another one overtook it.)
StoppedIsSaved ==
  phase = "stopped" /\ lost = 0 /\ overlaps = 0 =>
    /\ zones \subseteq stateFile.zones /\ stateFile.zones \subseteq zones \cup meanwhile
    /\ stateFile.there /\ stateFile.policies = policies
    /\ \A z \in zones : zoneFile[z] = policyOf[z]

\* What an orderly stop leaves on disk, the next start accepts (main.rs:91): it misses
\* the file of no zone but such as were removed beside the last saves.
CleanStopRestarts ==
  phase = "refused" /\ clean => \E z \in stateFile.zones \cap meanwhile : zoneFile[z] = Missing

\* Again and again every zone's file holds the zone's policy, unless the process stops or
\* panics, or a write fails or is overtaken; so the policy that the last request leaves
\* gets there (mark_dirty: "it will be saved in the near future").
PolicyReachesDisk ==
  \A z \in Zones : []<>
    \/ z \notin zones \/ zoneFile[z] = policyOf[z]
    \/ phase # "up" \/ poisoned \/ lost > 0 \/ overlaps > 0

\* Without a crash, a process that was told to stop saves its state and exits
\* ("Persist the current state.", main.rs:186).
StopPersists == [][Stopping => Stopping' \/ phase' = "stopped"]_vars
=============================================================================
