---------------------------- MODULE RefreshProofs ----------------------------
(***************************************************************************)
(* Proofs about zone maintenance: types, locks, the status of a NOTIFY,    *)
(* that no refresh is ever the last, which zones are served before they    *)
(* were filled, what the actors wait for, and what it takes to lose a      *)
(* zone, for any number of zones, refresh tasks and registrations and any  *)
(* room in the channels.                                                   *)
(***************************************************************************)
EXTENDS Refresh, FiniteSetTheorems, TLAPS

(***************************************************************************)
(* Types.                                                                  *)
(***************************************************************************)

\* Between these a task has found the object of its zone.
Found == TaskAt \ {"free", "check", "find"}

SourcesOK ==
  /\ primary \in [Zones -> Serial \ {0}] /\ outage \in BOOLEAN
  /\ spent \in [adds : 0 .. MaxAdds, asks : 0 .. MaxAsks]

ZonesOK ==
  /\ soa \in [Zones -> Seq(Serial)]
  /\ \A z \in Zones : Len(soa[z]) <= spent.adds
  /\ filled \subseteq Zones \X Object /\ expired \subseteq Zones

SetsOK ==
  /\ pending \in Tree /\ tree \in Tree
  /\ \A z \in Zones : pending[z] \in ObjectOf(z) /\ tree[z] \in ObjectOf(z)

TimesOK ==
  /\ tracked \in [Zones -> Status \cup {"no"}]
  /\ timers \in [Zones -> {"none", "refresh", "retry"}]

LoaderOK ==
  /\ loader \in [at : LoaderAt, zone : Zones \cup {None}, object : Object, copy : Tree,
                 event : Event \cup {NoEvent}]
  /\ \A z \in Zones : loader.copy[z] \in ObjectOf(z)
  /\ loader.at # "idle" => loader.zone \in Zones /\ loader.object \in ObjectOf(loader.zone)
  /\ loader.at = "tell" => loader.event \in Event

LoopOK ==
  /\ loop \in [at : LoopAt, zone : Zones \cup {None}, object : Object, copy : Tree]
  /\ \A z \in Zones : loop.copy[z] \in ObjectOf(z)
  /\ loop.at \notin {"idle", "dead"} => loop.zone \in Zones /\ loop.object \in ObjectOf(loop.zone)

TaskOK(k) ==
  /\ k \in [at : TaskAt, zone : Zones \cup {None}, cause : Cause, object : Object,
            waiting : BOOLEAN, own : Serial, got : Serial]
  /\ k.at # "free" => k.zone \in Zones /\ k.object \in ObjectOf(k.zone)
  /\ k.at \in Found => k.object # 0

TasksOK ==
  /\ task \in [Tasks -> [at : TaskAt, zone : Zones \cup {None}, cause : Cause,
                         object : Object, waiting : BOOLEAN, own : Serial, got : Serial]]
  /\ \A t \in Tasks : TaskOK(task[t])

TypeInv ==
  SourcesOK /\ ZonesOK /\ SetsOK /\ TimesOK /\ ChannelType /\ LoaderOK /\ LoopOK
    /\ TasksOK /\ up \in BOOLEAN

(* The actors at rest. *)
LEMMA AtRest ==
  /\ NoTree \in Tree /\ \A z \in Zones : NoTree[z] = 0
  /\ IdleLoader \in [at : LoaderAt, zone : Zones \cup {None}, object : Object, copy : Tree,
                     event : Event \cup {NoEvent}]
  /\ IdleLoop \in [at : LoopAt, zone : Zones \cup {None}, object : Object, copy : Tree]
  /\ FreeTask \in [at : TaskAt, zone : Zones \cup {None}, cause : Cause, object : Object,
                   waiting : BOOLEAN, own : Serial, got : Serial]
<1>1. 0 \in Object /\ 0 \in Serial
  BY RefreshAssumption DEF Object, Serial
<1>2. NoTree \in Tree /\ \A z \in Zones : NoTree[z] = 0
  BY <1>1 DEF NoTree, Tree
<1> QED BY <1>1, <1>2 DEF IdleLoader, IdleLoop, FreeTask, LoaderAt, LoopAt, TaskAt, Cause

(* What an actor sends is an event. *)
LEMMA Events ==
  ASSUME NEW z \in Zones
  PROVE  /\ \A k \in {"added", "notify", "changed"} : About(k, z) \in Event
         /\ \A c \in {"refresh", "retry"} : Again(z, c) \in Event
BY DEF About, Again, Event

(* The channel of events holds events, and no more than it has room for. *)
LEMMA SendOK ==
  ASSUME ChannelType, NEW e \in Event, Send(e)
  PROVE  events' \in Seq(Event) /\ Len(events') <= EventCap
BY RefreshAssumption DEF ChannelType, Send, EventRoom

LEMMA ReceiveOK ==
  ASSUME ChannelType, events # <<>>, events' = Tail(events)
  PROVE  /\ events' \in Seq(Event) /\ Len(events') <= EventCap
         /\ Head(events) \in Event /\ Head(events).zone \in Zones
BY RefreshAssumption DEF ChannelType, Event

LEMMA InitType == Init => TypeInv
<1> SUFFICES ASSUME Init PROVE TypeInv
  OBVIOUS
<1>1. SourcesOK /\ ZonesOK /\ TimesOK /\ ChannelType /\ up \in BOOLEAN
  BY RefreshAssumption
     DEF Init, SourcesOK, ZonesOK, TimesOK, ChannelType, Serial
<1>2. SetsOK
  BY AtRest DEF Init, SetsOK, ObjectOf
<1>3. LoaderOK /\ LoopOK
  BY AtRest DEF Init, LoaderOK, LoopOK, IdleLoader, IdleLoop, ObjectOf
<1>4. TasksOK
  BY AtRest DEF Init, TasksOK, TaskOK, FreeTask, Found
<1> QED BY <1>1, <1>2, <1>3, <1>4 DEF TypeInv

\* No zone object ceases to exist.
Grows == \A z \in Zones : ObjectOf(z) \subseteq ObjectOf(z)'

LEMMA SameGrows == ASSUME UNCHANGED soa PROVE Grows
BY DEF Grows, ObjectOf

(* What does not change keeps its type. *)
LEMMA SetsKept == ASSUME SetsOK, Grows, UNCHANGED setVars PROVE SetsOK'
BY DEF SetsOK, Grows, setVars

LEMMA LoaderKept == ASSUME LoaderOK, Grows, UNCHANGED loader PROVE LoaderOK'
BY DEF LoaderOK, Grows

LEMMA LoopKept == ASSUME LoopOK, Grows, UNCHANGED loop PROVE LoopOK'
BY DEF LoopOK, Grows

LEMMA TasksKept == ASSUME TasksOK, Grows, UNCHANGED task PROVE TasksOK'
BY DEF TasksOK, TaskOK, Grows

LEMMA RestKept ==
  ASSUME TypeInv
  PROVE  /\ UNCHANGED sourceVars => SourcesOK'
         /\ UNCHANGED zoneVars /\ UNCHANGED spent => ZonesOK'
         /\ UNCHANGED timeVars => TimesOK'
         /\ UNCHANGED chanVars => ChannelType'
         /\ UNCHANGED up => up' \in BOOLEAN
BY DEF TypeInv, SourcesOK, ZonesOK, TimesOK, ChannelType, sourceVars, zoneVars, timeVars, chanVars

(* A task that changes its state keeps its type, and leaves the others alone. *)
LEMMA TaskTurns ==
  ASSUME TasksOK, Grows, NEW t \in Tasks, NEW k, TaskOK(k), task' = [task EXCEPT ![t] = k]
  PROVE  TasksOK'
<1>1. \A u \in Tasks : task'[u] = IF u = t THEN k ELSE task[u]
  BY DEF TasksOK
<1>2. task' \in [Tasks -> [at : TaskAt, zone : Zones \cup {None}, cause : Cause,
                          object : Object, waiting : BOOLEAN, own : Serial, got : Serial]]
  BY DEF TasksOK, TaskOK
<1>3. ASSUME NEW u \in Tasks PROVE TaskOK(task[u])'
  <2>1. CASE u = t
    BY <1>1, <1>2, <2>1 DEF TaskOK, Grows
  <2>2. CASE u # t
    BY <1>1, <1>2, <2>2 DEF TasksOK, TaskOK, Grows
  <2> QED BY <2>1, <2>2
<1> QED BY <1>2, <1>3 DEF TasksOK

LEMMA TaskGoes ==
  ASSUME TasksOK, Grows, NEW t \in Tasks, NEW at \in Found, Goto(t, at),
         task[t].at # "free", task[t].object # 0
  PROVE  TasksOK'
<1> DEFINE k == [task[t] EXCEPT !.at = at]
<1>1. TaskOK(k)
  BY DEF TasksOK, TaskOK, Found
<1>2. task' = [task EXCEPT ![t] = k]
  BY DEF Goto
<1> QED BY <1>1, <1>2, TaskTurns

LEMMA TaskStops == ASSUME TasksOK, Grows, NEW t \in Tasks, End(t) PROVE TasksOK'
<1>1. TaskOK(FreeTask)
  BY AtRest DEF TaskOK, FreeTask, Found
<1> QED BY <1>1, TaskTurns DEF End

LEMMA TaskStarts ==
  ASSUME TypeInv, UNCHANGED soa, NEW t \in Tasks, NEW z \in Zones, NEW at \in {"check", "find"},
         NEW c \in Cause, Spawn(t, z, at, c)
  PROVE  TasksOK'
<1> DEFINE k == [FreeTask EXCEPT !.at = at, !.zone = z, !.cause = c, !.object = tree[z]]
<1>1. tree[z] \in Object /\ tree[z] \in ObjectOf(z)
  BY DEF TypeInv, SetsOK, Tree
<1>2. TaskOK(k)
  BY <1>1, AtRest DEF TaskOK, FreeTask, Found, TaskAt
<1> QED BY <1>2, TaskTurns, SameGrows DEF Spawn, TypeInv

LEMMA WorldType ==
  ASSUME TypeInv, NEW z \in Zones,
         \/ NewVersion(z) \/ RegisterSecondary(z) \/ RegisterPrimary(z)
         \/ AskNotify(z) \/ AskForced(z) \/ OutageEnds
  PROVE  TypeInv'
<1>1. CASE NewVersion(z)
  <2>1. SourcesOK'
    BY <1>1, RefreshAssumption DEF NewVersion, TypeInv, SourcesOK, Serial
  <2>2. UNCHANGED <<spent, zoneVars, setVars, timeVars, chanVars, loader, loop, task, up>>
    BY <1>1 DEF NewVersion
  <2> QED BY <2>1, <2>2, SameGrows, SetsKept, LoaderKept, LoopKept, TasksKept, RestKept
          DEF TypeInv, zoneVars
<1>2. CASE OutageEnds
  <2>1. SourcesOK'
    BY <1>2 DEF OutageEnds, TypeInv, SourcesOK
  <2>2. UNCHANGED <<spent, zoneVars, setVars, timeVars, chanVars, loader, loop, task, up>>
    BY <1>2 DEF OutageEnds
  <2> QED BY <2>1, <2>2, SameGrows, SetsKept, LoaderKept, LoopKept, TasksKept, RestKept
          DEF TypeInv, zoneVars
<1>3. ASSUME loader.at = "idle", RegisterSecondary(z) \/ RegisterPrimary(z) PROVE TypeInv'
  <2> DEFINE n == IF RegisterSecondary(z) THEN 0 ELSE primary[z]
             g == Len(soa[z]) + 1
  <2>1. /\ spent.adds < MaxAdds /\ spent' = [spent EXCEPT !.adds = @ + 1]
        /\ UNCHANGED <<primary, outage, expired, setVars, timeVars, chanVars, loop, task, up>>
    BY <1>3 DEF RegisterSecondary, RegisterPrimary, Spend
  <2>2. n \in Serial /\ soa' = [soa EXCEPT ![z] = Append(@, n)]
    BY <1>3, RefreshAssumption
       DEF RegisterSecondary, RegisterPrimary, TypeInv, SourcesOK, Serial
  <2> HIDE DEF n
  <2>3. soa[z] \in Seq(Serial) /\ Len(soa[z]) \in Nat /\ Len(soa[z]) <= spent.adds
    BY DEF TypeInv, ZonesOK
  <2>4. /\ soa' \in [Zones -> Seq(Serial)]
        /\ Len(soa'[z]) = g
        /\ \A y \in Zones \ {z} : soa'[y] = soa[y]
    <3>1. Append(soa[z], n) \in Seq(Serial) /\ Len(Append(soa[z], n)) = g
      BY <2>2, <2>3
    <3> QED BY <2>2, <3>1 DEF TypeInv, ZonesOK
  <2>5. Grows
    <3>1. ASSUME NEW y \in Zones PROVE ObjectOf(y) \subseteq ObjectOf(y)'
      <4>1. CASE y = z
        BY <2>3, <2>4, <4>1 DEF ObjectOf
      <4>2. CASE y # z
        BY <2>4, <4>2 DEF ObjectOf
      <4> QED BY <4>1, <4>2
    <3> QED BY <3>1 DEF Grows
  <2>6. spent \in [adds : 0 .. MaxAdds, asks : 0 .. MaxAsks] /\ MaxAdds \in Nat
    BY RefreshAssumption DEF TypeInv, SourcesOK
  <2>7. SourcesOK' /\ spent'.adds = spent.adds + 1
    BY <2>1, <2>6 DEF TypeInv, SourcesOK
  <2>8. ZonesOK'
    <3>1. \A y \in Zones : Len(soa'[y]) <= spent'.adds
      <4> TAKE y \in Zones
      <4>1. CASE y = z
        BY <2>3, <2>4, <2>6, <2>7, <4>1
      <4>2. CASE y # z
        <5>1. Len(soa[y]) \in Nat /\ Len(soa[y]) <= spent.adds
          BY DEF TypeInv, ZonesOK
        <5> QED BY <2>4, <2>6, <2>7, <4>2, <5>1
      <4> QED BY <4>1, <4>2
    <3>2. expired' = expired /\ filled' \in {filled, filled \cup {<<z, g>>}}
      BY <1>3 DEF RegisterSecondary, RegisterPrimary
    <3>3. g \in Object
      BY <2>1, <2>3, <2>6 DEF Object
    <3>4. filled' \subseteq Zones \X Object
      <4> HIDE DEF g
      <4> QED BY <3>2, <3>3 DEF TypeInv, ZonesOK
    <3> QED BY <2>4, <3>1, <3>2, <3>4 DEF TypeInv, ZonesOK
  <2>9. LoaderOK'
    <3>1. g \in Object /\ g \in ObjectOf(z)'
      BY <2>1, <2>3, <2>4, <2>6 DEF Object, ObjectOf
    <3>2. \/ loader' = [IdleLoader EXCEPT !.at = "pend", !.zone = z, !.object = g, !.copy = tree]
          \/ loader' = [IdleLoader EXCEPT !.at = "file", !.zone = z, !.object = g]
      BY <1>3 DEF RegisterSecondary, RegisterPrimary
    <3>3. tree \in Tree /\ \A y \in Zones : tree[y] \in ObjectOf(y)'
      BY <2>5 DEF TypeInv, SetsOK, Grows
    <3>4. \A y \in Zones : NoTree[y] \in ObjectOf(y)'
      BY <2>4, AtRest DEF ObjectOf
    <3>5. IdleLoader.event = NoEvent /\ IdleLoader.copy = NoTree /\ NoTree \in Tree
      BY AtRest DEF IdleLoader
    <3>6. CASE loader' = [IdleLoader EXCEPT !.at = "pend", !.zone = z, !.object = g, !.copy = tree]
      <4>1. loader' = [at |-> "pend", zone |-> z, object |-> g, copy |-> tree, event |-> NoEvent]
        BY <3>6 DEF IdleLoader
      <4> HIDE DEF g
      <4> QED BY <3>1, <3>3, <4>1 DEF LoaderOK, LoaderAt
    <3>7. CASE loader' = [IdleLoader EXCEPT !.at = "file", !.zone = z, !.object = g]
      <4>1. loader' = [at |-> "file", zone |-> z, object |-> g, copy |-> NoTree, event |-> NoEvent]
        BY <3>7 DEF IdleLoader
      <4> HIDE DEF g
      <4> QED BY <3>1, <3>4, <3>5, <4>1 DEF LoaderOK, LoaderAt
    <3> QED BY <3>2, <3>6, <3>7
  <2> QED BY <2>1, <2>5, <2>7, <2>8, <2>9, SetsKept, LoopKept, TasksKept, RestKept DEF TypeInv
<1>4. ASSUME AskNotify(z) \/ AskForced(z) PROVE TypeInv'
  <2>1. /\ spent.asks < MaxAsks /\ spent' = [spent EXCEPT !.asks = @ + 1]
        /\ UNCHANGED <<primary, outage, zoneVars, setVars, timeVars, chanVars, loop, task, up>>
    BY <1>4 DEF AskNotify, AskForced, Spend
  <2>2. spent \in [adds : 0 .. MaxAdds, asks : 0 .. MaxAsks] /\ MaxAsks \in Nat
    BY RefreshAssumption DEF TypeInv, SourcesOK
  <2>3. SourcesOK' /\ spent'.adds = spent.adds
    BY <2>1, <2>2 DEF TypeInv, SourcesOK
  <2>4. ZonesOK'
    BY <2>1, <2>3 DEF TypeInv, ZonesOK, zoneVars
  <2>5. /\ loader' \in [at : LoaderAt, zone : Zones \cup {None}, object : Object, copy : Tree,
                        event : Event \cup {NoEvent}]
        /\ loader'.zone = z /\ loader'.object = 0 /\ loader'.copy = NoTree
        /\ loader'.at = "tell" => loader'.event \in Event
    <3>1. CASE AskNotify(z)
      BY <3>1, AtRest DEF AskNotify, IdleLoader, LoaderAt
    <3>2. CASE AskForced(z)
      BY <3>2, AtRest, Events DEF AskForced, IdleLoader, LoaderAt
    <3> QED BY <1>4, <3>1, <3>2
  <2>6. LoaderOK'
    BY <2>1, <2>5, AtRest DEF LoaderOK, ObjectOf, zoneVars, TypeInv, ZonesOK
  <2>7. Grows
    BY <2>1, SameGrows DEF zoneVars
  <2> QED BY <2>1, <2>3, <2>4, <2>6, <2>7, SetsKept, LoopKept, TasksKept, RestKept DEF TypeInv
<1> QED BY <1>1, <1>2, <1>3, <1>4 DEF RegisterSecondary, RegisterPrimary

LEMMA LoaderType ==
  ASSUME TypeInv, Loader
  PROVE  TypeInv'
<1>1. CASE ReportCommit
  <2>1. ChannelType'
    BY <1>1, RefreshAssumption DEF ReportCommit, TypeInv, ChannelType
  <2>2. UNCHANGED <<sourceVars, zoneVars, setVars, timeVars, loader, loop, task, up>>
    BY <1>1 DEF ReportCommit
  <2> QED BY <2>1, <2>2, SameGrows, SetsKept, LoaderKept, LoopKept, TasksKept, RestKept
          DEF TypeInv, zoneVars, sourceVars
<1>2. CASE InsertPending
  <2>1. /\ UNCHANGED <<sourceVars, zoneVars, tree, timeVars, chanVars, loop, task, up>>
        /\ loader.at = "pend"
        /\ pending' = [pending EXCEPT ![loader.zone] = loader.object]
        /\ loader' = [loader EXCEPT !.at = "tell", !.event = About("added", loader.zone)]
    BY <1>2 DEF InsertPending
  <2>2. loader.zone \in Zones /\ loader.object \in ObjectOf(loader.zone) /\ loader.object \in Object
    BY <2>1 DEF TypeInv, LoaderOK
  <2>3. SetsOK'
    BY <2>1, <2>2 DEF TypeInv, SetsOK, Tree, ObjectOf, zoneVars
  <2>4. LoaderOK'
    BY <2>1, <2>2, Events DEF TypeInv, LoaderOK, ObjectOf, zoneVars, LoaderAt
  <2> QED BY <2>1, <2>3, <2>4, SameGrows, LoopKept, TasksKept, RestKept
          DEF TypeInv, zoneVars, sourceVars
<1>3. CASE InsertPrimary
  <2> DEFINE z == loader.zone
  <2>1. /\ UNCHANGED <<sourceVars, zoneVars, setVars, timeVars, events, loop, task, up>>
        /\ loader.at = "file" /\ commits < UpdateCap /\ commits' = commits + 1
        /\ \/ loader' = IdleLoader
           \/ loader' = [loader EXCEPT !.at = "tell", !.event = About("added", z),
                                       !.copy = Extended(tree, z, loader.object)]
    BY <1>3 DEF InsertPrimary, CommitRoom
  <2>2. z \in Zones /\ loader.object \in ObjectOf(z) /\ loader.object \in Object
    BY <2>1 DEF TypeInv, LoaderOK
  <2>3. /\ Extended(tree, z, loader.object) \in Tree
        /\ \A y \in Zones : Extended(tree, z, loader.object)[y] \in ObjectOf(y)
    BY <2>2 DEF TypeInv, SetsOK, Tree, Extended
  <2>4. LoaderOK'
    <3>1. CASE loader' = IdleLoader
      BY <2>1, <3>1, AtRest DEF LoaderOK, IdleLoader, ObjectOf, zoneVars, TypeInv, ZonesOK
    <3>2. CASE loader' # IdleLoader
      BY <2>1, <2>2, <2>3, <3>2, Events DEF TypeInv, LoaderOK, ObjectOf, zoneVars, LoaderAt
    <3> QED BY <3>1, <3>2
  <2>5. ChannelType'
    BY <2>1, RefreshAssumption DEF TypeInv, ChannelType
  <2> QED BY <2>1, <2>4, <2>5, SameGrows, SetsKept, LoopKept, TasksKept, RestKept
          DEF TypeInv, zoneVars, sourceVars
<1>4. CASE LookupNotified
  <2>1. /\ UNCHANGED <<sourceVars, zoneVars, setVars, timeVars, chanVars, loop, task, up>>
        /\ loader.at = "look"
        /\ \/ loader' = IdleLoader
           \/ loader' = [loader EXCEPT !.at = "tell", !.event = About("notify", loader.zone)]
    BY <1>4 DEF LookupNotified
  <2>2. loader.zone \in Zones
    BY <2>1 DEF TypeInv, LoaderOK
  <2>3. LoaderOK'
    <3>1. CASE loader' = IdleLoader
      BY <2>1, <3>1, AtRest DEF LoaderOK, IdleLoader, ObjectOf, zoneVars, TypeInv, ZonesOK
    <3>2. CASE loader' # IdleLoader
      BY <2>1, <2>2, <3>2, Events DEF TypeInv, LoaderOK, ObjectOf, zoneVars, LoaderAt
    <3> QED BY <3>1, <3>2
  <2> QED BY <2>1, <2>3, SameGrows, SetsKept, LoopKept, TasksKept, RestKept
          DEF TypeInv, zoneVars, sourceVars
<1>5. CASE TellMaintainer
  <2>1. /\ UNCHANGED <<sourceVars, zoneVars, setVars, timeVars, commits, loop, task, up>>
        /\ loader.at = "tell" /\ Send(loader.event)
        /\ loader' = IdleLoader \/ loader' = [loader EXCEPT !.at = "store"]
    BY <1>5 DEF TellMaintainer
  <2>2. loader.event \in Event /\ loader.zone \in Zones
    BY <2>1 DEF TypeInv, LoaderOK
  <2>3. LoaderOK'
    <3>1. CASE loader' = IdleLoader
      BY <2>1, <3>1, AtRest DEF LoaderOK, IdleLoader, ObjectOf, zoneVars, TypeInv, ZonesOK
    <3>2. CASE loader' # IdleLoader
      BY <2>1, <2>2, <3>2 DEF TypeInv, LoaderOK, ObjectOf, zoneVars, LoaderAt
    <3> QED BY <3>1, <3>2
  <2>4. ChannelType'
    BY <2>1, <2>2, SendOK DEF TypeInv, ChannelType
  <2> QED BY <2>1, <2>3, <2>4, SameGrows, SetsKept, LoopKept, TasksKept, RestKept
          DEF TypeInv, zoneVars, sourceVars
<1>6. CASE StoreInserted
  <2>1. /\ UNCHANGED <<sourceVars, zoneVars, pending, timeVars, chanVars, loop, task, up>>
        /\ tree' = loader.copy /\ loader' = IdleLoader
    BY <1>6 DEF StoreInserted
  <2>2. SetsOK'
    BY <2>1 DEF TypeInv, SetsOK, LoaderOK, ObjectOf, zoneVars
  <2>3. LoaderOK'
    BY <2>1, AtRest DEF LoaderOK, IdleLoader, ObjectOf, zoneVars, TypeInv, ZonesOK
  <2> QED BY <2>1, <2>2, <2>3, SameGrows, LoopKept, TasksKept, RestKept
          DEF TypeInv, zoneVars, sourceVars
<1> QED BY <1>1, <1>2, <1>3, <1>4, <1>5, <1>6 DEF Loader

(* Arming a timer keeps the types of the times. *)
LEMMA ArmOK ==
  ASSUME TypeInv, NEW z \in Zones, NEW c \in {"refresh", "retry"}, Arm(z, c)
  PROVE  timers' \in [Zones -> {"none", "refresh", "retry"}]
BY DEF TypeInv, TimesOK, Arm

LEMMA RunLoopType ==
  ASSUME TypeInv, RunLoop
  PROVE  TypeInv'
<1>1. CASE TakeAdded
  <2>1. /\ UNCHANGED <<sourceVars, zoneVars, setVars, timeVars, commits, loader, task, up>>
        /\ events # <<>> /\ events' = Tail(events)
        /\ loop' = [IdleLoop EXCEPT !.at = "added", !.zone = Head(events).zone]
    BY <1>1 DEF TakeAdded
  <2>2. ChannelType' /\ Head(events).zone \in Zones
    BY <2>1, ReceiveOK DEF TypeInv, ChannelType
  <2>3. /\ loop' \in [at : LoopAt, zone : Zones \cup {None}, object : Object, copy : Tree]
        /\ loop'.zone \in Zones /\ loop'.object = 0 /\ loop'.copy = NoTree
    BY <2>1, <2>2, AtRest DEF IdleLoop, LoopAt
  <2>4. \A y \in Zones : 0 \in ObjectOf(y)'
    BY <2>1 DEF ObjectOf, zoneVars, TypeInv, ZonesOK
  <2>5. LoopOK'
    BY <2>3, <2>4, AtRest DEF LoopOK
  <2> QED BY <2>1, <2>2, <2>5, SameGrows, SetsKept, LoaderKept, TasksKept, RestKept
          DEF TypeInv, zoneVars, sourceVars
<1>2. CASE TakeRefresh
  <2>1. /\ UNCHANGED <<sourceVars, zoneVars, setVars, tracked, commits, loader, loop, task, up>>
        /\ events # <<>> /\ events' = Tail(events) /\ Head(events).kind = "refresh"
        /\ Arm(Head(events).zone, Head(events).cause)
    BY <1>2 DEF TakeRefresh
  <2>2. ChannelType' /\ Head(events).zone \in Zones /\ Head(events) \in Event
    BY <2>1, ReceiveOK DEF TypeInv, ChannelType
  <2>3. Head(events).cause \in {"refresh", "retry"}
    BY <2>1, <2>2 DEF Event
  <2>4. TimesOK'
    BY <2>1, <2>2, <2>3, ArmOK DEF TypeInv, TimesOK
  <2> QED BY <2>1, <2>2, <2>4, SameGrows, SetsKept, LoaderKept, LoopKept, TasksKept, RestKept
          DEF TypeInv, zoneVars, sourceVars
<1>3. CASE TakeChanged
  <2>1. /\ UNCHANGED <<sourceVars, zoneVars, setVars, timeVars, commits, loader, loop, task, up>>
        /\ events # <<>> /\ events' = Tail(events)
    BY <1>3 DEF TakeChanged
  <2>2. ChannelType'
    BY <2>1, ReceiveOK DEF TypeInv, ChannelType
  <2> QED BY <2>1, <2>2, SameGrows, SetsKept, LoaderKept, LoopKept, TasksKept, RestKept
          DEF TypeInv, zoneVars, sourceVars
<1>4. CASE TakeNotify
  <2>1. /\ UNCHANGED <<sourceVars, zoneVars, setVars, timeVars, commits, loader, loop, up>>
        /\ events # <<>> /\ events' = Tail(events)
    BY <1>4 DEF TakeNotify
  <2>2. PICK t \in NotifyTasks : Spawn(t, Head(events).zone, "find", "notify")
    BY <1>4 DEF TakeNotify
  <2>3. ChannelType' /\ Head(events).zone \in Zones
    BY <2>1, ReceiveOK DEF TypeInv, ChannelType
  <2>4. TasksOK'
    BY <2>1, <2>2, <2>3, TaskStarts DEF Tasks, Cause, zoneVars
  <2> QED BY <2>1, <2>3, <2>4, SameGrows, SetsKept, LoaderKept, LoopKept, RestKept
          DEF TypeInv, zoneVars, sourceVars
<1>5. CASE LockAdded
  <2>1. /\ UNCHANGED <<sourceVars, zoneVars, setVars, timeVars, chanVars, loader, task, up>>
        /\ loop.at = "added"
        /\ \/ loop' = IdleLoop
           \/ loop' = [loop EXCEPT !.at = "track", !.object = pending[loop.zone]]
    BY <1>5 DEF LockAdded
  <2>2. loop.zone \in Zones
    BY <2>1 DEF TypeInv, LoopOK
  <2>3. pending[loop.zone] \in Object /\ pending[loop.zone] \in ObjectOf(loop.zone)
    BY <2>2 DEF TypeInv, SetsOK, Tree
  <2>4. LoopOK'
    <3>1. CASE loop' = IdleLoop
      BY <2>1, <3>1, AtRest DEF LoopOK, IdleLoop, ObjectOf, zoneVars, TypeInv, ZonesOK
    <3>2. CASE loop' # IdleLoop
      BY <2>1, <2>2, <2>3, <3>2 DEF TypeInv, LoopOK, ObjectOf, zoneVars, LoopAt
    <3> QED BY <3>1, <3>2
  <2> QED BY <2>1, <2>4, SameGrows, SetsKept, LoaderKept, TasksKept, RestKept
          DEF TypeInv, zoneVars, sourceVars
<1>6. CASE Track
  <2> DEFINE z == loop.zone
  <2>1. /\ UNCHANGED <<sourceVars, zoneVars, tree, chanVars, loader, task, up>>
        /\ loop.at = "track"
        /\ tracked' = [tracked EXCEPT ![z] = IF @ = "no" THEN "RefreshPending" ELSE @]
        /\ \/ /\ pending' = [pending EXCEPT ![z] = 0]
              /\ loop' = [loop EXCEPT !.at = "insert"]
              /\ UNCHANGED timers
           \/ /\ Arm(z, "refresh")
              /\ loop' = IdleLoop
              /\ UNCHANGED pending
    BY <1>6 DEF Track
  <2>2. z \in Zones
    BY <2>1 DEF TypeInv, LoopOK
  <2>3. TimesOK'
    BY <2>1, <2>2, ArmOK DEF TypeInv, TimesOK, Status
  <2>4. SetsOK'
    <3>1. 0 \in Object /\ 0 \in ObjectOf(z)
      BY <2>2, RefreshAssumption DEF TypeInv, ZonesOK, Object, ObjectOf
    <3>2. pending' \in Tree /\ \A y \in Zones : pending'[y] \in {0, pending[y]}
      BY <2>1, <2>2, <3>1 DEF TypeInv, SetsOK, Tree
    <3>3. \A y \in Zones : 0 \in ObjectOf(y)
      BY DEF TypeInv, ZonesOK, ObjectOf
    <3> QED BY <2>1, <3>2, <3>3 DEF TypeInv, SetsOK, ObjectOf, zoneVars
  <2>5. LoopOK'
    <3>1. CASE loop' = IdleLoop
      BY <2>1, <3>1, AtRest DEF LoopOK, IdleLoop, ObjectOf, zoneVars, TypeInv, ZonesOK
    <3>2. CASE loop' # IdleLoop
      BY <2>1, <2>2, <3>2 DEF TypeInv, LoopOK, ObjectOf, zoneVars, LoopAt
    <3> QED BY <3>1, <3>2
  <2> QED BY <2>1, <2>3, <2>4, <2>5, SameGrows, LoaderKept, TasksKept, RestKept
          DEF TypeInv, zoneVars, sourceVars
<1>7. CASE LoadTree
  <2>1. /\ UNCHANGED <<sourceVars, zoneVars, setVars, timeVars, chanVars, loader, task>>
        /\ loop.at = "insert" /\ up' \in {up, FALSE}
        /\ \/ loop' = [loop EXCEPT !.at = "store", !.copy = tree]
           \/ loop' = [IdleLoop EXCEPT !.at = "dead"]
    BY <1>7 DEF LoadTree
  <2>2. loop.zone \in Zones /\ loop.object \in ObjectOf(loop.zone)
    BY <2>1 DEF TypeInv, LoopOK
  <2>3. LoopOK'
    <3>1. CASE loop' = [IdleLoop EXCEPT !.at = "dead"]
      <4>1. loop' = [at |-> "dead", zone |-> None, object |-> 0, copy |-> NoTree]
        BY <3>1 DEF IdleLoop
      <4>2. \A y \in Zones : 0 \in ObjectOf(y)'
        BY <2>1 DEF ObjectOf, zoneVars, TypeInv, ZonesOK
      <4>3. NoTree \in Tree /\ 0 \in Object
        BY AtRest, RefreshAssumption DEF Object
      <4> QED BY <4>1, <4>2, <4>3, AtRest DEF LoopOK, LoopAt
    <3>2. CASE loop' = [loop EXCEPT !.at = "store", !.copy = tree]
      BY <2>1, <2>2, <3>2 DEF TypeInv, SetsOK, LoopOK, ObjectOf, zoneVars, LoopAt
    <3> QED BY <2>1, <3>1, <3>2
  <2> QED BY <2>1, <2>3, SameGrows, SetsKept, LoaderKept, TasksKept, RestKept
          DEF TypeInv, zoneVars, sourceVars
<1>8. CASE StoreActive
  <2> DEFINE z == loop.zone
  <2>1. /\ UNCHANGED <<sourceVars, zoneVars, pending, tracked, chanVars, loader, task, up>>
        /\ loop.at = "store" /\ loop' = IdleLoop /\ Arm(z, "refresh")
        /\ tree' = [loop.copy EXCEPT ![z] = loop.object]
    BY <1>8 DEF StoreActive, Extended
  <2>2. z \in Zones /\ loop.object \in ObjectOf(z) /\ loop.object \in Object /\ loop.copy \in Tree
    BY <2>1 DEF TypeInv, LoopOK
  <2>3. TimesOK'
    BY <2>1, <2>2, ArmOK DEF TypeInv, TimesOK
  <2>4. SetsOK'
    BY <2>1, <2>2 DEF TypeInv, SetsOK, LoopOK, Tree, ObjectOf, zoneVars
  <2>5. LoopOK'
    BY <2>1, AtRest DEF LoopOK, IdleLoop, ObjectOf, zoneVars, TypeInv, ZonesOK
  <2> QED BY <2>1, <2>3, <2>4, <2>5, SameGrows, LoaderKept, TasksKept, RestKept
          DEF TypeInv, zoneVars, sourceVars
<1> QED BY <1>1, <1>2, <1>3, <1>4, <1>5, <1>6, <1>7, <1>8 DEF RunLoop

LEMMA FireType ==
  ASSUME TypeInv, NEW z \in Zones, FireTimer(z)
  PROVE  TypeInv'
<1>1. /\ UNCHANGED <<sourceVars, zoneVars, setVars, tracked, chanVars, loader, loop, up>>
      /\ timers[z] # "none" /\ timers' = [timers EXCEPT ![z] = "none"]
  BY DEF FireTimer
<1>2. PICK t \in TimerTasks : Spawn(t, z, "check", timers[z])
  BY DEF FireTimer
<1>3. timers[z] \in Cause
  BY <1>1 DEF TypeInv, TimesOK, Cause
<1>4. TasksOK'
  BY <1>1, <1>2, <1>3, TaskStarts DEF Tasks, zoneVars
<1>5. TimesOK'
  BY <1>1 DEF TypeInv, TimesOK
<1> QED BY <1>1, <1>4, <1>5, SameGrows, SetsKept, LoaderKept, LoopKept, RestKept
        DEF TypeInv, zoneVars, sourceVars

(***************************************************************************)
(* The types, when a refresh task takes a step.                            *)
(***************************************************************************)

\* The variables of the types, but for those of the task.
LEMMA TaskOnly ==
  ASSUME TypeInv, TasksOK', UNCHANGED <<soa, filled, spent, primary, outage, setVars, loader, loop, up>>,
         expired' \subseteq Zones, TimesOK', ChannelType'
  PROVE  TypeInv'
<1>1. SourcesOK' /\ ZonesOK'
  BY DEF TypeInv, SourcesOK, ZonesOK
<1> QED BY <1>1, SameGrows, SetsKept, LoaderKept, LoopKept DEF TypeInv

LEMMA StepsOfTask ==
  ASSUME TypeInv, NEW t \in Tasks, task[t].at \in Found
  PROVE  /\ task[t].at # "free" /\ task[t].object # 0
         /\ task[t].zone \in Zones /\ task[t].object \in ObjectOf(task[t].zone)
         /\ soa[task[t].zone] \in Seq(Serial)
         /\ task[t].object \in 1 .. Len(soa[task[t].zone])
<1>1. /\ task[t].at # "free" /\ task[t].object # 0
      /\ task[t].zone \in Zones /\ task[t].object \in ObjectOf(task[t].zone)
  BY DEF TypeInv, TasksOK, TaskOK, Found
<1> QED BY <1>1 DEF TypeInv, ZonesOK, ObjectOf

(* A task that finds its zone. *)
LEMMA FindType ==
  ASSUME TypeInv, NEW t \in Tasks, Check(t) \/ FindTimed(t) \/ FindNotified(t)
  PROVE  TypeInv'
<1> DEFINE z == task[t].zone
<1>1. /\ UNCHANGED <<sourceVars, zoneVars, setVars, timeVars, chanVars, loader, loop, up>>
      /\ task[t].at \in {"check", "find"}
  BY DEF Check, FindTimed, FindNotified
<1>2. /\ z \in Zones /\ task[t].object \in ObjectOf(z)
      /\ pending[z] \in ObjectOf(z) /\ pending[z] \in Object
  <2>1. z \in Zones /\ task[t].object \in ObjectOf(z)
    BY <1>1 DEF TypeInv, TasksOK, TaskOK
  <2> QED BY <2>1 DEF TypeInv, SetsOK, Tree
<1>3. \/ End(t)
      \/ Goto(t, "find")
      \/ task[t].object # 0 /\ \E at \in {"begin", "mark"} : Goto(t, at)
      \/ pending[z] # 0 /\ \E at \in {"begin", "mark"} :
           task' = [task EXCEPT ![t].at = at, ![t].object = pending[z], ![t].waiting = TRUE]
  BY DEF Check, FindTimed, FindNotified
<1>4. TasksOK /\ Grows
  BY <1>1, SameGrows DEF TypeInv, zoneVars
<1>5. TasksOK'
  <2>1. CASE End(t)
    BY <1>4, <2>1, TaskStops
  <2>2. CASE Goto(t, "find")
    <3> DEFINE k == [task[t] EXCEPT !.at = "find"]
    <3>1. TaskOK(k)
      BY <1>2 DEF TypeInv, TasksOK, TaskOK, Found, TaskAt
    <3>2. task' = [task EXCEPT ![t] = k]
      BY <2>2 DEF Goto
    <3> QED BY <1>4, <3>1, <3>2, TaskTurns
  <2>3. ASSUME task[t].object # 0, NEW at \in {"begin", "mark"}, Goto(t, at) PROVE TasksOK'
    BY <1>1, <1>4, <2>3, TaskGoes DEF Found, TaskAt
  <2>4. ASSUME pending[z] # 0, NEW at \in {"begin", "mark"},
               task' = [task EXCEPT ![t].at = at, ![t].object = pending[z], ![t].waiting = TRUE]
        PROVE  TasksOK'
    <3> DEFINE k == [task[t] EXCEPT !.at = at, !.object = pending[z], !.waiting = TRUE]
    <3>1. TaskOK(k)
      BY <1>2, <2>4 DEF TypeInv, TasksOK, TaskOK, Found, TaskAt
    <3>2. task' = [task EXCEPT ![t] = k]
      BY <2>4
    <3> QED BY <1>4, <3>1, <3>2, TaskTurns
  <2> QED BY <1>3, <2>1, <2>2, <2>3, <2>4
<1> QED BY <1>1, <1>5, RestKept, TaskOnly
        DEF TypeInv, ZonesOK, sourceVars, zoneVars

(* A task that locks the refresh states. *)
LEMMA TimesType ==
  ASSUME TypeInv, NEW t \in Tasks, MarkNotified(t) \/ Succeed(t) \/ GiveUp(t) \/ Progress(t)
  PROVE  TypeInv'
<1> DEFINE z == task[t].zone
<1>1. /\ UNCHANGED <<sourceVars, soa, filled, setVars, timers, chanVars, loader, loop, up>>
      /\ task[t].at \in Found
      /\ \/ UNCHANGED tracked
         \/ \E s \in Status : tracked' = [tracked EXCEPT ![z] = s]
         \/ tracked' = [tracked EXCEPT ![z] = IF @ = "RetryInProgress" THEN @ ELSE "RetryPending"]
      /\ End(t) \/ (\E at \in {"begin", "schedule", "retry"} : Goto(t, at)) \/ UNCHANGED task
      /\ expired' \in {expired, expired \cup {z}}
  BY DEF MarkNotified, Succeed, GiveUp, Progress, zoneVars, Found, TaskAt, Status
<1>2. z \in Zones /\ task[t].at # "free" /\ task[t].object # 0
  BY <1>1, StepsOfTask
<1>3. TasksOK /\ Grows
  BY <1>1, SameGrows DEF TypeInv
<1>4. TasksOK'
  BY <1>1, <1>2, <1>3, TaskStops, TaskGoes, TasksKept DEF Found, TaskAt
<1>5. TimesOK'
  BY <1>1, <1>2 DEF TypeInv, TimesOK, Status
<1>6. ChannelType'
  BY <1>1, RestKept DEF TypeInv
<1> QED BY <1>1, <1>2, <1>4, <1>5, <1>6, TaskOnly DEF TypeInv, ZonesOK, sourceVars

(* A task that sends, or only goes on. *)
LEMMA SendType ==
  ASSUME TypeInv, NEW t \in Tasks,
         \/ Answer(t) \/ Fail(t) \/ AnnounceCommit(t) \/ AnnounceChange(t) \/ ReadBack(t)
         \/ Schedule(t) \/ Migrate(t) \/ ScheduleRetry(t)
  PROVE  TypeInv'
<1> DEFINE z == task[t].zone
<1>1. /\ UNCHANGED <<sourceVars, zoneVars, setVars, timeVars, loader, loop, up>>
      /\ task[t].at \in Found
      /\ End(t) \/ \E at \in Found : Goto(t, at)
      /\ \/ UNCHANGED chanVars
         \/ CommitRoom /\ commits' = commits + 1 /\ UNCHANGED events
         \/ /\ \/ \E k \in {"added", "changed"} : Send(About(k, z))
               \/ \E c \in {"refresh", "retry"} : Send(Again(z, c))
            /\ UNCHANGED commits
  BY DEF Answer, Fail, AnnounceCommit, AnnounceChange, ReadBack, Schedule, Migrate,
         ScheduleRetry, Found, TaskAt, chanVars
<1>2. z \in Zones /\ task[t].at # "free" /\ task[t].object # 0
  BY <1>1, StepsOfTask
<1>3. TasksOK /\ Grows
  BY <1>1, SameGrows DEF TypeInv, zoneVars
<1>4. TasksOK'
  BY <1>1, <1>2, <1>3, TaskStops, TaskGoes
<1>5. ChannelType'
  <2>1. CASE UNCHANGED chanVars
    BY <2>1, RestKept
  <2>2. CASE CommitRoom /\ commits' = commits + 1 /\ UNCHANGED events
    BY <2>2, RefreshAssumption DEF TypeInv, ChannelType, CommitRoom
  <2>3. ASSUME NEW e \in Event, Send(e), UNCHANGED commits PROVE ChannelType'
    BY <2>3, SendOK DEF TypeInv, ChannelType
  <2> QED BY <1>1, <1>2, <2>1, <2>2, <2>3, Events
<1> QED BY <1>1, <1>4, <1>5, RestKept, TaskOnly DEF TypeInv, ZonesOK, sourceVars, zoneVars

(* A task that reads or writes its zone. *)
LEMMA BeginType ==
  ASSUME TypeInv, NEW t \in Tasks, Begin(t)
  PROVE  TypeInv'
<1> DEFINE z == task[t].zone
           k == [task[t] EXCEPT !.at = "ask", !.cause = "refresh", !.own = soa[z][task[t].object]]
<1>1. /\ UNCHANGED <<sourceVars, zoneVars, setVars, timers, chanVars, loader, loop, up>>
      /\ task[t].at = "begin"
      /\ tracked' = [tracked EXCEPT ![z] = StatusDuring(task[t].cause)]
      /\ task' = [task EXCEPT ![t] = k]
  BY DEF Begin
<1>2. /\ z \in Zones /\ task[t].object # 0 /\ task[t].object \in ObjectOf(z)
      /\ soa[z][task[t].object] \in Serial
  BY <1>1, StepsOfTask DEF Found, TaskAt
<1>3. TasksOK /\ Grows
  BY <1>1, SameGrows DEF TypeInv, zoneVars
<1>4. TaskOK(k)
  BY <1>2 DEF TypeInv, TasksOK, TaskOK, Found, TaskAt, Cause
<1> HIDE DEF k
<1>5. TasksOK'
  BY <1>1, <1>3, <1>4, TaskTurns
<1>6. TimesOK'
  BY <1>1, <1>2 DEF TypeInv, TimesOK, StatusDuring, Status
<1> QED BY <1>1, <1>5, <1>6, RestKept, TaskOnly DEF TypeInv, ZonesOK, sourceVars, zoneVars

LEMMA WriteType ==
  ASSUME TypeInv, NEW t \in Tasks, Fetch(t) \/ Commit(t)
  PROVE  TypeInv'
<1> DEFINE z == task[t].zone
           g == task[t].object
<1>1. /\ UNCHANGED <<sourceVars, expired, setVars, timeVars, chanVars, loader, loop, up>>
      /\ task[t].at \in Found
      /\ \E n \in {0, task[t].got} : soa' = [soa EXCEPT ![z][g] = n] \/ soa' = soa
      /\ filled' \in {filled, filled \cup {<<z, g>>}}
  BY DEF Fetch, Commit, Found, TaskAt
<1>2. z \in Zones /\ g # 0 /\ g \in ObjectOf(z) /\ g \in 1 .. Len(soa[z])
      /\ soa[z] \in Seq(Serial) /\ task[t].at # "free" /\ g \in Object
  BY <1>1, StepsOfTask DEF TypeInv, TasksOK
<1>3. primary[z] \in Serial /\ 0 \in Serial /\ task[t].got \in Serial
  BY <1>2, RefreshAssumption DEF TypeInv, SourcesOK, TasksOK, Serial
<1>4. /\ soa' \in [Zones -> Seq(Serial)]
      /\ \A y \in Zones : Len(soa'[y]) = Len(soa[y])
  <2>1. PICK n \in {0, task[t].got} : soa' = [soa EXCEPT ![z][g] = n] \/ soa' = soa
    BY <1>1
  <2>2. n \in Serial
    BY <1>3
  <2>3. [soa[z] EXCEPT ![g] = n] \in Seq(Serial) /\ Len([soa[z] EXCEPT ![g] = n]) = Len(soa[z])
    BY <1>2, <2>2
  <2> QED BY <1>2, <2>1, <2>3 DEF TypeInv, ZonesOK
<1>5. Grows
  BY <1>4 DEF Grows, ObjectOf
<1>6. SourcesOK' /\ ZonesOK'
  BY <1>1, <1>2, <1>4 DEF TypeInv, SourcesOK, ZonesOK, sourceVars
<1>7. TasksOK'
  <2>1. CASE \E at \in {"fetching", "failed", "report"} :
               \E got \in Serial, own \in Serial :
                 task' = [task EXCEPT ![t] = [task[t] EXCEPT !.at = at, !.got = got, !.own = own]]
    <3>1. PICK at \in {"fetching", "failed", "report"}, got \in Serial, own \in Serial :
             task' = [task EXCEPT ![t] = [task[t] EXCEPT !.at = at, !.got = got, !.own = own]]
      BY <2>1
    <3> DEFINE k == [task[t] EXCEPT !.at = at, !.got = got, !.own = own]
    <3>2. TaskOK(k)
      BY <1>2 DEF TypeInv, TasksOK, TaskOK, Found, TaskAt
    <3> HIDE DEF k
    <3> QED BY <1>5, <3>1, <3>2, TaskTurns DEF TypeInv, k
  <2>2. CASE Goto(t, "failed")
    BY <1>2, <1>5, <2>2, TaskGoes DEF TypeInv, Found, TaskAt
  <2>3. CASE Fetch(t) /\ ~ Goto(t, "failed")
    <3>1. task' = [task EXCEPT ![t] = [task[t] EXCEPT !.at = "fetching", !.got = primary[z], !.own = 0]]
      BY <2>3 DEF Fetch
    <3> QED BY <1>3, <2>1, <3>1
  <2>4. CASE Commit(t)
    <3>1. task[t] \in [at : TaskAt, zone : Zones \cup {None}, cause : Cause, object : Object,
                       waiting : BOOLEAN, own : Serial, got : Serial]
      BY DEF TypeInv, TasksOK
    <3>2. task' = [task EXCEPT ![t] = [task[t] EXCEPT !.at = "report", !.got = 0, !.own = task[t].own]]
      BY <2>4, <3>1 DEF Commit
    <3> QED BY <1>3, <2>1, <3>1, <3>2
  <2> QED BY <2>2, <2>3, <2>4
<1> QED BY <1>1, <1>5, <1>6, <1>7, SetsKept, LoaderKept, LoopKept, RestKept DEF TypeInv

LEMMA StepType == ASSUME TypeInv, [Next]_vars PROVE TypeInv'
<1>1. CASE UNCHANGED vars
  <2>1. UNCHANGED <<sourceVars, zoneVars, setVars, timeVars, chanVars, loader, loop, task, up>>
    BY <1>1 DEF vars
  <2> QED BY <2>1, SameGrows, SetsKept, LoaderKept, LoopKept, TasksKept, RestKept
          DEF TypeInv, zoneVars, sourceVars
<1>2. CASE World
  BY <1>2, WorldType DEF World
<1>3. CASE Loader
  BY <1>3, LoaderType
<1>4. CASE RunLoop
  BY <1>4, RunLoopType
<1>5. ASSUME NEW z \in Zones, FireTimer(z) PROVE TypeInv'
  BY <1>5, FireType
<1>6. ASSUME NEW t \in Tasks, Task(t) \/ Fail(t) PROVE TypeInv'
  BY <1>6, FindType, TimesType, SendType, BeginType, WriteType DEF Task, Transfer
<1> QED BY <1>1, <1>2, <1>3, <1>4, <1>5, <1>6 DEF Next

LEMMA TypesAlways == Spec => []TypeInv
<1> QED BY InitType, StepType, PTL DEF Spec

(***************************************************************************)
(* The order in which the lock of the pending zones is asked for.          *)
(***************************************************************************)

\* Who comes before a writer waits, as that writer does; of two writers one came first,
\* and whoever came before it came before the other.
QueueInv ==
  /\ ahead \subseteq (ToRead \cup ToWrite) \X ToWrite
  /\ \A a \in ToWrite : <<a, a>> \notin ahead
  /\ \A a, b \in ToWrite : a # b => <<a, b>> \in ahead \/ <<b, a>> \in ahead
  /\ \A a \in ToRead \cup ToWrite, b, c \in ToWrite :
       <<a, b>> \in ahead /\ <<b, c>> \in ahead => <<a, c>> \in ahead

(* The types and the queue imply the type invariant of the module. *)
LEMMA TypesImply == TypeInv /\ QueueInv => TypeOK
BY DEF TypeInv, QueueInv, SourcesOK, ZonesOK, SetsOK, TimesOK, LoaderOK, LoopOK, TasksOK, TaskOK,
       TypeOK, ZoneType, SetType, ActorType, ObjectsExist

(* Nobody waits to read and to write at a time. *)
LEMMA WaitsOnce == ToRead \cap ToWrite = {}
BY RefreshAssumption DEF ToRead, ToWrite, Tasks

(* Others may come to read: they come last. *)
LEMMA QueueKept ==
  ASSUME QueueInv, UNCHANGED ahead, ToRead \subseteq ToRead', ToWrite' = ToWrite PROVE QueueInv'
<1>1. \A a \in ToRead' \cup ToWrite', b \in ToWrite : <<a, b>> \in ahead => a \in ToRead \cup ToWrite
  BY DEF QueueInv
<1> QED BY <1>1 DEF QueueInv

(* A writer comes last, too. *)
LEMMA QueueGrows ==
  ASSUME QueueInv, NEW w, w \notin ToRead \cup ToWrite, Arrives(w),
         ToRead' = ToRead, ToWrite' = ToWrite \cup {w}
  PROVE  QueueInv'
<1>1. PICK first \in SUBSET ToRead :
        /\ {p[1] : p \in ahead} \cap ToRead \subseteq first
        /\ ahead' = ahead \cup ((first \cup ToWrite) \X {w})
  BY DEF Arrives
<1>2. \A a, b : <<a, b>> \in ahead' <=>
                  <<a, b>> \in ahead \/ (a \in first \cup ToWrite /\ b = w)
  BY <1>1
<1>3. \A a, b : <<a, b>> \in ahead => a \in ToRead \cup ToWrite /\ b \in ToWrite
  BY DEF QueueInv
<1>4. \A a \in ToRead : \A b : <<a, b>> \in ahead => a \in first
  <2> TAKE a \in ToRead
  <2> TAKE b
  <2> HAVE <<a, b>> \in ahead
  <2>1. <<a, b>>[1] \in {p[1] : p \in ahead}
    OBVIOUS
  <2> QED BY <1>1, <2>1
<1>5. ahead' \subseteq (ToRead \cup ToWrite)' \X ToWrite'
  BY <1>1 DEF QueueInv
<1>6. \A a \in ToWrite' : <<a, a>> \notin ahead'
  BY <1>1, <1>2, <1>3 DEF QueueInv
<1>7. \A a, b \in ToWrite' : a # b => <<a, b>> \in ahead' \/ <<b, a>> \in ahead'
  BY <1>2 DEF QueueInv
<1>8. ASSUME NEW a \in (ToRead \cup ToWrite)', NEW b \in ToWrite', NEW c \in ToWrite',
             <<a, b>> \in ahead', <<b, c>> \in ahead'
      PROVE  <<a, c>> \in ahead'
  <2>1. b # w /\ <<a, b>> \in ahead
    BY <1>1, <1>2, <1>3, <1>8
  <2>2. CASE c = w
    BY <1>2, <1>3, <1>4, <2>1, <2>2
  <2>3. CASE c # w
    BY <1>2, <1>3, <1>8, <2>1, <2>3 DEF QueueInv
  <2> QED BY <2>2, <2>3
<1> QED BY <1>5, <1>6, <1>7, <1>8 DEF QueueInv

(* Somebody with nobody before it waits no more. *)
LEMMA QueueServes ==
  ASSUME QueueInv, NEW a, Before(a) = {}, Served(a),
         ToRead' \cup ToWrite' = (ToRead \cup ToWrite) \ {a}, ToWrite' = ToWrite \ {a}
  PROVE  QueueInv'
<1>1. \A b, c : <<b, c>> \in ahead' <=> <<b, c>> \in ahead /\ b # a
  BY DEF Served
<1>2. \A b : <<b, a>> \notin ahead
  BY DEF Before
<1>3. ahead' \subseteq (ToRead \cup ToWrite)' \X ToWrite'
  <2>1. \A p \in ahead : p[1] \in ToRead \cup ToWrite /\ p[2] \in ToWrite /\ p = <<p[1], p[2]>>
    BY DEF QueueInv
  <2>2. \A p \in ahead' : p \in ahead /\ p[1] # a /\ p[2] # a
    BY <1>2, <2>1 DEF Served
  <2> QED BY <2>1, <2>2
<1> QED BY <1>1, <1>2, <1>3 DEF QueueInv

(* A reader that has its turn, or asks no more, is nobody's writer. *)
LEMMA ReaderServed ==
  ASSUME QueueInv, NEW a \in ToRead, Served(a), ToRead' = ToRead \ {a}, ToWrite' = ToWrite
  PROVE  QueueInv'
<1>1. a \notin ToWrite
  BY WaitsOnce
<1>2. Before(a) = {}
  BY <1>1 DEF Before, QueueInv
<1> QED BY <1>1, <1>2, QueueServes

LEMMA InitQueue == Init => QueueInv
BY DEF Init, QueueInv, ToWrite, IdleLoader, IdleLoop

LEMMA StepQueue == ASSUME TypeInv, QueueInv, [Next]_vars PROVE QueueInv'
<1>1. CASE UNCHANGED <<loader, loop, task, ahead>>
  BY <1>1, QueueKept DEF ToRead, ToWrite
<1>2. CASE World
  <2>1. ASSUME NEW z \in Zones, RegisterSecondary(z) PROVE QueueInv'
    <3>1. loader.at = "idle" /\ loader'.at = "pend" /\ UNCHANGED <<loop, task>> /\ Arrives("loader")
      BY <2>1 DEF RegisterSecondary, IdleLoader
    <3>2. /\ "loader" \notin ToRead \cup ToWrite
          /\ ToRead' = ToRead /\ ToWrite' = ToWrite \cup {"loader"}
      BY <3>1, RefreshAssumption DEF ToRead, ToWrite, Tasks
    <3> QED BY <3>1, <3>2, QueueGrows
  <2>2. ASSUME NEW z \in Zones, RegisterPrimary(z) \/ AskNotify(z) \/ AskForced(z) PROVE QueueInv'
    <3>1. /\ loader.at = "idle" /\ loader'.at \in {"file", "look", "tell"}
          /\ UNCHANGED <<loop, task, ahead>>
      BY <2>2 DEF RegisterPrimary, AskNotify, AskForced, IdleLoader
    <3> QED BY <3>1, QueueKept DEF ToRead, ToWrite
  <2> QED BY <1>1, <1>2, <2>1, <2>2 DEF World, NewVersion, OutageEnds
<1>3. CASE Loader
  <2>1. CASE InsertPending
    <3>1. /\ loader.at = "pend" /\ loader'.at = "tell" /\ UNCHANGED <<loop, task>>
          /\ Before("loader") = {} /\ Served("loader")
      BY <2>1 DEF InsertPending, PendingWritable, TypeInv, LoaderOK
    <3>2. /\ ToRead' \cup ToWrite' = (ToRead \cup ToWrite) \ {"loader"}
          /\ ToWrite' = ToWrite \ {"loader"}
      BY <3>1, RefreshAssumption DEF ToRead, ToWrite, Tasks
    <3> QED BY <3>1, <3>2, QueueServes
  <2>2. CASE LookupNotified
    <3>1. /\ loader.at = "look" /\ loader'.at \in {"tell", "idle"} /\ UNCHANGED <<loop, task>>
          /\ Served("loader")
      <4>1. /\ loader.at = "look" /\ UNCHANGED <<loop, task>> /\ Served("loader")
            /\ \/ loader' = IdleLoader
               \/ loader' = [loader EXCEPT !.at = "tell", !.event = About("notify", loader.zone)]
        BY <2>2 DEF LookupNotified
      <4>2. CASE loader' = IdleLoader
        BY <4>1, <4>2 DEF IdleLoader
      <4>3. CASE loader' # IdleLoader
        BY <4>1, <4>3 DEF TypeInv, LoaderOK
      <4> QED BY <4>2, <4>3
    <3>2. "loader" \in ToRead /\ ToRead' = ToRead \ {"loader"} /\ ToWrite' = ToWrite
      BY <3>1, RefreshAssumption DEF ToRead, ToWrite, Tasks
    <3> QED BY <3>1, <3>2, ReaderServed
  <2>3. CASE InsertPrimary \/ TellMaintainer \/ StoreInserted
    <3>1. /\ loader.at \notin {"pend", "look"} /\ loader'.at \notin {"pend", "look"}
          /\ UNCHANGED <<loop, task, ahead>>
      <4>1. /\ loader.at \in {"file", "tell", "store"} /\ UNCHANGED <<loop, task, ahead>>
            /\ \/ loader' = IdleLoader
               \/ loader' = [loader EXCEPT !.at = "store"]
               \/ \E e, c : loader' = [loader EXCEPT !.at = "tell", !.event = e, !.copy = c]
        BY <2>3 DEF InsertPrimary, TellMaintainer, StoreInserted
      <4>2. CASE loader' = IdleLoader
        BY <4>1, <4>2 DEF IdleLoader
      <4>3. CASE loader' # IdleLoader
        BY <4>1, <4>3 DEF TypeInv, LoaderOK
      <4> QED BY <4>2, <4>3
    <3> QED BY <3>1, QueueKept DEF ToRead, ToWrite
  <2>4. CASE ReportCommit
    BY <1>1, <2>4 DEF ReportCommit
  <2> QED BY <1>3, <2>1, <2>2, <2>3, <2>4 DEF Loader
<1>4. CASE RunLoop
  <2>1. CASE TakeAdded
    <3>1. loop.at = "idle" /\ loop'.at = "added" /\ UNCHANGED <<loader, task>> /\ Arrives("loop")
      BY <2>1 DEF TakeAdded, IdleLoop
    <3>2. /\ "loop" \notin ToRead \cup ToWrite
          /\ ToRead' = ToRead /\ ToWrite' = ToWrite \cup {"loop"}
      BY <3>1, RefreshAssumption DEF ToRead, ToWrite, Tasks
    <3> QED BY <3>1, <3>2, QueueGrows
  <2>2. CASE LockAdded
    <3>1. /\ loop.at = "added" /\ loop'.at \in {"idle", "track"} /\ UNCHANGED <<loader, task>>
          /\ Before("loop") = {} /\ Served("loop")
      BY <2>2 DEF LockAdded, PendingWritable, IdleLoop, TypeInv, LoopOK
    <3>2. /\ ToRead' \cup ToWrite' = (ToRead \cup ToWrite) \ {"loop"}
          /\ ToWrite' = ToWrite \ {"loop"}
      BY <3>1, RefreshAssumption DEF ToRead, ToWrite, Tasks
    <3> QED BY <3>1, <3>2, QueueServes
  <2>3. CASE TakeNotify
    <3>1. PICK t \in NotifyTasks : Spawn(t, Head(events).zone, "find", "notify")
      BY <2>3 DEF TakeNotify
    <3>2. t \in Tasks /\ task[t].at = "free" /\ \A u \in Tasks \ {t} : task'[u] = task[u]
      BY <3>1 DEF Tasks, Spawn, TypeInv, TasksOK
    <3>3. UNCHANGED <<loader, loop, ahead>>
      BY <2>3 DEF TakeNotify
    <3> QED BY <3>2, <3>3, QueueKept DEF ToRead, ToWrite
  <2>4. CASE TakeRefresh \/ TakeChanged \/ Track \/ LoadTree \/ StoreActive
    <3>1. /\ loop.at # "added" /\ loop'.at # "added"
          /\ UNCHANGED <<loader, task, ahead>>
      <4>1. CASE TakeRefresh \/ TakeChanged
        BY <4>1 DEF TakeRefresh, TakeChanged
      <4>2. CASE Track
        BY <4>2 DEF Track, IdleLoop, TypeInv, LoopOK
      <4>3. CASE LoadTree
        BY <4>3 DEF LoadTree, IdleLoop, TypeInv, LoopOK
      <4>4. CASE StoreActive
        BY <4>4 DEF StoreActive, IdleLoop
      <4> QED BY <2>4, <4>1, <4>2, <4>3, <4>4
    <3> QED BY <3>1, QueueKept DEF ToRead, ToWrite
  <2> QED BY <1>4, <2>1, <2>2, <2>3, <2>4 DEF RunLoop
<1>5. ASSUME NEW z \in Zones, FireTimer(z) PROVE QueueInv'
  <2>1. PICK t \in TimerTasks : Spawn(t, z, "check", timers[z])
    BY <1>5 DEF FireTimer
  <2>2. t \in Tasks /\ task[t].at = "free" /\ \A u \in Tasks \ {t} : task'[u] = task[u]
    BY <2>1 DEF Tasks, Spawn, TypeInv, TasksOK
  <2>3. UNCHANGED <<loader, loop, ahead>>
    BY <1>5 DEF FireTimer
  <2> QED BY <2>2, <2>3, QueueKept DEF ToRead, ToWrite
<1>6. ASSUME NEW t \in Tasks, Task(t) \/ Fail(t) PROVE QueueInv'
  <2>1. /\ UNCHANGED <<loader, loop>>
        /\ \A u \in Tasks \ {t} : task'[u] = task[u]
    BY <1>6 DEF Task, Transfer, Fail, Check, FindTimed, FindNotified, MarkNotified, Begin, Answer,
                Fetch, Progress, Commit, AnnounceCommit, AnnounceChange, ReadBack, Succeed,
                Schedule, Migrate, GiveUp, ScheduleRetry, Goto, End, TypeInv, TasksOK
  <2>2. t \notin {"loader", "loop"}
    BY RefreshAssumption DEF Tasks
  <2>3. CASE FindTimed(t) \/ FindNotified(t)
    <3>1. task[t].at = "find" /\ task'[t].at # "find" /\ Served(t)
      BY <2>3 DEF FindTimed, FindNotified, Goto, End, FreeTask, TypeInv, TasksOK
    <3>2. t \in ToRead /\ ToRead' = ToRead \ {t} /\ ToWrite' = ToWrite
      BY <2>1, <2>2, <3>1 DEF ToRead, ToWrite
    <3> QED BY <3>1, <3>2, ReaderServed
  <2>4. CASE ~(FindTimed(t) \/ FindNotified(t))
    <3>1. task[t].at # "find" /\ UNCHANGED ahead
      BY <1>6, <2>4
         DEF Task, Transfer, Fail, Check, MarkNotified, Begin, Answer,
             Fetch, Progress, Commit, AnnounceCommit, AnnounceChange, ReadBack, Succeed,
             Schedule, Migrate, GiveUp, ScheduleRetry
    <3> QED BY <2>1, <3>1, QueueKept DEF ToRead, ToWrite
  <2> QED BY <2>3, <2>4
<1> QED BY <1>1, <1>2, <1>3, <1>4, <1>5, <1>6 DEF Next, vars

LEMMA QueueAlways == Spec => []QueueInv
<1>1. TypeInv /\ QueueInv /\ [Next]_vars => QueueInv'
  BY StepQueue
<1> QED BY <1>1, InitQueue, TypesAlways, PTL DEF Spec

(* Every variable has its type, no channel is ever fuller than it may be, nobody      *)
(* refers to a zone object that was not made or waits behind somebody who does not    *)
(* wait.                                                                              *)
THEOREM TypeCorrect == Spec => []TypeOK
<1> QED BY TypesAlways, QueueAlways, TypesImply, PTL

(***************************************************************************)
(* Locks, and the status of a NOTIFY.                                      *)
(***************************************************************************)

\* Only the task of a NOTIFY sets its status.
MarksAreNotifies == \A t \in Tasks : task[t].at = "mark" => t \in NotifyTasks

\* Nobody reads the pending zones while the run loop writes them, and two tasks never
\* have the refresh states locked.
LocksExclude ==
  /\ LoopWrites => Readers = {}
  /\ \A t, u \in Tasks : task[t].at \in KeepsTimes /\ task[u].at \in KeepsTimes => t = u

LockInv == LocksExclude /\ MarksAreNotifies /\ NotifyStatusIsBrief

(* What a step of one task does to the places of all tasks. *)
LEMMA OneTask ==
  ASSUME TypeInv, NEW t \in Tasks, NEW k, task' = [task EXCEPT ![t] = k]
  PROVE  task'[t] = k /\ \A u \in Tasks \ {t} : task'[u] = task[u]
BY DEF TypeInv, TasksOK

LEMMA Moves ==
  ASSUME TypeInv, NEW t \in Tasks, NEW at, Goto(t, at)
  PROVE  /\ task'[t] = [task[t] EXCEPT !.at = at]
         /\ task'[t].at = at /\ task'[t].zone = task[t].zone /\ task'[t].object = task[t].object
         /\ \A u \in Tasks \ {t} : task'[u] = task[u]
BY DEF TypeInv, TasksOK, Goto

LEMMA Ends ==
  ASSUME TypeInv, NEW t \in Tasks, End(t)
  PROVE  task'[t] = FreeTask /\ FreeTask.at = "free" /\ \A u \in Tasks \ {t} : task'[u] = task[u]
BY DEF TypeInv, TasksOK, End, FreeTask

LEMMA Started ==
  ASSUME TypeInv, NEW t \in Tasks, NEW z, NEW at, NEW c, Spawn(t, z, at, c)
  PROVE  /\ task[t].at = "free"
         /\ task'[t].at = at /\ task'[t].zone = z /\ task'[t].object = tree[z]
         /\ \A u \in Tasks \ {t} : task'[u] = task[u]
BY DEF TypeInv, TasksOK, Spawn, FreeTask

(* A task changes its place to another, and the run loop stays where it is. *)
LEMMA PlaceChanges ==
  ASSUME LockInv, UNCHANGED loop, NEW t \in Tasks,
         \A u \in Tasks \ {t} : task'[u] = task[u],
         task'[t].at \in KeepsPending => task[t].at \in KeepsPending \/ ~LoopWrites,
         task'[t].at \in KeepsTimes => task[t].at \in KeepsTimes \/ TimesFree,
         task'[t].at = "mark" => t \in NotifyTasks
  PROVE  LocksExclude' /\ MarksAreNotifies'
<1>1. LoopWrites' => Readers' = {}
  BY DEF LockInv, LocksExclude, LoopWrites, Readers
<1>2. ASSUME NEW u \in Tasks, NEW v \in Tasks,
             task'[u].at \in KeepsTimes, task'[v].at \in KeepsTimes
      PROVE  u = v
  BY <1>2 DEF LockInv, LocksExclude, TimesFree
<1>3. MarksAreNotifies'
  BY DEF LockInv, MarksAreNotifies
<1> QED BY <1>1, <1>2, <1>3 DEF LocksExclude

(* The status of a NOTIFY needs its task only. *)
LEMMA StatusKept ==
  ASSUME LockInv, \A z \in Zones : tracked'[z] = "NotifyInProgress" => tracked[z] = "NotifyInProgress",
         \A t \in NotifyTasks : task[t].at = "begin" => task'[t] = task[t]
  PROVE  NotifyStatusIsBrief'
BY DEF LockInv, NotifyStatusIsBrief

LEMMA InitLocks == Init => LockInv
BY DEF Init, LockInv, LocksExclude, MarksAreNotifies, NotifyStatusIsBrief, LoopWrites, IdleLoop,
       KeepsTimes, FreeTask

LEMMA StepLocks == ASSUME TypeInv, LockInv, [Next]_vars PROVE LockInv'
<1>1. ASSUME UNCHANGED <<tracked, task>>, LoopWrites' => LoopWrites \/ PendingWritable("loop")
      PROVE  LockInv'
  BY <1>1 DEF LockInv, LocksExclude, MarksAreNotifies, NotifyStatusIsBrief, LoopWrites, Readers,
              PendingWritable
<1>2. CASE UNCHANGED vars
  BY <1>1, <1>2 DEF vars, timeVars, LoopWrites
<1>3. CASE World
  BY <1>1, <1>3 DEF World, NewVersion, RegisterSecondary, RegisterPrimary, AskNotify, AskForced,
                    OutageEnds, timeVars, LoopWrites
<1>4. CASE Loader
  BY <1>1, <1>4 DEF Loader, ReportCommit, InsertPending, InsertPrimary, LookupNotified,
                    TellMaintainer, StoreInserted, timeVars, LoopWrites
<1>5. CASE RunLoop
  <2>1. CASE TakeAdded \/ TakeRefresh \/ TakeChanged
    BY <1>1, <2>1 DEF TakeAdded, TakeRefresh, TakeChanged, timeVars, LoopWrites, IdleLoop
  <2>2. CASE TakeNotify
    <3>1. PICK t \in NotifyTasks : Spawn(t, Head(events).zone, "find", "notify")
      BY <2>2 DEF TakeNotify
    <3>2. t \in Tasks
      BY DEF Tasks
    <3>3. /\ task[t].at = "free" /\ task'[t].at = "find"
          /\ \A u \in Tasks \ {t} : task'[u] = task[u]
      BY <3>1, <3>2, Started
    <3>4. UNCHANGED loop /\ UNCHANGED tracked
      BY <2>2 DEF TakeNotify, timeVars
    <3>5. LocksExclude' /\ MarksAreNotifies'
      BY <3>2, <3>3, <3>4, PlaceChanges DEF KeepsPending, KeepsTimes
    <3>6. NotifyStatusIsBrief'
      BY <3>3, <3>4, StatusKept DEF Tasks
    <3> QED BY <3>5, <3>6 DEF LockInv
  <2>3. CASE LockAdded
    BY <1>1, <2>3 DEF LockAdded, timeVars
  <2>4. CASE LoadTree \/ StoreActive
    BY <1>1, <2>4 DEF LoadTree, StoreActive, timeVars, LoopWrites
  <2>5. CASE Track
    <3>1. /\ LoopWrites /\ UNCHANGED task /\ loop.zone \in Zones
          /\ tracked' = [tracked EXCEPT ![loop.zone] = IF @ = "no" THEN "RefreshPending" ELSE @]
      BY <2>5 DEF Track, LoopWrites, TypeInv, LoopOK
    <3>2. LocksExclude' /\ MarksAreNotifies'
      BY <3>1 DEF LockInv, LocksExclude, MarksAreNotifies, Readers
    <3>3. NotifyStatusIsBrief'
      BY <3>1 DEF LockInv, NotifyStatusIsBrief, TypeInv, TimesOK
    <3> QED BY <3>2, <3>3 DEF LockInv
  <2> QED BY <1>5, <2>1, <2>2, <2>3, <2>4, <2>5 DEF RunLoop
<1>6. ASSUME NEW z \in Zones, FireTimer(z) PROVE LockInv'
  <2>1. PICK t \in TimerTasks : Spawn(t, z, "check", timers[z])
    BY <1>6 DEF FireTimer
  <2>2. t \in Tasks
    BY DEF Tasks
  <2>3. /\ task[t].at = "free" /\ task'[t].at = "check"
        /\ \A u \in Tasks \ {t} : task'[u] = task[u]
    BY <2>1, <2>2, Started
  <2>4. UNCHANGED loop /\ UNCHANGED tracked
    BY <1>6 DEF FireTimer
  <2>5. LocksExclude' /\ MarksAreNotifies'
    BY <2>2, <2>3, <2>4, PlaceChanges DEF KeepsPending, KeepsTimes
  <2>6. NotifyStatusIsBrief'
    BY <2>3, <2>4, StatusKept DEF Tasks
  <2> QED BY <2>5, <2>6 DEF LockInv
<1>7. ASSUME NEW t \in Tasks, Task(t) \/ Fail(t) PROVE LockInv'
  <2> DEFINE z == task[t].zone
  <2>0. UNCHANGED loop
    BY <1>7 DEF Task, Transfer, Fail, Check, FindTimed, FindNotified, MarkNotified, Begin, Answer,
                Fetch, Progress, Commit, AnnounceCommit, AnnounceChange, ReadBack, Succeed,
                Schedule, Migrate, GiveUp, ScheduleRetry
  <2>1. CASE Check(t) \/ FindTimed(t) \/ FindNotified(t)
    <3>1. /\ task[t].at \in {"check", "find"} /\ UNCHANGED tracked
          /\ \/ End(t)
             \/ Goto(t, "find")
             \/ ~LoopWrites /\ Goto(t, "begin")
             \/ ~LoopWrites /\ t \in NotifyTasks /\ Goto(t, "mark")
             \/ ~LoopWrites /\ \E at \in {"begin", "mark"} :
                  /\ at = "mark" => t \in NotifyTasks
                  /\ task' = [task EXCEPT ![t].at = at, ![t].object = pending[z], ![t].waiting = TRUE]
      BY <2>1 DEF Check, FindTimed, FindNotified, PendingReadable, timeVars
    <3>2. /\ \A u \in Tasks \ {t} : task'[u] = task[u]
          /\ \/ task'[t].at \in {"free", "find"}
             \/ ~LoopWrites /\ task'[t].at = "begin"
             \/ ~LoopWrites /\ task'[t].at = "mark" /\ t \in NotifyTasks
      <4>1. ASSUME NEW at \in {"begin", "mark"},
                   task' = [task EXCEPT ![t].at = at, ![t].object = pending[z], ![t].waiting = TRUE]
            PROVE  task'[t].at = at /\ \A u \in Tasks \ {t} : task'[u] = task[u]
        BY <4>1 DEF TypeInv, TasksOK
      <4> QED BY <3>1, <4>1, Moves, Ends
    <3>3. LocksExclude' /\ MarksAreNotifies'
      BY <2>0, <3>2, PlaceChanges DEF KeepsPending, KeepsTimes
    <3>4. NotifyStatusIsBrief'
      BY <3>1, <3>2, StatusKept DEF Tasks
    <3> QED BY <3>3, <3>4 DEF LockInv
  <2>2. CASE MarkNotified(t)
    <3>1. /\ task[t].at = "mark" /\ t \in NotifyTasks /\ z \in Zones
          /\ \/ End(t) /\ UNCHANGED tracked
             \/ Goto(t, "begin") /\ tracked' = [tracked EXCEPT ![z] = "NotifyInProgress"]
      BY <2>2, StepsOfTask DEF MarkNotified, LockInv, MarksAreNotifies, Found, TaskAt
    <3>2. /\ \A u \in Tasks \ {t} : task'[u] = task[u]
          /\ task'[t].at \in {"free", "begin"}
      BY <3>1, Moves, Ends
    <3>3. LocksExclude' /\ MarksAreNotifies'
      BY <2>0, <3>1, <3>2, PlaceChanges DEF KeepsPending, KeepsTimes, TaskAt
    <3>4. NotifyStatusIsBrief'
      <4>1. CASE UNCHANGED tracked
        BY <3>1, <3>2, <4>1, StatusKept DEF Tasks
      <4>2. CASE Goto(t, "begin") /\ tracked' = [tracked EXCEPT ![z] = "NotifyInProgress"]
        <5>1. /\ task'[t].at = "begin" /\ task'[t].zone = z
              /\ tracked'[z] = "NotifyInProgress" /\ \A y \in Zones \ {z} : tracked'[y] = tracked[y]
          BY <3>1, <4>2, Moves DEF TypeInv, TimesOK
        <5>2. \A u \in NotifyTasks \ {t} : task'[u] = task[u]
          BY <3>2 DEF Tasks
        <5> QED BY <3>1, <5>1, <5>2 DEF LockInv, NotifyStatusIsBrief
      <4> QED BY <3>1, <4>1, <4>2
    <3> QED BY <3>3, <3>4 DEF LockInv
  <2>3. CASE Begin(t)
    <3> DEFINE k == [task[t] EXCEPT !.at = "ask", !.cause = "refresh",
                                    !.own = soa[z][task[t].object]]
    <3>1. /\ task[t].at = "begin" /\ z \in Zones /\ task' = [task EXCEPT ![t] = k]
          /\ tracked' = [tracked EXCEPT ![z] = StatusDuring(task[t].cause)]
      BY <2>3, StepsOfTask DEF Begin, Found, TaskAt
    <3>2. k.at = "ask"
      BY DEF TypeInv, TasksOK
    <3> HIDE DEF k
    <3>3. task'[t] = k /\ \A u \in Tasks \ {t} : task'[u] = task[u]
      BY <3>1, OneTask
    <3>4. LocksExclude' /\ MarksAreNotifies'
      BY <2>0, <3>1, <3>2, <3>3, PlaceChanges DEF KeepsPending, KeepsTimes, TaskAt
    <3>5. NotifyStatusIsBrief'
      <4>1. tracked'[z] # "NotifyInProgress" /\ \A y \in Zones \ {z} : tracked'[y] = tracked[y]
        BY <3>1 DEF TypeInv, TimesOK, StatusDuring
      <4> QED BY <3>3, <4>1 DEF LockInv, NotifyStatusIsBrief, Tasks
    <3> QED BY <3>4, <3>5 DEF LockInv
  <2>4. ASSUME task[t].at \in KeepsPending \ {"mark", "begin"},
               task'[t].at \in TaskAt \ {"mark"},
               task'[t].at \in KeepsTimes => TimesFree,
               \A u \in Tasks \ {t} : task'[u] = task[u],
               \A y \in Zones : tracked'[y] = "NotifyInProgress" => tracked[y] = "NotifyInProgress"
        PROVE  LockInv'
    <3>1. LocksExclude' /\ MarksAreNotifies'
      BY <2>0, <2>4, PlaceChanges
    <3>2. NotifyStatusIsBrief'
      BY <2>4, StatusKept DEF Tasks
    <3> QED BY <3>1, <3>2 DEF LockInv
  <2>5. CASE \/ Answer(t) \/ Fail(t) \/ AnnounceCommit(t) \/ AnnounceChange(t) \/ ReadBack(t)
             \/ Schedule(t) \/ Migrate(t) \/ ScheduleRetry(t)
    <3>1. /\ UNCHANGED tracked /\ task[t].at \in KeepsPending \ {"mark", "begin"}
          /\ End(t) \/ \E at \in TaskAt \ ({"mark"} \cup KeepsTimes) : Goto(t, at)
      BY <2>5 DEF Answer, Fail, AnnounceCommit, AnnounceChange, ReadBack, Schedule, Migrate,
                  ScheduleRetry, KeepsPending, KeepsTimes, TaskAt, timeVars
    <3>2. /\ task'[t].at \in TaskAt \ ({"mark"} \cup KeepsTimes)
          /\ \A u \in Tasks \ {t} : task'[u] = task[u]
      BY <3>1, Moves, Ends DEF TaskAt, KeepsTimes
    <3> QED BY <2>4, <3>1, <3>2
  <2>6. CASE Succeed(t) \/ GiveUp(t)
    <3>1. /\ TimesFree /\ task[t].at \in {"done", "failed"} /\ z \in Zones
          /\ \/ UNCHANGED tracked
             \/ tracked' = [tracked EXCEPT ![z] = "RefreshPending"]
             \/ tracked' = [tracked EXCEPT ![z] = IF @ = "RetryInProgress" THEN @ ELSE "RetryPending"]
          /\ End(t) \/ Goto(t, "schedule") \/ Goto(t, "retry")
      BY <2>6, StepsOfTask DEF Succeed, GiveUp, Found, TaskAt
    <3>2. /\ task'[t].at \in {"free", "schedule", "retry"}
          /\ \A u \in Tasks \ {t} : task'[u] = task[u]
      BY <3>1, Moves, Ends
    <3>3. \A y \in Zones : tracked'[y] = "NotifyInProgress" => tracked[y] = "NotifyInProgress"
      BY <3>1 DEF TypeInv, TimesOK
    <3> QED BY <2>4, <3>1, <3>2, <3>3 DEF KeepsPending, TaskAt
  <2>7. CASE Fetch(t) \/ Commit(t)
    <3>1. /\ UNCHANGED tracked /\ task[t].at \in {"fetch", "fetching"}
          /\ \A u \in Tasks \ {t} : task'[u] = task[u]
          /\ task'[t].at \in {"fetching", "failed", "report"}
      BY <2>7 DEF Fetch, Commit, Goto, timeVars, TypeInv, TasksOK
    <3> QED BY <2>4, <3>1 DEF KeepsPending, KeepsTimes, TaskAt
  <2>8. CASE Progress(t)
    <3>1. /\ UNCHANGED task /\ task[t].at = "fetching" /\ z \in Zones
          /\ tracked' = [tracked EXCEPT ![z] = "RefreshInProgress"]
      BY <2>8, StepsOfTask DEF Progress, Found, TaskAt
    <3>2. \A y \in Zones : tracked'[y] = "NotifyInProgress" => tracked[y] = "NotifyInProgress"
      BY <3>1 DEF TypeInv, TimesOK
    <3> QED BY <2>4, <3>1, <3>2 DEF KeepsPending, KeepsTimes, TaskAt
  <2> QED BY <1>7, <2>1, <2>2, <2>3, <2>5, <2>6, <2>7, <2>8 DEF Task, Transfer
<1> QED BY <1>2, <1>3, <1>4, <1>5, <1>6, <1>7 DEF Next

LEMMA LocksAlways == Spec => []LockInv
<1>1. TypeInv /\ LockInv /\ [Next]_vars => LockInv'
  BY StepLocks
<1> QED BY InitLocks, TypesAlways, <1>1, PTL DEF Spec

(* The status that makes NOTIFYs be ignored is always about to be replaced. *)
THEOREM NotifiesAreHeard == Spec => []NotifyStatusIsBrief
<1>1. LockInv => NotifyStatusIsBrief
  BY DEF LockInv
<1> QED BY <1>1, LocksAlways, PTL

(***************************************************************************)
(* No refresh is the last.                                                 *)
(***************************************************************************)

\* A task that refreshes its zone, so that another refresh of it will follow.
Refreshes(t, z) ==
  /\ task[t].zone = z
  /\ \/ task[t].at \in Found \ {"mark", "migrate"}
     \/ t \in TimerTasks /\ task[t].at \in {"check", "find"} /\ task[t].object # 0

InEvents(k, z) == \E i \in 1 .. Len(events) : events[i].kind = k /\ events[i].zone = z

\* Another refresh of zone z will follow, whatever becomes of the sets of zones.
RefreshComes(z) ==
  \/ timers[z] # "none"
  \/ InEvents("refresh", z)
  \/ \E t \in Tasks : Refreshes(t, z)
  \/ z \in expired \/ loop.at = "dead"

\* ... or a zone that waits for its first transfer is looked at,
PendingHandled(z) ==
  \/ InEvents("added", z)
  \/ loader.at = "tell" /\ loader.zone = z /\ loader.event = About("added", z)
  \/ loop.at \in {"added", "track"} /\ loop.zone = z
  \/ \E t \in TimerTasks : task[t].at \in {"check", "find"} /\ task[t].zone = z
  \/ \E t \in Tasks : task[t].at = "migrate" /\ task[t].zone = z

\* ... or is about to be served, and then to get a timer.
Activated(z) == loop.at \in {"insert", "store"} /\ loop.zone = z

\* In the tree, or in the one that the run loop is about to store.
Known(z) == tree[z] # 0 \/ (loop.at = "store" /\ loop.copy[z] # 0)

\* Zones from files are neither pending nor tracked.
FilesApart ==
  /\ \A z \in FileZones : pending[z] = 0 /\ tracked[z] = "no"
  /\ loader.at = "pend" => loader.zone \notin FileZones
  /\ loader.at = "file" => loader.zone \in FileZones
  /\ loop.at \in {"track", "insert", "store"} => loop.zone \notin FileZones /\ loop.object # 0

\* A task that has seen that its zone is tracked.
FoundTracked(t) ==
  task[t].at \in Found \ {"mark"} \/ (t \in TimerTasks /\ task[t].at = "find")

\* What is refreshed, or about to be served, is tracked.
RefreshedIsTracked ==
  /\ \A t \in Tasks : FoundTracked(t) => tracked[task[t].zone] # "no"
  /\ loop.at \in {"insert", "store"} => tracked[loop.zone] # "no"
  /\ \A z \in Zones \ FileZones : Known(z) => tracked[z] # "no"

\* Of the copies of the tree, that of the loader has no zone that was lost, and that
\* of the run loop has all zones that are served.
CopiesInStep ==
  \A z \in Zones \ FileZones :
    /\ loader.copy[z] # 0 => tree[z] # 0
    /\ loop.at = "store" /\ tree[z] # 0 => loop.copy[z] # 0

Refreshed(z) ==
  tracked[z] # "no" =>
    /\ Known(z) => RefreshComes(z) \/ Activated(z)
    /\ pending[z] # 0 => RefreshComes(z) \/ PendingHandled(z)

GoesOnInv ==
  FilesApart /\ RefreshedIsTracked /\ CopiesInStep /\ (\A z \in Zones : Refreshed(z))

(* Events in the channel: sent, taken, or left alone. *)
LEMMA EventsSent ==
  ASSUME ChannelType, NEW e \in Event, Send(e)
  PROVE  /\ InEvents(e.kind, e.zone)'
         /\ \A k, z : InEvents(k, z) => InEvents(k, z)'
<1>1. /\ events \in Seq(Event) /\ Len(events) \in Nat /\ events' = Append(events, e)
      /\ Len(events') = Len(events) + 1 /\ events'[Len(events) + 1] = e
      /\ \A i \in 1 .. Len(events) : events'[i] = events[i]
  BY DEF ChannelType, Send
<1> QED BY <1>1 DEF InEvents

LEMMA EventsTaken ==
  ASSUME ChannelType, events # <<>>, events' = Tail(events), NEW k, NEW z, InEvents(k, z)
  PROVE  InEvents(k, z)' \/ (Head(events).kind = k /\ Head(events).zone = z)
<1>1. /\ events \in Seq(Event) /\ Len(events) \in Nat \ {0} /\ Head(events) = events[1]
      /\ Len(events') = Len(events) - 1
      /\ \A i \in 1 .. Len(events) - 1 : events'[i] = events[i + 1]
  BY DEF ChannelType
<1>2. PICK i \in 1 .. Len(events) : events[i].kind = k /\ events[i].zone = z
  BY DEF InEvents
<1>3. CASE i = 1
  BY <1>1, <1>2, <1>3
<1>4. CASE i # 1
  <2>1. i - 1 \in 1 .. Len(events') /\ events'[i - 1] = events[i]
    BY <1>1, <1>2, <1>4
  <2> QED BY <1>2, <2>1 DEF InEvents
<1> QED BY <1>3, <1>4

LEMMA EventsKept ==
  ASSUME UNCHANGED events
  PROVE  \A k, z : InEvents(k, z)' <=> InEvents(k, z)
BY DEF InEvents

(* The kinds of the events that are sent. *)
LEMMA EventKinds ==
  /\ \A k, z : About(k, z).kind = k /\ About(k, z).zone = z
  /\ \A c, z : Again(z, c).kind = "refresh" /\ Again(z, c).zone = z
BY DEF About, Again

(* Armed is armed: the timer of the zone, and those that were before. *)
LEMMA Armed ==
  ASSUME TypeInv, NEW z \in Zones, NEW c \in {"refresh", "retry"}, Arm(z, c)
  PROVE  /\ timers'[z] # "none"
         /\ \A y \in Zones : timers[y] # "none" => timers'[y] # "none"
BY DEF TypeInv, TimesOK, Arm

LEMMA InitGoesOn == Init => GoesOnInv
<1> SUFFICES ASSUME Init PROVE GoesOnInv
  OBVIOUS
<1>1. \A z \in Zones : tree[z] = 0 /\ pending[z] = 0 /\ tracked[z] = "no"
  BY AtRest DEF Init
<1>2. loader.at = "idle" /\ loop.at = "idle" /\ loader.copy = NoTree
  BY DEF Init, IdleLoader, IdleLoop
<1>3. \A t \in Tasks : task[t].at = "free"
  BY DEF Init, FreeTask
<1>4. FilesApart
  BY <1>1, <1>2, RefreshAssumption DEF FilesApart
<1>5. RefreshedIsTracked
  BY <1>1, <1>2, <1>3 DEF RefreshedIsTracked, FoundTracked, Known, Found
<1>6. CopiesInStep
  BY <1>1, <1>2, AtRest DEF CopiesInStep
<1>7. \A z \in Zones : Refreshed(z)
  BY <1>1 DEF Refreshed
<1> QED BY <1>4, <1>5, <1>6, <1>7 DEF GoesOnInv

(* What comes for a zone, when nothing is taken away from it. *)
LEMMA ComesKept ==
  ASSUME NEW z \in Zones,
         timers[z] # "none" => timers'[z] # "none" \/ RefreshComes(z)',
         InEvents("refresh", z) => InEvents("refresh", z)' \/ RefreshComes(z)',
         \A t \in Tasks : Refreshes(t, z) => RefreshComes(z)',
         expired \subseteq expired', loop.at = "dead" => loop'.at = "dead",
         RefreshComes(z)
  PROVE  RefreshComes(z)'
BY DEF RefreshComes

(* Steps that leave the tasks alone. *)
LEMMA TasksAlone ==
  ASSUME UNCHANGED task
  PROVE  /\ \A t, z : Refreshes(t, z)' <=> Refreshes(t, z)
         /\ \A t : FoundTracked(t)' <=> FoundTracked(t)
BY DEF Refreshes, FoundTracked

LEMMA QuietGoesOn ==
  ASSUME GoesOnInv,
         UNCHANGED <<setVars, timeVars, events, expired, loader, loop, task>>
  PROVE  GoesOnInv'
BY DEF GoesOnInv, FilesApart, RefreshedIsTracked, CopiesInStep, Refreshed, Known, FoundTracked, RefreshComes,
       PendingHandled, Activated, Refreshes, InEvents, setVars, timeVars

(* A step of the loader that only moves itself, or sends an event. *)
LEMMA LoaderMoves ==
  ASSUME TypeInv, GoesOnInv, UNCHANGED <<setVars, timeVars, expired, loop, task>>,
         \A k, z : InEvents(k, z) => InEvents(k, z)',
         loader'.at = "pend" => loader'.zone \notin FileZones,
         loader'.at = "file" => loader'.zone \in FileZones,
         \A z \in Zones \ FileZones : loader'.copy[z] # 0 => tree[z] # 0,
         \A z \in Zones :
            loader.at = "tell" /\ loader.zone = z /\ loader.event = About("added", z) =>
              InEvents("added", z)'
  PROVE  GoesOnInv'
<1>1. FilesApart'
  BY DEF GoesOnInv, FilesApart, setVars, timeVars
<1>2. RefreshedIsTracked'
  BY TasksAlone DEF GoesOnInv, RefreshedIsTracked, Known, setVars, timeVars
<1>3. CopiesInStep'
  BY DEF GoesOnInv, CopiesInStep, setVars
<1>4. ASSUME NEW z \in Zones PROVE Refreshed(z)'
  <2>1. RefreshComes(z) => RefreshComes(z)'
    BY TasksAlone DEF RefreshComes, timeVars
  <2>2. PendingHandled(z) => PendingHandled(z)'
    BY DEF PendingHandled
  <2> QED BY <2>1, <2>2 DEF GoesOnInv, Refreshed, Known, Activated, setVars, timeVars
<1> QED BY <1>1, <1>2, <1>3, <1>4 DEF GoesOnInv

LEMMA WorldGoesOn ==
  ASSUME TypeInv, GoesOnInv, NEW z \in Zones,
         \/ NewVersion(z) \/ RegisterSecondary(z) \/ RegisterPrimary(z)
         \/ AskNotify(z) \/ AskForced(z) \/ OutageEnds
  PROVE  GoesOnInv'
<1>1. CASE NewVersion(z) \/ OutageEnds
  BY <1>1, QuietGoesOn DEF NewVersion, OutageEnds, chanVars, zoneVars
<1>2. CASE RegisterSecondary(z)
  <2>1. /\ UNCHANGED <<setVars, timeVars, events, expired, loop, task>>
        /\ loader.at = "idle" /\ z \notin FileZones
        /\ loader'.at = "pend" /\ loader'.zone = z /\ loader'.copy = tree
    BY <1>2 DEF RegisterSecondary, chanVars, IdleLoader
  <2> QED BY <2>1, LoaderMoves, EventsKept
<1>3. CASE RegisterPrimary(z) \/ AskNotify(z) \/ AskForced(z)
  <2>1. /\ UNCHANGED <<setVars, timeVars, events, expired, loop, task>>
        /\ loader.at = "idle" /\ loader'.at # "pend"
        /\ loader'.at = "file" => loader'.zone \in FileZones
        /\ loader'.copy = NoTree
    BY <1>3 DEF RegisterPrimary, AskNotify, AskForced, chanVars, zoneVars, IdleLoader
  <2> QED BY <2>1, LoaderMoves, EventsKept, AtRest
<1> QED BY <1>1, <1>2, <1>3

LEMMA LoaderGoesOn ==
  ASSUME TypeInv, GoesOnInv, Loader
  PROVE  GoesOnInv'
<1>1. CASE ReportCommit
  BY <1>1, QuietGoesOn DEF ReportCommit, zoneVars
<1>2. CASE InsertPending
  <2> DEFINE y == loader.zone
  <2>1. /\ UNCHANGED <<tree, timeVars, events, expired, loop, task>>
        /\ loader.at = "pend" /\ y \in Zones
        /\ pending' = [pending EXCEPT ![y] = loader.object]
        /\ loader'.at = "tell" /\ loader'.zone = y /\ loader'.copy = loader.copy
        /\ loader'.event = About("added", y)
    BY <1>2 DEF InsertPending, chanVars, zoneVars, TypeInv, LoaderOK
  <2>2. \A z \in Zones \ {y} : pending'[z] = pending[z]
    BY <2>1 DEF TypeInv, SetsOK, Tree
  <2>3. y \notin FileZones
    BY <2>1 DEF GoesOnInv, FilesApart
  <2>4. FilesApart'
    BY <2>1, <2>2, <2>3, RefreshAssumption DEF GoesOnInv, FilesApart, timeVars
  <2>5. RefreshedIsTracked'
    BY <2>1, TasksAlone DEF GoesOnInv, RefreshedIsTracked, Known, timeVars
  <2>6. CopiesInStep'
    BY <2>1 DEF GoesOnInv, CopiesInStep
  <2>7. ASSUME NEW z \in Zones PROVE Refreshed(z)'
    <3>1. RefreshComes(z) => RefreshComes(z)'
      BY <2>1, TasksAlone, EventsKept DEF RefreshComes, timeVars
    <3>2. z # y /\ PendingHandled(z) => PendingHandled(z)'
      BY <2>1, EventsKept DEF PendingHandled
    <3>3. z = y => PendingHandled(z)'
      BY <2>1 DEF PendingHandled
    <3> QED BY <2>1, <2>2, <3>1, <3>2, <3>3
            DEF GoesOnInv, Refreshed, Known, Activated, timeVars
  <2> QED BY <2>4, <2>5, <2>6, <2>7 DEF GoesOnInv
<1>3. CASE InsertPrimary
  <2> DEFINE y == loader.zone
  <2>1. /\ UNCHANGED <<setVars, timeVars, events, expired, loop, task>>
        /\ loader.at = "file" /\ y \in Zones
        /\ \/ loader' = IdleLoader
           \/ loader'.at = "tell" /\ loader'.copy = [tree EXCEPT ![y] = loader.object]
    BY <1>3 DEF InsertPrimary, Extended, zoneVars, TypeInv, LoaderOK
  <2>2. y \in FileZones
    BY <2>1 DEF GoesOnInv, FilesApart
  <2>3. \A z \in Zones \ FileZones : loader'.copy[z] # 0 => tree[z] # 0
    <3>1. CASE loader' = IdleLoader
      BY <3>1, AtRest DEF IdleLoader
    <3>2. CASE loader'.copy = [tree EXCEPT ![y] = loader.object]
      BY <2>2, <3>2 DEF TypeInv, SetsOK, Tree
    <3> QED BY <2>1, <3>1, <3>2
  <2>4. loader'.at \in {"idle", "tell"}
    BY <2>1 DEF IdleLoader
  <2> QED BY <2>1, <2>3, <2>4, LoaderMoves, EventsKept
<1>4. CASE LookupNotified
  <2>0. /\ UNCHANGED <<setVars, timeVars, events, expired, loop, task>>
        /\ loader.at = "look"
        /\ \/ loader' = IdleLoader
           \/ loader' = [loader EXCEPT !.at = "tell", !.event = About("notify", loader.zone)]
    BY <1>4 DEF LookupNotified, chanVars, zoneVars
  <2>1. /\ UNCHANGED <<setVars, timeVars, events, expired, loop, task>>
        /\ loader.at = "look" /\ loader'.at \in {"idle", "tell"}
        /\ loader'.copy \in {loader.copy, NoTree}
    <3>1. CASE loader' = IdleLoader
      BY <2>0, <3>1 DEF IdleLoader
    <3>2. CASE loader' = [loader EXCEPT !.at = "tell", !.event = About("notify", loader.zone)]
      <4>1. loader'.at = "tell" /\ loader'.copy = loader.copy
        BY <3>2 DEF TypeInv, LoaderOK
      <4> QED BY <2>0, <4>1
    <3> QED BY <2>0, <3>1, <3>2
  <2>2. \A z \in Zones \ FileZones : loader'.copy[z] # 0 => tree[z] # 0
    BY <2>1, AtRest DEF GoesOnInv, CopiesInStep
  <2> QED BY <2>1, <2>2, LoaderMoves, EventsKept
<1>5. CASE TellMaintainer
  <2>1. /\ UNCHANGED <<setVars, timeVars, expired, loop, task>>
        /\ loader.at = "tell" /\ Send(loader.event) /\ loader.event \in Event
        /\ loader'.at \in {"idle", "store"} /\ loader'.copy \in {loader.copy, NoTree}
    BY <1>5 DEF TellMaintainer, zoneVars, IdleLoader, TypeInv, LoaderOK
  <2>2. \A z \in Zones \ FileZones : loader'.copy[z] # 0 => tree[z] # 0
    BY <2>1, AtRest DEF GoesOnInv, CopiesInStep
  <2> PICK e \in Event : e = loader.event
    BY <2>1
  <2>3. /\ \A k, z : InEvents(k, z) => InEvents(k, z)'
        /\ InEvents(e.kind, e.zone)'
    BY <2>1, EventsSent DEF TypeInv
  <2>4. ASSUME NEW z \in Zones, loader.event = About("added", z)
        PROVE  InEvents("added", z)'
    <3>1. e.kind = "added" /\ e.zone = z
      BY <2>4, EventKinds
    <3> QED BY <2>3, <3>1
  <2> QED BY <2>1, <2>2, <2>3, <2>4, LoaderMoves
<1>6. CASE StoreInserted
  <2>1. /\ UNCHANGED <<pending, timeVars, events, expired, loop, task>>
        /\ loader.at = "store" /\ tree' = loader.copy
        /\ loader'.at = "idle" /\ loader'.copy = NoTree
    BY <1>6 DEF StoreInserted, chanVars, zoneVars, IdleLoader
  <2>2. \A z \in Zones \ FileZones : tree'[z] # 0 => tree[z] # 0
    BY <2>1 DEF GoesOnInv, CopiesInStep
  <2>3. \A z \in Zones \ FileZones : Known(z)' => Known(z)
    BY <2>1, <2>2 DEF Known
  <2>4. FilesApart'
    BY <2>1 DEF GoesOnInv, FilesApart, timeVars
  <2>5. RefreshedIsTracked'
    BY <2>1, <2>3, TasksAlone DEF GoesOnInv, RefreshedIsTracked, timeVars
  <2>6. CopiesInStep'
    BY <2>1, <2>2, AtRest DEF GoesOnInv, CopiesInStep
  <2>7. ASSUME NEW z \in Zones PROVE Refreshed(z)'
    <3>1. RefreshComes(z) => RefreshComes(z)'
      BY <2>1, TasksAlone, EventsKept DEF RefreshComes, timeVars
    <3>2. PendingHandled(z) => PendingHandled(z)'
      BY <2>1, EventsKept DEF PendingHandled
    <3>3. CASE z \in FileZones
      BY <2>1, <3>3 DEF GoesOnInv, FilesApart, Refreshed, timeVars
    <3>4. CASE z \notin FileZones
      BY <2>1, <2>3, <3>1, <3>2, <3>4 DEF GoesOnInv, Refreshed, Activated, timeVars
    <3> QED BY <3>3, <3>4
  <2> QED BY <2>4, <2>5, <2>6, <2>7 DEF GoesOnInv
<1> QED BY <1>1, <1>2, <1>3, <1>4, <1>5, <1>6 DEF Loader

(* Steps of the run loop that keep the sets and arm no fewer timers. *)
LEMMA LoopMoves ==
  ASSUME TypeInv, GoesOnInv, UNCHANGED <<setVars, expired, loader, task>>,
         loop.at \in {"idle", "added", "insert"},
         loop'.at \in {"track", "insert", "store"} => loop'.zone \notin FileZones /\ loop'.object # 0,
         loop'.at \in {"insert", "store"} => tracked[loop'.zone] # "no",
         loop'.at = "store" => loop'.copy = tree,
         UNCHANGED tracked,
         \A z \in Zones : RefreshComes(z) => RefreshComes(z)',
         \A z \in Zones : Activated(z) => Activated(z)' \/ loop'.at = "dead",
         \A z \in Zones : pending[z] # 0 /\ PendingHandled(z) =>
                            PendingHandled(z)' \/ RefreshComes(z)'
  PROVE  GoesOnInv'
<1>1. FilesApart'
  BY DEF GoesOnInv, FilesApart, setVars
<1>2. \A z \in Zones : Known(z)' => Known(z)
  BY DEF Known, setVars
<1>3. RefreshedIsTracked'
  BY <1>2, TasksAlone DEF GoesOnInv, RefreshedIsTracked
<1>4. CopiesInStep'
  BY DEF GoesOnInv, CopiesInStep, setVars
<1>5. ASSUME NEW z \in Zones PROVE Refreshed(z)'
  <2>1. loop'.at = "dead" => RefreshComes(z)'
    BY DEF RefreshComes
  <2> QED BY <1>2, <2>1 DEF GoesOnInv, Refreshed, setVars
<1> QED BY <1>1, <1>3, <1>4, <1>5 DEF GoesOnInv

(* Activation of a zone: what follows when the run loop takes an event. *)
LEMMA TakeGoesOn ==
  ASSUME TypeInv, GoesOnInv, TakeAdded \/ TakeRefresh \/ TakeChanged
  PROVE  GoesOnInv'
<1> PICK e \in Event : e = Head(events)
  BY ReceiveOK DEF TakeAdded, TakeRefresh, TakeChanged, TypeInv
<1>1. /\ UNCHANGED <<setVars, expired, loader, task, tracked>>
      /\ loop.at = "idle" /\ events # <<>> /\ events' = Tail(events)
      /\ \/ e.kind = "added" /\ loop'.at = "added" /\ loop'.zone = e.zone /\ UNCHANGED timers
         \/ e.kind = "refresh" /\ Arm(e.zone, e.cause) /\ UNCHANGED loop
         \/ e.kind = "changed" /\ UNCHANGED <<loop, timers>>
  BY DEF TakeAdded, TakeRefresh, TakeChanged, zoneVars, timeVars, IdleLoop
<1>2. e.zone \in Zones /\ (e.kind = "refresh" => e.cause \in {"refresh", "retry"})
  BY DEF Event
<1>3. ASSUME NEW z \in Zones
      PROVE  /\ timers[z] # "none" => timers'[z] # "none"
             /\ e.kind = "refresh" /\ e.zone = z => timers'[z] # "none"
  BY <1>1, <1>2, Armed
<1>4. \A k, z : InEvents(k, z) => InEvents(k, z)' \/ (e.kind = k /\ e.zone = z)
  BY <1>1, EventsTaken DEF TypeInv
<1>5. ASSUME NEW z \in Zones, RefreshComes(z) PROVE RefreshComes(z)'
  BY <1>1, <1>3, <1>4, <1>5, TasksAlone DEF RefreshComes
<1>6. ASSUME NEW z \in Zones, PendingHandled(z) PROVE PendingHandled(z)'
  BY <1>1, <1>4, <1>6 DEF PendingHandled
<1>7. \A z \in Zones : ~ Activated(z)
  BY <1>1 DEF Activated
<1> QED BY <1>1, <1>5, <1>6, <1>7, LoopMoves

(* A task is started: only a timer's task needs more than its start. *)
LEMMA StartGoesOn ==
  ASSUME TypeInv, GoesOnInv, NEW t \in Tasks, NEW y \in Zones, NEW at \in {"check", "find"}, NEW c,
         Spawn(t, y, at, c),
         UNCHANGED <<setVars, tracked, expired, loader, loop>>, loop.at = "idle",
         \A z \in Zones : InEvents("refresh", z) => InEvents("refresh", z)',
         \A z \in Zones : InEvents("added", z) => InEvents("added", z)',
         \/ t \notin TimerTasks /\ UNCHANGED timers
         \/ /\ t \in TimerTasks /\ at = "check"
            /\ \A z \in Zones \ {y} : timers'[z] = timers[z]
  PROVE  GoesOnInv'
<1>1. /\ task[t].at = "free"
      /\ task'[t].at = at /\ task'[t].zone = y /\ task'[t].object = tree[y]
      /\ \A u \in Tasks \ {t} : task'[u] = task[u]
  BY Started
<1>2. FilesApart'
  BY DEF GoesOnInv, FilesApart, setVars
<1>3. \A z \in Zones : (Known(z)' <=> Known(z)) /\ (Activated(z)' <=> Activated(z))
  BY DEF Known, Activated, setVars
<1>4. RefreshedIsTracked'
  <2>1. ASSUME NEW u \in Tasks, FoundTracked(u)' PROVE tracked'[task'[u].zone] # "no"
    <3>1. u # t
      BY <1>1, <2>1 DEF FoundTracked, Found
    <3>2. FoundTracked(u)
      BY <1>1, <2>1, <3>1 DEF FoundTracked
    <3> QED BY <1>1, <3>1, <3>2 DEF GoesOnInv, RefreshedIsTracked
  <2> QED BY <1>3, <2>1 DEF GoesOnInv, RefreshedIsTracked
<1>5. CopiesInStep'
  BY DEF GoesOnInv, CopiesInStep, setVars
<1>6. ASSUME NEW z \in Zones PROVE Refreshed(z)'
  <2>1. \A u \in Tasks : Refreshes(u, z) => Refreshes(u, z)'
    BY <1>1 DEF Refreshes, Found
  <2>2. CASE timers'[z] = timers[z]
    <3>1. RefreshComes(z) => RefreshComes(z)'
      BY <2>1, <2>2 DEF RefreshComes
    <3>2. PendingHandled(z) => PendingHandled(z)'
      <4>1. \A u \in Tasks : task[u].at # "free" => task'[u] = task[u]
        BY <1>1
      <4> QED BY <4>1 DEF PendingHandled, Tasks
    <3> QED BY <1>3, <3>1, <3>2 DEF GoesOnInv, Refreshed, setVars
  <2>3. CASE z = y /\ at = "check" /\ t \in TimerTasks
    <3>1. PendingHandled(z)'
      BY <1>1, <2>3 DEF PendingHandled
    <3>2. tree[z] # 0 => Refreshes(t, z)'
      BY <1>1, <2>3 DEF Refreshes
    <3>3. Known(z) => RefreshComes(z)'
      BY <3>2 DEF Known, RefreshComes
    <3> QED BY <1>3, <3>1, <3>3 DEF Refreshed
  <2> QED BY <2>2, <2>3
<1> QED BY <1>2, <1>4, <1>5, <1>6 DEF GoesOnInv

LEMMA NotifyGoesOn == ASSUME TypeInv, GoesOnInv, TakeNotify PROVE GoesOnInv'
<1> PICK e \in Event : e = Head(events)
  BY ReceiveOK DEF TakeNotify, TypeInv
<1>1. /\ UNCHANGED <<setVars, tracked, timers, expired, loader, loop>>
      /\ loop.at = "idle" /\ events # <<>> /\ events' = Tail(events) /\ e.kind = "notify"
  BY DEF TakeNotify, zoneVars, timeVars
<1>2. PICK t \in NotifyTasks : Spawn(t, e.zone, "find", "notify")
  BY DEF TakeNotify
<1>3. t \in Tasks /\ t \notin TimerTasks /\ e.zone \in Zones
  BY RefreshAssumption DEF Tasks, Event
<1>4. \A z : /\ InEvents("refresh", z) => InEvents("refresh", z)'
             /\ InEvents("added", z) => InEvents("added", z)'
  BY <1>1, EventsTaken DEF TypeInv
<1>5. t \notin TimerTasks /\ UNCHANGED timers
  BY <1>1, <1>3
<1> QED BY <1>1, <1>2, <1>3, <1>4, <1>5, StartGoesOn

LEMMA FireGoesOn == ASSUME TypeInv, GoesOnInv, NEW y \in Zones, FireTimer(y) PROVE GoesOnInv'
<1>1. /\ UNCHANGED <<setVars, tracked, events, expired, loader, loop>>
      /\ loop.at = "idle" /\ timers' = [timers EXCEPT ![y] = "none"]
  BY DEF FireTimer, zoneVars, chanVars
<1>2. PICK t \in TimerTasks : Spawn(t, y, "check", timers[y])
  BY DEF FireTimer
<1>3. t \in Tasks
  BY DEF Tasks
<1>4. \A z \in Zones \ {y} : timers'[z] = timers[z]
  BY <1>1 DEF TypeInv, TimesOK
<1>5. PICK b : b = timers[y]
  OBVIOUS
<1>6. Spawn(t, y, "check", b)
  BY <1>2, <1>5
<1> QED BY <1>1, <1>3, <1>4, <1>6, EventsKept, StartGoesOn

LEMMA LoopGoesOn ==
  ASSUME TypeInv, GoesOnInv, RunLoop
  PROVE  GoesOnInv'
<1>1. CASE TakeAdded \/ TakeRefresh \/ TakeChanged
  BY <1>1, TakeGoesOn
<1>2. CASE TakeNotify
  BY <1>2, NotifyGoesOn
<1>3. CASE LockAdded
  <2> DEFINE y == loop.zone
  <2>1. /\ UNCHANGED <<setVars, timeVars, events, expired, loader, task>>
        /\ loop.at = "added" /\ y \in Zones
        /\ \/ pending[y] = 0 /\ loop'.at = "idle"
           \/ pending[y] # 0 /\ loop'.at = "track" /\ loop'.zone = y /\ loop'.object = pending[y]
    BY <1>3 DEF LockAdded, chanVars, zoneVars, IdleLoop, TypeInv, LoopOK
  <2>2. pending[y] # 0 => y \notin FileZones
    BY DEF GoesOnInv, FilesApart
  <2>3. ASSUME NEW z \in Zones, RefreshComes(z) PROVE RefreshComes(z)'
    BY <2>1, <2>3, TasksAlone, EventsKept DEF RefreshComes, timeVars
  <2>4. ASSUME NEW z \in Zones, PendingHandled(z), pending[z] # 0 PROVE PendingHandled(z)'
    BY <2>1, <2>4, EventsKept DEF PendingHandled
  <2>5. \A z \in Zones : ~ Activated(z)
    BY <2>1 DEF Activated
  <2>6. UNCHANGED tracked
    BY <2>1 DEF timeVars
  <2> QED BY <2>1, <2>2, <2>3, <2>4, <2>5, <2>6, LoopMoves
<1>4. CASE LoadTree
  <2> DEFINE y == loop.zone
  <2>1. /\ UNCHANGED <<setVars, timeVars, events, expired, loader, task>>
        /\ loop.at = "insert" /\ y \in Zones
        /\ \/ loop'.at = "dead"
           \/ loop'.at = "store" /\ loop'.zone = y /\ loop'.object = loop.object /\ loop'.copy = tree
    BY <1>4 DEF LoadTree, chanVars, zoneVars, IdleLoop, TypeInv, LoopOK
  <2>2. y \notin FileZones /\ loop.object # 0 /\ tracked[y] # "no"
    BY <2>1 DEF GoesOnInv, FilesApart, RefreshedIsTracked
  <2>3. ASSUME NEW z \in Zones, RefreshComes(z) PROVE RefreshComes(z)'
    BY <2>1, <2>3, TasksAlone, EventsKept DEF RefreshComes, timeVars
  <2>4. ASSUME NEW z \in Zones, PendingHandled(z) PROVE PendingHandled(z)'
    BY <2>1, <2>4, EventsKept DEF PendingHandled
  <2>5. \A z \in Zones : Activated(z) => Activated(z)' \/ loop'.at = "dead"
    BY <2>1 DEF Activated
  <2>6. UNCHANGED tracked
    BY <2>1 DEF timeVars
  <2> QED BY <2>1, <2>2, <2>3, <2>4, <2>5, <2>6, LoopMoves
<1>5. CASE Track
  <2> DEFINE y == loop.zone
  <2>1. /\ UNCHANGED <<tree, events, expired, loader, task>>
        /\ loop.at = "track" /\ y \in Zones
        /\ tracked' = [tracked EXCEPT ![y] = IF @ = "no" THEN "RefreshPending" ELSE @]
        /\ \/ /\ pending' = [pending EXCEPT ![y] = 0]
              /\ loop'.at = "insert" /\ loop'.zone = y /\ loop'.object = loop.object
              /\ UNCHANGED timers
           \/ Arm(y, "refresh") /\ loop'.at = "idle" /\ UNCHANGED pending
    BY <1>5 DEF Track, chanVars, zoneVars, IdleLoop, TypeInv, LoopOK
  <2>2. y \notin FileZones /\ loop.object # 0
    BY <2>1 DEF GoesOnInv, FilesApart
  <2>3. /\ tracked'[y] # "no"
        /\ \A z \in Zones \ {y} : tracked'[z] = tracked[z]
        /\ \A z \in Zones : tracked[z] # "no" => tracked'[z] # "no"
    BY <2>1 DEF TypeInv, TimesOK
  <2>4. \A z \in Zones : pending'[z] \in {0, pending[z]} /\ (z # y => pending'[z] = pending[z])
    BY <2>1 DEF TypeInv, SetsOK, Tree
  <2>5. \A z \in Zones : timers[z] # "none" => timers'[z] # "none"
    BY <2>1, Armed
  <2>6. pending'[y] # 0 => timers'[y] # "none"
    <3>1. pending' = [pending EXCEPT ![y] = 0] => pending'[y] = 0
      BY <2>1 DEF TypeInv, SetsOK, Tree
    <3> QED BY <2>1, <3>1, Armed
  <2>7. \A z \in Zones : Known(z)' <=> Known(z)
    BY <2>1 DEF Known
  <2>8. FilesApart'
    BY <2>1, <2>2, <2>3, <2>4, RefreshAssumption DEF GoesOnInv, FilesApart
  <2>9. RefreshedIsTracked'
    <3>1. ASSUME NEW t \in Tasks, FoundTracked(t) PROVE tracked'[task[t].zone] # "no"
      <4>1. task[t].zone \in Zones
        BY <3>1 DEF FoundTracked, Found, TypeInv, TasksOK, TaskOK
      <4> QED BY <2>3, <3>1, <4>1 DEF GoesOnInv, RefreshedIsTracked
    <3> QED BY <2>1, <2>3, <2>7, <3>1, TasksAlone DEF GoesOnInv, RefreshedIsTracked
  <2>10. CopiesInStep'
    BY <2>1 DEF GoesOnInv, CopiesInStep
  <2>11. ASSUME NEW z \in Zones PROVE Refreshed(z)'
    <3>1. RefreshComes(z) => RefreshComes(z)'
      BY <2>1, <2>5, TasksAlone, EventsKept DEF RefreshComes
    <3>2. z # y /\ PendingHandled(z) => PendingHandled(z)'
      BY <2>1, EventsKept DEF PendingHandled
    <3>3. CASE z = y
      <4>1. pending'[z] # 0 => RefreshComes(z)'
        BY <2>6, <3>3 DEF RefreshComes
      <4>2. Known(z) => tracked[z] # "no"
        BY <2>2, <3>3 DEF GoesOnInv, RefreshedIsTracked
      <4>3. ~ Activated(z)
        BY <2>1 DEF Activated
      <4> QED BY <2>7, <3>1, <4>1, <4>2, <4>3 DEF GoesOnInv, Refreshed
    <3>4. CASE z # y
      <4>1. ~ Activated(z)
        BY <2>1 DEF Activated
      <4> QED BY <2>3, <2>4, <2>7, <3>1, <3>2, <3>4, <4>1 DEF GoesOnInv, Refreshed
    <3> QED BY <3>3, <3>4
  <2> QED BY <2>8, <2>9, <2>10, <2>11 DEF GoesOnInv
<1>6. CASE StoreActive
  <2> DEFINE y == loop.zone
  <2>1. /\ UNCHANGED <<pending, tracked, events, expired, loader, task>>
        /\ loop.at = "store" /\ y \in Zones
        /\ tree' = [loop.copy EXCEPT ![y] = loop.object]
        /\ Arm(y, "refresh") /\ loop'.at = "idle"
    BY <1>6 DEF StoreActive, Extended, chanVars, zoneVars, IdleLoop, TypeInv, LoopOK
  <2>2. y \notin FileZones /\ loop.object # 0 /\ tracked[y] # "no"
    BY <2>1 DEF GoesOnInv, FilesApart, RefreshedIsTracked
  <2>3. tree'[y] = loop.object /\ \A z \in Zones \ {y} : tree'[z] = loop.copy[z]
    BY <2>1 DEF TypeInv, LoopOK, Tree
  <2>4. timers'[y] # "none" /\ \A z \in Zones : timers[z] # "none" => timers'[z] # "none"
    BY <2>1, Armed
  <2>5. \A z \in Zones \ {y} : Known(z)' => Known(z)
    BY <2>1, <2>3 DEF Known
  <2>6. FilesApart'
    BY <2>1 DEF GoesOnInv, FilesApart
  <2>7. RefreshedIsTracked'
    BY <2>1, <2>2, <2>5, TasksAlone DEF GoesOnInv, RefreshedIsTracked
  <2>8. CopiesInStep'
    BY <2>1, <2>2, <2>3 DEF GoesOnInv, CopiesInStep
  <2>9. ASSUME NEW z \in Zones PROVE Refreshed(z)'
    <3>1. RefreshComes(z) => RefreshComes(z)'
      BY <2>1, <2>4, TasksAlone, EventsKept DEF RefreshComes
    <3>2. PendingHandled(z) => PendingHandled(z)'
      BY <2>1, EventsKept DEF PendingHandled
    <3>3. CASE z = y
      BY <2>4, <3>3 DEF Refreshed, RefreshComes
    <3>4. CASE z # y
      BY <2>1, <2>5, <3>1, <3>2, <3>4 DEF GoesOnInv, Refreshed, Activated
    <3> QED BY <3>3, <3>4
  <2> QED BY <2>6, <2>7, <2>8, <2>9 DEF GoesOnInv
<1> QED BY <1>1, <1>2, <1>3, <1>4, <1>5, <1>6 DEF RunLoop

(* A step of one task: what it must leave behind for its zone. *)
LEMMA TaskGoesOn ==
  ASSUME TypeInv, GoesOnInv, NEW t \in Tasks,
         UNCHANGED <<setVars, timers, loader, loop>>, expired \subseteq expired',
         \A z \in Zones : tracked'[z] = "no" <=> tracked[z] = "no",
         \A u \in Tasks \ {t} : task'[u] = task[u],
         \A k, z : InEvents(k, z) => InEvents(k, z)',
         FoundTracked(t)' => tracked[task'[t].zone] # "no" /\ task'[t].zone \in Zones,
         \A z \in Zones : Refreshes(t, z) /\ tracked[z] # "no" =>
                            Refreshes(t, z)' \/ InEvents("refresh", z)' \/ z \in expired',
         \A z \in Zones :
            /\ pending[z] # 0 /\ tracked[z] # "no" /\ task[t].zone = z
            /\ \/ t \in TimerTasks /\ task[t].at \in {"check", "find"}
               \/ task[t].at = "migrate"
            => \/ Refreshes(t, z)' \/ InEvents("added", z)'
               \/ t \in TimerTasks /\ task'[t].at \in {"check", "find"} /\ task'[t].zone = z
               \/ task'[t].at = "migrate" /\ task'[t].zone = z
  PROVE  GoesOnInv'
<1>1. FilesApart'
  BY RefreshAssumption DEF GoesOnInv, FilesApart, setVars
<1>2. \A z : (Known(z)' <=> Known(z)) /\ (Activated(z)' <=> Activated(z))
  BY DEF Known, Activated, setVars
<1>3. RefreshedIsTracked'
  <2>1. ASSUME NEW u \in Tasks, FoundTracked(u)' PROVE tracked'[task'[u].zone] # "no"
    <3>1. CASE u = t
      BY <2>1, <3>1
    <3>2. CASE u # t
      <4>1. FoundTracked(u) /\ task'[u] = task[u]
        BY <2>1, <3>2 DEF FoundTracked
      <4>2. task[u].zone \in Zones
        BY <4>1 DEF FoundTracked, Found, TypeInv, TasksOK, TaskOK
      <4> QED BY <4>1, <4>2 DEF GoesOnInv, RefreshedIsTracked
    <3> QED BY <3>1, <3>2
  <2>2. loop.at \in {"insert", "store"} => loop.zone \in Zones
    BY DEF TypeInv, LoopOK
  <2> QED BY <1>2, <2>1, <2>2 DEF GoesOnInv, RefreshedIsTracked
<1>4. CopiesInStep'
  BY DEF GoesOnInv, CopiesInStep, setVars
<1>5. ASSUME NEW z \in Zones, tracked[z] # "no" PROVE Refreshed(z)'
  <2>1. ASSUME NEW u \in Tasks, Refreshes(u, z) PROVE RefreshComes(z)'
    <3>1. CASE u = t
      BY <1>5, <2>1, <3>1 DEF RefreshComes
    <3>2. CASE u # t
      <4>1. Refreshes(u, z)'
        BY <2>1, <3>2 DEF Refreshes
      <4> QED BY <4>1 DEF RefreshComes
    <3> QED BY <3>1, <3>2
  <2>2. RefreshComes(z) => RefreshComes(z)'
    BY <2>1 DEF RefreshComes
  <2>3. ASSUME pending[z] # 0, PendingHandled(z) PROVE RefreshComes(z)' \/ PendingHandled(z)'
    <3>1. ASSUME NEW u \in TimerTasks, task[u].at \in {"check", "find"}, task[u].zone = z
          PROVE  RefreshComes(z)' \/ PendingHandled(z)'
      <4>1. u \in Tasks
        BY DEF Tasks
      <4>2. CASE u = t
        BY <1>5, <2>3, <3>1, <4>1, <4>2 DEF RefreshComes, PendingHandled
      <4>3. CASE u # t
        BY <3>1, <4>1, <4>3 DEF PendingHandled
      <4> QED BY <4>2, <4>3
    <3>2. ASSUME NEW u \in Tasks, task[u].at = "migrate", task[u].zone = z
          PROVE  RefreshComes(z)' \/ PendingHandled(z)'
      <4>1. CASE u = t
        BY <1>5, <2>3, <3>2, <4>1 DEF RefreshComes, PendingHandled
      <4>2. CASE u # t
        BY <3>2, <4>2 DEF PendingHandled
      <4> QED BY <4>1, <4>2
    <3> QED BY <2>3, <3>1, <3>2 DEF PendingHandled
  <2> QED BY <1>2, <1>5, <2>2, <2>3 DEF GoesOnInv, Refreshed, setVars
<1>6. ASSUME NEW z \in Zones PROVE Refreshed(z)'
  <2>1. CASE tracked[z] = "no"
    BY <2>1 DEF Refreshed
  <2> QED BY <1>5, <2>1
<1> QED BY <1>1, <1>3, <1>4, <1>6 DEF GoesOnInv

(* The steps before a task has found its zone. *)
LEMMA FindGoesOn ==
  ASSUME TypeInv, GoesOnInv, NEW t \in Tasks, Check(t) \/ FindTimed(t) \/ FindNotified(t)
  PROVE  GoesOnInv'
<1> DEFINE y == task[t].zone
<1>1. /\ UNCHANGED <<setVars, timeVars, events, expired, loader, loop>>
      /\ task[t].at \in {"check", "find"} /\ y \in Zones
  BY DEF Check, FindTimed, FindNotified, chanVars, zoneVars, TypeInv, TasksOK, TaskOK
<1>2. \/ task[t].at = "check" /\ tracked[y] = "no" /\ End(t)
      \/ task[t].at = "check" /\ tracked[y] # "no" /\ Goto(t, "find")
      \/ /\ task[t].at = "find" /\ t \in TimerTasks
         /\ \/ pending[y] # 0 /\ task' = [task EXCEPT ![t].at = "begin", ![t].object = pending[y],
                                                       ![t].waiting = TRUE]
            \/ pending[y] = 0 /\ task[t].object # 0 /\ Goto(t, "begin")
            \/ pending[y] = 0 /\ task[t].object = 0 /\ End(t)
      \/ /\ task[t].at = "find" /\ t \in NotifyTasks
         /\ \/ Goto(t, "mark")
            \/ task' = [task EXCEPT ![t].at = "mark", ![t].object = pending[y],
                                    ![t].waiting = TRUE]
            \/ End(t)
  BY DEF Check, FindTimed, FindNotified
<1>3. ASSUME NEW at, task' = [task EXCEPT ![t].at = at, ![t].object = pending[y], ![t].waiting = TRUE]
      PROVE  task'[t].at = at /\ task'[t].zone = y /\ \A u \in Tasks \ {t} : task'[u] = task[u]
  BY <1>3 DEF TypeInv, TasksOK
<1>4. /\ \A u \in Tasks \ {t} : task'[u] = task[u]
      /\ \/ task[t].at = "check" /\ tracked[y] = "no" /\ task'[t].at = "free"
         \/ /\ task[t].at = "check" /\ tracked[y] # "no"
            /\ task'[t].at = "find" /\ task'[t].zone = y /\ task'[t].object = task[t].object
         \/ /\ task[t].at = "find" /\ t \in TimerTasks
            /\ \/ task'[t].at = "begin" /\ task'[t].zone = y
               \/ pending[y] = 0 /\ task[t].object = 0 /\ task'[t].at = "free"
         \/ /\ task[t].at = "find" /\ t \in NotifyTasks /\ task'[t].at \in {"mark", "free"}
  BY <1>2, <1>3, Moves, Ends
<1>5. TimerTasks \cap NotifyTasks = {}
  BY RefreshAssumption
<1>6. task[t].at = "find" /\ t \in TimerTasks => tracked[y] # "no"
  BY DEF GoesOnInv, RefreshedIsTracked, FoundTracked
<1>7. FoundTracked(t)' => tracked[task'[t].zone] # "no" /\ task'[t].zone \in Zones
  BY <1>1, <1>4, <1>5, <1>6 DEF FoundTracked, Found
<1>8. ASSUME NEW z \in Zones, Refreshes(t, z), tracked[z] # "no" PROVE Refreshes(t, z)'
  BY <1>1, <1>4, <1>5, <1>8 DEF Refreshes, Found, TaskAt
<1>9. ASSUME NEW z \in Zones, pending[z] # 0, tracked[z] # "no", y = z,
             \/ t \in TimerTasks /\ task[t].at \in {"check", "find"}
             \/ task[t].at = "migrate"
      PROVE  \/ Refreshes(t, z)'
             \/ t \in TimerTasks /\ task'[t].at \in {"check", "find"} /\ task'[t].zone = z
  BY <1>1, <1>4, <1>5, <1>9 DEF Refreshes, Found, TaskAt
<1> QED BY <1>1, <1>4, <1>7, <1>8, <1>9, EventsKept, TaskGoesOn DEF timeVars

(* The steps of a task that goes on refreshing its zone. *)
LEMMA RefreshingGoesOn ==
  ASSUME TypeInv, GoesOnInv, NEW t \in Tasks,
         task[t].at \in Found \ {"mark", "migrate"}, task'[t].at \in Found \ {"mark", "migrate"},
         task'[t].zone = task[t].zone, \A u \in Tasks \ {t} : task'[u] = task[u],
         UNCHANGED <<setVars, timers, loader, loop>>, expired \subseteq expired',
         \A z \in Zones : tracked'[z] = "no" <=> tracked[z] = "no",
         \A k, z : InEvents(k, z) => InEvents(k, z)'
  PROVE  GoesOnInv'
<1>1. tracked[task[t].zone] # "no" /\ task[t].zone \in Zones
  BY StepsOfTask DEF GoesOnInv, RefreshedIsTracked, FoundTracked
<1>2. \A z \in Zones : Refreshes(t, z) => Refreshes(t, z)'
  BY DEF Refreshes, Found
<1>3. task[t].at \notin {"check", "find", "migrate"}
  BY DEF Found
<1> QED BY <1>1, <1>2, <1>3, TaskGoesOn

LEMMA StepOfTaskGoesOn ==
  ASSUME TypeInv, GoesOnInv, NEW t \in Tasks, Task(t) \/ Fail(t)
  PROVE  GoesOnInv'
<1> DEFINE y == task[t].zone
<1>1. CASE Check(t) \/ FindTimed(t) \/ FindNotified(t)
  BY <1>1, FindGoesOn
<1>2. CASE MarkNotified(t)
  <2>1. /\ UNCHANGED <<setVars, timers, events, expired, loader, loop>>
        /\ task[t].at = "mark" /\ y \in Zones
        /\ \/ End(t) /\ UNCHANGED tracked
           \/ /\ Goto(t, "begin") /\ tracked[y] # "no"
              /\ tracked' = [tracked EXCEPT ![y] = "NotifyInProgress"]
    BY <1>2, StepsOfTask DEF MarkNotified, chanVars, zoneVars, Found, TaskAt
  <2>2. /\ \A u \in Tasks \ {t} : task'[u] = task[u]
        /\ \/ task'[t].at = "free"
           \/ task'[t].at = "begin" /\ task'[t].zone = y /\ tracked[y] # "no"
    BY <2>1, Moves, Ends
  <2>3. \A z \in Zones : tracked'[z] = "no" <=> tracked[z] = "no"
    BY <2>1 DEF TypeInv, TimesOK
  <2>4. FoundTracked(t)' => tracked[task'[t].zone] # "no" /\ task'[t].zone \in Zones
    BY <2>1, <2>2 DEF FoundTracked, Found
  <2>5. \A z : ~ Refreshes(t, z)
    BY <2>1 DEF Refreshes
  <2>6. \A k, z : InEvents(k, z) => InEvents(k, z)'
    BY <2>1, EventsKept
  <2> QED BY <2>1, <2>2, <2>3, <2>4, <2>5, <2>6, TaskGoesOn
<1>3. CASE Begin(t) \/ Progress(t) \/ Succeed(t)
  <2>1. /\ UNCHANGED <<setVars, timers, events, expired, loader, loop>>
        /\ task[t].at \in {"begin", "fetching", "done"} /\ y \in Zones
        /\ \E s \in Status : tracked' = [tracked EXCEPT ![y] = s]
    BY <1>3, StepsOfTask
       DEF Begin, Progress, Succeed, StatusDuring, Status, chanVars, zoneVars, Found, TaskAt
  <2>2. /\ task'[t].at \in {"ask", "fetching", "schedule"} /\ task'[t].zone = y
        /\ \A u \in Tasks \ {t} : task'[u] = task[u]
    <3>1. CASE Begin(t)
      BY <3>1 DEF Begin, TypeInv, TasksOK
    <3>2. CASE Progress(t)
      BY <3>2 DEF Progress
    <3>3. CASE Succeed(t)
      BY <3>3, Moves DEF Succeed
    <3> QED BY <1>3, <3>1, <3>2, <3>3
  <2>3. tracked[y] # "no"
    BY <2>1 DEF GoesOnInv, RefreshedIsTracked, FoundTracked, Found, TaskAt
  <2>4. \A z \in Zones : tracked'[z] = "no" <=> tracked[z] = "no"
    BY <2>1, <2>3 DEF TypeInv, TimesOK, Status
  <2> QED BY <2>1, <2>2, <2>4, EventsKept, RefreshingGoesOn DEF Found, TaskAt
<1>4. CASE Answer(t) \/ Fail(t) \/ AnnounceCommit(t) \/ ReadBack(t)
  <2>1. /\ UNCHANGED <<setVars, timeVars, events, expired, loader, loop>>
        /\ task[t].at \in Found \ {"mark", "migrate"}
        /\ \E at \in Found \ {"mark", "migrate"} : Goto(t, at)
    BY <1>4 DEF Answer, Fail, AnnounceCommit, ReadBack, chanVars, zoneVars, Found, TaskAt
  <2> QED BY <2>1, Moves, EventsKept, RefreshingGoesOn DEF timeVars
<1>5. CASE Fetch(t) \/ Commit(t)
  <2>1. /\ UNCHANGED <<setVars, timeVars, events, expired, loader, loop>>
        /\ task[t].at \in {"fetch", "fetching"}
        /\ task'[t].at \in {"fetching", "failed", "report"} /\ task'[t].zone = y
        /\ \A u \in Tasks \ {t} : task'[u] = task[u]
    BY <1>5 DEF Fetch, Commit, Goto, chanVars, TypeInv, TasksOK
  <2> QED BY <2>1, EventsKept, RefreshingGoesOn DEF timeVars, Found, TaskAt
<1>6. CASE AnnounceChange(t)
  <2>1. /\ UNCHANGED <<setVars, timeVars, expired, loader, loop>>
        /\ task[t].at = "changed" /\ Goto(t, "read") /\ Send(About("changed", y)) /\ y \in Zones
    BY <1>6, StepsOfTask DEF AnnounceChange, zoneVars, Found, TaskAt
  <2>2. \A k, z : InEvents(k, z) => InEvents(k, z)'
    <3> PICK e \in Event : e = About("changed", y)
      BY <2>1, Events
    <3> QED BY <2>1, EventsSent DEF TypeInv
  <2>3. /\ task'[t].at = "read" /\ task'[t].zone = y
        /\ \A u \in Tasks \ {t} : task'[u] = task[u]
    BY <2>1, Moves
  <2>4. {"changed", "read"} \subseteq Found \ {"mark", "migrate"}
    BY DEF Found, TaskAt
  <2> QED BY <2>1, <2>2, <2>3, <2>4, RefreshingGoesOn DEF timeVars
<1>7. CASE Schedule(t) \/ ScheduleRetry(t)
  <2>1. /\ UNCHANGED <<setVars, timeVars, expired, loader, loop>>
        /\ task[t].at \in {"schedule", "retry"} /\ y \in Zones
        /\ Goto(t, "migrate") \/ End(t)
        /\ \E c \in {"refresh", "retry"} : Send(Again(y, c))
    BY <1>7, StepsOfTask DEF Schedule, ScheduleRetry, zoneVars, Found, TaskAt
  <2>2. /\ \A k, z : InEvents(k, z) => InEvents(k, z)'
        /\ \A z : z = y => InEvents("refresh", z)'
    <3> PICK c \in {"refresh", "retry"} : Send(Again(y, c))
      BY <2>1
    <3> PICK e \in Event : e = Again(y, c)
      BY <2>1, Events
    <3>1. e.kind = "refresh" /\ e.zone = y
      BY EventKinds
    <3> QED BY <3>1, EventsSent DEF TypeInv
  <2>3. /\ \A u \in Tasks \ {t} : task'[u] = task[u]
        /\ task'[t].at = "free" \/ (task'[t].at = "migrate" /\ task'[t].zone = y)
    BY <2>1, Moves, Ends
  <2>4. tracked[y] # "no"
    BY <2>1 DEF GoesOnInv, RefreshedIsTracked, FoundTracked, Found, TaskAt
  <2>5. FoundTracked(t)' => tracked[task'[t].zone] # "no" /\ task'[t].zone \in Zones
    BY <2>1, <2>3, <2>4 DEF FoundTracked, Found
  <2>6. \A z \in Zones : Refreshes(t, z) => InEvents("refresh", z)'
    BY <2>2 DEF Refreshes
  <2> QED BY <2>1, <2>2, <2>3, <2>5, <2>6, TaskGoesOn DEF timeVars
<1>8. CASE Migrate(t)
  <2>1. /\ UNCHANGED <<setVars, timeVars, expired, loader, loop>>
        /\ task[t].at = "migrate" /\ y \in Zones /\ End(t) /\ Send(About("added", y))
    BY <1>8, StepsOfTask DEF Migrate, zoneVars, Found, TaskAt
  <2>2. /\ \A k, z : InEvents(k, z) => InEvents(k, z)'
        /\ \A z : z = y => InEvents("added", z)'
    <3> PICK e \in Event : e = About("added", y)
      BY <2>1, Events
    <3>1. e.kind = "added" /\ e.zone = y
      BY EventKinds
    <3> QED BY <2>1, <3>1, EventsSent DEF TypeInv
  <2>3. task'[t].at = "free" /\ \A u \in Tasks \ {t} : task'[u] = task[u]
    BY <2>1, Ends
  <2>4. ~ FoundTracked(t)' /\ \A z : ~ Refreshes(t, z)
    BY <2>1, <2>3 DEF FoundTracked, Refreshes, Found
  <2> QED BY <2>1, <2>2, <2>3, <2>4, TaskGoesOn DEF timeVars
<1>9. CASE GiveUp(t)
  <2>1. /\ UNCHANGED <<setVars, timers, events, loader, loop>>
        /\ task[t].at = "failed" /\ y \in Zones
        /\ \/ expired' = expired \cup {y} /\ End(t) /\ UNCHANGED tracked
           \/ /\ tracked' = [tracked EXCEPT ![y] = IF @ = "RetryInProgress" THEN @ ELSE "RetryPending"]
              /\ Goto(t, "retry") /\ UNCHANGED expired
    BY <1>9, StepsOfTask DEF GiveUp, chanVars, Found, TaskAt
  <2>2. tracked[y] # "no"
    BY <2>1 DEF GoesOnInv, RefreshedIsTracked, FoundTracked, Found, TaskAt
  <2>3. \A z \in Zones : tracked'[z] = "no" <=> tracked[z] = "no"
    BY <2>1, <2>2 DEF TypeInv, TimesOK
  <2>4. CASE Goto(t, "retry") /\ UNCHANGED expired
    <3>1. /\ task'[t].at = "retry" /\ task'[t].zone = y
          /\ \A u \in Tasks \ {t} : task'[u] = task[u]
      BY <2>4, Moves
    <3>2. {"failed", "retry"} \subseteq Found \ {"mark", "migrate"}
      BY DEF Found, TaskAt
    <3>3. \A k, z : InEvents(k, z) => InEvents(k, z)'
      BY <2>1, EventsKept
    <3> QED BY <2>1, <2>3, <2>4, <3>1, <3>2, <3>3, RefreshingGoesOn
  <2>5. CASE expired' = expired \cup {y} /\ End(t)
    <3>1. task'[t].at = "free" /\ \A u \in Tasks \ {t} : task'[u] = task[u]
      BY <2>5, Ends
    <3>2. ~ FoundTracked(t)' /\ \A z : Refreshes(t, z) => z \in expired'
      BY <2>5, <3>1 DEF FoundTracked, Refreshes, Found
    <3>3. \A k, z : InEvents(k, z) => InEvents(k, z)'
      BY <2>1, EventsKept
    <3> QED BY <2>1, <2>3, <2>5, <3>1, <3>2, <3>3, TaskGoesOn
  <2> QED BY <2>1, <2>4, <2>5
<1> QED BY <1>1, <1>2, <1>3, <1>4, <1>5, <1>6, <1>7, <1>8, <1>9 DEF Task, Transfer

LEMMA StepGoesOn == ASSUME TypeInv, GoesOnInv, [Next]_vars PROVE GoesOnInv'
<1>1. CASE UNCHANGED vars
  BY <1>1, QuietGoesOn DEF vars, zoneVars, chanVars
<1>2. CASE World
  BY <1>2, WorldGoesOn DEF World
<1>3. CASE Loader
  BY <1>3, LoaderGoesOn
<1>4. CASE RunLoop
  BY <1>4, LoopGoesOn
<1>5. ASSUME NEW z \in Zones, FireTimer(z) PROVE GoesOnInv'
  BY <1>5, FireGoesOn
<1>6. ASSUME NEW t \in Tasks, Task(t) \/ Fail(t) PROVE GoesOnInv'
  BY <1>6, StepOfTaskGoesOn
<1> QED BY <1>1, <1>2, <1>3, <1>4, <1>5, <1>6 DEF Next

(***************************************************************************)
(* The first object of a zone is not served before it was filled.          *)
(***************************************************************************)

\* The zones of which the first object was filled.
firsts == {z \in Zones : <<z, 1>> \in filled}

LEMMA FirstsGrow == ASSUME filled \subseteq filled' PROVE firsts \subseteq firsts'
BY DEF firsts

LEMMA OneFilled ==
  ASSUME NEW z \in Zones, NEW g, filled' = filled \cup {<<z, g>>}
  PROVE  /\ firsts' = IF g = 1 THEN firsts \cup {z} ELSE firsts
         /\ filled \subseteq filled'
BY DEF firsts

\* Here a task is done with a transfer, or needed none.
Ending == {"report", "changed", "read", "done", "schedule", "migrate"}

\* A task that will not take an object without SOA for one that needs no transfer.
Unrefreshed(k) == (k.at \in {"ask", "fetch"} => k.own = 0) /\ k.at \notin Ending

\* The first object of a zone that was never filled has no SOA, it is nowhere but
\* among the pending zones, and no task believes that it has refreshed it.
NotYetFilled(z) ==
  /\ tree[z] # 1 /\ loader.copy[z] # 1 /\ loop.copy[z] # 1
  /\ soa[z] # <<>> => soa[z][1] = 0
  /\ loop.at \in {"insert", "store"} /\ loop.zone = z => loop.object # 1
  /\ \A t \in Tasks : task[t].zone = z /\ task[t].object = 1 =>
       Unrefreshed(task[t])

\* What the loader and the run loop hold of the pending zones.
PendingInStep ==
  /\ loop.at = "track" => loop.object = pending[loop.zone]
  /\ loop.at \in {"insert", "store"} => pending[loop.zone] = 0
  /\ loader.at = "pend" => soa[loader.zone] # <<>> /\ loader.object = Len(soa[loader.zone])

\* Zone z is announced to the run loop as added: by the loader, when it is registered,
\* or by the task that refreshed it.
Telling(z) == loader.at = "tell" /\ loader.event = About("added", z)
Handling(z) == loop.at \in {"added", "track"} /\ loop.zone = z
Unannounced(z) == ~ InEvents("added", z) /\ ~ Telling(z) /\ ~ Handling(z)

QueuedOnce(z) ==
  \A i, j \in 1 .. Len(events) :
    /\ events[i].kind = "added" /\ events[i].zone = z
    /\ events[j].kind = "added" /\ events[j].zone = z
    => i = j

AnnouncedOnce(z) ==
  /\ QueuedOnce(z)
  /\ Telling(z) => ~ InEvents("added", z) /\ ~ Handling(z)
  /\ Handling(z) => ~ InEvents("added", z)

\* The first object of zone z is not yet among the pending zones.
Unknown(z) ==
  soa[z] = <<>> \/ (loader.at = "pend" /\ loader.zone = z /\ loader.object = 1)

\* While the first object of a zone is pending it is the only one in use.
UsesTheFirst(z) ==
  /\ tree[z] \in {0, 1} /\ loader.copy[z] \in {0, 1} /\ loop.copy[z] \in {0, 1}
  /\ \A t \in Tasks : task[t].at # "free" /\ task[t].zone = z => task[t].object \in {0, 1}

\* A new zone is announced once before it is tracked, and then not again before it
\* is filled: the run loop takes a second announcement for the end of its refresh.
FirstPending(z) ==
  pending[z] = 1 =>
    /\ UsesTheFirst(z)
    /\ z \notin firsts => AnnouncedOnce(z) /\ (tracked[z] # "no" => Unannounced(z))

FillInv ==
  /\ PendingInStep
  /\ \A z \in Zones : z \notin firsts => NotYetFilled(z)
  /\ \A z \in FileZones : soa[z] # <<>> => z \in firsts
  /\ \A z \in Zones \ FileZones :
       Unknown(z) => tracked[z] = "no" /\ pending[z] = 0 /\ Unannounced(z)
  /\ \A z \in Zones \ FileZones : FirstPending(z)

LEMMA InitFill == Init => FillInv
<1> SUFFICES ASSUME Init PROVE FillInv
  OBVIOUS
<1>1. \A z \in Zones : tree[z] = 0 /\ pending[z] = 0 /\ tracked[z] = "no" /\ soa[z] = <<>>
  BY AtRest DEF Init
<1>2. /\ loader.at = "idle" /\ loop.at = "idle" /\ events = <<>>
      /\ loader.copy = NoTree /\ loop.copy = NoTree
  BY DEF Init, IdleLoader, IdleLoop
<1>3. \A t \in Tasks : task[t].object = 0
  BY DEF Init, FreeTask
<1>4. \A z \in Zones : Unannounced(z)
  BY <1>2 DEF Unannounced, Telling, Handling, InEvents
<1>5. \A z \in FileZones : z \in Zones
  BY RefreshAssumption
<1> QED BY <1>1, <1>2, <1>3, <1>4, <1>5, AtRest
        DEF FillInv, PendingInStep, NotYetFilled, Unknown, FirstPending

(* Announcements in the channel: another event, an announcement, and one that is taken. *)
LEMMA OtherSent ==
  ASSUME ChannelType, NEW e \in Event, Send(e), NEW z, ~ (e.kind = "added" /\ e.zone = z)
  PROVE  /\ InEvents("added", z)' => InEvents("added", z)
         /\ QueuedOnce(z) => QueuedOnce(z)'
<1>1. /\ events \in Seq(Event) /\ Len(events) \in Nat /\ events' = Append(events, e)
      /\ Len(events') = Len(events) + 1 /\ events'[Len(events) + 1] = e
      /\ \A i \in 1 .. Len(events) : events'[i] = events[i]
  BY DEF ChannelType, Send
<1>2. \A i \in 1 .. Len(events') : events'[i].kind = "added" /\ events'[i].zone = z =>
        i \in 1 .. Len(events) /\ events'[i] = events[i]
  BY <1>1
<1> QED BY <1>2 DEF InEvents, QueuedOnce

LEMMA AddedSent ==
  ASSUME ChannelType, NEW e \in Event, Send(e), NEW z, ~ InEvents("added", z)
  PROVE  QueuedOnce(z)'
<1>1. /\ events \in Seq(Event) /\ Len(events) \in Nat /\ events' = Append(events, e)
      /\ Len(events') = Len(events) + 1
      /\ \A i \in 1 .. Len(events) : events'[i] = events[i]
  BY DEF ChannelType, Send
<1>2. \A i \in 1 .. Len(events') : events'[i].kind = "added" /\ events'[i].zone = z =>
        i = Len(events) + 1
  BY <1>1 DEF InEvents
<1> QED BY <1>2 DEF QueuedOnce

LEMMA AddedTaken ==
  ASSUME ChannelType, events # <<>>, events' = Tail(events), NEW z
  PROVE  /\ InEvents("added", z)' => InEvents("added", z)
         /\ QueuedOnce(z) => QueuedOnce(z)'
         /\ QueuedOnce(z) /\ Head(events).kind = "added" /\ Head(events).zone = z =>
              ~ InEvents("added", z)'
         /\ Head(events).kind = "added" /\ Head(events).zone = z => InEvents("added", z)
<1>1. /\ events \in Seq(Event) /\ Len(events) \in Nat \ {0} /\ Head(events) = events[1]
      /\ Len(events') = Len(events) - 1
      /\ \A i \in 1 .. Len(events) - 1 : events'[i] = events[i + 1]
  BY DEF ChannelType
<1>2. \A i \in 1 .. Len(events') : i + 1 \in 1 .. Len(events) /\ events'[i] = events[i + 1] /\ i + 1 # 1
  BY <1>1
<1>3. 1 \in 1 .. Len(events)
  BY <1>1
<1>4. \A i, j \in 1 .. Len(events') : i + 1 = j + 1 => i = j
  BY <1>1
<1>5. InEvents("added", z)' => InEvents("added", z)
  BY <1>2 DEF InEvents
<1>6. QueuedOnce(z) => QueuedOnce(z)'
  BY <1>2, <1>4 DEF QueuedOnce
<1>7. QueuedOnce(z) /\ Head(events).kind = "added" /\ Head(events).zone = z => ~ InEvents("added", z)'
  BY <1>1, <1>2, <1>3 DEF QueuedOnce, InEvents
<1>8. Head(events).kind = "added" /\ Head(events).zone = z => InEvents("added", z)
  BY <1>1, <1>3 DEF InEvents
<1> QED BY <1>5, <1>6, <1>7, <1>8

(* The announcements of zone z stay as they are, or get fewer. *)
NoNews(z) ==
  /\ Unannounced(z) => Unannounced(z)'
  /\ AnnouncedOnce(z) => AnnouncedOnce(z)'

LEMMA SameEvents ==
  ASSUME UNCHANGED events
  PROVE  \A z : (InEvents("added", z)' <=> InEvents("added", z)) /\ (QueuedOnce(z) => QueuedOnce(z)')
BY DEF InEvents, QueuedOnce

LEMMA QuietNews ==
  ASSUME NEW z, Telling(z)' => Telling(z), Handling(z)' => Handling(z),
         InEvents("added", z)' => InEvents("added", z), QueuedOnce(z) => QueuedOnce(z)'
  PROVE  NoNews(z)
BY DEF NoNews, Unannounced, AnnouncedOnce

LEMMA QuietFill ==
  ASSUME FillInv, UNCHANGED <<soa, firsts, setVars, tracked, events, loader, loop, task>>
  PROVE  FillInv'
BY DEF FillInv, PendingInStep, NotYetFilled, Unknown, FirstPending, UsesTheFirst, Unannounced,
       AnnouncedOnce, QueuedOnce, InEvents, Telling, Handling, setVars

(* A step of task t, which may write the zone object it refreshes. *)
LEMMA TaskFills ==
  ASSUME TypeInv, FillInv, NEW t \in Tasks,
         \A u \in Tasks \ {t} : task'[u] = task[u],
         \A z \in Zones : task'[t].zone = z =>
           /\ z \notin firsts' /\ task'[t].object = 1 => Unrefreshed(task'[t])
           /\ z \notin FileZones /\ pending[z] = 1 /\ task'[t].at # "free" =>
                task'[t].object \in {0, 1},
         UNCHANGED <<setVars, loader, loop>>,
         firsts \subseteq firsts',
         \A z \in Zones : Len(soa'[z]) = Len(soa[z]) /\ (soa'[z] = <<>> <=> soa[z] = <<>>),
         \A z \in Zones \ firsts' : soa[z] # <<>> => soa'[z][1] \in {soa[z][1], 0},
         \A z \in Zones : tracked'[z] # "no" => tracked[z] # "no",
         \A z \in Zones \ FileZones : NoNews(z) \/ (~ Unknown(z) /\ (pending[z] = 1 => z \in firsts))
  PROVE  FillInv'
<1>1. PendingInStep'
  <2>1. loader.at = "pend" => loader.zone \in Zones
    BY DEF TypeInv, LoaderOK
  <2> QED BY <2>1 DEF FillInv, PendingInStep, setVars
<1>2. ASSUME NEW z \in Zones, z \notin firsts' PROVE NotYetFilled(z)'
  <2>1. NotYetFilled(z)
    BY <1>2 DEF FillInv
  <2>2. soa'[z] # <<>> => soa'[z][1] = 0
    BY <1>2, <2>1 DEF NotYetFilled
  <2>3. ASSUME NEW u \in Tasks, task'[u].zone = z, task'[u].object = 1
        PROVE  Unrefreshed(task'[u])
    BY <1>2, <2>1, <2>3 DEF NotYetFilled
  <2> QED BY <2>1, <2>2, <2>3 DEF NotYetFilled, setVars
<1>3. \A z \in FileZones : soa'[z] # <<>> => z \in firsts'
  BY RefreshAssumption DEF FillInv
<1>4. ASSUME NEW z \in Zones \ FileZones, Unknown(z)'
      PROVE  tracked'[z] = "no" /\ pending'[z] = 0 /\ Unannounced(z)'
  <2>1. Unknown(z)
    BY <1>4 DEF Unknown
  <2> QED BY <2>1 DEF FillInv, NoNews, setVars
<1>5. ASSUME NEW z \in Zones \ FileZones, pending'[z] = 1 PROVE FirstPending(z)'
  <2>1. pending[z] = 1 /\ FirstPending(z)
    BY <1>5 DEF FillInv, setVars
  <2>2. UsesTheFirst(z)'
    BY <2>1 DEF FirstPending, UsesTheFirst, setVars
  <2>3. z \notin firsts' => AnnouncedOnce(z)' /\ (tracked'[z] # "no" => Unannounced(z)')
    BY <2>1 DEF FirstPending, NoNews
  <2> QED BY <2>2, <2>3 DEF FirstPending
<1>6. \A z \in Zones \ FileZones : FirstPending(z)'
  BY <1>5 DEF FirstPending
<1> QED BY <1>1, <1>2, <1>3, <1>4, <1>6 DEF FillInv

(* What is known of the zone of a task that refreshes it. *)
LEMMA RefreshingKnows ==
  ASSUME TypeInv, GoesOnInv, FillInv, NEW t \in Tasks, task[t].at \in Found \ {"mark"}
  PROVE  /\ task[t].zone \in Zones \ FileZones /\ tracked[task[t].zone] # "no"
         /\ ~ Unknown(task[t].zone)
         /\ task[t].object \in Nat \ {0} /\ task[t].object <= Len(soa[task[t].zone])
         /\ task[t].zone \notin firsts /\ task[t].object = 1 =>
              Unrefreshed(task[t])
         /\ pending[task[t].zone] = 1 => task[t].object = 1
<1> DEFINE z == task[t].zone
<1>1. z \in Zones /\ task[t].object # 0 /\ task[t].object \in ObjectOf(z) /\ task[t].object \in Nat
  BY DEF TypeInv, TasksOK, TaskOK, Found, Object
<1>2. tracked[z] # "no"
  BY DEF GoesOnInv, RefreshedIsTracked, FoundTracked
<1>3. z \notin FileZones
  BY <1>2 DEF GoesOnInv, FilesApart
<1>4. ~ Unknown(z)
  BY <1>1, <1>2, <1>3 DEF FillInv
<1>5. pending[z] = 1 => task[t].object = 1
  BY <1>1, <1>3 DEF FillInv, FirstPending, UsesTheFirst, Found
<1>6. z \notin firsts /\ task[t].object = 1 => Unrefreshed(task[t])
  BY <1>1 DEF FillInv, NotYetFilled
<1>7. Len(soa[z]) \in Nat
  BY <1>1 DEF TypeInv, ZonesOK
<1> QED BY <1>1, <1>2, <1>3, <1>4, <1>5, <1>6, <1>7 DEF ObjectOf

(* A task that only moves on. *)
MovesOn(t) ==
  \/ End(t)
  \/ \E at \in TaskAt :
       /\ Goto(t, at) /\ task[t].at # "free"
       /\ at \in {"ask", "fetch"} => task[t].at \in {"ask", "fetch"}
       /\ at \in Ending => \/ task[t].at \in Ending
                           \/ (task[t].at = "ask" /\ task[t].own # 0)

LEMMA MovesBy ==
  ASSUME NEW t \in Tasks, NEW at \in TaskAt, Goto(t, at), task[t].at # "free",
         at \in {"ask", "fetch"} => task[t].at \in {"ask", "fetch"},
         at \in Ending => task[t].at \in Ending \/ (task[t].at = "ask" /\ task[t].own # 0)
  PROVE  MovesOn(t)
BY DEF MovesOn

LEMMA TaskMoveFills ==
  ASSUME TypeInv, FillInv, NEW t \in Tasks, MovesOn(t),
         UNCHANGED <<soa, firsts, setVars, loader, loop>>,
         \A z \in Zones : tracked'[z] # "no" => tracked[z] # "no",
         \A z \in Zones \ FileZones : NoNews(z) \/ (~ Unknown(z) /\ (pending[z] = 1 => z \in firsts))
  PROVE  FillInv'
<1>1. \A u \in Tasks \ {t} : task'[u] = task[u]
  BY Moves, Ends DEF MovesOn
<1>2. ASSUME NEW z \in Zones, task'[t].zone = z
      PROVE  /\ z \notin firsts /\ task'[t].object = 1 => Unrefreshed(task'[t])
             /\ z \notin FileZones /\ pending[z] = 1 /\ task'[t].at # "free" =>
                  task'[t].object \in {0, 1}
  <2>1. CASE End(t)
    BY <2>1, Ends DEF FreeTask
  <2>2. CASE ~ End(t)
    <3>1. PICK at \in TaskAt :
            /\ Goto(t, at) /\ task[t].at # "free"
            /\ at \in {"ask", "fetch"} => task[t].at \in {"ask", "fetch"}
            /\ at \in Ending => \/ task[t].at \in Ending
                                \/ (task[t].at = "ask" /\ task[t].own # 0)
      BY <2>2 DEF MovesOn
    <3>2. /\ task'[t].at = at /\ task[t].zone = z /\ task'[t].object = task[t].object
          /\ task'[t].own = task[t].own
      <4>1. /\ task'[t] = [task[t] EXCEPT !.at = at]
            /\ task'[t].at = at /\ task'[t].zone = task[t].zone /\ task'[t].object = task[t].object
        BY <3>1, Moves
      <4>2. task[t] = [at |-> task[t].at, zone |-> task[t].zone, cause |-> task[t].cause,
                       object |-> task[t].object, waiting |-> task[t].waiting,
                       own |-> task[t].own, got |-> task[t].got]
        BY DEF TypeInv, TasksOK
      <4>3. task'[t].own = task[t].own
        BY <4>1, <4>2
      <4> QED BY <1>2, <4>1, <4>3
    <3>3. z \notin firsts /\ task[t].object = 1 => Unrefreshed(task[t])
      BY <3>2 DEF FillInv, NotYetFilled
    <3>4. z \notin FileZones /\ pending[z] = 1 /\ task[t].at # "free" => task[t].object \in {0, 1}
      BY <3>2 DEF FillInv, FirstPending, UsesTheFirst
    <3> QED BY <3>1, <3>2, <3>3, <3>4 DEF Unrefreshed
  <2> QED BY <2>1, <2>2
<1> QED BY <1>1, <1>2, TaskFills

LEMMA StepOfTaskFills ==
  ASSUME TypeInv, GoesOnInv, FillInv, NEW t \in Tasks, Task(t) \/ Fail(t)
  PROVE  FillInv'
<1> DEFINE y == task[t].zone
<1>1. UNCHANGED <<setVars, loader, loop>>
  BY DEF Task, Fail, Check, FindTimed, FindNotified, MarkNotified, Begin, Transfer, Answer, Fetch, Progress,
         Commit, AnnounceCommit, AnnounceChange, ReadBack, Succeed, Schedule, Migrate, GiveUp,
         ScheduleRetry
<1>2. ASSUME UNCHANGED events PROVE \A z : NoNews(z)
  BY <1>1, <1>2, SameEvents DEF NoNews, Unannounced, AnnouncedOnce, Telling, Handling
<1>3. ASSUME NEW e \in Event, Send(e), e.kind # "added" PROVE \A z : NoNews(z)
  <2> TAKE z
  <2>1. (Telling(z)' => Telling(z)) /\ (Handling(z)' => Handling(z))
    BY <1>1 DEF Telling, Handling
  <2> QED BY <1>3, <2>1, OtherSent, QuietNews DEF TypeInv
<1>4. CASE Check(t) \/ Answer(t) \/ Fail(t) \/ AnnounceCommit(t) \/ ReadBack(t)
  <2>1. UNCHANGED <<soa, firsts, tracked, events>>
    BY <1>4 DEF Check, Answer, Fail, AnnounceCommit, ReadBack, zoneVars, firsts, timeVars, chanVars
  <2>2. MovesOn(t)
    <3>1. CASE Check(t)
      BY <3>1 DEF MovesOn, Check, Ending, TaskAt
    <3>2. CASE Answer(t)
      BY <3>2 DEF MovesOn, Answer, Ending, TaskAt
    <3>3. CASE ReadBack(t)
      BY <3>3, MovesBy DEF ReadBack, Ending, TaskAt
    <3>4. CASE Fail(t)
      BY <3>4, MovesBy DEF Fail, Ending, TaskAt
    <3>5. CASE AnnounceCommit(t)
      BY <3>5, MovesBy DEF AnnounceCommit, Ending, TaskAt
    <3> QED BY <1>4, <3>1, <3>2, <3>3, <3>4, <3>5
  <2> QED BY <1>1, <1>2, <2>1, <2>2, TaskMoveFills
<1>5. CASE FindTimed(t) \/ FindNotified(t)
  <2>1. UNCHANGED <<soa, firsts, tracked, events>> /\ task[t].at = "find" /\ y \in Zones
    BY <1>5 DEF FindTimed, FindNotified, zoneVars, firsts, timeVars, chanVars, TypeInv, TasksOK, TaskOK
  <2>2. CASE End(t) \/ Goto(t, "begin") \/ Goto(t, "mark")
    <3>1. MovesOn(t)
      BY <2>1, <2>2 DEF MovesOn, Ending, TaskAt
    <3> QED BY <1>1, <1>2, <2>1, <3>1, TaskMoveFills
  <2>3. ASSUME NEW at \in {"begin", "mark"},
               task' = [task EXCEPT ![t].at = at, ![t].object = pending[y], ![t].waiting = TRUE]
        PROVE  FillInv'
    <3>1. /\ task'[t].at = at /\ task'[t].zone = y /\ task'[t].object = pending[y]
          /\ \A u \in Tasks \ {t} : task'[u] = task[u]
      BY <2>3 DEF TypeInv, TasksOK
    <3> QED BY <1>1, <1>2, <2>1, <3>1, TaskFills DEF Unrefreshed, Ending
  <2>4. \/ End(t) \/ Goto(t, "begin") \/ Goto(t, "mark")
        \/ \E at \in {"begin", "mark"} :
             task' = [task EXCEPT ![t].at = at, ![t].object = pending[y], ![t].waiting = TRUE]
    BY <1>5 DEF FindTimed, FindNotified
  <2> QED BY <2>2, <2>3, <2>4
<1>6. CASE MarkNotified(t) \/ Succeed(t) \/ GiveUp(t)
  <2>1. UNCHANGED <<soa, firsts, events>>
    BY <1>6 DEF MarkNotified, Succeed, GiveUp, zoneVars, firsts, chanVars
  <2>2. MovesOn(t)
    <3>1. CASE MarkNotified(t)
      BY <3>1 DEF MovesOn, MarkNotified, Ending, TaskAt
    <3>2. CASE Succeed(t)
      BY <3>2, MovesBy DEF Succeed, Ending, TaskAt
    <3>3. CASE GiveUp(t)
      BY <3>3 DEF MovesOn, GiveUp, Ending, TaskAt
    <3> QED BY <1>6, <3>1, <3>2, <3>3
  <2>3. \A z \in Zones : tracked'[z] # "no" => tracked[z] # "no"
    <3>1. CASE MarkNotified(t)
      BY <3>1 DEF MarkNotified, TypeInv, TimesOK
    <3>2. CASE Succeed(t) \/ GiveUp(t)
      <4>1. tracked[y] # "no"
        BY <3>2, RefreshingKnows DEF Succeed, GiveUp, Found, TaskAt
      <4> QED BY <3>2, <4>1 DEF Succeed, GiveUp, TypeInv, TimesOK
    <3> QED BY <1>6, <3>1, <3>2
  <2> QED BY <1>1, <1>2, <2>1, <2>2, <2>3, TaskMoveFills
<1>7. CASE Progress(t)
  <2>1. UNCHANGED <<soa, firsts, events, task>> /\ task[t].at = "fetching"
    BY <1>7 DEF Progress, zoneVars, firsts, chanVars
  <2>2. \A z \in Zones : tracked'[z] # "no" => tracked[z] # "no"
    <3>1. tracked[y] # "no"
      BY <2>1, RefreshingKnows DEF Found, TaskAt
    <3> QED BY <1>7, <3>1 DEF Progress, TypeInv, TimesOK
  <2>3. ASSUME NEW z \in Zones, task'[t].zone = z
        PROVE  /\ z \notin firsts /\ task'[t].object = 1 => Unrefreshed(task'[t])
               /\ z \notin FileZones /\ pending[z] = 1 /\ task'[t].at # "free" =>
                    task'[t].object \in {0, 1}
    BY <2>1, <2>3 DEF FillInv, NotYetFilled, FirstPending, UsesTheFirst
  <2> QED BY <1>1, <1>2, <2>1, <2>2, <2>3, TaskFills
<1>8. CASE Begin(t)
  <2>1. /\ UNCHANGED <<soa, firsts, events>> /\ task[t].at = "begin"
        /\ task'[t].at = "ask" /\ task'[t].zone = y /\ task'[t].object = task[t].object
        /\ task'[t].own = soa[y][task[t].object]
        /\ \A u \in Tasks \ {t} : task'[u] = task[u]
    BY <1>8 DEF Begin, zoneVars, firsts, chanVars, TypeInv, TasksOK
  <2>2. /\ y \in Zones \ FileZones /\ tracked[y] # "no" /\ ~ Unknown(y)
        /\ pending[y] = 1 => task[t].object = 1
    BY <2>1, RefreshingKnows DEF Found, TaskAt
  <2>3. y \notin firsts /\ task[t].object = 1 => soa[y][1] = 0
    BY <2>2 DEF FillInv, NotYetFilled, Unknown
  <2>4. \A z \in Zones : tracked'[z] # "no" => tracked[z] # "no"
    BY <1>8, <2>2 DEF Begin, TypeInv, TimesOK
  <2> QED BY <1>1, <1>2, <2>1, <2>2, <2>3, <2>4, TaskFills DEF Unrefreshed, Ending
<1>9. CASE Fetch(t)
  <2> DEFINE g == task[t].object
  <2>0. UNCHANGED firsts
    BY <1>9 DEF Fetch, firsts
  <2>1. /\ UNCHANGED <<tracked, events>> /\ task[t].at = "fetch"
        /\ soa' = [soa EXCEPT ![y][g] = 0] \/ soa' = soa
        /\ task'[t].at \in {"fetching", "failed"} /\ task'[t].zone = y /\ task'[t].object = g
        /\ task'[t].own \in {0, task[t].own}
        /\ \A u \in Tasks \ {t} : task'[u] = task[u]
    BY <1>9 DEF Fetch, Goto, timeVars, chanVars, TypeInv, TasksOK
  <2>2. /\ y \in Zones \ FileZones /\ g \in Nat \ {0} /\ g <= Len(soa[y])
        /\ pending[y] = 1 => g = 1
    BY <2>1, RefreshingKnows DEF Found, TaskAt
  <2>3. ASSUME NEW z \in Zones
        PROVE  /\ Len(soa'[z]) = Len(soa[z]) /\ (soa'[z] = <<>> <=> soa[z] = <<>>)
               /\ soa[z] # <<>> => soa'[z][1] \in {soa[z][1], 0}
    <3>1. soa[z] \in Seq(Serial) /\ soa \in [Zones -> Seq(Serial)]
      BY DEF TypeInv, ZonesOK
    <3>2. CASE soa'[z] = soa[z]
      BY <3>2
    <3>3. CASE z = y /\ soa'[y] = [soa[y] EXCEPT ![g] = 0]
      BY <2>2, <3>1, <3>3
    <3>4. soa'[z] = soa[z] \/ (z = y /\ soa'[y] = [soa[y] EXCEPT ![g] = 0])
      BY <2>1, <2>2, <3>1
    <3> QED BY <3>2, <3>3, <3>4
  <2> QED BY <1>1, <1>2, <2>0, <2>1, <2>2, <2>3, TaskFills DEF Unrefreshed, Ending
<1>10. CASE Commit(t)
  <2> DEFINE g == task[t].object
  <2>1. /\ UNCHANGED <<tracked, events>> /\ task[t].at = "fetching"
        /\ soa' = [soa EXCEPT ![y][g] = task[t].got]
        /\ filled' = filled \cup {<<y, g>>}
        /\ task'[t].at = "report" /\ task'[t].zone = y /\ task'[t].object = g
        /\ \A u \in Tasks \ {t} : task'[u] = task[u]
    BY <1>10 DEF Commit, timeVars, chanVars, TypeInv, TasksOK
  <2>2. /\ y \in Zones \ FileZones /\ g \in Nat \ {0} /\ g <= Len(soa[y])
        /\ pending[y] = 1 => g = 1
    BY <2>1, RefreshingKnows DEF Found, TaskAt
  <2>4. firsts' = (IF g = 1 THEN firsts \cup {y} ELSE firsts) /\ firsts \subseteq firsts'
    <3> HIDE DEF g
    <3> QED BY <2>1, <2>2, OneFilled, FirstsGrow
  <2>3. ASSUME NEW z \in Zones
        PROVE  /\ Len(soa'[z]) = Len(soa[z]) /\ (soa'[z] = <<>> <=> soa[z] = <<>>)
               /\ z \notin firsts' /\ soa[z] # <<>> => soa'[z][1] = soa[z][1]
    <3>1. soa[z] \in Seq(Serial) /\ soa \in [Zones -> Seq(Serial)] /\ task[t].got \in Serial
      BY DEF TypeInv, ZonesOK, TasksOK
    <3>2. CASE soa'[z] = soa[z]
      BY <3>2
    <3>3. CASE z = y /\ soa'[y] = [soa[y] EXCEPT ![g] = task[t].got]
      <4>1. g # 1 \/ z \in firsts'
        BY <2>4, <3>3
      <4> HIDE DEF g
      <4>2. soa[z] # <<>> /\ g # 1 => soa'[z][1] = soa[z][1]
        BY <2>2, <3>1, <3>3
      <4>3. Len(soa'[z]) = Len(soa[z]) /\ (soa'[z] = <<>> <=> soa[z] = <<>>)
        BY <2>2, <3>1, <3>3
      <4> QED BY <4>1, <4>2, <4>3
    <3>4. soa'[z] = soa[z] \/ (z = y /\ soa'[y] = [soa[y] EXCEPT ![g] = task[t].got])
      BY <2>1, <2>2, <3>1
    <3> QED BY <3>2, <3>3, <3>4
  <2> QED BY <1>1, <1>2, <2>1, <2>2, <2>3, <2>4, TaskFills
<1>11. CASE AnnounceChange(t) \/ Schedule(t) \/ ScheduleRetry(t)
  <2>1. /\ UNCHANGED <<soa, firsts, tracked>>
        /\ task[t].at \in {"changed", "schedule", "retry"}
        /\ End(t) \/ (Goto(t, "read") /\ task[t].at = "changed")
             \/ (Goto(t, "migrate") /\ task[t].at = "schedule")
    BY <1>11 DEF AnnounceChange, Schedule, ScheduleRetry, zoneVars, firsts, timeVars
  <2>4. MovesOn(t)
    <3>1. CASE End(t)
      BY <3>1 DEF MovesOn
    <3>2. CASE Goto(t, "read") /\ task[t].at = "changed"
      BY <3>2, MovesBy DEF Ending, TaskAt
    <3>3. CASE Goto(t, "migrate") /\ task[t].at = "schedule"
      BY <3>3, MovesBy DEF Ending, TaskAt
    <3> QED BY <2>1, <3>1, <3>2, <3>3
  <2>2. y \in Zones
    BY <2>1, StepsOfTask DEF Found, TaskAt
  <2>3. \E e \in Event : Send(e) /\ e.kind # "added"
    <3>1. /\ About("changed", y) \in Event /\ About("changed", y).kind = "changed"
          /\ \A c \in {"refresh", "retry"} : Again(y, c) \in Event /\ Again(y, c).kind = "refresh"
      BY <2>2, Events, EventKinds
    <3> QED BY <1>11, <3>1 DEF AnnounceChange, Schedule, ScheduleRetry
  <2> QED BY <1>1, <1>3, <2>1, <2>3, <2>4, TaskMoveFills
<1>12. CASE Migrate(t)
  <2>1. /\ UNCHANGED <<soa, firsts, tracked>>
        /\ task[t].at = "migrate" /\ End(t) /\ MovesOn(t) /\ Send(About("added", y))
    BY <1>12 DEF MovesOn, Migrate, zoneVars, firsts, timeVars
  <2>2. /\ y \in Zones \ FileZones /\ ~ Unknown(y)
        /\ pending[y] = 1 => y \in firsts
    BY <2>1, RefreshingKnows DEF Found, TaskAt, Ending, Unrefreshed
  <2>3. ASSUME NEW z, z # y PROVE NoNews(z)
    <3> PICK e \in Event : e = About("added", y)
      BY <2>2, Events
    <3>1. e.zone = y
      BY EventKinds
    <3>2. (Telling(z)' => Telling(z)) /\ (Handling(z)' => Handling(z))
      BY <1>1 DEF Telling, Handling
    <3> QED BY <2>1, <2>3, <3>1, <3>2, OtherSent, QuietNews DEF TypeInv
  <2> QED BY <1>1, <2>1, <2>2, <2>3, TaskMoveFills
<1> QED BY <1>4, <1>5, <1>6, <1>7, <1>8, <1>9, <1>10, <1>11, <1>12 DEF Task, Transfer

(* A step of the loader that inserts nothing. *)
LEMMA LoaderFills ==
  ASSUME TypeInv, FillInv, UNCHANGED <<soa, firsts, setVars, tracked, loop, task>>,
         loader.at # "pend", loader'.at # "pend",
         \A z \in Zones : loader'.copy[z] \notin {0, loader.copy[z]} => loader'.copy[z] # 1 \/ z \in firsts,
         \A z \in Zones \ FileZones : loader'.copy[z] \in {0, loader.copy[z], tree[z]},
         \A z \in Zones \ FileZones : NoNews(z)
  PROVE  FillInv'
<1>1. PendingInStep'
  BY DEF FillInv, PendingInStep, setVars
<1>2. \A z \in Zones : z \notin firsts' => NotYetFilled(z)'
  BY DEF FillInv, NotYetFilled, setVars
<1>3. \A z \in FileZones : soa'[z] # <<>> => z \in firsts'
  BY DEF FillInv
<1>4. \A z \in Zones \ FileZones :
        Unknown(z)' => tracked'[z] = "no" /\ pending'[z] = 0 /\ Unannounced(z)'
  BY DEF FillInv, Unknown, NoNews, setVars
<1>5. \A z \in Zones \ FileZones : FirstPending(z)'
  BY DEF FillInv, FirstPending, UsesTheFirst, NoNews, setVars
<1> QED BY <1>1, <1>2, <1>3, <1>4, <1>5 DEF FillInv

LEMMA RegisterFills ==
  ASSUME TypeInv, GoesOnInv, FillInv, NEW y \in Zones, RegisterSecondary(y) \/ RegisterPrimary(y)
  PROVE  FillInv'
<1>1. /\ UNCHANGED <<setVars, tracked, events, loop, task>> /\ loader.at = "idle"
      /\ \E n \in Serial : soa' = [soa EXCEPT ![y] = Append(@, n)]
      /\ filled \subseteq filled' /\ firsts \subseteq firsts'
      /\ loader'.at \in {"pend", "file"} /\ loader'.zone = y /\ loader'.object = Len(soa[y]) + 1
      /\ loader'.copy \in {tree, NoTree}
  <2>1. 0 \in Serial /\ primary[y] \in Serial
    BY RefreshAssumption DEF TypeInv, SourcesOK, Serial
  <2>2. CASE RegisterSecondary(y)
    BY <2>1, <2>2, FirstsGrow DEF RegisterSecondary, IdleLoader, timeVars, chanVars
  <2>3. CASE RegisterPrimary(y)
    BY <2>1, <2>3, FirstsGrow DEF RegisterPrimary, IdleLoader, timeVars, chanVars
  <2> QED BY <2>2, <2>3
<1>2. /\ soa[y] \in Seq(Serial) /\ Len(soa[y]) \in Nat /\ (soa[y] = <<>> <=> Len(soa[y]) = 0)
      /\ Len(soa'[y]) = Len(soa[y]) + 1 /\ soa'[y] # <<>>
      /\ soa[y] # <<>> => soa'[y][1] = soa[y][1]
      /\ \A z \in Zones \ {y} : soa'[z] = soa[z]
  <2>1. soa \in [Zones -> Seq(Serial)]
    BY DEF TypeInv, ZonesOK
  <2>2. PICK n \in Serial : soa' = [soa EXCEPT ![y] = Append(@, n)]
    BY <1>1
  <2>3. soa[y] \in Seq(Serial) /\ soa'[y] = Append(soa[y], n)
    BY <2>1, <2>2
  <2>4. /\ Len(soa[y]) \in Nat /\ (soa[y] = <<>> <=> Len(soa[y]) = 0)
        /\ Len(Append(soa[y], n)) = Len(soa[y]) + 1
        /\ soa[y] # <<>> => Append(soa[y], n)[1] = soa[y][1]
    BY <2>3
  <2>5. Append(soa[y], n) # <<>>
    <3>1. Len(<<>>) = 0 /\ Len(Append(soa[y], n)) # 0
      BY <2>4
    <3> QED BY <3>1
  <2> QED BY <2>1, <2>2, <2>3, <2>4, <2>5
<1>3. \A z \in Zones : tree[z] \in ObjectOf(z) /\ pending[z] \in ObjectOf(z) /\ NoTree[z] = 0
  BY AtRest DEF TypeInv, SetsOK
<1>10. ASSUME soa[y] = <<>>, RegisterPrimary(y) PROVE y \in firsts'
  <2>1. filled' = filled \cup {<<y, 1>>}
    BY <1>2, <1>10 DEF RegisterPrimary
  <2> QED BY <2>1, OneFilled
<1>4. PendingInStep'
  BY <1>1, <1>2 DEF FillInv, PendingInStep, setVars
<1>5. ASSUME NEW z \in Zones, z \notin firsts' PROVE NotYetFilled(z)'
  <2>1. NotYetFilled(z)
    BY <1>1, <1>5 DEF FillInv
  <2>2. soa'[z] # <<>> => soa'[z][1] = 0
    <3>1. CASE z # y \/ soa[y] # <<>>
      BY <1>2, <2>1, <3>1 DEF NotYetFilled
    <3>2. CASE z = y /\ soa[y] = <<>> /\ RegisterPrimary(y)
      BY <1>5, <1>10, <3>2
    <3>3. CASE z = y /\ soa[y] = <<>> /\ RegisterSecondary(y)
      <4>1. soa \in [Zones -> Seq(Serial)] /\ soa' = [soa EXCEPT ![y] = Append(@, 0)]
        BY <3>3 DEF RegisterSecondary, TypeInv, ZonesOK
      <4> QED BY <3>3, <4>1
    <3> QED BY <3>1, <3>2, <3>3
  <2> QED BY <1>1, <1>3, <2>1, <2>2 DEF NotYetFilled, setVars
<1>6. \A z \in FileZones : soa'[z] # <<>> => z \in firsts'
  <2> TAKE z \in FileZones
  <2>1. z \in Zones
    BY RefreshAssumption
  <2>2. CASE z # y
    BY <1>1, <1>2, <2>1, <2>2 DEF FillInv
  <2>3. CASE z = y
    BY <1>1, <1>10, <2>3 DEF FillInv, RegisterSecondary
  <2> QED BY <2>2, <2>3
<1>7. \A z : NoNews(z)
  BY <1>1, SameEvents DEF NoNews, Unannounced, AnnouncedOnce, Telling, Handling
<1>8. ASSUME NEW z \in Zones \ FileZones, Unknown(z)'
      PROVE  tracked'[z] = "no" /\ pending'[z] = 0 /\ Unannounced(z)'
  <2>1. Unknown(z)
    BY <1>1, <1>2, <1>8 DEF Unknown
  <2> QED BY <1>1, <1>7, <2>1 DEF FillInv, NoNews, setVars
<1>9. \A z \in Zones \ FileZones : FirstPending(z)'
  BY <1>1, <1>3, <1>7 DEF FillInv, FirstPending, UsesTheFirst, NoNews, setVars
<1> QED BY <1>4, <1>5, <1>6, <1>8, <1>9 DEF FillInv

LEMMA WorldFills ==
  ASSUME TypeInv, GoesOnInv, FillInv, NEW y \in Zones,
         \/ NewVersion(y) \/ RegisterSecondary(y) \/ RegisterPrimary(y)
         \/ AskNotify(y) \/ AskForced(y) \/ OutageEnds
  PROVE  FillInv'
<1>1. CASE NewVersion(y) \/ OutageEnds
  BY <1>1, QuietFill DEF NewVersion, OutageEnds, chanVars, zoneVars, firsts, timeVars
<1>2. CASE AskNotify(y) \/ AskForced(y)
  <2>1. /\ UNCHANGED <<soa, firsts, setVars, tracked, events, loop, task>>
        /\ loader.at = "idle" /\ loader'.at \in {"look", "tell"} /\ loader'.copy = NoTree
        /\ loader'.at = "tell" => loader'.event = Again(y, "refresh")
    BY <1>2 DEF AskNotify, AskForced, chanVars, zoneVars, firsts, timeVars, IdleLoader
  <2>2. \A z : NoNews(z)
    BY <2>1, SameEvents
       DEF NoNews, Unannounced, AnnouncedOnce, Telling, Handling, About, Again
  <2> QED BY <2>1, <2>2, LoaderFills, AtRest
<1> QED BY <1>1, <1>2, RegisterFills

LEMMA LoaderStepFills ==
  ASSUME TypeInv, GoesOnInv, FillInv, Loader
  PROVE  FillInv'
<1> DEFINE y == loader.zone
<1>1. CASE ReportCommit
  BY <1>1, QuietFill DEF ReportCommit, zoneVars, firsts, timeVars
<1>2. CASE InsertPending
  <2>1. /\ UNCHANGED <<soa, firsts, tree, tracked, events, loop, task>>
        /\ loader.at = "pend" /\ y \in Zones /\ ~LoopWrites
        /\ pending' = [pending EXCEPT ![y] = loader.object]
        /\ loader'.at = "tell" /\ loader'.zone = y /\ loader'.copy = loader.copy
        /\ loader'.event = About("added", y)
    BY <1>2 DEF InsertPending, PendingWritable, chanVars, zoneVars, firsts, timeVars, TypeInv, LoaderOK
  <2>2. /\ \A z \in Zones \ {y} : pending'[z] = pending[z]
        /\ pending'[y] = loader.object
    BY <2>1 DEF TypeInv, SetsOK, Tree
  <2>3. loader.object = Len(soa[y]) /\ loop.at \notin {"track", "insert", "store"}
    BY <2>1 DEF FillInv, PendingInStep, LoopWrites
  <2>4. PendingInStep'
    BY <2>1, <2>3 DEF PendingInStep
  <2>5. \A z \in Zones : z \notin firsts' => NotYetFilled(z)'
    BY <2>1 DEF FillInv, NotYetFilled
  <2>6. \A z \in FileZones : soa'[z] # <<>> => z \in firsts'
    BY <2>1 DEF FillInv
  <2>7. ASSUME NEW z \in Zones, z # y PROVE NoNews(z)
    BY <2>1, <2>7, SameEvents DEF NoNews, Unannounced, AnnouncedOnce, Telling, Handling, About
  <2>8. ASSUME NEW z \in Zones \ FileZones, Unknown(z)'
        PROVE  tracked'[z] = "no" /\ pending'[z] = 0 /\ Unannounced(z)'
    <3>1. soa[z] = <<>>
      BY <2>1, <2>8 DEF Unknown
    <3>2. z # y
      BY <2>1, <3>1 DEF FillInv, PendingInStep
    <3> QED BY <2>1, <2>2, <2>7, <3>1, <3>2 DEF FillInv, Unknown, NoNews
  <2>9. ASSUME NEW z \in Zones \ FileZones, pending'[z] = 1 PROVE FirstPending(z)'
    <3>1. CASE z # y
      BY <2>1, <2>2, <2>7, <2>9, <3>1 DEF FillInv, FirstPending, UsesTheFirst, NoNews
    <3>2. CASE z = y
      <4>1. loader.object = 1 /\ Len(soa[z]) = 1 /\ Unknown(z)
        BY <2>1, <2>2, <2>3, <2>9, <3>2 DEF Unknown
      <4>2. UsesTheFirst(z)'
        <5>1. ObjectOf(z) = {0, 1}
          BY <4>1 DEF ObjectOf
        <5>2. ASSUME NEW t \in Tasks, task[t].at # "free", task[t].zone = z PROVE task[t].object \in {0, 1}
          BY <5>1, <5>2 DEF TypeInv, TasksOK, TaskOK
        <5> QED BY <2>1, <5>1, <5>2 DEF TypeInv, SetsOK, LoaderOK, LoopOK, UsesTheFirst
      <4>3. tracked[z] = "no" /\ Unannounced(z)
        BY <4>1 DEF FillInv
      <4>4. AnnouncedOnce(z)'
        BY <2>1, <4>3, SameEvents DEF Unannounced, AnnouncedOnce, QueuedOnce, InEvents, Handling
      <4> QED BY <2>1, <4>2, <4>3, <4>4 DEF FirstPending
    <3> QED BY <3>1, <3>2
  <2>10. \A z \in Zones \ FileZones : FirstPending(z)'
    BY <2>9 DEF FirstPending
  <2> QED BY <2>4, <2>5, <2>6, <2>8, <2>10 DEF FillInv
<1>3. CASE InsertPrimary
  <2>1. /\ UNCHANGED <<soa, firsts, setVars, tracked, events, loop, task>>
        /\ loader.at = "file" /\ y \in Zones
        /\ \/ loader' = IdleLoader
           \/ /\ loader'.at = "tell" /\ loader'.event = About("added", y)
              /\ loader'.copy = [tree EXCEPT ![y] = loader.object]
    BY <1>3 DEF InsertPrimary, Extended, zoneVars, firsts, timeVars, TypeInv, LoaderOK
  <2>2. y \in FileZones
    BY <2>1 DEF GoesOnInv, FilesApart
  <2>3. loader.object = 1 => y \in firsts
    <3>1. loader.object = 1 => soa[y] # <<>>
      BY <2>1 DEF TypeInv, LoaderOK, ObjectOf, ZonesOK
    <3> QED BY <2>2, <3>1 DEF FillInv
  <2>4. \A z \in Zones : loader'.copy[z] # 1 \/ z \in firsts
    <3>1. \A z \in Zones : tree[z] # 1 \/ z \in firsts
      BY DEF FillInv, NotYetFilled
    <3>2. CASE loader' = IdleLoader
      BY <3>2, AtRest DEF IdleLoader
    <3>3. CASE loader'.copy = [tree EXCEPT ![y] = loader.object]
      BY <2>3, <3>1, <3>3 DEF TypeInv, SetsOK, Tree
    <3> QED BY <2>1, <3>2, <3>3
  <2>5. \A z \in Zones \ FileZones : loader'.copy[z] \in {0, tree[z]}
    <3>1. CASE loader' = IdleLoader
      BY <3>1, AtRest DEF IdleLoader
    <3>2. CASE loader'.copy = [tree EXCEPT ![y] = loader.object]
      BY <2>2, <3>2 DEF TypeInv, SetsOK, Tree
    <3> QED BY <2>1, <3>1, <3>2
  <2>6. ASSUME NEW z \in Zones \ FileZones PROVE NoNews(z)
    <3>1. ~ Telling(z)'
      BY <2>1, <2>2 DEF Telling, IdleLoader, About
    <3> QED BY <2>1, <3>1, SameEvents, QuietNews DEF Handling
  <2>7. loader'.at \in {"idle", "tell"}
    BY <2>1 DEF IdleLoader
  <2> QED BY <2>1, <2>4, <2>5, <2>6, <2>7, LoaderFills
<1>4. CASE LookupNotified
  <2>1. /\ UNCHANGED <<soa, firsts, setVars, tracked, events, loop, task>>
        /\ loader.at = "look"
        /\ \/ loader' = IdleLoader
           \/ loader' = [loader EXCEPT !.at = "tell", !.event = About("notify", y)]
    BY <1>4 DEF LookupNotified, chanVars, zoneVars, firsts, timeVars
  <2>2. /\ loader'.at \in {"idle", "tell"} /\ loader'.copy \in {loader.copy, NoTree}
        /\ \A z : ~ Telling(z)'
    <3>1. CASE loader' = IdleLoader
      BY <3>1 DEF IdleLoader, Telling
    <3>2. CASE loader' = [loader EXCEPT !.at = "tell", !.event = About("notify", y)]
      <4>1. /\ loader'.at = "tell" /\ loader'.copy = loader.copy
            /\ loader'.event = About("notify", y)
        BY <3>2 DEF TypeInv, LoaderOK
      <4> QED BY <4>1 DEF Telling, About
    <3> QED BY <2>1, <3>1, <3>2
  <2>3. \A z : NoNews(z)
    BY <2>1, <2>2, SameEvents, QuietNews DEF Handling
  <2>4. \A z \in Zones : loader'.copy[z] \in {0, loader.copy[z]}
    BY <2>2, AtRest
  <2> QED BY <2>1, <2>2, <2>3, <2>4, LoaderFills
<1>5. CASE TellMaintainer
  <2>1. /\ UNCHANGED <<soa, firsts, setVars, tracked, loop, task>>
        /\ loader.at = "tell" /\ Send(loader.event) /\ loader.event \in Event
        /\ loader'.at \in {"idle", "store"} /\ loader'.copy \in {loader.copy, NoTree}
    BY <1>5 DEF TellMaintainer, zoneVars, firsts, timeVars, IdleLoader, TypeInv, LoaderOK
  <2> PICK e \in Event : e = loader.event
    BY <2>1
  <2>2. ASSUME NEW z PROVE NoNews(z)
    <3>1. ~ Telling(z)' /\ (Handling(z)' <=> Handling(z))
      BY <2>1 DEF Telling, Handling
    <3>2. CASE ~ (e.kind = "added" /\ e.zone = z)
      BY <2>1, <3>1, <3>2, OtherSent, QuietNews DEF TypeInv
    <3>3. CASE e.kind = "added" /\ e.zone = z
      <4>1. Telling(z)
        <5>1. e = About("added", z)
          BY <3>3 DEF Event, About
        <5> QED BY <2>1, <5>1 DEF Telling
      <4>2. ~ InEvents("added", z) => QueuedOnce(z)'
        BY <2>1, AddedSent DEF TypeInv
      <4> QED BY <3>1, <4>1, <4>2 DEF NoNews, Unannounced, AnnouncedOnce
    <3> QED BY <3>2, <3>3
  <2>3. \A z \in Zones : loader'.copy[z] \in {0, loader.copy[z]}
    BY <2>1, AtRest
  <2> QED BY <2>1, <2>2, <2>3, LoaderFills
<1>6. CASE StoreInserted
  <2>1. /\ UNCHANGED <<soa, firsts, pending, tracked, events, loop, task>>
        /\ loader.at = "store" /\ tree' = loader.copy
        /\ loader'.at = "idle" /\ loader'.copy = NoTree
    BY <1>6 DEF StoreInserted, chanVars, zoneVars, firsts, timeVars, IdleLoader
  <2>2. \A z : NoNews(z)
    BY <2>1, SameEvents DEF NoNews, Unannounced, AnnouncedOnce, Telling, Handling
  <2>3. PendingInStep'
    BY <2>1 DEF FillInv, PendingInStep
  <2>4. \A z \in Zones : z \notin firsts' => NotYetFilled(z)'
    BY <2>1, AtRest DEF FillInv, NotYetFilled
  <2>5. \A z \in FileZones : soa'[z] # <<>> => z \in firsts'
    BY <2>1 DEF FillInv
  <2>6. \A z \in Zones \ FileZones :
          Unknown(z)' => tracked'[z] = "no" /\ pending'[z] = 0 /\ Unannounced(z)'
    BY <2>1, <2>2 DEF FillInv, Unknown, NoNews
  <2>7. \A z \in Zones \ FileZones : FirstPending(z)'
    BY <2>1, <2>2, AtRest DEF FillInv, FirstPending, UsesTheFirst, NoNews
  <2> QED BY <2>3, <2>4, <2>5, <2>6, <2>7 DEF FillInv
<1> QED BY <1>1, <1>2, <1>3, <1>4, <1>5, <1>6 DEF Loader

(* A step of the run loop that changes neither the sets nor what is tracked. *)
LEMMA LoopFills ==
  ASSUME TypeInv, FillInv, UNCHANGED <<soa, firsts, setVars, tracked, loader, task>>,
         loop'.at = "track" => loop'.object = pending[loop'.zone],
         loop'.at \in {"insert", "store"} => loop.at = "insert" /\ UNCHANGED <<loop.zone, loop.object>>,
         loop'.copy \in {NoTree, tree, loop.copy},
         \A z \in Zones \ FileZones : NoNews(z)
  PROVE  FillInv'
<1>1. PendingInStep'
  BY DEF FillInv, PendingInStep, setVars
<1>2. ASSUME NEW z \in Zones, z \notin firsts' PROVE NotYetFilled(z)'
  <2>1. NotYetFilled(z) /\ NoTree[z] = 0
    BY <1>2, AtRest DEF FillInv
  <2> QED BY <2>1 DEF NotYetFilled, setVars
<1>3. \A z \in FileZones : soa'[z] # <<>> => z \in firsts'
  BY DEF FillInv
<1>4. \A z \in Zones \ FileZones :
        Unknown(z)' => tracked'[z] = "no" /\ pending'[z] = 0 /\ Unannounced(z)'
  BY DEF FillInv, Unknown, NoNews, setVars
<1>5. \A z \in Zones \ FileZones : FirstPending(z)'
  BY AtRest DEF FillInv, FirstPending, UsesTheFirst, NoNews, setVars
<1> QED BY <1>1, <1>2, <1>3, <1>4, <1>5 DEF FillInv

LEMMA TakeFills ==
  ASSUME TypeInv, FillInv, TakeAdded \/ TakeRefresh \/ TakeChanged
  PROVE  FillInv'
<1> PICK e \in Event : e = Head(events)
  BY ReceiveOK DEF TakeAdded, TakeRefresh, TakeChanged, TypeInv
<1>1. /\ UNCHANGED <<soa, firsts, setVars, tracked, loader, task>>
      /\ loop.at = "idle" /\ events # <<>> /\ events' = Tail(events)
      /\ \/ e.kind = "added" /\ loop'.at = "added" /\ loop'.zone = e.zone /\ loop'.copy = NoTree
         \/ UNCHANGED loop
  BY DEF TakeAdded, TakeRefresh, TakeChanged, zoneVars, firsts, timeVars, IdleLoop
<1>2. ASSUME NEW z PROVE NoNews(z)
  <2>1. ~ Handling(z) /\ (Telling(z)' <=> Telling(z))
    BY <1>1 DEF Handling, Telling
  <2>2. CASE Handling(z)'
    <3>1. e.kind = "added" /\ e.zone = z
      BY <1>1, <2>1, <2>2 DEF Handling
    <3> QED BY <1>1, <2>1, <3>1, AddedTaken DEF NoNews, Unannounced, AnnouncedOnce, TypeInv
  <2>3. CASE ~ Handling(z)'
    BY <1>1, <2>1, <2>3, AddedTaken, QuietNews DEF TypeInv
  <2> QED BY <2>2, <2>3
<1> QED BY <1>1, <1>2, LoopFills

LEMMA StartFills ==
  ASSUME TypeInv, FillInv, NEW t \in Tasks, NEW y \in Zones, NEW at \in {"check", "find"}, NEW c,
         Spawn(t, y, at, c), UNCHANGED <<soa, firsts, setVars, tracked, loader, loop>>,
         \A z \in Zones \ FileZones : NoNews(z)
  PROVE  FillInv'
<1>1. /\ task'[t].at = at /\ task'[t].zone = y /\ task'[t].object = tree[y]
      /\ \A u \in Tasks \ {t} : task'[u] = task[u]
  BY Started
<1>2. y \notin FileZones /\ pending[y] = 1 => tree[y] \in {0, 1}
  BY DEF FillInv, FirstPending, UsesTheFirst
<1> QED BY <1>1, <1>2, TaskFills DEF Unrefreshed, Ending

LEMMA NotifyFills == ASSUME TypeInv, FillInv, TakeNotify PROVE FillInv'
<1> PICK e \in Event : e = Head(events)
  BY ReceiveOK DEF TakeNotify, TypeInv
<1>1. /\ UNCHANGED <<soa, firsts, setVars, tracked, loader, loop>>
      /\ events # <<>> /\ events' = Tail(events) /\ e.zone \in Zones
  BY DEF TakeNotify, zoneVars, firsts, timeVars, Event
<1>2. PICK t \in NotifyTasks : Spawn(t, e.zone, "find", "notify")
  BY DEF TakeNotify
<1>3. \A z : NoNews(z)
  BY <1>1, AddedTaken, QuietNews DEF TypeInv, Telling, Handling
<1> QED BY <1>1, <1>2, <1>3, StartFills DEF Tasks

LEMMA FireFills == ASSUME TypeInv, FillInv, NEW y \in Zones, FireTimer(y) PROVE FillInv'
<1>1. UNCHANGED <<soa, firsts, setVars, tracked, events, loader, loop>>
  BY DEF FireTimer, zoneVars, firsts, chanVars
<1>2. PICK t \in TimerTasks : Spawn(t, y, "check", timers[y])
  BY DEF FireTimer
<1>3. \A z : NoNews(z)
  BY <1>1, SameEvents DEF NoNews, Unannounced, AnnouncedOnce, Telling, Handling
<1> QED BY <1>1, <1>2, <1>3, StartFills DEF Tasks

LEMMA LoopStepFills ==
  ASSUME TypeInv, GoesOnInv, FillInv, RunLoop
  PROVE  FillInv'
<1> DEFINE y == loop.zone
<1>1. CASE LockAdded
  <2>1. /\ UNCHANGED <<soa, firsts, setVars, tracked, events, loader, task>>
        /\ loop.at = "added"
        /\ \/ loop' = IdleLoop
           \/ loop' = [loop EXCEPT !.at = "track", !.object = pending[y]]
    BY <1>1 DEF LockAdded, chanVars, zoneVars, firsts, timeVars
  <2>2. \/ loop'.at = "idle" /\ loop'.copy = NoTree
        \/ /\ loop'.at = "track" /\ loop'.zone = y /\ loop'.object = pending[y]
           /\ loop'.copy = loop.copy
    <3>1. CASE loop' = IdleLoop
      BY <3>1 DEF IdleLoop
    <3>2. CASE loop' = [loop EXCEPT !.at = "track", !.object = pending[y]]
      BY <3>2 DEF TypeInv, LoopOK
    <3> QED BY <2>1, <3>1, <3>2
  <2>3. \A z : NoNews(z)
    BY <2>1, <2>2, SameEvents, QuietNews DEF Telling, Handling
  <2> QED BY <2>1, <2>2, <2>3, LoopFills
<1>2. CASE Track
  <2>1. /\ UNCHANGED <<soa, firsts, tree, events, loader, task>>
        /\ loop.at = "track" /\ y \in Zones \ FileZones /\ y \in Zones
        /\ loop.object = pending[y]
        /\ tracked' = [tracked EXCEPT ![y] = IF @ = "no" THEN "RefreshPending" ELSE @]
        /\ \/ /\ HasRefresh(y, loop.object)
              /\ pending' = [pending EXCEPT ![y] = 0]
              /\ loop' = [loop EXCEPT !.at = "insert"]
           \/ loop' = IdleLoop /\ UNCHANGED pending
    BY <1>2 DEF Track, chanVars, zoneVars, firsts, TypeInv, LoopOK, GoesOnInv, FilesApart,
                FillInv, PendingInStep
  <2>2. /\ \A z \in Zones \ {y} : pending'[z] = pending[z] /\ tracked'[z] = tracked[z]
        /\ pending'[y] \in {pending[y], 0}
    BY <2>1 DEF TypeInv, SetsOK, TimesOK, Tree
  <2>3. /\ loop'.copy \in {loop.copy, NoTree}
        /\ \/ loop'.at = "idle"
           \/ /\ HasRefresh(y, loop.object) /\ pending'[y] = 0
              /\ loop'.at = "insert" /\ loop'.zone = y /\ loop'.object = loop.object
    <3>1. CASE loop' = IdleLoop
      BY <3>1 DEF IdleLoop
    <3>2. CASE pending' = [pending EXCEPT ![y] = 0] /\ loop' = [loop EXCEPT !.at = "insert"]
                 /\ HasRefresh(y, loop.object)
      <4>1. pending'[y] = 0
        BY <2>1, <3>2 DEF TypeInv, SetsOK, Tree
      <4> QED BY <3>2, <4>1 DEF TypeInv, LoopOK
    <3> QED BY <2>1, <3>1, <3>2
  <2>4. HasRefresh(y, loop.object) /\ loop.object = 1 => y \in firsts
    <3>1. ASSUME loop.object = 1, y \notin firsts PROVE ~ HasRefresh(y, loop.object)
      <4>1. FirstPending(y) /\ pending[y] = 1
        BY <2>1, <3>1 DEF FillInv
      <4>2. Handling(y)
        BY <2>1 DEF Handling
      <4>3. tracked[y] = "no"
        BY <3>1, <4>1, <4>2 DEF FirstPending, Unannounced
      <4>4. soa[y] # <<>>
        BY <2>1, <4>1 DEF FillInv, Unknown
      <4>5. soa[y][1] = 0
        BY <2>1, <3>1, <4>4 DEF FillInv, NotYetFilled
      <4> QED BY <3>1, <4>3, <4>5 DEF HasRefresh
    <3> QED BY <3>1
  <2>5. PendingInStep'
    <3>1. loader.at = "pend" => loader.zone \in Zones
      BY DEF TypeInv, LoaderOK
    <3> QED BY <2>1, <2>3, <3>1 DEF FillInv, PendingInStep
  <2>6. ASSUME NEW z \in Zones, z \notin firsts' PROVE NotYetFilled(z)'
    <3>1. NotYetFilled(z) /\ NoTree[z] = 0
      BY <2>1, <2>6, AtRest DEF FillInv
    <3>2. loop'.at \in {"insert", "store"} /\ loop'.zone = z => loop'.object # 1
      BY <2>1, <2>3, <2>4, <2>6
    <3> QED BY <2>1, <2>3, <3>1, <3>2 DEF NotYetFilled
  <2>7. \A z \in FileZones : soa'[z] # <<>> => z \in firsts'
    BY <2>1 DEF FillInv
  <2>8. ASSUME NEW z PROVE NoNews(z) /\ ~ Handling(z)'
    <3>1. ~ Handling(z)'
      BY <2>3 DEF Handling
    <3> QED BY <2>1, <3>1, SameEvents, QuietNews DEF Telling
  <2>9. ASSUME NEW z, z = y PROVE ~ Unannounced(z) /\ (AnnouncedOnce(z) => Unannounced(z)')
    <3>1. Handling(z) /\ (Telling(z)' <=> Telling(z)) /\ ~ Handling(z)'
      BY <2>1, <2>8, <2>9 DEF Handling, Telling
    <3>2. InEvents("added", z)' <=> InEvents("added", z)
      BY <2>1, SameEvents
    <3> QED BY <3>1, <3>2 DEF Unannounced, AnnouncedOnce
  <2>10. ASSUME NEW z \in Zones \ FileZones, Unknown(z)'
         PROVE  tracked'[z] = "no" /\ pending'[z] = 0 /\ Unannounced(z)'
    <3>1. Unknown(z)
      BY <2>1, <2>10 DEF Unknown
    <3>2. z # y
      BY <2>9, <3>1 DEF FillInv
    <3> QED BY <2>2, <2>8, <3>1, <3>2 DEF FillInv, NoNews
  <2>11. ASSUME NEW z \in Zones \ FileZones, pending'[z] = 1 PROVE FirstPending(z)'
    <3>1. pending[z] = 1 /\ FirstPending(z)
      BY <2>2, <2>11 DEF FillInv
    <3>2. UsesTheFirst(z)'
      BY <2>1, <2>3, <3>1, AtRest DEF FirstPending, UsesTheFirst
    <3>3. z \notin firsts' => AnnouncedOnce(z)' /\ (tracked'[z] # "no" => Unannounced(z)')
      <4>1. CASE z = y
        BY <2>1, <2>8, <2>9, <3>1, <4>1 DEF FirstPending, NoNews
      <4>2. CASE z # y
        BY <2>1, <2>2, <2>8, <3>1, <4>2 DEF FirstPending, NoNews
      <4> QED BY <4>1, <4>2
    <3> QED BY <3>2, <3>3 DEF FirstPending
  <2>12. \A z \in Zones \ FileZones : FirstPending(z)'
    BY <2>11 DEF FirstPending
  <2> QED BY <2>5, <2>6, <2>7, <2>10, <2>12 DEF FillInv
<1>3. CASE LoadTree
  <2>1. /\ UNCHANGED <<soa, firsts, setVars, tracked, events, loader, task>>
        /\ loop.at = "insert"
        /\ \/ loop' = [loop EXCEPT !.at = "store", !.copy = tree]
           \/ loop' = [IdleLoop EXCEPT !.at = "dead"]
    BY <1>3 DEF LoadTree, chanVars, zoneVars, firsts, timeVars
  <2>2. \/ loop'.at = "dead" /\ loop'.copy = NoTree
        \/ /\ loop'.at = "store" /\ loop'.zone = y /\ loop'.object = loop.object
           /\ loop'.copy = tree
    <3>1. CASE loop' = [IdleLoop EXCEPT !.at = "dead"]
      BY <3>1 DEF IdleLoop
    <3>2. CASE loop' = [loop EXCEPT !.at = "store", !.copy = tree]
      BY <3>2 DEF TypeInv, LoopOK
    <3> QED BY <2>1, <3>1, <3>2
  <2>3. \A z : NoNews(z)
    BY <2>1, <2>2, SameEvents, QuietNews DEF Telling, Handling
  <2> QED BY <2>1, <2>2, <2>3, LoopFills
<1>4. CASE StoreActive
  <2>1. /\ UNCHANGED <<soa, firsts, pending, tracked, events, loader, task>>
        /\ loop.at = "store" /\ y \in Zones /\ y \notin FileZones /\ pending[y] = 0
        /\ tree' = [loop.copy EXCEPT ![y] = loop.object]
        /\ loop'.at = "idle" /\ loop'.copy = NoTree
    BY <1>4 DEF StoreActive, Extended, chanVars, zoneVars, firsts, IdleLoop, TypeInv, LoopOK,
                GoesOnInv, FilesApart, FillInv, PendingInStep
  <2>2. tree'[y] = loop.object /\ \A z \in Zones \ {y} : tree'[z] = loop.copy[z]
    BY <2>1 DEF TypeInv, LoopOK, Tree
  <2>3. \A z : NoNews(z)
    BY <2>1, SameEvents, QuietNews DEF Telling, Handling
  <2>4. PendingInStep'
    BY <2>1 DEF FillInv, PendingInStep
  <2>5. ASSUME NEW z \in Zones, z \notin firsts' PROVE NotYetFilled(z)'
    <3>1. NotYetFilled(z) /\ NoTree[z] = 0
      BY <2>1, <2>5, AtRest DEF FillInv
    <3>2. tree'[z] # 1
      BY <2>1, <2>2, <3>1 DEF NotYetFilled
    <3> QED BY <2>1, <3>1, <3>2 DEF NotYetFilled
  <2>6. \A z \in FileZones : soa'[z] # <<>> => z \in firsts'
    BY <2>1 DEF FillInv
  <2>7. \A z \in Zones \ FileZones :
          Unknown(z)' => tracked'[z] = "no" /\ pending'[z] = 0 /\ Unannounced(z)'
    BY <2>1, <2>3 DEF FillInv, Unknown, NoNews
  <2>8. \A z \in Zones \ FileZones : FirstPending(z)'
    BY <2>1, <2>2, <2>3, AtRest DEF FillInv, FirstPending, UsesTheFirst, NoNews
  <2> QED BY <2>4, <2>5, <2>6, <2>7, <2>8 DEF FillInv
<1> QED BY <1>1, <1>2, <1>3, <1>4, TakeFills, NotifyFills DEF RunLoop

LEMMA StepFills == ASSUME TypeInv, GoesOnInv, FillInv, [Next]_vars PROVE FillInv'
<1>1. CASE UNCHANGED vars
  BY <1>1, QuietFill DEF vars, zoneVars, firsts, chanVars, timeVars
<1>2. CASE World
  BY <1>2, WorldFills DEF World
<1>3. CASE Loader
  BY <1>3, LoaderStepFills
<1>4. CASE RunLoop
  BY <1>4, LoopStepFills
<1>5. ASSUME NEW z \in Zones, FireTimer(z) PROVE FillInv'
  BY <1>5, FireFills
<1>6. ASSUME NEW t \in Tasks, Task(t) \/ Fail(t) PROVE FillInv'
  BY <1>6, StepOfTaskFills
<1> QED BY <1>1, <1>2, <1>3, <1>4, <1>5, <1>6 DEF Next

(* How far the tree keeps empty zones from its callers: of any number of secondary     *)
(* zones, however their registrations, NOTIFYs, timers, retries and failures           *)
(* interleave, the object made by the first registration is put into the tree only     *)
(* after a transfer of it was committed.  What is served without having been filled    *)
(* was made by a later registration of the same zone (and this does happen).           *)
THEOREM OnlyReAddedServedEmpty == Spec => []EmptyOnlyIfReAdded
<1>1. TypeInv /\ GoesOnInv /\ FillInv /\ [Next]_vars => FillInv'
  BY StepFills
<1>2. TypeInv /\ GoesOnInv /\ [Next]_vars => GoesOnInv'
  BY StepGoesOn
<1>3. TypeInv /\ FillInv => EmptyOnlyIfReAdded
  <2> SUFFICES ASSUME TypeInv, FillInv, NEW z \in Zones,
                      tree[z] # 0, <<z, tree[z]>> \notin filled
               PROVE  tree[z] > 1
    BY DEF EmptyOnlyIfReAdded
  <2>1. tree[z] \in Nat
    BY DEF TypeInv, SetsOK, Tree, Object
  <2>2. tree[z] # 1
    BY DEF FillInv, NotYetFilled, firsts
  <2> QED BY <2>1, <2>2
<1> QED BY <1>1, <1>2, <1>3, InitFill, InitGoesOn, TypesAlways, PTL DEF Spec

(***************************************************************************)
(* No pending zone is left without somebody who is going to look at it.    *)
(***************************************************************************)

\* The loader announces the zone that it registered.
Announcing(z) == Telling(z) /\ loader.zone = z

\* The run loop will be told of zone z, or deals with it, or died.
Introduced(z) == InEvents("added", z) \/ Announcing(z) \/ Handling(z) \/ loop.at = "dead"

\* It has yet to track the zones that it does not.
IntroducedInv == \A z \in Zones : pending[z] # 0 /\ tracked[z] = "no" => Introduced(z)

(* A zone that is tracked stays tracked. *)
LEMMA TrackedForGood ==
  ASSUME TypeInv, [Next]_vars, NEW z \in Zones, tracked[z] # "no" PROVE tracked'[z] # "no"
<1> USE DEF timeVars, TypeInv, TimesOK
<1>1. CASE World \/ Loader \/ UNCHANGED vars
  BY <1>1 DEF World, NewVersion, RegisterSecondary, RegisterPrimary, AskNotify, AskForced,
              OutageEnds, Loader, ReportCommit, InsertPending, InsertPrimary, LookupNotified,
              TellMaintainer, StoreInserted, vars
<1>2. CASE RunLoop \/ \E y \in Zones : FireTimer(y)
  BY <1>2 DEF RunLoop, TakeAdded, TakeRefresh, TakeChanged, TakeNotify, LockAdded, Track,
              LoadTree, StoreActive, FireTimer
<1>3. ASSUME NEW t \in Tasks, Task(t) \/ Fail(t) PROVE tracked'[z] # "no"
  <2>1. CASE Check(t) \/ FindTimed(t) \/ FindNotified(t) \/ Fail(t)
    BY <2>1 DEF Check, FindTimed, FindNotified, Fail
  <2>2. CASE MarkNotified(t) \/ Begin(t)
    BY <2>2 DEF MarkNotified, Begin, StatusDuring
  <2>3. CASE Transfer(t)
    BY <2>3 DEF Transfer, Answer, Fetch, Progress, Commit, AnnounceCommit, AnnounceChange, ReadBack
  <2>4. CASE Succeed(t) \/ Schedule(t) \/ Migrate(t) \/ GiveUp(t) \/ ScheduleRetry(t)
    BY <2>4 DEF Succeed, Schedule, Migrate, GiveUp, ScheduleRetry
  <2> QED BY <1>3, <2>1, <2>2, <2>3, <2>4 DEF Task
<1> QED BY <1>1, <1>2, <1>3 DEF Next

(* Where nothing becomes pending, all depends on who will tell the run loop. *)
LEMMA StaysIntroduced ==
  ASSUME TypeInv, IntroducedInv, [Next]_vars,
         \A z \in Zones : pending'[z] # 0 => pending[z] # 0,
         \A z \in Zones : Introduced(z) =>
           Introduced(z)' \/ pending'[z] = 0 \/ tracked'[z] # "no"
  PROVE  IntroducedInv'
BY TrackedForGood DEF IntroducedInv

LEMMA LoaderIntroduces == ASSUME TypeInv, IntroducedInv, [Next]_vars, Loader PROVE IntroducedInv'
<1>0. loader.at # "idle" => loader.zone \in Zones
  BY DEF TypeInv, LoaderOK
<1>1. CASE InsertPending
  <2>1. loader.at = "pend" /\ pending' = [pending EXCEPT ![loader.zone] = loader.object]
        /\ UNCHANGED <<events, loop, tracked>> /\ loader.zone \in Zones
    BY <1>0, <1>1 DEF InsertPending, chanVars, timeVars
  <2>2. ASSUME NEW z \in Zones, z = loader.zone PROVE Introduced(z)'
    BY <1>1, <2>2 DEF InsertPending, Introduced, Announcing, Telling, About, TypeInv, LoaderOK
  <2>3. ASSUME NEW z \in Zones, z # loader.zone, pending'[z] # 0, tracked'[z] = "no"
        PROVE  Introduced(z)'
    <3>1. Introduced(z) /\ ~ Announcing(z)
      BY <2>1, <2>3 DEF IntroducedInv, TypeInv, SetsOK, Announcing, Telling
    <3> QED BY <2>1, <3>1 DEF Introduced, InEvents, Handling
  <2> QED BY <2>2, <2>3 DEF IntroducedInv
<1>2. CASE TellMaintainer
  <2>1. /\ loader.at = "tell" /\ Send(loader.event) /\ loader.event \in Event
        /\ UNCHANGED <<pending, tracked, loop>>
    BY <1>2 DEF TellMaintainer, TypeInv, LoaderOK, setVars, timeVars
  <2>2. PICK e \in Event : e = loader.event /\ Send(e)
    BY <2>1
  <2>5. /\ InEvents(e.kind, e.zone)'
        /\ \A k, z : InEvents(k, z) => InEvents(k, z)'
    BY <2>2, EventsSent DEF TypeInv
  <2>3. \A z \in Zones : Announcing(z) => InEvents("added", z)'
    <3> SUFFICES ASSUME NEW z \in Zones, Announcing(z) PROVE InEvents("added", z)'
      OBVIOUS
    <3>1. e.kind = "added" /\ e.zone = z
      BY <2>2, EventKinds DEF Announcing, Telling
    <3> QED BY <2>5, <3>1
  <2>4. \A z \in Zones : Introduced(z) => Introduced(z)'
    BY <2>1, <2>5, <2>3 DEF Introduced, Handling
  <2> QED BY <2>1, <2>4, StaysIntroduced
<1>3. CASE ReportCommit \/ InsertPrimary \/ LookupNotified \/ StoreInserted
  <2>1. UNCHANGED <<pending, tracked, events, loop>> /\ loader.at # "tell"
    BY <1>3 DEF ReportCommit, InsertPrimary, LookupNotified, StoreInserted, setVars, timeVars, chanVars
  <2>2. \A z \in Zones : Introduced(z) => Introduced(z)'
    BY <2>1 DEF Introduced, InEvents, Announcing, Telling, Handling
  <2> QED BY <2>1, <2>2, StaysIntroduced
<1> QED BY <1>1, <1>2, <1>3 DEF Loader

LEMMA LoopIntroduces == ASSUME TypeInv, IntroducedInv, [Next]_vars, RunLoop PROVE IntroducedInv'
<1>1. CASE TakeAdded \/ TakeRefresh \/ TakeChanged \/ TakeNotify
  <2>1. /\ loop.at = "idle" /\ events # <<>> /\ events' = Tail(events)
        /\ UNCHANGED <<pending, loader>>
    BY <1>1 DEF TakeAdded, TakeRefresh, TakeChanged, TakeNotify, setVars
  <2>2. ASSUME NEW z \in Zones, InEvents("added", z), ~ InEvents("added", z)' PROVE Handling(z)'
    <3>1. Head(events).kind = "added" /\ Head(events).zone = z
      BY <2>1, <2>2, EventsTaken DEF TypeInv
    <3>2. TakeAdded
      BY <1>1, <3>1 DEF TakeRefresh, TakeChanged, TakeNotify
    <3> QED BY <3>1, <3>2 DEF TakeAdded, Handling, IdleLoop
  <2>3. \A z \in Zones : Introduced(z) => Introduced(z)'
    BY <2>1, <2>2 DEF Introduced, Announcing, Telling, Handling
  <2> QED BY <2>1, <2>3, StaysIntroduced
<1>2. CASE LockAdded
  <2>1. UNCHANGED <<pending, events, loader>> /\ loop.at = "added"
    BY <1>2 DEF LockAdded, setVars, chanVars
  <2>2. ASSUME NEW z \in Zones, pending[z] # 0, Handling(z) PROVE Handling(z)'
    <3>1. loop.zone = z /\ loop' = [loop EXCEPT !.at = "track", !.object = pending[loop.zone]]
      BY <1>2, <2>2 DEF LockAdded, Handling
    <3> QED BY <3>1 DEF Handling, TypeInv, LoopOK
  <2>3. \A z \in Zones : Introduced(z) => Introduced(z)' \/ pending'[z] = 0
    BY <2>1, <2>2 DEF Introduced, InEvents, Announcing, Telling
  <2> QED BY <2>1, <2>3, StaysIntroduced
<1>3. CASE Track
  <2>1. loop.at = "track" /\ loop.zone \in Zones /\ UNCHANGED <<events, loader>>
    BY <1>3 DEF Track, TypeInv, LoopOK, chanVars
  <2>2. \A z \in Zones : pending'[z] # 0 => pending[z] # 0
    BY <1>3 DEF Track, TypeInv, SetsOK, Tree, Object
  <2>3. tracked'[loop.zone] # "no"
    BY <1>3, <2>1 DEF Track, TypeInv, TimesOK
  <2>4. \A z \in Zones : Introduced(z) => Introduced(z)' \/ tracked'[z] # "no"
    BY <2>1, <2>3 DEF Introduced, InEvents, Announcing, Telling, Handling
  <2> QED BY <2>2, <2>4, StaysIntroduced
<1>4. CASE LoadTree \/ StoreActive
  <2>1. UNCHANGED <<pending, events, loader>> /\ loop.at \in {"insert", "store"}
    BY <1>4 DEF LoadTree, StoreActive, setVars, chanVars
  <2>2. \A z \in Zones : Introduced(z) => Introduced(z)'
    BY <2>1 DEF Introduced, InEvents, Announcing, Telling, Handling
  <2> QED BY <2>1, <2>2, StaysIntroduced
<1> QED BY <1>1, <1>2, <1>3, <1>4 DEF RunLoop

LEMMA OthersIntroduce ==
  ASSUME TypeInv, IntroducedInv, [Next]_vars,
         \/ World \/ (\E z \in Zones : FireTimer(z))
         \/ (\E t \in Tasks : Task(t) \/ Fail(t)) \/ UNCHANGED vars
  PROVE  IntroducedInv'
<1>1. UNCHANGED <<pending, loop>>
  <2>1. CASE World
    BY <2>1 DEF World, NewVersion, RegisterSecondary, RegisterPrimary, AskNotify, AskForced,
                OutageEnds, setVars
  <2>2. CASE (\E z \in Zones : FireTimer(z)) \/ UNCHANGED vars
    BY <2>2 DEF FireTimer, setVars, vars
  <2>3. ASSUME NEW t \in Tasks, Task(t) \/ Fail(t) PROVE UNCHANGED <<pending, loop>>
    <3>1. CASE Check(t) \/ FindTimed(t) \/ FindNotified(t) \/ MarkNotified(t) \/ Begin(t)
      BY <3>1 DEF Check, FindTimed, FindNotified, MarkNotified, Begin, setVars
    <3>2. CASE Transfer(t) \/ Fail(t)
      BY <3>2 DEF Transfer, Answer, Fetch, Progress, Commit, AnnounceCommit, AnnounceChange,
                  ReadBack, Fail, setVars
    <3>3. CASE Succeed(t) \/ Schedule(t) \/ Migrate(t) \/ GiveUp(t) \/ ScheduleRetry(t)
      BY <3>3 DEF Succeed, Schedule, Migrate, GiveUp, ScheduleRetry, setVars
    <3> QED BY <2>3, <3>1, <3>2, <3>3 DEF Task
  <2> QED BY <2>1, <2>2, <2>3
<1>2. UNCHANGED loader \/ loader.at = "idle"
  <2>1. CASE World
    BY <2>1 DEF World, NewVersion, RegisterSecondary, RegisterPrimary, AskNotify, AskForced,
                OutageEnds
  <2>2. CASE (\E z \in Zones : FireTimer(z)) \/ UNCHANGED vars
    BY <2>2 DEF FireTimer, vars
  <2>3. ASSUME NEW t \in Tasks, Task(t) \/ Fail(t) PROVE UNCHANGED loader
    <3>1. CASE Check(t) \/ FindTimed(t) \/ FindNotified(t) \/ MarkNotified(t) \/ Begin(t)
      BY <3>1 DEF Check, FindTimed, FindNotified, MarkNotified, Begin
    <3>2. CASE Transfer(t) \/ Fail(t)
      BY <3>2 DEF Transfer, Answer, Fetch, Progress, Commit, AnnounceCommit, AnnounceChange,
                  ReadBack, Fail
    <3>3. CASE Succeed(t) \/ Schedule(t) \/ Migrate(t) \/ GiveUp(t) \/ ScheduleRetry(t)
      BY <3>3 DEF Succeed, Schedule, Migrate, GiveUp, ScheduleRetry
    <3> QED BY <2>3, <3>1, <3>2, <3>3 DEF Task
  <2> QED BY <2>1, <2>2, <2>3
<1>3. UNCHANGED events \/ \E e \in Event : Send(e)
  <2>1. ASSUME NEW t \in Tasks, Task(t) PROVE UNCHANGED events \/ \E e \in Event : Send(e)
    <3>1. CASE AnnounceChange(t) \/ Schedule(t) \/ Migrate(t) \/ ScheduleRetry(t)
      <4>1. task[t].zone \in Zones
        BY <3>1, StepsOfTask DEF AnnounceChange, Schedule, Migrate, ScheduleRetry, Found, TaskAt
      <4> QED BY <3>1, <4>1, Events DEF AnnounceChange, Schedule, Migrate, ScheduleRetry
    <3>2. CASE UNCHANGED events
      BY <3>2
    <3> QED BY <2>1, <3>1, <3>2
            DEF Task, Check, FindTimed, FindNotified, MarkNotified, Begin, Transfer, Answer, Fetch,
                Progress, Commit, AnnounceCommit, ReadBack, Succeed, GiveUp, chanVars
  <2> QED BY <2>1 DEF World, NewVersion, RegisterSecondary, RegisterPrimary, AskNotify, AskForced,
                      OutageEnds, FireTimer, Fail, chanVars, vars
<1>4. \A k, z : InEvents(k, z) => InEvents(k, z)'
  BY <1>3, EventsSent, EventsKept DEF TypeInv
<1>5. \A z \in Zones : Introduced(z) => Introduced(z)'
  BY <1>1, <1>2, <1>4 DEF Introduced, Announcing, Telling, Handling
<1> QED BY <1>1, <1>5, StaysIntroduced

(* A zone that is transferred and waits for its first transfer or is served is looked at *)
(* again: somebody announces it until the run loop tracks it, and from then on a timer,   *)
(* an event, a task or the run loop refreshes it, through registrations, activations,     *)
(* lost copies of the tree, NOTIFYs and failed transfers of any zones, unless it expired  *)
(* or the run loop died.                                                                  *)
THEOREM NoRefreshIsTheLast == Spec => []RefreshGoesOn
<1>1. TypeInv /\ GoesOnInv /\ [Next]_vars => GoesOnInv'
  BY StepGoesOn
<1>2. ASSUME GoesOnInv, NEW z \in Zones, tracked[z] # "no", pending[z] # 0 \/ tree[z] # 0
      PROVE  Wakeup(z) \/ z \in expired \/ loop.at = "dead"
  <2>1. \A k \in {"refresh", "added"} : InEvents(k, z) =>
           \E i \in 1 .. Len(events) : events[i].zone = z /\ events[i].kind \in {"refresh", "added"}
    BY DEF InEvents
  <2>2. RefreshComes(z) => Wakeup(z) \/ z \in expired \/ loop.at = "dead"
    BY <2>1 DEF RefreshComes, Refreshes, Wakeup, Found, Tasks
  <2>3. PendingHandled(z) => Wakeup(z)
    BY <2>1 DEF PendingHandled, Wakeup, Tasks
  <2>4. Activated(z) => Wakeup(z)
    BY DEF Activated, Wakeup
  <2>5. RefreshComes(z) \/ PendingHandled(z) \/ Activated(z)
    BY <1>2 DEF GoesOnInv, Refreshed, Known
  <2> QED BY <2>2, <2>3, <2>4, <2>5
<1>3. Init => IntroducedInv
  BY AtRest DEF Init, IntroducedInv
<1>4. TypeInv /\ IntroducedInv /\ [Next]_vars => IntroducedInv'
  BY LoaderIntroduces, LoopIntroduces, OthersIntroduce DEF Next
<1>5. ASSUME IntroducedInv, NEW z \in Zones, tracked[z] = "no", pending[z] # 0
      PROVE  Wakeup(z) \/ loop.at = "dead"
  <2>1. Announcing(z) => Wakeup(z)
    BY DEF Announcing, Telling, Wakeup
  <2> QED BY <1>5, <2>1 DEF IntroducedInv, Introduced, InEvents, Handling, Wakeup
<1>6. GoesOnInv => \A z \in Zones \ FileZones : tree[z] # 0 => tracked[z] # "no"
  BY DEF GoesOnInv, RefreshedIsTracked, Known
<1>7. GoesOnInv /\ IntroducedInv => RefreshGoesOn
  BY <1>2, <1>5, <1>6 DEF RefreshGoesOn
<1> QED BY <1>1, <1>3, <1>4, <1>7, InitGoesOn, TypesAlways, PTL DEF Spec

(***************************************************************************)
(* What the actors wait for.                                               *)
(***************************************************************************)

\* The NOTIFYs and the tasks that handle them: a NOTIFY that was asked for is with the
\* loader, in the channel or with a task of its own.
NotifyBusy == {t \in NotifyTasks : task[t].at # "free"}
Asked == {i \in 1 .. Len(events) : events[i].kind = "notify"}
WithLoader ==
  IF loader.at = "look" \/ (loader.at = "tell" /\ loader.event.kind = "notify") THEN 1 ELSE 0

CountInv ==
  /\ IsFiniteSet(NotifyBusy) /\ IsFiniteSet(Asked)
  /\ Cardinality(NotifyBusy) + Cardinality(Asked) + WithLoader <= spent.asks

(* The NOTIFYs in the channel are finitely many. *)
LEMMA Counted ==
  ASSUME TypeInv, CountInv
  PROVE  /\ Cardinality(NotifyBusy) \in Nat /\ Cardinality(Asked) \in Nat
         /\ spent.asks \in 0 .. MaxAsks /\ Asked \subseteq 1 .. Len(events)
         /\ Len(events) \in Nat /\ WithLoader \in 0 .. 1
BY FS_CardinalityType DEF CountInv, TypeInv, SourcesOK, ChannelType, Asked, WithLoader

LEMMA AskedSent ==
  ASSUME TypeInv, CountInv, NEW e \in Event, Send(e)
  PROVE  /\ IsFiniteSet(Asked') /\ Cardinality(Asked') \in Nat
         /\ Cardinality(Asked') <= Cardinality(Asked) + 1
         /\ e.kind # "notify" => Cardinality(Asked') <= Cardinality(Asked)
<1> DEFINE n == Len(events) + 1
<1>1. /\ Len(events) \in Nat /\ Len(events') = n /\ events'[n] = e
      /\ \A i \in 1 .. Len(events) : events'[i] = events[i]
  BY DEF TypeInv, ChannelType, Send
<1>2. Asked' \subseteq Asked \cup {n} /\ (e.kind # "notify" => Asked' \subseteq Asked)
  BY <1>1 DEF Asked
<1>3. IsFiniteSet(Asked) /\ Cardinality(Asked) \in Nat
  BY Counted DEF CountInv
<1>4. IsFiniteSet(Asked \cup {n}) /\ Cardinality(Asked \cup {n}) <= Cardinality(Asked) + 1
  BY <1>3, FS_AddElement
<1>5. IsFiniteSet(Asked') /\ Cardinality(Asked') <= Cardinality(Asked \cup {n})
  BY <1>2, <1>4, FS_Subset
<1>6. e.kind # "notify" => Cardinality(Asked') <= Cardinality(Asked)
  BY <1>2, <1>3, FS_Subset
<1> HIDE DEF n
<1>7. Cardinality(Asked') \in Nat /\ Cardinality(Asked \cup {n}) \in Nat
  BY <1>4, <1>5, FS_CardinalityType
<1> QED BY <1>3, <1>4, <1>5, <1>6, <1>7

LEMMA AskedTaken ==
  ASSUME TypeInv, CountInv, events # <<>>, events' = Tail(events)
  PROVE  /\ IsFiniteSet(Asked') /\ Cardinality(Asked') \in Nat
         /\ Cardinality(Asked') <= Cardinality(Asked)
         /\ Head(events).kind = "notify" => Cardinality(Asked') <= Cardinality(Asked) - 1
<1> DEFINE rest == Asked \ {1}
           f == [i \in Asked' |-> i + 1]
<1>1. /\ Len(events) \in Nat \ {0} /\ Head(events) = events[1]
      /\ Len(events') = Len(events) - 1
      /\ \A i \in 1 .. Len(events) - 1 : events'[i] = events[i + 1]
  BY DEF TypeInv, ChannelType
<1>2. \A i \in Asked' : i \in Nat /\ i + 1 \in rest
  BY <1>1 DEF Asked
<1>3. f \in Injection(Asked', rest)
  BY <1>2 DEF Injection, IsInjective
<1>4. IsFiniteSet(Asked) /\ Cardinality(Asked) \in Nat
  BY Counted DEF CountInv
<1>5. IsFiniteSet(rest)
      /\ Cardinality(rest) = IF 1 \in Asked THEN Cardinality(Asked) - 1 ELSE Cardinality(Asked)
  BY <1>4, FS_RemoveElement
<1> HIDE DEF rest, f
<1>6. IsFiniteSet(Asked') /\ Cardinality(Asked') <= Cardinality(rest)
  BY <1>3, <1>5, FS_Injection
<1>7. Cardinality(Asked') \in Nat /\ Cardinality(rest) \in Nat
  BY <1>5, <1>6, FS_CardinalityType
<1>8. Head(events).kind = "notify" => 1 \in Asked
  BY <1>1 DEF Asked
<1> QED BY <1>4, <1>5, <1>6, <1>7, <1>8

(* Tasks that end make room for others. *)
LEMMA BusyLess ==
  ASSUME TypeInv, CountInv, NotifyBusy' \subseteq NotifyBusy
  PROVE  /\ IsFiniteSet(NotifyBusy') /\ Cardinality(NotifyBusy') \in Nat
         /\ Cardinality(NotifyBusy') <= Cardinality(NotifyBusy)
BY FS_Subset, FS_CardinalityType DEF CountInv

(* No step but that which takes a NOTIFY out of the channel gives a task to one. *)
LEMMA BusyKept ==
  ASSUME TypeInv, NEW t \in Tasks, task[t].at # "free", \A u \in Tasks \ {t} : task'[u] = task[u]
  PROVE  NotifyBusy' \subseteq NotifyBusy
BY DEF NotifyBusy, Tasks

LEMMA CountKept ==
  ASSUME TypeInv, CountInv, NotifyBusy' \subseteq NotifyBusy, UNCHANGED spent,
         \/ UNCHANGED events
         \/ events # <<>> /\ events' = Tail(events)
         \/ \E e \in Event : Send(e) /\ e.kind # "notify",
         WithLoader' <= WithLoader
  PROVE  CountInv'
<1>1. IsFiniteSet(Asked') /\ Cardinality(Asked') \in Nat /\ Cardinality(Asked') <= Cardinality(Asked)
  <2>1. CASE UNCHANGED events
    BY <2>1, Counted DEF Asked, CountInv
  <2>2. CASE events # <<>> /\ events' = Tail(events)
    BY <2>2, AskedTaken
  <2>3. CASE \E e \in Event : Send(e) /\ e.kind # "notify"
    BY <2>3, AskedSent
  <2> QED BY <2>1, <2>2, <2>3
<1>2. WithLoader' \in 0 .. 1
  BY DEF WithLoader
<1> QED BY <1>1, <1>2, BusyLess, Counted DEF CountInv

LEMMA InitCount == Init => CountInv
<1> SUFFICES ASSUME Init PROVE CountInv
  OBVIOUS
<1>1. NotifyBusy = {} /\ Asked = {} /\ WithLoader = 0 /\ spent.asks = 0
  BY DEF Init, NotifyBusy, Asked, WithLoader, FreeTask, IdleLoader, Tasks
<1> QED BY <1>1, FS_EmptySet DEF CountInv

LEMMA StepCount == ASSUME TypeInv, CountInv, [Next]_vars PROVE CountInv'
<1>1. CASE UNCHANGED vars
  BY <1>1 DEF vars, sourceVars, chanVars, CountInv, NotifyBusy, Asked, WithLoader
<1>2. CASE World
  <2>1. UNCHANGED <<events, task>>
    BY <1>2 DEF World, NewVersion, RegisterSecondary, RegisterPrimary, AskNotify, AskForced,
                OutageEnds, chanVars
  <2>2. spent'.asks \in Int /\ WithLoader' <= WithLoader + (spent'.asks - spent.asks)
    <3>1. CASE UNCHANGED <<spent, loader>>
      BY <3>1, Counted DEF WithLoader
    <3>2. ASSUME NEW z \in Zones, RegisterSecondary(z) \/ RegisterPrimary(z)
          PROVE  spent'.asks = spent.asks /\ WithLoader' = 0
      BY <3>2 DEF RegisterSecondary, RegisterPrimary, Spend, WithLoader, IdleLoader, TypeInv, SourcesOK
    <3>3. ASSUME NEW z \in Zones, AskNotify(z) \/ AskForced(z)
          PROVE  spent'.asks = spent.asks + 1 /\ WithLoader' \in 0 .. 1 /\ WithLoader = 0
      BY <3>3 DEF AskNotify, AskForced, Spend, WithLoader, TypeInv, SourcesOK
    <3> QED BY <1>2, <3>1, <3>2, <3>3, Counted DEF World, NewVersion, OutageEnds, sourceVars
  <2>3. NotifyBusy' = NotifyBusy /\ Asked' = Asked
    BY <2>1 DEF NotifyBusy, Asked
  <2>4. WithLoader' \in 0 .. 1
    BY DEF WithLoader
  <2> QED BY <2>2, <2>3, <2>4, Counted DEF CountInv
<1>3. CASE Loader
  <2>1. UNCHANGED <<spent, task>> /\ NotifyBusy' = NotifyBusy
    BY <1>3 DEF Loader, ReportCommit, InsertPending, InsertPrimary, LookupNotified, TellMaintainer,
                StoreInserted, sourceVars, NotifyBusy
  <2>2. CASE ReportCommit \/ InsertPending \/ InsertPrimary \/ LookupNotified \/ StoreInserted
    <3>1. UNCHANGED events
      BY <2>2 DEF ReportCommit, InsertPending, InsertPrimary, LookupNotified, StoreInserted, chanVars
    <3>2. WithLoader' <= WithLoader
      <4>1. CASE ReportCommit
        BY <4>1, Counted DEF ReportCommit, WithLoader
      <4>2. CASE InsertPending \/ InsertPrimary \/ StoreInserted
        <5>1. \/ loader' = IdleLoader
              \/ loader'.at = "tell" /\ loader'.event = About("added", loader.zone)
          BY <4>2 DEF InsertPending, InsertPrimary, StoreInserted, TypeInv, LoaderOK
        <5>2. WithLoader' = 0
          BY <5>1 DEF WithLoader, IdleLoader, About
        <5> QED BY <5>2, Counted
      <4>3. CASE LookupNotified
        <5>1. WithLoader = 1
          BY <4>3 DEF LookupNotified, WithLoader
        <5> QED BY <5>1 DEF WithLoader
      <4> QED BY <2>2, <4>1, <4>2, <4>3
    <3> QED BY <2>1, <3>1, <3>2, CountKept
  <2>3. CASE TellMaintainer
    <3>1. /\ loader.event \in Event /\ Send(loader.event) /\ WithLoader' = 0
          /\ loader.event.kind = "notify" => WithLoader = 1
      BY <2>3 DEF TellMaintainer, TypeInv, LoaderOK, WithLoader, IdleLoader
    <3>2. CASE loader.event.kind = "notify"
      BY <2>1, <3>1, <3>2, AskedSent, Counted DEF CountInv
    <3>3. CASE loader.event.kind # "notify"
      BY <2>1, <3>1, <3>3, CountKept, Counted
    <3> QED BY <3>2, <3>3
  <2> QED BY <1>3, <2>2, <2>3 DEF Loader
<1>4. CASE RunLoop
  <2>1. UNCHANGED <<spent, loader>> /\ WithLoader' = WithLoader
    BY <1>4 DEF RunLoop, TakeAdded, TakeRefresh, TakeChanged, TakeNotify, LockAdded, Track, LoadTree,
                StoreActive, sourceVars, WithLoader
  <2>2. CASE RunLoop /\ ~TakeNotify
    <3>1. UNCHANGED task /\ (UNCHANGED events \/ (events # <<>> /\ events' = Tail(events)))
      BY <2>2 DEF RunLoop, TakeAdded, TakeRefresh, TakeChanged, LockAdded, Track, LoadTree,
                  StoreActive, chanVars
    <3>2. NotifyBusy' = NotifyBusy
      BY <3>1 DEF NotifyBusy
    <3> QED BY <2>1, <3>1, <3>2, CountKept, Counted
  <2>3. CASE TakeNotify
    <3>1. PICK t \in NotifyTasks : Spawn(t, Head(events).zone, "find", "notify")
      BY <2>3 DEF TakeNotify
    <3>2. t \in Tasks /\ \A u \in Tasks \ {t} : task'[u] = task[u]
      BY <3>1, Started DEF Tasks
    <3>3. NotifyBusy' \subseteq NotifyBusy \cup {t}
      BY <3>2 DEF NotifyBusy, Tasks
    <3>4. /\ IsFiniteSet(NotifyBusy \cup {t})
          /\ Cardinality(NotifyBusy \cup {t}) <= Cardinality(NotifyBusy) + 1
      <4>1. IsFiniteSet(NotifyBusy) /\ Cardinality(NotifyBusy) \in Nat
        BY Counted DEF CountInv
      <4> QED BY <4>1, FS_AddElement
    <3>5. IsFiniteSet(NotifyBusy') /\ Cardinality(NotifyBusy') <= Cardinality(NotifyBusy \cup {t})
      BY <3>3, <3>4, FS_Subset
    <3>6. Cardinality(NotifyBusy') \in Nat /\ Cardinality(NotifyBusy \cup {t}) \in Nat
      BY <3>4, <3>5, FS_CardinalityType
    <3>7. /\ IsFiniteSet(Asked') /\ Cardinality(Asked') \in Nat
          /\ Cardinality(Asked') <= Cardinality(Asked) - 1
      BY <2>3, AskedTaken DEF TakeNotify
    <3> QED BY <2>1, <3>4, <3>5, <3>6, <3>7, Counted DEF CountInv
  <2> QED BY <1>4, <2>2, <2>3
<1>5. ASSUME NEW z \in Zones, FireTimer(z) PROVE CountInv'
  <2>1. PICK t \in TimerTasks : Spawn(t, z, "check", timers[z])
    BY <1>5 DEF FireTimer
  <2>2. t \in Tasks /\ \A u \in Tasks \ {t} : task'[u] = task[u]
    BY <2>1, Started DEF Tasks
  <2>3. t \notin NotifyTasks /\ NotifyBusy' \subseteq NotifyBusy
    BY <2>2, RefreshAssumption DEF NotifyBusy, Tasks
  <2>4. UNCHANGED <<spent, events>> /\ WithLoader' = WithLoader
    BY <1>5 DEF FireTimer, sourceVars, chanVars, WithLoader
  <2> QED BY <2>3, <2>4, CountKept, Counted
<1>6. ASSUME NEW t \in Tasks, Task(t) \/ Fail(t) PROVE CountInv'
  <2>1. UNCHANGED <<spent, loader>> /\ WithLoader' = WithLoader
    BY <1>6 DEF Task, Transfer, Fail, Check, FindTimed, FindNotified, MarkNotified, Begin, Answer,
                Fetch, Progress, Commit, AnnounceCommit, AnnounceChange, ReadBack, Succeed,
                Schedule, Migrate, GiveUp, ScheduleRetry, sourceVars, WithLoader
  <2>2. task[t].at # "free" /\ \A u \in Tasks \ {t} : task'[u] = task[u]
    BY <1>6 DEF Task, Transfer, Fail, Check, FindTimed, FindNotified, MarkNotified, Begin, Answer,
                Fetch, Progress, Commit, AnnounceCommit, AnnounceChange, ReadBack, Succeed,
                Schedule, Migrate, GiveUp, ScheduleRetry, Goto, End, TypeInv, TasksOK
  <2>3. UNCHANGED events \/ \E e \in Event : Send(e) /\ e.kind # "notify"
    <3>1. CASE UNCHANGED events
      BY <3>1
    <3>2. CASE AnnounceChange(t) \/ Schedule(t) \/ Migrate(t) \/ ScheduleRetry(t)
      <4>1. task[t].zone \in Zones
        BY <2>2 DEF TypeInv, TasksOK, TaskOK
      <4>2. \E e \in Event : Send(e) /\ e \in {About("changed", task[t].zone), About("added", task[t].zone),
                                             Again(task[t].zone, "refresh"), Again(task[t].zone, "retry")}
        BY <3>2, <4>1, Events DEF AnnounceChange, Schedule, Migrate, ScheduleRetry
      <4> QED BY <4>2 DEF About, Again
    <3> QED BY <1>6, <3>1, <3>2
            DEF Task, Transfer, Fail, Check, FindTimed, FindNotified, MarkNotified, Begin, Answer,
                Fetch, Progress, Commit, AnnounceCommit, ReadBack, Succeed, GiveUp, chanVars
  <2> QED BY <2>1, <2>2, <2>3, BusyKept, CountKept, Counted
<1> QED BY <1>1, <1>2, <1>3, <1>4, <1>5, <1>6 DEF Next

(* Each NOTIFY that comes out of the channel finds a task that is free. *)
LEMMA NotifyFindsTask ==
  ASSUME TypeInv, CountInv, events # <<>>, Head(events).kind = "notify"
  PROVE  \E t \in NotifyTasks : task[t].at = "free"
<1>1. 1 \in Asked
  BY DEF Asked, TypeInv, ChannelType
<1>2. Cardinality(Asked) # 0
  BY <1>1, FS_EmptySet DEF CountInv
<1>3. Cardinality(NotifyBusy) < MaxAsks
  BY <1>2, Counted, RefreshAssumption DEF CountInv
<1>4. NotifyBusy # NotifyTasks
  BY <1>3, Counted, RefreshAssumption
<1> QED BY <1>4 DEF NotifyBusy

(* With the refresh states free, a task that has found its zone waits for room alone. *)
LEMMA TaskWaits ==
  ASSUME TypeInv, NEW t \in Tasks, task[t].at \notin {"free", "find"}, ~TaskReady(t)
  PROVE  \/ ~EventRoom \/ ~CommitRoom
         \/ \E u \in Tasks : task[u].at \in KeepsTimes
<1>1. task[t].at \in TaskAt
  BY DEF TypeInv, TasksOK
<1> QED BY <1>1 DEF TaskAt, TaskReady, TimesFree

(* Nobody waits for anything but room when both channels have some: a task that keeps *)
(* the refresh states locked sends next, one that keeps the pending zones waits for    *)
(* these states or for room, and a writer of the pending zones for such tasks alone.   *)
LEMMA RoomSuffices ==
  ASSUME TypeInv, QueueInv, EventRoom, CommitRoom, Busy PROVE SomebodyReady
<1> SUFFICES ASSUME ~SomebodyReady PROVE FALSE
  OBVIOUS
<1>1. \A t \in Tasks : ~TaskReady(t)
  BY DEF SomebodyReady
<1>2. ASSUME NEW u \in Tasks, task[u].at \in KeepsTimes PROVE FALSE
  BY <1>1, <1>2 DEF KeepsTimes, TaskReady
<1>3. \A t \in Tasks : task[t].at \in {"free", "find"}
  BY <1>1, <1>2, TaskWaits
<1>4. Readers = {} /\ TimesFree
  BY <1>3 DEF Readers, KeepsPending, TimesFree, KeepsTimes
<1>5. ~LoopWrites
  BY <1>4 DEF SomebodyReady, LoopReady, LoopWrites
<1>6. ASSUME NEW a \in ToRead PROVE ~PendingReadable(a)
  BY <1>1, <1>6 DEF ToRead, TaskReady, SomebodyReady, LoaderReady
<1>7. ASSUME NEW w \in ToWrite PROVE Before(w) # {}
  <2>1. ~PendingWritable(w)
    BY <1>7 DEF ToWrite, SomebodyReady, LoaderReady, LoopReady
  <2> QED BY <1>4, <1>5, <2>1 DEF PendingWritable
<1>8. \A w \in ToWrite : \E a \in ToRead \cup ToWrite : <<a, w>> \in ahead
  <2> TAKE w \in ToWrite
  <2>1. PICK p \in ahead : p[2] = w
    BY <1>7 DEF Before
  <2> QED BY <2>1 DEF QueueInv
<1>9. ASSUME NEW w \in ToWrite, \A v \in ToWrite : <<v, w>> \notin ahead PROVE FALSE
  <2>1. PICK a \in ToRead : <<a, w>> \in ahead
    BY <1>8, <1>9
  <2>2. \A v \in ToWrite : <<a, v>> \in ahead
    BY <1>9, <2>1 DEF QueueInv
  <2> QED BY <1>5, <1>6, <2>1, <2>2 DEF PendingReadable
<1>10. ToWrite = {}
  <2>1. ToWrite \subseteq {"loader", "loop"}
    BY DEF ToWrite
  <2>2. \A v, w \in ToWrite : ~(<<v, w>> \in ahead /\ <<w, v>> \in ahead) /\ <<v, v>> \notin ahead
    BY DEF QueueInv
  <2> SUFFICES ASSUME NEW w \in ToWrite PROVE FALSE
    OBVIOUS
  <2>3. PICK v \in ToWrite : <<v, w>> \in ahead
    BY <1>9
  <2>4. PICK u \in ToWrite : <<u, v>> \in ahead
    BY <1>9
  <2>5. u # v /\ v # w /\ u # w
    BY <2>2, <2>3, <2>4
  <2> QED BY <2>1, <2>5
<1>11. ToRead = {}
  BY <1>5, <1>6, <1>10 DEF PendingReadable
<1>12. loader.at \in LoaderAt /\ loop.at \in LoopAt
  BY DEF TypeInv, LoaderOK, LoopOK
<1>13. /\ \A t \in Tasks : task[t].at = "free"
       /\ loader.at \notin {"pend", "look"} /\ loop.at # "added"
  BY <1>3, <1>10, <1>11 DEF ToRead, ToWrite
<1>14. loader.at = "idle"
  BY <1>12, <1>13 DEF SomebodyReady, LoaderReady, LoaderAt
<1>15. loop.at \in {"idle", "dead"}
  BY <1>5, <1>12, <1>13 DEF LoopAt, LoopWrites
<1> QED BY <1>13, <1>14, <1>15 DEF Busy

LEMMA WaitsForRoom == ASSUME TypeInv, QueueInv, LockInv, CountInv PROVE StuckNeedsFullChannel
<1> SUFFICES ASSUME Busy, ~SomebodyReady PROVE WaitingForGood
  BY DEF StuckNeedsFullChannel, Stuck
<1>1. ~EventRoom \/ ~CommitRoom
  BY RoomSuffices
<1>2. loader.at \in LoaderAt /\ loop.at \in LoopAt
  BY DEF TypeInv, LoaderOK, LoopOK
<1>3. CASE ~EventRoom
  <2>1. events # <<>>
    BY <1>3, RefreshAssumption DEF EventRoom
  <2>2. loop.at # "idle"
    BY <2>1, NotifyFindsTask DEF SomebodyReady, LoopReady
  <2>3. ASSUME loop.at = "track" PROVE FALSE
    <3>1. Readers = {}
      BY <2>3 DEF LockInv, LocksExclude, LoopWrites
    <3>2. TimesFree
      BY <3>1 DEF Readers, TimesFree, KeepsPending, KeepsTimes, TaskAt
    <3> QED BY <2>3, <3>2 DEF SomebodyReady, LoopReady
  <2>4. loop.at \in {"added", "dead"}
    BY <1>2, <2>2, <2>3 DEF LoopAt, SomebodyReady, LoopReady
  <2> QED BY <1>3, <2>4 DEF WaitingForGood
<1>4. CASE EventRoom /\ ~CommitRoom
  <2>1. commits > 0
    BY <1>4, RefreshAssumption DEF CommitRoom, TypeInv, ChannelType
  <2>2. loader.at \notin {"idle", "tell", "store"}
    BY <1>4, <2>1 DEF SomebodyReady, LoaderReady
  <2> QED BY <1>2, <1>4, <2>2 DEF LoaderAt, WaitingForGood
<1> QED BY <1>1, <1>3, <1>4

(* There are two ways in which the loader, the run loop and the refresh tasks come to   *)
(* wait for each other for good, with any number of zones and tasks and any room: the   *)
(* event channel is full and the run loop, which alone empties it, died or waits to     *)
(* write the pending zones; or the loader's own channel is full and the loader, which   *)
(* alone empties it, waits for room in it or for the pending zones.  In any other state *)
(* in which somebody has something to do, some actor's guards hold.                     *)
THEOREM WaitsForRoomAlone == Spec => []StuckNeedsFullChannel
<1>1. TypeInv /\ CountInv /\ [Next]_vars => CountInv'
  BY StepCount
<1>2. TypeInv /\ QueueInv /\ LockInv /\ CountInv => StuckNeedsFullChannel
  BY WaitsForRoom
<1> QED BY <1>1, <1>2, InitCount, TypesAlways, QueueAlways, LocksAlways, PTL DEF Spec

\* A step of the loader, of the run loop or of a refresh task.
System == Loader \/ RunLoop \/ \E t \in Tasks : Task(t)

LEMMA LoaderNeeds == ASSUME Loader PROVE LoaderReady
BY DEF Loader, ReportCommit, InsertPending, InsertPrimary, LookupNotified, TellMaintainer,
       StoreInserted, LoaderReady, Send

LEMMA LoopNeeds == ASSUME RunLoop PROVE LoopReady
BY DEF RunLoop, TakeAdded, TakeRefresh, TakeChanged, TakeNotify, LockAdded, Track, LoadTree,
       StoreActive, Spawn, LoopReady

LEMMA TaskNeeds == ASSUME NEW t \in Tasks, Task(t) PROVE TaskReady(t)
<1>1. CASE Transfer(t)
  BY <1>1 DEF Transfer, Answer, Fetch, Progress, Commit, AnnounceCommit, AnnounceChange,
              ReadBack, Send, TaskReady
<1>2. CASE Succeed(t) \/ Schedule(t) \/ Migrate(t) \/ GiveUp(t) \/ ScheduleRetry(t)
  BY <1>2 DEF Succeed, Schedule, Migrate, GiveUp, ScheduleRetry, Send, TaskReady
<1>3. CASE Check(t) \/ FindTimed(t) \/ FindNotified(t) \/ MarkNotified(t) \/ Begin(t)
  BY <1>3 DEF Check, FindTimed, FindNotified, MarkNotified, Begin, TaskReady
<1> QED BY <1>1, <1>2, <1>3 DEF Task

(* In a state that counts as stuck neither the loader nor the run loop nor any refresh  *)
(* task takes a step: an operator's request, a new version, a timer or a query that     *)
(* fails are all that may happen there.                                                 *)
THEOREM StuckMeansStuck == Spec => [][Stuck => ~System]_vars
<1>1. Stuck => ~System
  BY LoaderNeeds, LoopNeeds, TaskNeeds DEF Stuck, System, SomebodyReady
<1> QED BY <1>1, PTL DEF Spec

(***************************************************************************)
(* What it takes to lose a zone that is served.                            *)
(***************************************************************************)

\* The loader has a copy of the tree that it is going to store.
HoldsCopy == loader.at \in {"pend", "store"} \/ (loader.at = "tell" /\ loader.event.kind = "added")

\* insert_zones and insert_active_zone both have a copy of the tree in their hands.
Overlap == HoldsCopy /\ loop.at = "store"

CopiesAreCurrent ==
  /\ HoldsCopy => \A z \in Zones : tree[z] # 0 => loader.copy[z] # 0
  /\ loop.at = "store" =>
       /\ \A z \in Zones : tree[z] # 0 => loop.copy[z] # 0
       /\ loop.copy[loop.zone] = 0

(* The tree changes by one of two stores. *)
LEMMA TreeChanges ==
  ASSUME [Next]_vars PROVE UNCHANGED tree \/ StoreInserted \/ StoreActive
<1>1. CASE UNCHANGED vars
  BY <1>1 DEF vars, setVars
<1>2. CASE World
  BY <1>2 DEF World, NewVersion, RegisterSecondary, RegisterPrimary, AskNotify, AskForced, OutageEnds,
              setVars
<1>3. CASE Loader
  BY <1>3 DEF Loader, ReportCommit, InsertPending, InsertPrimary, LookupNotified, TellMaintainer, setVars
<1>4. CASE RunLoop
  BY <1>4 DEF RunLoop, TakeAdded, TakeRefresh, TakeChanged, TakeNotify, LockAdded, Track, LoadTree, setVars
<1>5. ASSUME NEW z \in Zones, FireTimer(z) PROVE UNCHANGED tree
  BY <1>5 DEF FireTimer, setVars
<1>6. ASSUME NEW t \in Tasks, Task(t) \/ Fail(t) PROVE UNCHANGED tree
  BY <1>6 DEF Task, Transfer, Fail, Check, FindTimed, FindNotified, MarkNotified, Begin, Answer,
              Fetch, Progress, Commit, AnnounceCommit, AnnounceChange, ReadBack, Succeed,
              Schedule, Migrate, GiveUp, ScheduleRetry, setVars
<1> QED BY <1>1, <1>2, <1>3, <1>4, <1>5, <1>6 DEF Next

(* Where the copies come from. *)
LEMMA LoaderCopies ==
  ASSUME TypeInv, CopiesAreCurrent, [Next]_vars, HoldsCopy'
  PROVE  /\ ~StoreInserted
         /\ \A z \in Zones : tree[z] # 0 => loader'.copy[z] # 0
<1>1. ASSUME UNCHANGED loader PROVE \A z \in Zones : tree[z] # 0 => loader'.copy[z] # 0
  BY <1>1 DEF CopiesAreCurrent, HoldsCopy
<1>2. ~StoreInserted
  BY DEF StoreInserted, HoldsCopy, IdleLoader
<1>3. CASE UNCHANGED vars
  BY <1>1, <1>2, <1>3 DEF vars
<1>4. CASE World
  <2>1. CASE UNCHANGED loader
    BY <1>1, <1>2, <2>1
  <2>2. ASSUME NEW z \in Zones, RegisterSecondary(z) PROVE loader'.copy = tree
    BY <2>2 DEF RegisterSecondary, IdleLoader
  <2>3. ASSUME NEW z \in Zones, RegisterPrimary(z) \/ AskNotify(z) \/ AskForced(z) PROVE FALSE
    <3>1. \/ loader'.at \in {"file", "look"}
          \/ loader'.at = "tell" /\ loader'.event = Again(z, "refresh")
      BY <2>3 DEF RegisterPrimary, AskNotify, AskForced, IdleLoader
    <3> QED BY <3>1 DEF HoldsCopy, Again
  <2> QED BY <1>2, <1>4, <2>1, <2>2, <2>3 DEF World, NewVersion, OutageEnds
<1>5. CASE Loader
  <2>1. CASE ReportCommit
    BY <1>1, <1>2, <2>1 DEF ReportCommit
  <2>2. CASE InsertPending
    <3>1. loader'.copy = loader.copy /\ HoldsCopy
      BY <2>2 DEF InsertPending, HoldsCopy, TypeInv, LoaderOK
    <3> QED BY <1>2, <3>1 DEF CopiesAreCurrent
  <2>3. CASE InsertPrimary
    <3>1. tree[loader.zone] = 0 /\ loader'.copy = Extended(tree, loader.zone, loader.object)
      BY <2>3 DEF InsertPrimary, HoldsCopy, IdleLoader, TypeInv, LoaderOK
    <3> QED BY <1>2, <3>1 DEF Extended, TypeInv, SetsOK, Tree
  <2>4. CASE LookupNotified
    <3>1. \/ loader' = IdleLoader
          \/ loader' = [loader EXCEPT !.at = "tell", !.event = About("notify", loader.zone)]
      BY <2>4 DEF LookupNotified
    <3>2. \/ loader'.at = "idle"
          \/ loader'.at = "tell" /\ loader'.event = About("notify", loader.zone)
      <4>1. IdleLoader.at = "idle"
        BY DEF IdleLoader
      <4>2. DOMAIN loader = {"at", "zone", "object", "copy", "event"}
        BY DEF TypeInv, LoaderOK
      <4> QED BY <3>1, <4>1, <4>2
    <3> QED BY <3>2 DEF HoldsCopy, About
  <2>5. CASE TellMaintainer
    <3>1. loader'.copy = loader.copy /\ HoldsCopy
      BY <2>5 DEF TellMaintainer, HoldsCopy, IdleLoader, TypeInv, LoaderOK
    <3> QED BY <1>2, <3>1 DEF CopiesAreCurrent
  <2> QED BY <1>2, <1>5, <2>1, <2>2, <2>3, <2>4, <2>5 DEF Loader
<1>6. CASE RunLoop
  BY <1>1, <1>2, <1>6 DEF RunLoop, TakeAdded, TakeRefresh, TakeChanged, TakeNotify, LockAdded, Track,
                          LoadTree, StoreActive
<1>7. ASSUME NEW z \in Zones, FireTimer(z) PROVE UNCHANGED loader
  BY <1>7 DEF FireTimer
<1>8. ASSUME NEW t \in Tasks, Task(t) \/ Fail(t) PROVE UNCHANGED loader
  BY <1>8 DEF Task, Transfer, Fail, Check, FindTimed, FindNotified, MarkNotified, Begin, Answer,
              Fetch, Progress, Commit, AnnounceCommit, AnnounceChange, ReadBack, Succeed,
              Schedule, Migrate, GiveUp, ScheduleRetry
<1> QED BY <1>1, <1>2, <1>3, <1>4, <1>5, <1>6, <1>7, <1>8 DEF Next

LEMMA LoopCopies ==
  ASSUME TypeInv, CopiesAreCurrent, [Next]_vars, loop'.at = "store"
  PROVE  /\ ~StoreActive
         /\ \A z \in Zones : tree[z] # 0 => loop'.copy[z] # 0
         /\ loop'.copy[loop'.zone] = 0
<1>1. CASE UNCHANGED loop
  BY <1>1 DEF CopiesAreCurrent, StoreActive, IdleLoop
<1>2. CASE RunLoop
  <2>1. LoadTree \/ UNCHANGED loop
    <3>1. CASE TakeRefresh \/ TakeChanged \/ TakeNotify
      BY <3>1 DEF TakeRefresh, TakeChanged, TakeNotify
    <3>2. CASE TakeAdded
      <4>1. loop' = [IdleLoop EXCEPT !.at = "added", !.zone = Head(events).zone]
        BY <3>2 DEF TakeAdded
      <4>2. loop'.at = "added"
        BY <4>1 DEF IdleLoop
      <4> QED BY <4>2
    <3>3. CASE LockAdded \/ Track \/ StoreActive
      <4>1. \/ loop' = IdleLoop
            \/ loop' = [loop EXCEPT !.at = "track", !.object = pending[loop.zone]]
            \/ loop' = [loop EXCEPT !.at = "insert"]
        BY <3>3 DEF LockAdded, Track, StoreActive
      <4>2. loop'.at \in {"idle", "track", "insert"}
        <5>1. IdleLoop.at = "idle"
          BY DEF IdleLoop
        <5>2. DOMAIN loop = {"at", "zone", "object", "copy"}
          BY DEF TypeInv, LoopOK
        <5> QED BY <4>1, <5>1, <5>2
      <4> QED BY <4>2
    <3> QED BY <1>2, <3>1, <3>2, <3>3 DEF RunLoop
  <2>2. CASE LoadTree
    <3>1. tree[loop.zone] = 0 /\ loop'.copy = tree /\ loop'.zone = loop.zone
      BY <2>2 DEF LoadTree, IdleLoop, TypeInv, LoopOK
    <3> QED BY <2>2, <3>1 DEF LoadTree, StoreActive
  <2> QED BY <1>1, <2>1, <2>2
<1>3. CASE UNCHANGED vars
  BY <1>1, <1>3 DEF vars
<1>4. CASE World
  BY <1>1, <1>4 DEF World, NewVersion, RegisterSecondary, RegisterPrimary, AskNotify, AskForced, OutageEnds
<1>5. CASE Loader
  BY <1>1, <1>5 DEF Loader, ReportCommit, InsertPending, InsertPrimary, LookupNotified, TellMaintainer,
                    StoreInserted
<1>6. ASSUME NEW z \in Zones, FireTimer(z) PROVE UNCHANGED loop
  BY <1>6 DEF FireTimer
<1>7. ASSUME NEW t \in Tasks, Task(t) \/ Fail(t) PROVE UNCHANGED loop
  BY <1>7 DEF Task, Transfer, Fail, Check, FindTimed, FindNotified, MarkNotified, Begin, Answer,
              Fetch, Progress, Commit, AnnounceCommit, AnnounceChange, ReadBack, Succeed,
              Schedule, Migrate, GiveUp, ScheduleRetry
<1> QED BY <1>1, <1>2, <1>3, <1>4, <1>5, <1>6, <1>7 DEF Next

(* The copies stay current as long as only one is in use at a time, and what is stored *)
(* from a current copy has all zones that the tree had.                                *)
LEMMA StepCurrent ==
  ASSUME TypeInv, CopiesAreCurrent, ~Overlap, [Next]_vars PROVE CopiesAreCurrent'
<1>1. CASE UNCHANGED tree
  BY <1>1, LoaderCopies, LoopCopies DEF CopiesAreCurrent
<1>2. CASE StoreInserted
  <2>1. ~HoldsCopy'
    BY <1>2, LoaderCopies
  <2>2. loop'.at # "store"
    BY <1>2 DEF StoreInserted, Overlap, HoldsCopy
  <2> QED BY <2>1, <2>2 DEF CopiesAreCurrent
<1>3. CASE StoreActive
  <2>1. loop'.at # "store"
    BY <1>3, LoopCopies
  <2>2. ~HoldsCopy'
    BY <1>3 DEF StoreActive, Overlap, HoldsCopy
  <2> QED BY <2>1, <2>2 DEF CopiesAreCurrent
<1> QED BY <1>1, <1>2, <1>3, TreeChanges

LEMMA CurrentKeepsServed ==
  ASSUME TypeInv, CopiesAreCurrent, [Next]_vars
  PROVE  \A z \in Zones : tree[z] # 0 => tree'[z] # 0
<1>1. CASE UNCHANGED tree
  BY <1>1
<1>2. CASE StoreInserted
  BY <1>2 DEF StoreInserted, CopiesAreCurrent, HoldsCopy
<1>3. CASE StoreActive
  <2>1. loop.copy \in Tree /\ loop.at = "store" /\ tree' = Extended(loop.copy, loop.zone, loop.object)
    BY <1>3 DEF StoreActive, TypeInv, LoopOK
  <2> QED BY <2>1 DEF CopiesAreCurrent, Extended, Tree
<1> QED BY <1>1, <1>2, <1>3, TreeChanges

(* "The latest unsigned contents of all zones": a zone that is served leaves the tree   *)
(* only if the loader and the run loop have a copy of it in their hands at a time.      *)
(* Registrations that keep clear of activations, in whatever order, lose none.          *)
THEOREM OnlyOverlapsLoseZones == Spec /\ [](~Overlap) => ServedStaysServed
<1>1. Init => CopiesAreCurrent
  BY DEF Init, CopiesAreCurrent, HoldsCopy, IdleLoader, IdleLoop
<1>2. TypeInv /\ CopiesAreCurrent /\ ~Overlap /\ [Next]_vars => CopiesAreCurrent'
  BY StepCurrent
<1>3. TypeInv /\ CopiesAreCurrent /\ [Next]_vars => [\A z \in Zones : tree[z] # 0 => tree'[z] # 0]_vars
  BY CurrentKeepsServed
<1> QED BY <1>1, <1>2, <1>3, TypesAlways, PTL DEF Spec, ServedStaysServed
=============================================================================
