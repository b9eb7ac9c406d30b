------------------------------- MODULE Refresh -------------------------------
(***************************************************************************)
(* Zone maintenance: how the zone loader and the zone maintainer keep the  *)
(* secondary zones of the daemon up to date.                               *)
(*                                                                         *)
(* Three kinds of actors share two sets of zones (those waiting for their  *)
(* first transfer and those in the tree of unsigned zones), the table of   *)
(* refresh states and two bounded channels:                                *)
(*   - the loader, one task, registers zones, passes requests on and tells *)
(*     the central command of every commit;                                *)
(*   - the run loop of the maintainer, one task, handles its events and,   *)
(*     when there is none, the refresh timers;                             *)
(*   - every NOTIFY and every timer gets a refresh task of its own, which  *)
(*     keeps the read lock of the pending zones until it ends.             *)
(* Time is left out: an armed timer may fire, and a zone that is being     *)
(* retried may have expired, at any moment.                                *)
(***************************************************************************)
EXTENDS Naturals, Sequences, FiniteSets

CONSTANTS
  Zones,        \* the zones that may be registered
  None,         \* no zone
  FileZones,    \* those loaded from a file; the others are transferred
  TimerTasks,   \* bound: the refresh tasks of timers that may run at a time
  NotifyTasks,  \* bound: the refresh tasks of NOTIFYs that may run at a time
  EventCap,     \* room in the maintainer's event channel (10 in the code)
  UpdateCap,    \* room in the loader's zone_updated channel (10 in the code)
  MaxSerial,    \* bound: the newest serial a source ever offers
  MaxAdds,      \* bound: registrations
  MaxAsks,      \* bound: NOTIFYs and forced refreshes
  Panics        \* what a panic does: "unwind" (dev profile), "abort" (release profile)

ASSUME RefreshAssumption ==
  /\ None \notin Zones /\ FileZones \subseteq Zones
  /\ TimerTasks \cap NotifyTasks = {}
  /\ {"loader", "loop"} \cap (TimerTasks \cup NotifyTasks) = {}
  /\ EventCap \in Nat \ {0} /\ UpdateCap \in Nat \ {0}
  /\ MaxSerial \in Nat \ {0} /\ MaxAdds \in Nat
  /\ MaxAsks \in Nat /\ MaxAsks <= Cardinality(NotifyTasks)  \* each finds a free task
  /\ Panics \subseteq {"unwind", "abort"} /\ Panics # {}

Tasks  == TimerTasks \cup NotifyTasks
Serial == 0 .. MaxSerial     \* 0: no SOA
Object == 0 .. MaxAdds       \* the zone objects of a zone, in the order made; 0: none
Tree   == [Zones -> Object]

\* Why a zone is refreshed; a task only asks whether it was for a RETRY.
Cause  == {"refresh", "retry", "notify"}
Status == {"RefreshPending", "RefreshInProgress", "RetryPending",
           "RetryInProgress", "NotifyInProgress"}

Event == [kind : {"added", "notify", "changed"}, zone : Zones, cause : {"notify"}]
           \cup [kind : {"refresh"}, zone : Zones, cause : {"refresh", "retry"}]

VARIABLES
  primary,   \* the serial that the source of each zone offers
  outage,    \* the primaries cannot be relied on to answer
  soa,       \* the serial in each zone object, by zone and number
  pending,   \* pending_zones: the objects that wait for their first transfer
  tree,      \* the tree of unsigned zones: the objects that are served
  tracked,   \* time_tracking: the refresh status of each zone in it
  expired,   \* the zones of which an object is marked as expired
  timers,    \* the armed refresh timer of each zone
  events,    \* the event channel of the maintainer
  commits,   \* how many commits wait in the zone_updated channel of the loader
  loader,    \* the task of the loader
  loop,      \* the task of the run loop
  task,      \* the refresh tasks
  ahead,     \* who came before which writer that waits for the lock of pending_zones
  up,        \* the process is running
  spent      \* bounds: registrations and requests so far

\* History, read by the properties alone.
VARIABLE filled  \* the zone objects that a source has filled at least once

sourceVars == <<primary, outage, spent>>
zoneVars   == <<soa, filled, expired>>
setVars    == <<pending, tree>>
timeVars   == <<tracked, timers>>
chanVars   == <<events, commits>>
vars == <<sourceVars, zoneVars, setVars, timeVars, chanVars, loader, loop, task, up, ahead>>

LoaderAt == {"idle", "file", "pend", "look", "tell", "store"}
LoopAt   == {"idle", "added", "track", "insert", "store", "dead"}
TaskAt   == {"free", "check", "find", "mark", "begin", "ask", "fetch", "fetching",
             "report", "changed", "read", "done", "schedule", "migrate",
             "failed", "retry"}

\* The read lock of pending_zones is taken in "find" and kept to the end of the
\* task, across the transfer and every send; the write lock of time_tracking is
\* kept while the next refresh is sent to the run loop.
KeepsPending == TaskAt \ {"free", "check", "find"}

\* Mutant: the lock of time_tracking is kept while the primary is asked.
KeepsTimesAsking == {"ask", "schedule", "retry"}

KeepsTimes == {"schedule", "retry"}

NoTree == [z \in Zones |-> 0]
NoEvent == [kind |-> "none", zone |-> None, cause |-> "notify"]
IdleLoader == [at |-> "idle", zone |-> None, object |-> 0, copy |-> NoTree,
               event |-> NoEvent]
IdleLoop == [at |-> "idle", zone |-> None, object |-> 0, copy |-> NoTree]
FreeTask == [at |-> "free", zone |-> None, cause |-> "refresh", object |-> 0,
             waiting |-> FALSE, own |-> 0, got |-> 0]

Init ==
  /\ primary = [z \in Zones |-> 1]
  /\ outage \in BOOLEAN
  /\ soa = [z \in Zones |-> <<>>]
  /\ pending = NoTree /\ tree = NoTree
  /\ tracked = [z \in Zones |-> "no"]
  /\ expired = {} /\ filled = {}
  /\ timers = [z \in Zones |-> "none"]
  /\ events = <<>> /\ commits = 0
  /\ loader = IdleLoader
  /\ loop = IdleLoop
  /\ task = [t \in Tasks |-> FreeTask]
  /\ ahead = {}
  /\ up = TRUE
  /\ spent = [adds |-> 0, asks |-> 0]

About(k, z) == [kind |-> k, zone |-> z, cause |-> "notify"]
Again(z, c) == [kind |-> "refresh", zone |-> z, cause |-> c]

\* Mutant: room for one event more.
EventRoomAndOne == Len(events) <= EventCap

EventRoom == Len(events) < EventCap
CommitRoom == commits < UpdateCap
Send(e) == EventRoom /\ events' = Append(events, e)

\* Mutant: the zone is not put into the copy of the tree.
NotExtended(copy, z, g) == copy

\* A copy of the tree, with an object for zone z.
Extended(copy, z, g) == [copy EXCEPT ![z] = g]

Spend(what) == spent' = [spent EXCEPT ![what] = @ + 1]

\* The locks.  That of pending_zones is fair: who comes first gets it first.
Readers == {t \in Tasks : task[t].at \in KeepsPending}
LoopWrites == loop.at \in {"track", "insert", "store"}

\* Those that wait for it, to read or to write, or are about to.
ToRead == {t \in Tasks : task[t].at = "find"} \cup {a \in {"loader"} : loader.at = "look"}
ToWrite == {a \in {"loader"} : loader.at = "pend"} \cup {a \in {"loop"} : loop.at = "added"}

\* A writer comes to wait.  Before it are the writer that waits already, and all before
\* that, and whoever else has come to read.
Arrives(w) ==
  \E first \in SUBSET ToRead :
    /\ {p[1] : p \in ahead} \cap ToRead \subseteq first
    /\ ahead' = ahead \cup ((first \cup ToWrite) \X {w})

Before(w) == {p \in ahead : p[2] = w}

\* Actor a gets the lock, nobody waits for it any more.
Served(a) == ahead' = {p \in ahead : p[1] # a}

\* A reader waits for the writers that came before it, a writer for everybody who did.
PendingReadable(a) == ~LoopWrites /\ \A w \in ToWrite : <<a, w>> \in ahead
PendingWritable(w) == ~LoopWrites /\ Readers = {} /\ Before(w) = {}

TimesFree == \A t \in Tasks : task[t].at \notin KeepsTimes
-----------------------------------------------------------------------------
(***************************************************************************)
(* The sources and the zone loader                                         *)
(***************************************************************************)

\* A primary has a newer version.  (Bounds: a zone file stays as it is, and a zone's
\* primary waits for its version to be served before it has another.)
NewVersion(z) ==
  /\ z \notin FileZones /\ tree[z] # 0
  /\ primary[z] < MaxSerial
  /\ primary' = [primary EXCEPT ![z] = @ + 1]
  /\ UNCHANGED <<outage, spent, zoneVars, setVars, timeVars, chanVars, loader, loop, task,
                 up, ahead>>

\* The primaries can be reached again.
OutageEnds ==
  /\ outage
  /\ outage' = FALSE
  /\ UNCHANGED <<primary, spent, zoneVars, setVars, timeVars, chanVars, loader, loop, task,
                 up, ahead>>

\* A commit is announced: tell the central command.
ReportCommit ==
  /\ loader.at = "idle"
  /\ commits > 0
  /\ commits' = commits - 1
  /\ UNCHANGED <<sourceVars, zoneVars, setVars, timeVars, events, loader, loop, task, up,
                 ahead>>

\* RegisterZone: make a zone object, for a zone that is transferred an empty one,
\* and start to insert it: the tree to be extended is read now.
RegisterSecondary(z) ==
  /\ loader.at = "idle"
  /\ z \notin FileZones
  /\ spent.adds < MaxAdds
  /\ Spend("adds")
  /\ soa' = [soa EXCEPT ![z] = Append(@, 0)]
  /\ loader' = [IdleLoader EXCEPT !.at = "pend", !.zone = z,
                  !.object = Len(soa[z]) + 1, !.copy = tree]
  /\ Arrives("loader")
  /\ UNCHANGED <<primary, outage, filled, expired, setVars, timeVars, chanVars, loop, task, up>>

\* ... it waits for its first transfer in the pending set.
InsertPending ==
  /\ loader.at = "pend"
  /\ PendingWritable("loader") /\ Served("loader")
  /\ pending' = [pending EXCEPT ![loader.zone] = loader.object]
  /\ loader' = [loader EXCEPT !.at = "tell", !.event = About("added", loader.zone)]
  /\ UNCHANGED <<sourceVars, zoneVars, tree, timeVars, chanVars, loop, task, up>>

\* A zone file is read at once, and its serial goes into the loader's own channel.
RegisterPrimary(z) ==
  /\ loader.at = "idle"
  /\ z \in FileZones
  /\ spent.adds < MaxAdds
  /\ Spend("adds")
  /\ soa' = [soa EXCEPT ![z] = Append(@, primary[z])]
  /\ filled' = filled \cup {<<z, Len(soa[z]) + 1>>}
  /\ loader' = [IdleLoader EXCEPT !.at = "file", !.zone = z,
                  !.object = Len(soa[z]) + 1]
  /\ UNCHANGED <<primary, outage, expired, setVars, timeVars, chanVars, loop, task, up, ahead>>

\* ... then a copy of the tree is extended, unless the tree has the zone already.
InsertPrimary ==
  LET z == loader.zone IN
  /\ loader.at = "file"
  /\ CommitRoom
  /\ commits' = commits + 1
  /\ loader' = IF tree[z] # 0 THEN IdleLoader
               ELSE [loader EXCEPT !.at = "tell", !.event = About("added", z),
                                   !.copy = Extended(tree, z, loader.object)]
  /\ UNCHANGED <<sourceVars, zoneVars, setVars, timeVars, events, loop, task, up, ahead>>

\* RefreshZone: a NOTIFY from outside (for which the zone is looked up first) or a
\* refresh forced by the operator.
AskNotify(z) ==
  /\ loader.at = "idle"
  /\ spent.asks < MaxAsks
  /\ Spend("asks")
  /\ loader' = [IdleLoader EXCEPT !.at = "look", !.zone = z]
  /\ UNCHANGED <<primary, outage, zoneVars, setVars, timeVars, chanVars, loop, task, up, ahead>>

AskForced(z) ==
  /\ loader.at = "idle"
  /\ spent.asks < MaxAsks
  /\ Spend("asks")
  /\ loader' = [IdleLoader EXCEPT !.at = "tell", !.zone = z,
                                  !.event = Again(z, "refresh")]
  /\ UNCHANGED <<primary, outage, zoneVars, setVars, timeVars, chanVars, loop, task, up, ahead>>

\* notify_zone_changed: a NOTIFY for a zone that is in neither set, or that names
\* an older serial than that of the zone served, goes no further.
LookupNotified ==
  LET z == loader.zone IN
  /\ loader.at = "look"
  /\ \/ tree[z] # 0
     \/ PendingReadable("loader")
  /\ Served("loader")
  /\ \/ /\ tree[z] # 0 \/ pending[z] # 0
        /\ loader' = [loader EXCEPT !.at = "tell", !.event = About("notify", z)]
     \/ /\ tree[z] # 0 => soa[z][tree[z]] # 0
        /\ tree[z] = 0 => pending[z] = 0
        /\ loader' = IdleLoader
  /\ UNCHANGED <<sourceVars, zoneVars, setVars, timeVars, chanVars, loop, task, up>>

\* The loader waits until there is room for its event.
TellMaintainer ==
  /\ loader.at = "tell"
  /\ Send(loader.event)
  /\ loader' = IF loader.event.kind = "added" THEN [loader EXCEPT !.at = "store"]
               ELSE IdleLoader
  /\ UNCHANGED <<sourceVars, zoneVars, setVars, timeVars, commits, loop, task, up, ahead>>

\* The end of insert_zones: the tree becomes the copy made at its beginning.
StoreInserted ==
  /\ loader.at = "store"
  /\ tree' = loader.copy
  /\ loader' = IdleLoader
  /\ UNCHANGED <<sourceVars, zoneVars, pending, timeVars, chanVars, loop, task, up, ahead>>
-----------------------------------------------------------------------------
(***************************************************************************)
(* The run loop of the maintainer                                          *)
(***************************************************************************)

\* refresh_zone_at: of an armed timer and a new one the earlier is kept.
Arm(z, c) ==
  timers' = [timers EXCEPT ![z] = c] \/ (timers[z] # "none" /\ timers' = timers)

\* A task is started for zone z, with the object that the tree has for it now.
Spawn(t, z, at, c) ==
  /\ task[t].at = "free"
  /\ task' = [task EXCEPT ![t] = [FreeTask EXCEPT !.at = at, !.zone = z, !.cause = c,
                                                  !.object = tree[z]]]

\* Take the next event.  The task that a local change gets only tells others.
TakeAdded ==
  /\ loop.at = "idle" /\ events # <<>> /\ Head(events).kind = "added"
  /\ events' = Tail(events)
  /\ loop' = [IdleLoop EXCEPT !.at = "added", !.zone = Head(events).zone]
  /\ Arrives("loop")
  /\ UNCHANGED <<sourceVars, zoneVars, setVars, timeVars, commits, loader, task, up>>

TakeRefresh ==
  /\ loop.at = "idle" /\ events # <<>> /\ Head(events).kind = "refresh"
  /\ events' = Tail(events)
  /\ Arm(Head(events).zone, Head(events).cause)
  /\ UNCHANGED <<sourceVars, zoneVars, setVars, tracked, commits, loader, loop,
                 task, up, ahead>>

TakeChanged ==
  /\ loop.at = "idle" /\ events # <<>> /\ Head(events).kind = "changed"
  /\ events' = Tail(events)
  /\ UNCHANGED <<sourceVars, zoneVars, setVars, timeVars, commits, loader, loop,
                 task, up, ahead>>

TakeNotify ==
  /\ loop.at = "idle" /\ events # <<>> /\ Head(events).kind = "notify"
  /\ events' = Tail(events)
  /\ \E t \in NotifyTasks : Spawn(t, Head(events).zone, "find", "notify")
  /\ UNCHANGED <<sourceVars, zoneVars, setVars, timeVars, commits, loader, loop, up, ahead>>

\* The timer of zone z fires: only when there is no event to handle.
FireTimer(z) ==
  /\ loop.at = "idle" /\ events = <<>>
  /\ timers[z] # "none"
  /\ timers' = [timers EXCEPT ![z] = "none"]
  /\ \E t \in TimerTasks : Spawn(t, z, "check", timers[z])
  /\ UNCHANGED <<sourceVars, zoneVars, setVars, tracked, chanVars, loader, loop, up, ahead>>

\* on_zone_added: take the write lock of the pending zones; there is nothing to do
\* for a zone that is not in them.
LockAdded ==
  /\ loop.at = "added"
  /\ PendingWritable("loop") /\ Served("loop")
  /\ loop' = IF pending[loop.zone] = 0 THEN IdleLoop
             ELSE [loop EXCEPT !.at = "track", !.object = pending[loop.zone]]
  /\ UNCHANGED <<sourceVars, zoneVars, setVars, timeVars, chanVars, loader, task, up>>

\* Mutant: an empty zone that is new is activated as well.
HasRefreshAlways(z, g) == TRUE

\* track_zone_freshness knows a SOA REFRESH: the zone has been tracked before, or
\* its object has a SOA.
HasRefresh(z, g) == tracked[z] # "no" \/ soa[z][g] # 0

\* track_zone_freshness: from now on the zone is tracked.  One with a SOA REFRESH
\* leaves the pending set, to be activated; another is refreshed soon.
Track ==
  LET z == loop.zone IN
  /\ loop.at = "track"
  /\ TimesFree
  /\ tracked' = [tracked EXCEPT ![z] = IF @ = "no" THEN "RefreshPending" ELSE @]
  /\ \/ /\ HasRefresh(z, loop.object)
        /\ pending' = [pending EXCEPT ![z] = 0]
        /\ loop' = [loop EXCEPT !.at = "insert"]
        /\ UNCHANGED timers
     \/ /\ ~HasRefresh(z, loop.object)
        /\ Arm(z, "refresh")
        /\ loop' = IdleLoop
        /\ UNCHANGED pending
  /\ UNCHANGED <<sourceVars, zoneVars, tree, chanVars, loader, task, up, ahead>>

\* insert_active_zone: load the tree to extend it.  A tree that has the zone already
\* refuses it, and the caller unwraps.
LoadTree ==
  /\ loop.at = "insert"
  /\ \/ /\ tree[loop.zone] = 0
        /\ loop' = [loop EXCEPT !.at = "store", !.copy = tree]
        /\ up' = up
     \/ /\ tree[loop.zone] # 0 /\ "unwind" \in Panics
        /\ loop' = [IdleLoop EXCEPT !.at = "dead"]
        /\ up' = up
     \/ /\ tree[loop.zone] # 0 /\ "abort" \in Panics
        /\ loop' = [IdleLoop EXCEPT !.at = "dead"]
        /\ up' = FALSE
  /\ UNCHANGED <<sourceVars, zoneVars, setVars, timeVars, chanVars, loader, task, ahead>>

\* ... store it with the zone, and arm the zone's timer.
StoreActive ==
  /\ loop.at = "store"
  /\ tree' = Extended(loop.copy, loop.zone, loop.object)
  /\ Arm(loop.zone, "refresh")
  /\ loop' = IdleLoop
  /\ UNCHANGED <<sourceVars, zoneVars, pending, tracked, chanVars, loader, task, up, ahead>>
-----------------------------------------------------------------------------
(***************************************************************************)
(* A refresh task                                                          *)
(***************************************************************************)

Goto(t, at) == task' = [task EXCEPT ![t].at = at]
End(t) == task' = [task EXCEPT ![t] = FreeTask]

\* A timer's task asks whether the zone is tracked at all,
Check(t) ==
  /\ task[t].at = "check"
  /\ TimesFree
  /\ IF tracked[task[t].zone] = "no" THEN End(t) ELSE Goto(t, "find")
  /\ UNCHANGED <<sourceVars, zoneVars, setVars, timeVars, chanVars, loader, loop, up, ahead>>

\* ... takes the read lock of the pending zones, and looks for the zone there and in
\* the tree as it was when the timer fired.
FindTimed(t) ==
  LET z == task[t].zone IN
  /\ t \in TimerTasks
  /\ task[t].at = "find"
  /\ PendingReadable(t) /\ Served(t)
  /\ \/ /\ pending[z] # 0
        /\ task' = [task EXCEPT ![t].at = "begin", ![t].object = pending[z],
                                ![t].waiting = TRUE]
     \/ /\ pending[z] = 0 /\ task[t].object # 0
        /\ Goto(t, "begin")
     \/ /\ pending[z] = 0 /\ task[t].object = 0
        /\ End(t)
  /\ UNCHANGED <<sourceVars, zoneVars, setVars, timeVars, chanVars, loader, loop, up>>

\* handle_notify looks in the tree first.  It refuses a sender that is not a primary
\* of the zone; a zone from a file has none.
FindNotified(t) ==
  LET z == task[t].zone IN
  /\ t \in NotifyTasks
  /\ task[t].at = "find"
  /\ PendingReadable(t) /\ Served(t)
  /\ \/ /\ task[t].object # 0 /\ z \notin FileZones
        /\ Goto(t, "mark")
     \/ /\ task[t].object = 0 /\ pending[z] # 0
        /\ task' = [task EXCEPT ![t].at = "mark", ![t].object = pending[z],
                                ![t].waiting = TRUE]
     \/ End(t)
  /\ UNCHANGED <<sourceVars, zoneVars, setVars, timeVars, chanVars, loader, loop, up>>

\* ... and ignores a NOTIFY while the zone's status says that one is in progress.
MarkNotified(t) ==
  LET z == task[t].zone IN
  /\ task[t].at = "mark"
  /\ TimesFree
  /\ IF tracked[z] \in {"no", "NotifyInProgress"}
     THEN End(t) /\ UNCHANGED tracked
     ELSE Goto(t, "begin") /\ tracked' = [tracked EXCEPT ![z] = "NotifyInProgress"]
  /\ UNCHANGED <<sourceVars, zoneVars, setVars, timers, chanVars, loader, loop, up, ahead>>

\* Mutant: the refresh for a NOTIFY keeps the NOTIFY's status.
StatusByCause(c) ==
  CASE c = "retry" -> "RetryInProgress" [] c = "notify" -> "NotifyInProgress"
    [] OTHER -> "RefreshInProgress"

\* The status of a zone that is refreshed for cause c.
StatusDuring(c) == IF c = "retry" THEN "RetryInProgress" ELSE "RefreshInProgress"

\* refresh_zone_and_update_state begins: the status, then the zone's own serial.
Begin(t) ==
  LET z == task[t].zone IN
  /\ task[t].at = "begin"
  /\ TimesFree
  /\ tracked' = [tracked EXCEPT ![z] = StatusDuring(task[t].cause)]
  /\ task' = [task EXCEPT ![t].at = "ask", ![t].cause = "refresh",
                          ![t].own = soa[z][task[t].object]]
  /\ UNCHANGED <<sourceVars, zoneVars, setVars, timers, chanVars, loader, loop, up, ahead>>

\* The primary tells its serial: a transfer is needed if the zone has none or an
\* older one.
Answer(t) ==
  LET z == task[t].zone IN
  /\ task[t].at = "ask"
  /\ TimesFree
  /\ Goto(t, IF task[t].own = 0 \/ primary[z] > task[t].own THEN "fetch" ELSE "done")
  /\ UNCHANGED <<sourceVars, zoneVars, setVars, timeVars, chanVars, loader, loop, up, ahead>>

\* The query or the transfer fails; what was written of a transfer stays.
Fail(t) ==
  /\ task[t].at \in {"ask", "fetch", "fetching"}
  /\ outage
  /\ Goto(t, "failed")
  /\ UNCHANGED <<sourceVars, zoneVars, setVars, timeVars, chanVars, loader, loop, up, ahead>>

\* The primary sends its present version.  A full transfer first removes all records,
\* for every reader; an incremental one does not, but fails if the records are gone.
Fetch(t) ==
  LET z == task[t].zone  g == task[t].object
      incremental == task[t].own # 0
      start == [task EXCEPT ![t].at = "fetching", ![t].got = primary[z], ![t].own = 0]
  IN
  /\ task[t].at = "fetch"
  /\ \/ /\ incremental => soa[z][g] # 0
        /\ task' = start /\ soa' = [soa EXCEPT ![z][g] = 0]
     \/ /\ incremental /\ soa[z][g] # 0
        /\ task' = start /\ soa' = soa
     \/ /\ incremental /\ soa[z][g] = 0
        /\ Goto(t, "failed") /\ soa' = soa
  /\ UNCHANGED <<sourceVars, filled, expired, setVars, timeVars, chanVars, loader, loop, up,
                 ahead>>

\* Every ten thousand records of a long transfer become the zone's status.
Progress(t) ==
  /\ task[t].at = "fetching"
  /\ TimesFree
  /\ tracked' = [tracked EXCEPT ![task[t].zone] = "RefreshInProgress"]
  /\ UNCHANGED <<sourceVars, zoneVars, setVars, timers, chanVars, loader, loop, task, up,
                 ahead>>

\* The transfer is complete and committed,
Commit(t) ==
  LET z == task[t].zone  g == task[t].object IN
  /\ task[t].at = "fetching"
  /\ soa' = [soa EXCEPT ![z][g] = task[t].got]
  /\ filled' = filled \cup {<<z, g>>}
  /\ task' = [task EXCEPT ![t].at = "report", ![t].got = 0]
  /\ UNCHANGED <<sourceVars, expired, setVars, timeVars, chanVars, loader, loop, up, ahead>>

\* ... the commit is announced to the loader, when it has room,
AnnounceCommit(t) ==
  /\ task[t].at = "report"
  /\ CommitRoom
  /\ commits' = commits + 1
  /\ Goto(t, "changed")
  /\ UNCHANGED <<sourceVars, zoneVars, setVars, timeVars, events, loader, loop, up, ahead>>

\* ... and to the run loop, when it has room,
AnnounceChange(t) ==
  /\ task[t].at = "changed"
  /\ Send(About("changed", task[t].zone))
  /\ Goto(t, "read")
  /\ UNCHANGED <<sourceVars, zoneVars, setVars, timeVars, commits, loader, loop, up, ahead>>

\* ... and the SOA is read back, which another transfer may have removed.
ReadBack(t) ==
  /\ task[t].at = "read"
  /\ Goto(t, IF soa[task[t].zone][task[t].object] = 0 THEN "failed" ELSE "done")
  /\ UNCHANGED <<sourceVars, zoneVars, setVars, timeVars, chanVars, loader, loop, up, ahead>>

\* The refresh is done: lock the refresh states and set the status,
Succeed(t) ==
  LET z == task[t].zone IN
  /\ task[t].at = "done"
  /\ TimesFree
  /\ tracked' = [tracked EXCEPT ![z] = "RefreshPending"]
  /\ Goto(t, "schedule")
  /\ UNCHANGED <<sourceVars, zoneVars, setVars, timers, chanVars, loader, loop, up, ahead>>

\* ... keep the lock until there is room to schedule the next refresh,
Schedule(t) ==
  /\ task[t].at = "schedule"
  /\ Send(Again(task[t].zone, "refresh"))
  /\ IF task[t].waiting THEN Goto(t, "migrate") ELSE End(t)
  /\ UNCHANGED <<sourceVars, zoneVars, setVars, timeVars, commits, loader, loop, up, ahead>>

\* ... and have a pending zone activated.
Migrate(t) ==
  /\ task[t].at = "migrate"
  /\ Send(About("added", task[t].zone))
  /\ End(t)
  /\ UNCHANGED <<sourceVars, zoneVars, setVars, timeVars, commits, loader, loop, up, ahead>>

\* The refresh failed.  A zone being retried for longer than EXPIRE is marked, and not
\* refreshed again by a timer; else a retry is to be scheduled, under the lock.
GiveUp(t) ==
  LET z == task[t].zone IN
  /\ task[t].at = "failed"
  /\ TimesFree
  /\ \/ /\ tracked[z] = "RetryInProgress"
        /\ expired' = expired \cup {z}
        /\ End(t)
        /\ UNCHANGED tracked
     \/ /\ tracked' = [tracked EXCEPT ![z] = IF @ = "RetryInProgress" THEN @
                                             ELSE "RetryPending"]
        /\ Goto(t, "retry")
        /\ UNCHANGED expired
  /\ UNCHANGED <<sourceVars, soa, filled, setVars, timers, chanVars, loader, loop, up, ahead>>

\* Mutant: the retry is not scheduled.
RetryForgotten(t) ==
  /\ task[t].at = "retry"
  /\ End(t)
  /\ UNCHANGED <<sourceVars, zoneVars, setVars, timeVars, chanVars, loader, loop, up, ahead>>

ScheduleRetry(t) ==
  /\ task[t].at = "retry"
  /\ Send(Again(task[t].zone, "retry"))
  /\ End(t)
  /\ UNCHANGED <<sourceVars, zoneVars, setVars, timeVars, commits, loader, loop, up, ahead>>
-----------------------------------------------------------------------------
World ==
  \E z \in Zones :
    \/ NewVersion(z) \/ RegisterSecondary(z) \/ RegisterPrimary(z)
    \/ AskNotify(z) \/ AskForced(z)
    \/ OutageEnds

Loader ==
  ReportCommit \/ InsertPending \/ InsertPrimary \/ LookupNotified
    \/ TellMaintainer \/ StoreInserted

RunLoop ==
  \/ TakeAdded \/ TakeRefresh \/ TakeChanged \/ TakeNotify
  \/ LockAdded \/ Track \/ LoadTree \/ StoreActive

Transfer(t) ==
  \/ Answer(t) \/ Fetch(t) \/ Progress(t) \/ Commit(t)
  \/ AnnounceCommit(t) \/ AnnounceChange(t) \/ ReadBack(t)

Task(t) ==
  \/ Check(t) \/ FindTimed(t) \/ FindNotified(t) \/ MarkNotified(t) \/ Begin(t)
  \/ Transfer(t)
  \/ Succeed(t) \/ Schedule(t) \/ Migrate(t) \/ GiveUp(t) \/ ScheduleRetry(t)

Next ==
  /\ up
  /\ \/ World
     \/ Loader
     \/ RunLoop
     \/ \E z \in Zones : FireTimer(z)
     \/ \E t \in Tasks : Task(t) \/ Fail(t)

Spec == Init /\ [][Next]_vars

\* Everybody runs on for as long as there is something to do; timers fire in the end,
\* for all the events that come first.  Nothing obliges a source to have new versions
\* or an operator to ask.
Fairness ==
  /\ WF_vars(up /\ Loader) /\ WF_vars(up /\ RunLoop)
  /\ \A z \in Zones \ FileZones : SF_vars(up /\ FireTimer(z))
  /\ \A t \in Tasks : WF_vars(up /\ Task(t))

FairSpec == Spec /\ Fairness
-----------------------------------------------------------------------------
(***************************************************************************)
(* Properties                                                              *)
(***************************************************************************)

ObjectOf(z) == 0 .. Len(soa[z])

ZoneType ==
  /\ primary \in [Zones -> Serial \ {0}] /\ outage \in BOOLEAN
  /\ soa \in [Zones -> Seq(Serial)]
  /\ \A z \in Zones : Len(soa[z]) <= spent.adds
  /\ filled \subseteq Zones \X Object /\ expired \subseteq Zones
  /\ spent \in [adds : 0 .. MaxAdds, asks : 0 .. MaxAsks]

SetType ==
  /\ pending \in Tree /\ tree \in Tree
  /\ tracked \in [Zones -> Status \cup {"no"}]
  /\ timers \in [Zones -> {"none", "refresh", "retry"}]

ChannelType ==
  /\ events \in Seq(Event) /\ Len(events) <= EventCap
  /\ commits \in 0 .. UpdateCap

ActorType ==
  /\ loader \in [at : LoaderAt, zone : Zones \cup {None}, object : Object, copy : Tree,
             event : Event \cup {NoEvent}]
  /\ loop \in [at : LoopAt, zone : Zones \cup {None}, object : Object, copy : Tree]
  /\ task \in [Tasks -> [at : TaskAt, zone : Zones \cup {None}, cause : Cause, object : Object,
                         waiting : BOOLEAN, own : Serial, got : Serial]]
  /\ ahead \subseteq (ToRead \cup ToWrite) \X ToWrite
  /\ up \in BOOLEAN

\* Whatever refers to a zone object refers to one that was made.
ObjectsExist ==
  /\ \A z \in Zones : {pending[z], tree[z], loader.copy[z], loop.copy[z]} \subseteq ObjectOf(z)
  /\ loader.at # "idle" => loader.object \in ObjectOf(loader.zone)
  /\ loop.at \notin {"idle", "dead"} => loop.object \in ObjectOf(loop.zone)
  /\ \A t \in Tasks : task[t].at # "free" => task[t].object \in ObjectOf(task[t].zone)

\* Every variable has its type, no channel holds more than it has room for, nobody refers
\* to a zone object that does not exist, or waits behind somebody who does not wait.
TypeOK == ZoneType /\ SetType /\ ChannelType /\ ActorType /\ ObjectsExist

\* Something will yet refresh zone z: its timer, an event, a task or the run loop.
Wakeup(z) ==
  \/ timers[z] # "none"
  \/ \E i \in 1 .. Len(events) : events[i].zone = z /\ events[i].kind \in {"refresh", "added"}
  \/ loop.at # "idle" /\ loop.zone = z
  \/ loader.zone = z /\ loader.event = About("added", z)
  \/ \E t \in Tasks : task[t].at \notin {"free", "find", "mark"} /\ task[t].zone = z
  \/ \E t \in TimerTasks : task[t].at = "find" /\ task[t].zone = z

\* A transferred zone that is in one of the two sets is refreshed again, however its
\* registration, timers, NOTIFYs, forced refreshes and failures interleave, unless it
\* expired or the run loop died: no refresh is ever the last one.
RefreshGoesOn ==
  \A z \in Zones \ FileZones :
    pending[z] # 0 \/ tree[z] # 0 =>
      \/ Wakeup(z)
      \/ z \in expired
      \/ loop.at = "dead"

\* The status that makes later NOTIFYs be ignored is there only while a task that set
\* it is about to replace it: no failure or lost zone leaves it behind for good.
NotifyStatusIsBrief ==
  \A z \in Zones : tracked[z] = "NotifyInProgress" =>
    \E t \in NotifyTasks : task[t].zone = z /\ task[t].at = "begin"

\* "This prevents callers of get_zone() or find_zone() attempting to use an empty zone"
\* (maintainer.rs:321) is true of a zone's first object only: one that is served without
\* having been filled is that of a later registration, which was announced when the zone
\* had been tracked already (track_zone_freshness then answers as for a filled zone).
EmptyOnlyIfReAdded ==
  \A z \in Zones : tree[z] # 0 /\ <<z, tree[z]>> \notin filled => tree[z] > 1

\* Somebody is in the middle of something.
Busy ==
  \/ loader.at # "idle" \/ loop.at \notin {"idle", "dead"}
  \/ \E t \in Tasks : task[t].at # "free"

\* What each actor waits for before its next step: its own guards, put together.
LoaderReady ==
  \/ loader.at = "idle" /\ commits > 0
  \/ loader.at = "file" /\ CommitRoom
  \/ loader.at = "pend" /\ PendingWritable("loader")
  \/ loader.at = "look" /\ (tree[loader.zone] # 0 \/ PendingReadable("loader"))
  \/ loader.at = "tell" /\ EventRoom
  \/ loader.at = "store"

LoopReady ==
  \/ /\ loop.at = "idle" /\ events # <<>>
     /\ Head(events).kind = "notify" => \E t \in NotifyTasks : task[t].at = "free"
  \/ loop.at = "added" /\ PendingWritable("loop")
  \/ loop.at = "track" /\ TimesFree
  \/ loop.at \in {"insert", "store"}

TaskReady(t) ==
  \/ task[t].at = "find" /\ PendingReadable(t)
  \/ task[t].at \in {"check", "mark", "begin", "ask", "done", "failed"} /\ TimesFree
  \/ task[t].at \in {"fetch", "fetching", "read"}
  \/ task[t].at = "report" /\ CommitRoom
  \/ task[t].at \in {"changed", "schedule", "migrate", "retry"} /\ EventRoom

SomebodyReady == LoaderReady \/ LoopReady \/ \E t \in Tasks : TaskReady(t)

\* There is something to do and nobody's guards hold: all wait for each other.
Stuck == up /\ Busy /\ ~SomebodyReady

\* The two ways in which the actors come to wait for each other for good: nobody empties
\* the event channel, as the run loop died or waits to write the pending zones, or the
\* loader, which empties the other channel, waits for room in it or for the pending zones.
WaitingForGood ==
  \/ ~EventRoom /\ loop.at \in {"added", "dead"}
  \/ ~CommitRoom /\ loader.at \in {"file", "pend", "look"}

\* There is no other way: the order of the locks, and the locks kept over a transfer,
\* never suffice, and no NOTIFY waits for want of a task.
StuckNeedsFullChannel == Stuck => WaitingForGood

\* A zone that waits for its first transfer when the primaries can be reached comes to
\* be served, unless a zone expired before or the daemon is stuck or down.  (So an actor
\* whose guards hold can step: one that could not would not count as stuck.)
PendingIsServed ==
  \A z \in Zones \ FileZones :
    pending[z] # 0 /\ ~outage ~> \/ tree[z] # 0 \/ z \in expired
                      \/ loop.at = "dead" \/ ~up \/ Stuck

\* "The latest unsigned contents of all zones": a zone that is served stays in the tree,
\* whatever other zones are registered or activated.
ServedStaysServed == [][\A z \in Zones : tree[z] # 0 => tree'[z] # 0]_vars
=============================================================================
