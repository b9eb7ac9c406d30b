------------------------------- MODULE Signing -------------------------------
(***************************************************************************)
(* How the zone signer carries out one signing operation after the other:  *)
(* the owner names of a zone are divided over threads, which send what     *)
(* they sign through a bounded channel to a task that stores it; only when *)
(* all of that went well is the signed zone committed.  Each operation has *)
(* an entry in a ring buffer of statuses, found by the name of the zone.   *)
(*                                                                         *)
(* Commands are handled one at a time, so one operation is under way; what *)
(* survives it is the task that stores, which holds the write lock of the  *)
(* signed zone until it has emptied the channel of an operation that       *)
(* failed.  Which version is signed is the concern of Pipeline; here a     *)
(* zone is the number of its owner names, each of which gets signatures.   *)
(***************************************************************************)
EXTENDS Integers, Sequences, FiniteSets

CONSTANTS
  Zones,         \* names of zones
  MaxOwners,     \* bound: owner names in a zone
  MaxTasks,      \* max_concurrent_rrsig_generation_tasks (32 in the code)
  ParallelFrom,  \* owner names from which all of these are used (1024 in the code)
  ChannelCap,    \* room in the channel of signatures (10000 in the code)
  HistoryCap     \* MAX_SIGNING_HISTORY (100 in the code)

VARIABLES
  stage,    \* of the operation under way
  zone,     \* its zone
  owners,   \* its number of owner names
  threads,  \* the threads that sign: where they are and their next owner
  channel,  \* owners whose signatures are on the way to the storing task
  stored,   \* how often the signatures of each owner were stored
  ok,       \* signing_ok: no thread has failed
  locked,   \* zones whose storing task outlived its operation
  history   \* zones_being_signed: the statuses, the oldest first

\* History, read by the properties alone.
VARIABLE committed  \* how often the owners of the last version committed were signed

vars == <<stage, zone, owners, threads, channel, stored, ok, locked, history, committed>>

work == <<zone, owners, threads, channel, stored, ok, locked, committed>>

Owner   == 0 .. MaxOwners - 1
Thread  == 0 .. MaxTasks - 1
Figures == {"walk", "sort", "denial", "threads", "rrsig", "insertion"}
Stages  == {"idle", "requested", "walk", "keys", "sort", "deny", "split", "open",
            "sign", "store", "finish"}
Status  == {"requested", "progress", "finished"}
Entry   == [zone : Zones, status : Status, figures : SUBSET Figures]

NoThreads == [i \in Thread |-> [at |-> "done", next |-> 0]]
Nothing   == [o \in Owner |-> 0]

Init ==
  /\ stage = "idle"
  /\ zone \in Zones /\ owners = 0
  /\ threads = NoThreads /\ channel = <<>> /\ stored = Nothing /\ ok = TRUE
  /\ locked = {}
  /\ history = <<>>
  /\ committed = {}

(***************************************************************************)
(* The statuses.                                                           *)
(***************************************************************************)

Entries(z) == {k \in DOMAIN history : history[k].zone = z}

\* Mutant: the search starts at the oldest entry.
OldestEntry(z) == CHOOSE k \in Entries(z) : \A j \in Entries(z) : k <= j

\* get_mut: the newest entry of a zone.
EntryOf(z) == CHOOSE k \in Entries(z) : \A j \in Entries(z) : k >= j

\* An entry changes only from the status that the change expects.
Change(z, from, to, figures) ==
  history' = IF Entries(z) # {} /\ history[EntryOf(z)].status = from
             THEN [history EXCEPT ![EntryOf(z)].status = to,
                                  ![EntryOf(z)].figures = @ \cup figures]
             ELSE history

StartStatus(z) == Change(z, "requested", "progress", {})

Report(z, figures) == Change(z, "progress", "progress", figures)

\* The last figures and the end: finishing unwraps every figure.
FinishStatus(z) == Change(z, "progress", "finished", {"insertion"})

\* Mutant: the buffer grows.
EnqueuedBeyond(z) ==
  Append(history, [zone |-> z, status |-> "requested", figures |-> {}])

\* A full buffer loses its oldest entry to the new one.
Enqueued(z) ==
  Append(IF Len(history) = HistoryCap THEN Tail(history) ELSE history,
         [zone |-> z, status |-> "requested", figures |-> {}])

(***************************************************************************)
(* Dividing the work.                                                      *)
(***************************************************************************)

Least(a, b) == IF a < b THEN a ELSE b

\* determine_signing_concurrency; the last thread takes the remainder too.
Parallelism(n) ==
  Least(IF n >= ParallelFrom THEN MaxTasks ELSE IF n >= 2 THEN 2 ELSE 1, MaxTasks)

ChunkSize(n) == n \div Parallelism(n)

\* Mutant: the last thread stops at the end of its chunk, like any other.
IsLastNever(i, n) == Parallelism(n) = 0 /\ i = 0

IsLast(i, n) == i = Parallelism(n) - 1

\* The thread has signed its chunk, or there is nothing left to sign.
ChunkDone(i, next, n) ==
  \/ next >= n
  \/ ~ IsLast(i, n) /\ next = (i + 1) * ChunkSize(n)

(***************************************************************************)
(* An operation, step by step.                                             *)
(***************************************************************************)

Request(z) ==
  /\ stage = "idle"
  /\ stage' = "requested" /\ zone' = z
  /\ history' = Enqueued(z)
  /\ UNCHANGED <<owners, threads, channel, stored, ok, locked, committed>>

\* Each of these may fail for a reason outside: no such zone or SOA, no key set or
\* no usable keys, no denial records.  The status stays as it is.
Fail ==
  /\ stage \in {"requested", "keys", "deny"}
  /\ stage' = "idle" /\ owners' = 0
  /\ UNCHANGED <<zone, threads, channel, stored, ok, locked, committed, history>>

Begin ==
  /\ stage = "requested"
  /\ StartStatus(zone)
  /\ stage' = "walk"
  /\ UNCHANGED work

Walk ==
  /\ stage = "walk"
  /\ owners' \in 0 .. MaxOwners
  /\ Report(zone, {"walk"})
  /\ stage' = "keys"
  /\ UNCHANGED <<zone, threads, channel, stored, ok, locked, committed>>

LoadKeys ==
  /\ stage = "keys"
  /\ stage' = "sort"
  /\ UNCHANGED <<work, history>>

Sort ==
  /\ stage = "sort"
  /\ Report(zone, {"sort"})
  /\ stage' = "deny"
  /\ UNCHANGED work

Deny ==
  /\ stage = "deny"
  /\ Report(zone, {"denial"})
  /\ stage' = "split"
  /\ UNCHANGED work

Split ==
  /\ stage = "split"
  /\ Report(zone, {"threads"})
  /\ stage' = "open"
  /\ UNCHANGED work

\* The signed zone is opened for writing, once a storing task that outlived its operation
\* has given the write lock back; then the threads start.
Open ==
  /\ stage = "open"
  /\ zone \notin locked
  /\ threads' = [i \in Thread |->
                   IF i < Parallelism(owners)
                   THEN [at |-> "sign", next |-> i * ChunkSize(owners)]
                   ELSE [at |-> "done", next |-> 0]]
  /\ ok' = TRUE
  /\ stage' = "sign"
  /\ UNCHANGED <<zone, owners, channel, stored, locked, history, committed>>

\* A thread signs its next owner, comes to an end, or fails.
Sign(i) ==
  /\ stage = "sign" /\ threads[i].at = "sign"
  /\ IF ChunkDone(i, threads[i].next, owners)
     THEN threads' = [threads EXCEPT ![i] = NoThreads[i]] /\ UNCHANGED ok
     ELSE \/ threads' = [threads EXCEPT ![i].at = "send"] /\ UNCHANGED ok
          \/ threads' = [threads EXCEPT ![i] = NoThreads[i]] /\ ok' = FALSE
  /\ UNCHANGED <<stage, zone, owners, channel, stored, locked, history, committed>>

\* It waits while the channel is full.
Send(i) ==
  /\ stage = "sign" /\ threads[i].at = "send"
  /\ Len(channel) < ChannelCap
  /\ channel' = Append(channel, threads[i].next)
  /\ threads' = [threads EXCEPT ![i] = [at |-> "sign", next |-> @.next + 1]]
  /\ UNCHANGED <<stage, zone, owners, stored, ok, locked, history, committed>>

\* rrsig_inserter takes the next signatures out of the channel.
Store ==
  /\ channel # <<>>
  /\ stored' = [stored EXCEPT ![Head(channel)] = @ + 1]
  /\ channel' = Tail(channel)
  /\ UNCHANGED <<stage, zone, owners, threads, ok, locked, history, committed>>

Signed == \A i \in Thread : threads[i].at = "done"

\* All threads have ended: signing went well, or the operation is given up and the
\* storing task is left to itself, with an update nobody will commit.
Joined ==
  /\ stage = "sign" /\ Signed
  /\ IF ok
     THEN stage' = "store" /\ UNCHANGED <<owners, channel, stored, locked>>
     ELSE /\ stage' = "idle" /\ owners' = 0
          /\ locked' = locked \cup {zone}
          /\ channel' = <<>> /\ stored' = Nothing
  /\ UNCHANGED <<zone, threads, ok, history, committed>>

\* It empties its channel and gives the write lock back.
Abandoned(z) ==
  /\ locked' = locked \ {z} /\ z \in locked
  /\ UNCHANGED <<stage, zone, owners, threads, channel, stored, ok, history, committed>>

\* Mutant: the operation keeps a sender itself.
SendersStay == FALSE

\* Every sender is gone and the channel empty: the storing task ends.
SendersGone == Signed

Stored ==
  /\ stage = "store"
  /\ SendersGone /\ channel = <<>>
  /\ Report(zone, {"rrsig"})
  /\ stage' = "finish"
  /\ UNCHANGED work

\* The rest of the zone is stored, the version committed, the status finished.
Commit ==
  /\ stage = "finish"
  /\ committed' = {stored[o] : o \in 0 .. owners - 1}
  /\ FinishStatus(zone)
  /\ stage' = "idle" /\ owners' = 0 /\ stored' = Nothing
  /\ UNCHANGED <<zone, threads, channel, ok, locked>>

Next ==
  \/ \E z \in Zones : Request(z) \/ Abandoned(z)
  \/ Fail
  \/ Begin \/ Walk \/ LoadKeys \/ Sort \/ Deny \/ Split \/ Open
  \/ \E i \in Thread : Sign(i) \/ Send(i)
  \/ Store
  \/ Joined
  \/ Stored
  \/ Commit

\* The signer's task, the threads and the storing task run on; nothing makes
\* commands come or an operation fail.
Steps ==
  Begin \/ Walk \/ LoadKeys \/ Sort \/ Deny \/ Split \/ Open \/ Joined \/ Stored \/ Commit

Fairness ==
  /\ WF_vars(Steps)
  /\ \A i \in Thread : WF_vars(Sign(i) \/ Send(i))
  /\ WF_vars(Store)
  /\ \A z \in Zones : WF_vars(Abandoned(z))

Spec == Init /\ [][Next]_vars /\ Fairness

(***************************************************************************)
(* Properties.                                                             *)
(***************************************************************************)

TypeOK ==
  /\ stage \in Stages /\ zone \in Zones /\ owners \in 0 .. MaxOwners
  /\ threads \in [Thread -> [at : {"sign", "send", "done"}, next : 0 .. MaxOwners]]
  /\ channel \in Seq(Owner) /\ Len(channel) <= ChannelCap
  /\ stored \in [Owner -> 0 .. MaxTasks]
  /\ ok \in BOOLEAN /\ locked \subseteq Zones
  /\ history \in Seq(Entry) /\ Len(history) <= HistoryCap
  /\ committed \subseteq 0 .. MaxTasks

(* Whatever the number of owner names and threads, a version that is committed *)
(* has the signatures of each of its owner names exactly once: the chunks leave *)
(* none out and share none, and an operation of which a thread failed, or       *)
(* signatures of an operation given up before, never end up in a version.       *)
SignedExactlyOnce == committed \subseteq {1}

FiguresAt(s) ==
  CASE s = "walk" -> {}
    [] s \in {"keys", "sort"} -> {"walk"}
    [] s = "deny" -> {"walk", "sort"}
    [] s = "split" -> {"walk", "sort", "denial"}
    [] s \in {"open", "sign", "store"} -> {"walk", "sort", "denial", "threads"}
    [] s = "finish" -> Figures \ {"insertion"}

(* The newest entry of the zone being signed belongs to the operation under way: *)
(* what earlier operations left behind in the buffer, unfinished or not, is never *)
(* taken for it, and the end finds every figure it unwraps.                       *)
StatusFollows ==
  stage # "idle" =>
    /\ Entries(zone) # {}
    /\ LET e == history[EntryOf(zone)]
       IN IF stage = "requested"
          THEN e.status = "requested"
          ELSE e.status = "progress" /\ e.figures = FiguresAt(stage)

(* An operation comes to an end: the threads cannot wait for room in a channel *)
(* that nobody empties, nor the storing task for senders that nobody drops, nor *)
(* an operation for the lock of one that failed before.                         *)
OperationsEnd == stage # "idle" ~> stage = "idle"

=============================================================================
