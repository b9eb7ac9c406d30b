------------------------------- MODULE KeySets -------------------------------
(***************************************************************************)
(* The key manager: it creates a key set for every registered zone, and    *)
(* once in a while looks at the state file of the key set of each zone in  *)
(* the unsigned tree: when a file changed the zone is signed again, when   *)
(* the time the file names has come the key set's cron command is run.     *)
(*                                                                         *)
(* The files belong to an external program.  It is run by the key manager, *)
(* and by administrators at any moment, also between two reads of the key  *)
(* manager; the modification time of a file is the number of times it was  *)
(* written, 0 before there is one.  Whether a cron time has come is left   *)
(* open: time only grows, but the times that a file names may be any.      *)
(***************************************************************************)
EXTENDS Integers

CONSTANTS
  Zones,        \* names of zones
  MaxVersions,  \* bound: writes of a state file
  MaxRetries,   \* CRON_MAX_RETRIES (5 in the code)
  None

File == [version : 0 .. MaxVersions, cron : BOOLEAN]  \* cron: the file names a time for it
Info == [modified : 1 .. MaxVersions, cron : BOOLEAN, retries : 0 .. MaxRetries - 1]

VARIABLES
  at,       \* where the key manager's task is
  zone,     \* the zone it deals with
  todo,     \* the zones this tick has yet to look at
  why,      \* it looks at a state file: what made it do so
  seen,     \* what it has taken from that file, by now
  info,     \* ks_info, by zone
  file,     \* the state files
  unsigned, \* zones in the tree of unsigned zones
  asked,    \* zones the signer has yet to sign again
  signer,   \* "runs" or has "ended"
  published \* zones of which a signed version was published

\* History, read by the properties alone.
VARIABLES
  content,  \* the version of the file that the information on a zone was read from
  invoked,  \* cron commands since then
  used      \* the version that the signer last read

world   == <<file, unsigned, signer, published>>
history == <<content, invoked, used>>
vars == <<at, zone, todo, why, seen, info, world, asked, history>>

Places  == {"idle", "create", "init", "next", "look", "cron", "terminated"}
Unseen  == [modified |-> 0, version |-> 0, cron |-> FALSE]

Init ==
  /\ at = "idle" /\ zone = None /\ todo = {}
  /\ why = None /\ seen = Unseen
  /\ info = [z \in Zones |-> None]
  /\ file \in [Zones -> {f \in File : f.version <= 1 /\ (f.version = 0 => ~ f.cron)}]
  /\ unsigned \in SUBSET Zones
  /\ asked = {}
  /\ signer = "runs"
  /\ published = {}
  /\ content = [z \in Zones |-> 0]
  /\ invoked = [z \in Zones |-> 0]
  /\ used = [z \in Zones |-> 0]

(***************************************************************************)
(* The state files and the program they belong to.                         *)
(***************************************************************************)

Written(z, cron) ==
  /\ file[z].version < MaxVersions
  /\ file' = [file EXCEPT ![z] = [version |-> @.version + 1, cron |-> cron]]

\* The program is run by someone, or by the key manager at this moment.
Write(z) ==
  /\ file[z].version > 0 \/ (at = "create" /\ zone = z)
  /\ \E cron \in BOOLEAN : Written(z, cron)
  /\ UNCHANGED <<at, zone, todo, why, seen, info, unsigned, signer, published, asked, history>>

\* Zones are loaded, and drop out of the tree (as the run of Refresh shows).
Appear(z) ==
  /\ unsigned' = IF z \in unsigned THEN unsigned \ {z} ELSE unsigned \cup {z}
  /\ UNCHANGED <<at, zone, todo, why, seen, info, file, signer, published, asked, history>>

(***************************************************************************)
(* The signer, as far as it has to do with key sets.                       *)
(***************************************************************************)

\* A version that was loaded is signed: the signer reads the state file, if there is one.
SignLoaded(z) ==
  /\ signer = "runs" /\ z \in unsigned
  /\ file[z].version > 0
  /\ used' = [used EXCEPT ![z] = file[z].version]
  /\ UNCHANGED <<at, zone, todo, why, seen, info, world, asked, content, invoked>>

\* It passed its review, which may be long after.
Publish(z) ==
  /\ used[z] > 0
  /\ published' = published \cup {z}
  /\ UNCHANGED <<at, zone, todo, why, seen, info, file, unsigned, signer, asked, history>>

\* A zone is signed again, as it was published; a zone that never was is an unknown
\* zone, for which the request is dropped before the state file is read.
SignZone(z) ==
  /\ signer = "runs" /\ z \in asked
  /\ asked' = asked \ {z}
  /\ used' = IF z \in published THEN [used EXCEPT ![z] = file[z].version] ELSE used
  /\ UNCHANGED <<at, zone, todo, why, seen, info, world, content, invoked>>

\* It is told to, or panics at a zone that was removed (as the run forgotten shows).
SignerEnds ==
  /\ signer = "runs"
  /\ signer' = "ended"
  /\ UNCHANGED <<at, zone, todo, why, seen, info, file, unsigned, published, asked, history>>

(***************************************************************************)
(* Commands.                                                               *)
(***************************************************************************)

Register(z) ==
  /\ at = "idle"
  /\ at' = "create" /\ zone' = z
  /\ UNCHANGED <<todo, why, seen, info, world, asked, history>>

\* What the commands return is not looked at, only whether they could be run.
CommandEnds ==
  /\ at \in {"create", "init"}
  /\ \/ at = "create" /\ at' = "init" /\ UNCHANGED zone
     \/ at = "init" /\ at' = "idle" /\ zone' = None
     \/ at' = "terminated" /\ zone' = None
  /\ UNCHANGED <<todo, why, seen, info, world, asked, history>>

Terminate ==
  /\ at = "idle"
  /\ at' = "terminated"
  /\ UNCHANGED <<zone, todo, why, seen, info, world, asked, history>>

(***************************************************************************)
(* The tick.                                                               *)
(***************************************************************************)

Tick ==
  /\ at = "idle"
  /\ at' = "next" /\ todo' = unsigned
  /\ UNCHANGED <<zone, why, seen, info, world, asked, history>>

TickEnds ==
  /\ at = "next" /\ todo = {}
  /\ at' = "idle"
  /\ UNCHANGED <<zone, todo, why, seen, info, world, asked, history>>

Modified(z) == file[z].version # info[z].modified

Look(z, reason) == at' = "look" /\ zone' = z /\ why' = reason /\ seen' = Unseen

\* It is done with a zone, and goes on with the next.
GoOn == at' = "next" /\ zone' = None /\ why' = None /\ seen' = Unseen

\* No file, no information yet, a file that changed, or a cron time that has come.
Visit(z) ==
  /\ at = "next" /\ z \in todo
  /\ todo' = todo \ {z}
  /\ \/ /\ file[z].version = 0
        /\ GoOn
        /\ UNCHANGED invoked
     \/ /\ file[z].version > 0 /\ info[z] = None
        /\ Look(z, "first")
        /\ UNCHANGED invoked
     \/ /\ info[z] # None /\ Modified(z)
        /\ Look(z, "changed")
        /\ UNCHANGED invoked
     \/ /\ info[z] # None /\ ~ Modified(z)
        /\ \/ GoOn /\ UNCHANGED invoked
           \/ /\ info[z].cron
              /\ at' = "cron" /\ zone' = z
              /\ invoked' = [invoked EXCEPT ![z] = @ + 1]
              /\ UNCHANGED <<why, seen>>
  /\ UNCHANGED <<info, world, asked, content, used>>

\* Mutant: the modification time is taken last.
StampLast == FALSE

\* get_keyset_info takes the modification time, and reads the file after that.
StampFirst == TRUE

Stamp ==
  /\ at = "look"
  /\ seen.modified = 0 /\ (StampFirst \/ seen.version > 0)
  /\ seen' = [seen EXCEPT !.modified = file[zone].version]
  /\ UNCHANGED <<at, zone, todo, why, info, world, asked, history>>

Read ==
  /\ at = "look"
  /\ seen.version = 0 /\ (~ StampFirst \/ seen.modified > 0)
  /\ seen' = [seen EXCEPT !.version = file[zone].version, !.cron = file[zone].cron]
  /\ UNCHANGED <<at, zone, todo, why, info, world, asked, history>>

\* Mutant: the tries are not counted.
NotCounted(i) == i

\* The cron time moves on by a minute; after some tries it is given up.
Retried(i) ==
  IF i.retries + 1 >= MaxRetries
  THEN [i EXCEPT !.cron = FALSE, !.retries = 0]
  ELSE [i EXCEPT !.retries = @ + 1]

\* Mutant: what was read is stored, and nobody told.
NotAsking(z) == asked

\* The signer is told of a change; the first look at a file asks for nothing.
Asking(z) == IF why = "changed" THEN asked \cup {z} ELSE asked

\* What was read is put in place of what was known; after cron the file is looked at
\* again when it has changed.
Looked ==
  /\ at = "look" /\ seen.modified > 0 /\ seen.version > 0
  /\ IF why = "cron"
     THEN /\ IF seen.modified # info[zone].modified
             THEN Look(zone, "changed") /\ UNCHANGED info
             ELSE info' = [info EXCEPT ![zone] = Retried(@)] /\ GoOn
          /\ UNCHANGED <<asked, content, invoked>>
     ELSE /\ info' = [info EXCEPT ![zone] =
                        [modified |-> seen.modified, cron |-> seen.cron, retries |-> 0]]
          /\ content' = [content EXCEPT ![zone] = seen.version]
          /\ invoked' = [invoked EXCEPT ![zone] = 0]
          /\ asked' = Asking(zone)
          /\ GoOn
  /\ UNCHANGED <<todo, world, used>>

\* It went well, it failed, or it could not be run.
CronEnds ==
  /\ at = "cron"
  /\ \/ Look(zone, "cron") /\ UNCHANGED info
     \/ /\ info' = [info EXCEPT ![zone].cron = FALSE, ![zone].retries = 0]
        /\ GoOn
  /\ UNCHANGED <<todo, world, asked, history>>

Next ==
  \/ \E z \in Zones : Write(z) \/ Appear(z) \/ Register(z) \/ Visit(z)
  \/ \E z \in Zones : SignLoaded(z) \/ Publish(z) \/ SignZone(z)
  \/ SignerEnds
  \/ CommandEnds
  \/ Terminate
  \/ Tick
  \/ TickEnds
  \/ Stamp
  \/ Read
  \/ Looked
  \/ CronEnds

\* The task runs on, and its select! does not prefer commands to ticks for ever.
Steps == CommandEnds \/ TickEnds \/ Stamp \/ Read \/ Looked \/ CronEnds
           \/ \E z \in Zones : Visit(z)

Fairness ==
  /\ WF_vars(Steps)
  /\ SF_vars(Tick)
  /\ \A z \in Zones : WF_vars(SignZone(z))

SafetySpec == Init /\ [][Next]_vars
Spec == SafetySpec /\ Fairness

(***************************************************************************)
(* Properties.                                                             *)
(***************************************************************************)

TypeOK ==
  /\ at \in Places /\ zone \in Zones \cup {None} /\ todo \subseteq Zones
  /\ why \in {None, "first", "changed", "cron"}
  /\ seen \in [modified : 0 .. MaxVersions, version : 0 .. MaxVersions, cron : BOOLEAN]
  /\ info \in [Zones -> Info \cup {None}]
  /\ file \in [Zones -> File]
  /\ unsigned \subseteq Zones /\ asked \subseteq Zones
  /\ signer \in {"runs", "ended"} /\ published \subseteq Zones
  /\ content \in [Zones -> 0 .. MaxVersions]
  /\ invoked \in [Zones -> Nat]
  /\ used \in [Zones -> 0 .. MaxVersions]

(* What the key manager knows of a file under its current modification time was *)
(* read from the file as it is now: an update between its two reads of a file   *)
(* never hides behind the time of that update.                                  *)
CacheNeverStale ==
  \A z \in Zones :
    info[z] # None /\ info[z].modified = file[z].version => content[z] = file[z].version

(* A cron command that does nothing to the state file is not run for ever: with *)
(* what was read from one file it is run as often as it is retried, and no more. *)
CronGivesUp == \A z \in Zones : invoked[z] <= MaxRetries

\* The key manager knows the state file of zone z, of which v is a newer version.
News(z, v) == info[z] # None /\ info[z].modified < v /\ file[z].version = v

\* Nothing is signed any more.
Stopped(z) == z \notin unsigned \/ at = "terminated" \/ signer = "ended"

(* A change of the key set of a published zone, when the key manager has known the  *)
(* key set before, reaches the signer: it reads the changed file, or a later one,   *)
(* unless the zone drops out of the tree or one of the two units ends.              *)
KeyChangesReachTheSigner ==
  \A z \in Zones : \A v \in 1 .. MaxVersions :
    News(z, v) /\ z \in published ~> used[z] >= v \/ Stopped(z)

=============================================================================
