---------------------------- MODULE KeySetsProofs ----------------------------
(***************************************************************************)
(* Proofs about KeySets, for any zones, versions and numbers of retries.   *)
(***************************************************************************)
EXTENDS KeySets, TLAPS

Bounds == MaxVersions \in Nat /\ MaxRetries \in Nat \ {0} /\ None \notin Info

\* The task deals with a zone, of which it knows a cron time when it runs cron.
Placed ==
  /\ at \in {"look", "cron"} => zone \in Zones
  /\ at = "cron" \/ (at = "look" /\ why = "cron") =>
       info[zone] # None /\ info[zone].cron

\* Times are taken before contents, and files only get newer.
TimesFirst ==
  /\ \A z \in Zones : content[z] <= file[z].version
  /\ \A z \in Zones : info[z] # None => info[z].modified <= content[z]
  /\ at = "look" => /\ seen.modified <= file[zone].version
                    /\ seen.version <= file[zone].version
                    /\ seen.version > 0 => seen.modified > 0 /\ seen.modified <= seen.version

\* Tries of cron are counted, but for the one under way.
TriesCounted ==
  /\ \A z \in Zones : invoked[z] <= MaxRetries
  /\ \A z \in Zones : info[z] # None /\ info[z].cron =>
       \/ invoked[z] <= info[z].retries
       \/ invoked[z] <= info[z].retries + 1 /\ zone = z /\ at \in {"cron", "look"}

KeysInv == TypeOK /\ Placed /\ TimesFirst /\ TriesCounted

LEMMA InitInv == ASSUME Bounds, Init PROVE KeysInv
<1>1. TypeOK
  BY DEF Bounds, Init, TypeOK, Places, Unseen, File
<1>2. \A z \in Zones : file[z].version \in 0 .. MaxVersions
  <2>1. \A z \in Zones : file[z] \in File
    BY DEF Init
  <2> QED BY <2>1 DEF File
<1>3. Placed /\ TimesFirst /\ TriesCounted
  BY <1>2 DEF Bounds, Init, Placed, TimesFirst, TriesCounted
<1> QED BY <1>1, <1>3 DEF KeysInv

(* A change of the time that is left to retry keeps the rest of the information. *)
LEMMA RetriedInfo ==
  ASSUME Bounds, NEW i \in Info
  PROVE  /\ Retried(i) \in Info
         /\ Retried(i).modified = i.modified
         /\ Retried(i).cron => i.cron /\ Retried(i).retries = i.retries + 1
<1>1. /\ i = [modified |-> i.modified, cron |-> i.cron, retries |-> i.retries]
      /\ i.modified \in 1 .. MaxVersions /\ i.cron \in BOOLEAN /\ i.retries \in 0 .. MaxRetries - 1
  BY DEF Info
<1>2. CASE i.retries + 1 >= MaxRetries
  <2>1. Retried(i) = [modified |-> i.modified, cron |-> FALSE, retries |-> 0]
    BY <1>1, <1>2 DEF Retried
  <2> QED BY <1>1, <2>1 DEF Bounds, Info
<1>3. CASE ~ (i.retries + 1 >= MaxRetries)
  <2>1. Retried(i) = [modified |-> i.modified, cron |-> i.cron, retries |-> i.retries + 1]
    BY <1>1, <1>3 DEF Retried
  <2> QED BY <1>1, <1>3, <2>1 DEF Bounds, Info
<1> QED BY <1>2, <1>3

LEMMA StepInv == ASSUME Bounds, KeysInv, [Next]_vars PROVE KeysInv'
<1> USE DEF KeysInv
<1>0. MaxVersions \in Nat /\ MaxRetries \in Nat /\ MaxRetries > 0
  BY DEF Bounds
<1>01. /\ Unseen \in [modified : 0 .. MaxVersions, version : 0 .. MaxVersions, cron : BOOLEAN]
       /\ Unseen.modified = 0 /\ Unseen.version = 0
  BY <1>0 DEF Unseen
<1>02. \A z \in Zones : file[z].version \in 0 .. MaxVersions
  BY DEF TypeOK, File
<1>1. ASSUME NEW z \in Zones, Write(z) PROVE KeysInv'
  <2>1. PICK cron \in BOOLEAN : Written(z, cron)
    BY <1>1 DEF Write
  <2>2. file[z] \in File /\ file[z].version + 1 \in 0 .. MaxVersions
    BY <1>0, <2>1 DEF Written, TypeOK, File
  <2>3. file' \in [Zones -> File]
    BY <2>1, <2>2 DEF Written, TypeOK, File
  <2>4. \A y \in Zones : file[y].version <= file'[y].version
                         /\ file[y].version \in Nat /\ file'[y].version \in Nat
    BY <1>0, <2>1, <2>2, <2>3 DEF Written, TypeOK, File
  <2>5. UNCHANGED <<at, zone, todo, why, seen, info, unsigned, signer, published, asked,
                   content, invoked, used>>
    BY <1>1 DEF Write, history
  <2>6. TypeOK' /\ Placed' /\ TriesCounted'
    BY <2>3, <2>5 DEF TypeOK, Placed, TriesCounted
  <2>7. TimesFirst'
    BY <1>0, <2>4, <2>5 DEF TimesFirst, TypeOK, Placed
  <2> QED BY <2>6, <2>7
<1>2. ASSUME NEW z \in Zones, Appear(z) PROVE KeysInv'
  BY <1>2 DEF Appear, history, TypeOK, Placed, TimesFirst, TriesCounted
<1>3. ASSUME NEW z \in Zones, SignZone(z) PROVE KeysInv'
  <2>1. file[z].version \in 0 .. MaxVersions
    BY DEF TypeOK, File
  <2>2. used' \in [Zones -> 0 .. MaxVersions]
    BY <1>3, <2>1 DEF SignZone, TypeOK
  <2> QED BY <1>3, <2>2 DEF SignZone, world, TypeOK, Placed, TimesFirst, TriesCounted
<1>31. ASSUME NEW z \in Zones, SignLoaded(z) PROVE KeysInv'
  <2>1. file[z].version \in 0 .. MaxVersions
    BY DEF TypeOK, File
  <2>2. used' \in [Zones -> 0 .. MaxVersions]
    BY <1>31, <2>1 DEF SignLoaded, TypeOK
  <2> QED BY <1>31, <2>2 DEF SignLoaded, world, TypeOK, Placed, TimesFirst, TriesCounted
<1>32. ASSUME NEW z \in Zones, Publish(z) PROVE KeysInv'
  BY <1>32 DEF Publish, history, TypeOK, Placed, TimesFirst, TriesCounted
<1>33. CASE SignerEnds
  BY <1>33 DEF SignerEnds, history, TypeOK, Placed, TimesFirst, TriesCounted
<1>4. ASSUME NEW z \in Zones, Register(z) PROVE KeysInv'
  BY <1>4 DEF Register, world, history, TypeOK, Places, Placed, TimesFirst, TriesCounted
<1>5. ASSUME NEW z \in Zones, Visit(z) PROVE KeysInv'
  <2>1. UNCHANGED <<info, file, unsigned, signer, published, asked, content, used>>
        /\ todo' = todo \ {z} /\ at = "next"
    BY <1>5 DEF Visit, world
  <2>2. CASE GoOn /\ UNCHANGED invoked
    BY <1>01, <2>1, <2>2 DEF GoOn, TypeOK, Places, Placed, TimesFirst, TriesCounted
  <2>3. CASE UNCHANGED invoked /\ (Look(z, "first") \/ Look(z, "changed"))
    <3>1. /\ at' = "look" /\ zone' = z /\ why' \in {"first", "changed"} /\ seen' = Unseen
          /\ invoked' = invoked
      BY <2>3 DEF Look
    <3>2. TypeOK'
      BY <1>01, <2>1, <3>1 DEF TypeOK, Places
    <3>3. TimesFirst'
      BY <1>0, <1>01, <1>02, <2>1, <3>1 DEF TimesFirst
    <3> QED BY <2>1, <3>1, <3>2, <3>3 DEF Placed, TriesCounted
  <2>4. CASE /\ info[z] # None /\ info[z].cron
             /\ at' = "cron" /\ zone' = z
             /\ invoked' = [invoked EXCEPT ![z] = @ + 1]
             /\ UNCHANGED <<why, seen>>
    <3>1. info[z] \in Info /\ invoked[z] <= info[z].retries
      BY <2>1, <2>4 DEF TypeOK, TriesCounted
    <3>2. invoked[z] + 1 <= MaxRetries /\ invoked[z] \in Nat
      BY <1>0, <3>1 DEF TypeOK, Info
    <3>4. invoked[z] + 1 <= info[z].retries + 1
      BY <3>1, <3>2 DEF Info
    <3>5. invoked' \in [Zones -> Nat] /\ invoked'[z] = invoked[z] + 1
          /\ \A y \in Zones \ {z} : invoked'[y] = invoked[y]
      BY <2>4, <3>2 DEF TypeOK
    <3>3. TriesCounted'
      BY <2>1, <2>4, <3>2, <3>4, <3>5 DEF TriesCounted
    <3> QED BY <2>1, <2>4, <3>2, <3>3 DEF TypeOK, Places, Placed, TimesFirst
  <2> QED BY <1>5, <2>2, <2>3, <2>4 DEF Visit
<1>6. CASE CommandEnds
  BY <1>6 DEF CommandEnds, world, history, TypeOK, Places, Placed, TimesFirst, TriesCounted
<1>7. CASE Terminate
  BY <1>7 DEF Terminate, world, history, TypeOK, Places, Placed, TimesFirst, TriesCounted
<1>8. CASE Tick
  BY <1>8 DEF Tick, world, history, TypeOK, Places, Placed, TimesFirst, TriesCounted
<1>9. CASE TickEnds
  BY <1>9 DEF TickEnds, world, history, TypeOK, Places, Placed, TimesFirst, TriesCounted
<1>10. CASE Stamp
  <2>1. UNCHANGED <<at, zone, todo, why, info, world, asked, content, invoked, used>>
        /\ at = "look" /\ zone \in Zones
    BY <1>10 DEF Stamp, history, Placed
  <2>2. file[zone].version \in 0 .. MaxVersions
        /\ seen.version \in 0 .. MaxVersions /\ seen.cron \in BOOLEAN
    BY <2>1 DEF TypeOK, File
  <2>3. seen.version = 0
    BY <1>10, <2>2, <2>1 DEF Stamp, TimesFirst
  <2>4. seen' = [modified |-> file[zone].version, version |-> seen.version, cron |-> seen.cron]
    BY <1>10 DEF Stamp, TypeOK
  <2>5. TypeOK'
    BY <2>1, <2>2, <2>4 DEF TypeOK, world
  <2>6. TimesFirst'
    BY <1>0, <2>1, <2>2, <2>3, <2>4 DEF TimesFirst, world
  <2> QED BY <2>1, <2>5, <2>6 DEF Placed, TriesCounted
<1>11. CASE Read
  <2>1. UNCHANGED <<at, zone, todo, why, info, world, asked, content, invoked, used>>
        /\ at = "look" /\ zone \in Zones
    BY <1>11 DEF Read, history, Placed
  <2>2. file[zone] \in File /\ seen.modified > 0
    BY <1>11, <2>1 DEF Read, StampFirst, TypeOK
  <2>3. seen' = [modified |-> seen.modified, version |-> file[zone].version,
                 cron |-> file[zone].cron]
    BY <1>11 DEF Read, TypeOK
  <2>4. TypeOK'
    BY <2>1, <2>2, <2>3 DEF TypeOK, File, world
  <2>5. TimesFirst'
    BY <1>0, <2>1, <2>2, <2>3 DEF TimesFirst, File, world
  <2> QED BY <2>1, <2>4, <2>5 DEF Placed, TriesCounted
<1>12. CASE Looked
  <2>1. /\ UNCHANGED <<todo, file, unsigned, signer, published, used>>
        /\ at = "look" /\ zone \in Zones /\ seen.modified > 0 /\ seen.version > 0
    BY <1>12 DEF Looked, world, Placed
  <2>2. CASE why = "cron" /\ seen.modified # info[zone].modified
    <3>1. Look(zone, "changed") /\ UNCHANGED <<info, asked, content, invoked>>
      BY <1>12, <2>2 DEF Looked
    <3> QED BY <1>0, <2>1, <3>1
         DEF Look, Unseen, TypeOK, File, Places, Placed, TimesFirst, TriesCounted
  <2>3. CASE why = "cron" /\ seen.modified = info[zone].modified
    <3>1. info' = [info EXCEPT ![zone] = Retried(@)] /\ GoOn /\ UNCHANGED <<asked, content, invoked>>
      BY <1>12, <2>3 DEF Looked
    <3>2. info[zone] # None /\ info[zone] \in Info
      BY <2>1, <2>3 DEF Placed, TypeOK
    <3>3. info' \in [Zones -> Info \cup {None}] /\ info'[zone] = Retried(info[zone])
          /\ \A z \in Zones \ {zone} : info'[z] = info[z]
      BY <2>1, <3>1, <3>2, RetriedInfo DEF TypeOK
    <3>4. TypeOK' /\ Placed'
      BY <1>01, <2>1, <3>1, <3>3 DEF GoOn, TypeOK, Places, Placed
    <3>5. TimesFirst'
      BY <2>1, <3>1, <3>2, <3>3, RetriedInfo DEF GoOn, TimesFirst
    <3>6. Retried(info[zone]).cron => invoked[zone] <= Retried(info[zone]).retries
      <4>1. invoked[zone] <= info[zone].retries + 1
            \/ ~ Retried(info[zone]).cron
        <5>1. invoked[zone] \in Nat /\ info[zone].retries \in Nat
          BY <1>0, <2>1, <3>2 DEF TypeOK, Info
        <5> QED BY <2>1, <3>2, <5>1, RetriedInfo DEF TriesCounted
      <4> QED BY <4>1, <3>2, RetriedInfo
    <3>7. TriesCounted'
      BY <2>1, <3>1, <3>3, <3>6 DEF GoOn, TriesCounted
    <3> QED BY <3>4, <3>5, <3>7
  <2>4. CASE why # "cron"
    <3>1. /\ info' = [info EXCEPT ![zone] =
                        [modified |-> seen.modified, cron |-> seen.cron, retries |-> 0]]
          /\ content' = [content EXCEPT ![zone] = seen.version]
          /\ invoked' = [invoked EXCEPT ![zone] = 0]
          /\ asked' = Asking(zone)
          /\ GoOn
      BY <1>12, <2>4 DEF Looked
    <3>2. [modified |-> seen.modified, cron |-> seen.cron, retries |-> 0] \in Info
      BY <1>0, <2>1 DEF TypeOK, Info
    <3>3. TypeOK'
      BY <1>01, <2>1, <3>1, <3>2 DEF TypeOK, GoOn, Places, Asking
    <3>4. TimesFirst'
      BY <2>1, <3>1 DEF TypeOK, GoOn, TimesFirst
    <3>5. TriesCounted'
      BY <1>0, <2>1, <3>1 DEF TypeOK, GoOn, TriesCounted
    <3> QED BY <3>1, <3>3, <3>4, <3>5 DEF GoOn, Placed
  <2> QED BY <2>2, <2>3, <2>4
<1>13. CASE CronEnds
  <2>1. /\ UNCHANGED <<todo, file, unsigned, signer, published, asked, content, invoked, used>>
        /\ at = "cron" /\ zone \in Zones /\ info[zone] # None /\ info[zone] \in Info
        /\ info[zone].cron
    BY <1>13 DEF CronEnds, world, history, Placed, TypeOK
  <2>2. CASE Look(zone, "cron") /\ UNCHANGED info
    BY <1>0, <2>1, <2>2 DEF Look, Unseen, TypeOK, File, Places, Placed, TimesFirst, TriesCounted
  <2>3. CASE info' = [info EXCEPT ![zone].cron = FALSE, ![zone].retries = 0] /\ GoOn
    <3>1. info'[zone] = [modified |-> info[zone].modified, cron |-> FALSE, retries |-> 0]
          /\ \A z \in Zones \ {zone} : info'[z] = info[z]
      BY <2>1, <2>3 DEF TypeOK, Info
    <3>2. info' \in [Zones -> Info \cup {None}]
      <4>1. info'[zone] \in Info
        BY <1>0, <2>1, <3>1 DEF Info
      <4> QED BY <2>1, <2>3, <3>1, <4>1 DEF TypeOK
    <3>3. TypeOK'
      BY <1>01, <2>1, <2>3, <3>2 DEF GoOn, TypeOK, Places
    <3>6. at' = "next" /\ info'[zone].modified = info[zone].modified /\ ~ info'[zone].cron
      BY <2>3, <3>1 DEF GoOn
    <3>4. TimesFirst'
      BY <2>1, <3>1, <3>6 DEF TimesFirst
    <3>5. TriesCounted'
      BY <2>1, <3>1, <3>6 DEF TriesCounted
    <3> QED BY <2>3, <3>3, <3>4, <3>5 DEF GoOn, Placed
  <2> QED BY <1>13, <2>2, <2>3 DEF CronEnds
<1>14. CASE UNCHANGED vars
  BY <1>14 DEF vars, world, history, TypeOK, Placed, TimesFirst, TriesCounted
<1> QED BY <1>1, <1>2, <1>3, <1>31, <1>32, <1>33, <1>4, <1>5, <1>6, <1>7, <1>8, <1>9, <1>10, <1>11, <1>12, <1>13,
          <1>14 DEF Next

LEMMA KeysAlways == ASSUME Bounds PROVE Spec => []KeysInv
<1>1. Init => KeysInv
  BY InitInv
<1>2. KeysInv /\ [Next]_vars => KeysInv'
  BY StepInv
<1> QED BY <1>1, <1>2, PTL DEF Spec, SafetySpec

LEMMA NothingHides == ASSUME Bounds, KeysInv PROVE CacheNeverStale
<1> SUFFICES ASSUME NEW z \in Zones, info[z] # None, info[z].modified = file[z].version
             PROVE  content[z] = file[z].version
  BY DEF CacheNeverStale
<1>1. content[z] \in Int /\ file[z].version \in Int
  BY DEF Bounds, KeysInv, TypeOK, File
<1> QED BY <1>1 DEF KeysInv, TimesFirst

(* An update of a state file between the two reads of the key manager never hides *)
(* behind its own time, however often the file is written.                        *)
THEOREM NoUpdateHides == ASSUME Bounds PROVE Spec => []CacheNeverStale
<1>1. KeysInv => CacheNeverStale
  BY NothingHides
<1> QED BY <1>1, KeysAlways, PTL

(* Cron is run as often as it is retried for what one file says, and no more,     *)
(* whatever others write in between.                                              *)
THEOREM CronIsGivenUp == ASSUME Bounds PROVE Spec => []CronGivesUp
<1>1. KeysInv => CronGivesUp
  BY DEF KeysInv, TriesCounted, CronGivesUp
<1> QED BY <1>1, KeysAlways, PTL

(***************************************************************************)
(* What KeyChangesReachTheSigner rests on: no change of a published zone's *)
(* key set is forgotten.                                                   *)
(***************************************************************************)

\* Only what is not yet known of a zone is looked at without asking the signer.
LooksHaveReasons ==
  at = "look" => why \in {"first", "changed", "cron"} /\ (why = "first" => info[zone] = None)

\* The key manager knows the state file of zone z, but not version v of it or a later one.
Behind(z, v) == info[z] # None /\ info[z].modified < v /\ v <= file[z].version

\* The zone is one that the signer signs again when it is asked, not one unknown to it.  It
\* has read version v, or is asked to, or will be: the file does not have the time that the
\* key manager knows, so that looks at the file at the zone's next visit.
NotForgotten(z, v) ==
  /\ z \in published
  /\ v <= file[z].version
  /\ used[z] >= v \/ z \in asked \/ (Behind(z, v) /\ Modified(z))

LEMMA StepReasons == ASSUME LooksHaveReasons, [Next]_vars PROVE LooksHaveReasons'
<1> USE DEF LooksHaveReasons, history, world
<1>1. ASSUME NEW z \in Zones, Visit(z) PROVE LooksHaveReasons'
  <2>1. UNCHANGED info
    BY <1>1 DEF Visit
  <2>2. CASE GoOn \/ at' = "cron"
    BY <2>2 DEF GoOn
  <2>3. CASE info[z] = None /\ Look(z, "first")
    BY <2>1, <2>3 DEF Look
  <2>4. CASE Look(z, "changed")
    BY <2>4 DEF Look
  <2> QED BY <1>1, <2>2, <2>3, <2>4 DEF Visit
<1>2. CASE Looked
  BY <1>2 DEF Looked, Look, GoOn
<1>3. CASE CronEnds
  BY <1>3 DEF CronEnds, Look, GoOn
<1>4. CASE Stamp \/ Read
  BY <1>4 DEF Stamp, Read
<1>5. CASE CommandEnds \/ Terminate \/ Tick \/ TickEnds \/ SignerEnds \/ UNCHANGED vars
  BY <1>5 DEF CommandEnds, Terminate, Tick, TickEnds, SignerEnds, vars
<1>6. ASSUME NEW z \in Zones, Write(z) \/ Appear(z) \/ Register(z)
      PROVE LooksHaveReasons'
  BY <1>6 DEF Write, Appear, Register
<1>7. ASSUME NEW z \in Zones, SignLoaded(z) \/ Publish(z) \/ SignZone(z)
      PROVE LooksHaveReasons'
  BY <1>7 DEF SignLoaded, Publish, SignZone
<1> QED BY <1>1, <1>2, <1>3, <1>4, <1>5, <1>6, <1>7 DEF Next

LEMMA VersionsAreNumbers ==
  ASSUME Bounds, TypeOK, NEW z \in Zones
  PROVE  /\ file[z].version \in Int /\ used[z] \in Int
         /\ info[z] # None => info[z].modified \in Int
<1>1. file[z] \in File /\ info[z] \in Info \cup {None}
  BY DEF TypeOK
<1> QED BY <1>1 DEF Bounds, TypeOK, File, Info

(* Files only get newer, and so does what the signer has read of them, and what was *)
(* published stays published.                                                      *)
LEMMA FilesGetNewer ==
  ASSUME Bounds, TypeOK, TypeOK', [Next]_vars, NEW z \in Zones
  PROVE  /\ file[z].version <= file'[z].version
         /\ used'[z] = used[z] \/ used'[z] = file[z].version
         /\ published \subseteq published'
<1> USE DEF history, world
<1>0. file[z].version \in Int /\ used[z] \in Int
  BY VersionsAreNumbers
<1>1. ASSUME NEW y \in Zones, Write(y)
      PROVE  file[z].version <= file'[z].version /\ UNCHANGED <<used, published>>
  <2>1. PICK cron \in BOOLEAN : Written(y, cron)
    BY <1>1 DEF Write
  <2>2. file'[z].version = IF z = y THEN file[z].version + 1 ELSE file[z].version
    BY <2>1 DEF Written, TypeOK
  <2> QED BY <1>0, <1>1, <2>2 DEF Write
<1>2. ASSUME NEW y \in Zones, SignZone(y) \/ SignLoaded(y)
      PROVE  /\ UNCHANGED <<file, published>>
             /\ used'[z] = used[z] \/ used'[z] = file[z].version
  BY <1>2 DEF SignZone, SignLoaded, TypeOK
<1>3. ASSUME NEW y \in Zones, Appear(y) \/ Register(y) \/ Visit(y) \/ Publish(y)
      PROVE UNCHANGED <<file, used>> /\ published \subseteq published'
  BY <1>3 DEF Appear, Register, Visit, Publish
<1>4. CASE CommandEnds \/ Terminate \/ Tick \/ TickEnds \/ Stamp \/ Read \/ Looked \/ CronEnds
           \/ SignerEnds \/ UNCHANGED vars
  BY <1>0, <1>4 DEF CommandEnds, Terminate, Tick, TickEnds, Stamp, Read, Looked, CronEnds,
                    SignerEnds, vars
<1> QED BY <1>0, <1>1, <1>2, <1>3, <1>4 DEF Next

(* What is known of a zone changes when the signer is asked, or while nothing or as much *)
(* of it was known; the signer stops being asked when it has read the file, or when the  *)
(* zone is unknown to it.                                                                *)
LEMMA NewsIsTold ==
  ASSUME KeysInv, Bounds, LooksHaveReasons, [Next]_vars, NEW z \in Zones
  PROVE  /\ z \in asked /\ z \in published => z \in asked' \/ used'[z] = file[z].version
         /\ info[z] # None => \/ z \in asked'
                              \/ info'[z] # None /\ info'[z].modified = info[z].modified
<1> USE DEF history, world, KeysInv
<1>1. ASSUME NEW y \in Zones, SignZone(y)
      PROVE  /\ UNCHANGED info
             /\ z \in asked /\ z \in published => z \in asked' \/ used'[z] = file[z].version
  BY <1>1 DEF SignZone, TypeOK
<1>2. CASE Looked
  <2>1. zone \in Zones /\ asked \subseteq asked'
    BY <1>2 DEF Looked, Placed, Asking
  <2>2. CASE zone # z \/ UNCHANGED info
    BY <1>2, <2>1, <2>2 DEF Looked, TypeOK
  <2>3. CASE zone = z /\ why = "cron" /\ info' = [info EXCEPT ![zone] = Retried(@)]
    <3>1. info[z] # None => info[z] \in Info /\ info'[z] = Retried(info[z])
      BY <2>1, <2>3 DEF TypeOK
    <3>2. info[z] # None => Retried(info[z]) \in Info /\ Retried(info[z]).modified = info[z].modified
      BY <3>1, RetriedInfo
    <3>3. info[z] # None => info'[z] # None /\ info'[z].modified = info[z].modified
      BY <3>1, <3>2 DEF Bounds
    <3> QED BY <2>1, <3>3
  <2>4. CASE zone = z /\ why # "cron"
    BY <1>2, <2>1, <2>4 DEF Looked, LooksHaveReasons, Asking
  <2> QED BY <1>2, <2>2, <2>3, <2>4 DEF Looked
<1>3. CASE CronEnds
  <2>1. zone \in Zones /\ info[zone] \in Info /\ UNCHANGED asked
    BY <1>3 DEF CronEnds, Placed, TypeOK
  <2>2. CASE UNCHANGED info
    BY <2>1, <2>2
  <2>3. CASE info' = [info EXCEPT ![zone].cron = FALSE, ![zone].retries = 0]
    <3>1. info'[zone] = [modified |-> info[zone].modified, cron |-> FALSE, retries |-> 0]
          /\ \A y \in Zones \ {zone} : info'[y] = info[y]
      BY <2>1, <2>3 DEF TypeOK, Info
    <3>2. info'[zone] \in Info /\ info'[zone].modified = info[zone].modified
      BY <2>1, <3>1 DEF Bounds, Info
    <3> QED BY <2>1, <3>1, <3>2 DEF Bounds
  <2> QED BY <1>3, <2>2, <2>3 DEF CronEnds
<1>4. ASSUME NEW y \in Zones, Appear(y) \/ Register(y) \/ Visit(y) \/ Write(y)
                              \/ SignLoaded(y) \/ Publish(y)
      PROVE UNCHANGED <<info, asked>>
  BY <1>4 DEF Appear, Register, Visit, Write, SignLoaded, Publish
<1>5. CASE CommandEnds \/ Terminate \/ Tick \/ TickEnds \/ Stamp \/ Read \/ SignerEnds
           \/ UNCHANGED vars
  BY <1>5 DEF CommandEnds, Terminate, Tick, TickEnds, Stamp, Read, SignerEnds, vars
<1> QED BY <1>1, <1>2, <1>3, <1>4, <1>5 DEF Next

(* A file of which the key manager is behind does not have the time that it knows. *)
LEMMA BehindIsSeen ==
  ASSUME Bounds, KeysInv, NEW z \in Zones, NEW v \in 1 .. MaxVersions, Behind(z, v),
         z \in published
  PROVE  NotForgotten(z, v)
<1>1. file[z].version \in Int /\ info[z].modified \in Int /\ v \in Int
  BY VersionsAreNumbers DEF Bounds, KeysInv, Behind
<1> QED BY <1>1 DEF Behind, NotForgotten, Modified

(* A version that the key manager is behind of stays to come, until the signer read it. *)
LEMMA StepNotForgotten ==
  ASSUME Bounds, KeysInv, KeysInv', LooksHaveReasons, [Next]_vars, NEW z \in Zones,
         NEW v \in 1 .. MaxVersions, NotForgotten(z, v)
  PROVE  NotForgotten(z, v)'
<1>0. /\ file[z].version \in Int /\ used[z] \in Int /\ v \in Int
      /\ file'[z].version \in Int /\ used'[z] \in Int
      /\ info[z] # None => info[z].modified \in Int
  BY VersionsAreNumbers, VersionsAreNumbers DEF Bounds, KeysInv, TypeOK, File
<1>1. /\ file[z].version <= file'[z].version
      /\ used'[z] = used[z] \/ used'[z] = file[z].version
      /\ published \subseteq published'
  BY FilesGetNewer DEF KeysInv
<1>2. /\ v <= file[z].version /\ v <= file'[z].version
      /\ z \in published /\ z \in published'
  BY <1>0, <1>1 DEF NotForgotten
<1>3. CASE used[z] >= v
  BY <1>0, <1>1, <1>2, <1>3 DEF NotForgotten
<1>4. CASE z \in asked
  BY <1>0, <1>2, <1>4, NewsIsTold DEF NotForgotten
<1>5. CASE Behind(z, v)
  <2>1. CASE z \in asked'
    BY <1>2, <2>1 DEF NotForgotten
  <2>2. CASE info'[z] # None /\ info'[z].modified = info[z].modified
    BY <1>0, <1>2, <1>5, <2>2 DEF NotForgotten, Behind, Modified
  <2> QED BY <1>5, <2>1, <2>2, NewsIsTold DEF Behind
<1> QED BY <1>3, <1>4, <1>5 DEF NotForgotten

(* A change of a state file that the key manager knows, of a zone that was published, is *)
(* never forgotten, however often the file is written, also between two reads, and       *)
(* whatever cron does: until the signer has read that version or a later one it is asked *)
(* to sign the zone, which it does as long as it runs, or the key manager looks at the   *)
(* file the next time it comes to the zone.  (Of a zone not yet published a change can   *)
(* be forgotten: the signer drops the request before it reads the file.)                 *)
THEOREM ChangesAreNotForgotten ==
  ASSUME Bounds, NEW z \in Zones, NEW v \in 1 .. MaxVersions
  PROVE  Spec => [](Behind(z, v) /\ z \in published => []NotForgotten(z, v))
<1>1. Init => LooksHaveReasons
  BY DEF Init, LooksHaveReasons
<1>2. LooksHaveReasons /\ [Next]_vars => LooksHaveReasons'
  BY StepReasons
<1>3. KeysInv /\ Behind(z, v) /\ z \in published => NotForgotten(z, v)
  BY BehindIsSeen
<1>4. KeysInv /\ KeysInv' /\ LooksHaveReasons /\ [Next]_vars /\ NotForgotten(z, v)
        => NotForgotten(z, v)'
  BY StepNotForgotten
<1> QED BY <1>1, <1>2, <1>3, <1>4, KeysAlways, PTL DEF Spec, SafetySpec

=============================================================================
