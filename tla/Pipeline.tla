------------------------------ MODULE Pipeline ------------------------------
(***************************************************************************)
(* The signing pipeline: a version of a zone is loaded (ZL), reviewed      *)
(* unsigned (RS), signed (ZS), reviewed signed (RS2) and published (PS).   *)
(* The units only talk through the central command (CC): a unit posts an   *)
(* Update, CC turns it into an ApplicationCommand for the next unit.  The  *)
(* contents themselves never travel: the units share three zone trees, and *)
(* every command names a zone and a serial that the receiver mostly        *)
(* ignores.  A signed copy of a zone is one object, which the signed tree  *)
(* and the published tree may both refer to and which the signer rewrites  *)
(* in place.                                                               *)
(***************************************************************************)
EXTENDS Naturals, Sequences

CONSTANTS
  Zones,        \* the zones an operator may add
  FileZones,    \* those whose source is a zone file; the others are transferred
  MaxSerial,    \* bound: the newest serial a source ever offers
  Hooks,        \* number of review hooks of each review server
  MaxAdds,      \* bound: zone_add requests
  MaxRemovals,  \* bound: zone_remove requests
  MaxResigns,   \* bound: re-sign requests of the key manager
  MaxHangups,   \* bound: clients of the review API that do not wait for the answer
  Panics        \* what a panic does: "unwind" (dev profile), "abort" (release profile)

Servers == {"RS", "RS2"}
Units   == {"RS", "ZS", "RS2", "PS"}

\* The units that are a ZoneServer, and answer the clients of the HTTP API.
ZoneServers == Servers \cup {"PS"}

ASSUME PipelineAssumption ==
  /\ Zones # {}
  /\ FileZones \subseteq Zones
  /\ MaxSerial \in Nat
  /\ Hooks \in [Servers -> Nat]
  /\ MaxAdds \in Nat /\ MaxRemovals \in Nat /\ MaxResigns \in Nat
  /\ MaxHangups \in Nat
  /\ Panics \subseteq {"unwind", "abort"}

\* Serial 0 stands for "no serial": an absent SOA, or SignZone's None.
Serial  == 0 .. MaxSerial
Version == Zones \X Serial

\* What a zone object holds: the serial of its SOA and the version its records
\* belong to, 0 when there is no SOA and when the records are no version at all.
Content == [soa : Serial, body : Serial]
Blank   == [soa |-> 0, body |-> 0]

\* A zone tree maps a zone to an object, numbered per zone from 1; 0 is absent.
Tree      == [Zones -> Nat]
EmptyTree == [z \in Zones |-> 0]

UpdateKind ==
  {"Changed", "UnsignedZoneUpdated", "UnsignedZoneApproved", "ResignZone",
   "ZoneSigned", "SignedZoneApproved"}
Update == [kind : UpdateKind, version : Version]

VARIABLES
  known,      \* Center.state.zones: "absent", "bare" (no policy) or "ready"
  poisoned,   \* a panic happened under the lock of Center.state
  registered, \* the zones the zone loader maintains
  active,     \* those of them that are in the tree of unsigned zones
  latest,     \* the newest serial of each zone the loader has committed
  incoming,   \* the serial being transferred into a zone, or 0
  unsigned,   \* the content of each zone in the tree of unsigned zones
  updates,    \* the update channel of the central command
  queue,      \* the command channel of each unit
  pending,    \* pending_approvals: the open tokens of each review server
  issued,     \* how many tokens a review server has made for a version
  approved,   \* last_approvals of each review server
  copies,     \* the signed zone objects of each zone, oldest first
  signed,     \* the tree of signed zones
  published,  \* the tree of published zones
  signer,     \* the signing operation in progress
  dropping,   \* the publication server's copy of the signed tree, to be stored
  dead,       \* the units whose task ended in a panic
  up,         \* the process is running
  spent       \* bounds: adds, removals, re-sign requests and hang-ups so far

\* History, read by the properties alone.
VARIABLES
  announced,  \* how often each review server announced a version as approved
  rejected    \* the signed versions a reviewer rejected

loaderVars == <<registered, active, latest, incoming, unsigned>>
centerVars == <<known, poisoned, spent>>
reviewVars == <<pending, issued, approved, announced, rejected>>
treeVars   == <<copies, signed, published>>
vars == <<loaderVars, centerVars, updates, queue, reviewVars, treeVars,
          signer, dropping, dead, up>>

Phase == {"idle", "lookup", "insert", "collect", "sign"}

IdleSigner ==
  [phase |-> "idle", version |-> <<CHOOSE z \in Zones : TRUE, 0>>,
   source |-> 0, target |-> 0, seen |-> EmptyTree, body |-> 0]

Init ==
  /\ known = [z \in Zones |-> "absent"]
  /\ poisoned = FALSE
  /\ spent = [adds |-> 0, removals |-> 0, resigns |-> 0, hangups |-> 0]
  /\ registered = {}
  /\ active = {}
  /\ latest = [z \in Zones |-> 0]
  /\ incoming = [z \in Zones |-> 0]
  /\ unsigned = [z \in Zones |-> Blank]
  /\ updates = <<>>
  /\ queue = [u \in Units |-> <<>>]
  /\ pending = [r \in Servers |-> [v \in Version |-> {}]]
  /\ issued = [r \in Servers |-> [v \in Version |-> 0]]
  /\ approved = [r \in Servers |-> {}]
  /\ announced = [r \in Servers |-> [v \in Version |-> 0]]
  /\ rejected = {}
  /\ copies = [z \in Zones |-> <<>>]
  /\ signed = EmptyTree
  /\ published = EmptyTree
  /\ signer = IdleSigner
  /\ dropping = [on |-> FALSE, tree |-> EmptyTree]
  /\ dead = {}
  /\ up = TRUE

Msg(k, z, s) == [kind |-> k, version |-> <<z, s>>]
Post(k, z, s) == updates' = Append(updates, Msg(k, z, s))

\* The task of unit u panics, and takes the process along if the build says so.
Panic(u) ==
  \/ "unwind" \in Panics /\ dead' = dead \cup {u} /\ up' = up
  \/ "abort" \in Panics /\ dead' = dead /\ up' = FALSE
-----------------------------------------------------------------------------
(***************************************************************************)
(* The HTTP API and the zone loader                                        *)
(***************************************************************************)

\* Mutant: the zone is handed to the loader without being recorded.
KnownNotRecorded(z, p) == known[z]

\* add_zone and change_policy, the results of both ignored: what the state knows
\* of the zone after a request that names an existing policy (p = "ready") or one
\* that does not exist (p = "bare").
KnownAfterAdd(z, p) == IF known[z] = "ready" THEN "ready" ELSE p

\* ... and the changes they announce: a new zone, a new policy of a zone.
ChangesOfAdd(z, p) ==
  [i \in 1 .. (IF known[z] = "absent" THEN 1 ELSE 0) + (IF p = "ready" THEN 1 ELSE 0)
     |-> Msg("Changed", z, 0)]

\* POST /zone/add: record the zone and its policy, and tell the loader whatever
\* came of it.  A zone file of serial s (0: not loadable) is read and announced
\* before the loader notices that it maintains the zone already; the content read
\* first then stays in the tree.  A transferred zone is only put into the pending
\* set.  (Bound: a transferred zone is added once.)
ZoneAdd(z, p, s) ==
  /\ ~poisoned
  /\ spent.adds < MaxAdds
  /\ z \in FileZones \/ (z \notin registered /\ s = 0)
  /\ spent' = [spent EXCEPT !.adds = @ + 1]
  /\ known' = [known EXCEPT ![z] = KnownAfterAdd(z, p)]
  /\ registered' = IF z \in FileZones /\ s = 0 THEN registered ELSE registered \cup {z}
  /\ IF z \in FileZones /\ s # 0 /\ z \notin registered
     THEN /\ active' = active \cup {z}
          /\ latest' = [latest EXCEPT ![z] = s]
          /\ unsigned' = [unsigned EXCEPT ![z] = [soa |-> s, body |-> s]]
     ELSE UNCHANGED <<active, latest, unsigned>>
  /\ updates' = updates \o ChangesOfAdd(z, p) \o
                  (IF s = 0 THEN <<>> ELSE <<Msg("UnsignedZoneUpdated", z, s)>>)
  /\ UNCHANGED <<poisoned, incoming, queue, reviewVars, treeVars, signer,
                 dropping, dead, up>>

\* POST /zone/<name>/remove: announce the removal, then forget the zone if it is
\* known.  Nothing takes it out of the loader, of a queue or of a zone tree.
ZoneRemove(z) ==
  /\ spent.removals < MaxRemovals
  /\ spent' = [spent EXCEPT !.removals = @ + 1]
  /\ known' = IF poisoned THEN known ELSE [known EXCEPT ![z] = "absent"]
  /\ Post("Changed", z, 0)
  /\ UNCHANGED <<poisoned, loaderVars, queue, reviewVars, treeVars, signer,
                 dropping, dead, up>>

\* An AXFR of a newer version starts: the light-weight zone has no versions, so
\* the old records (and their SOA) are gone for every reader at once.
TransferBegin(z) ==
  /\ z \in registered \ FileZones
  /\ incoming[z] = 0
  /\ latest[z] < MaxSerial
  /\ incoming' = [incoming EXCEPT ![z] = latest[z] + 1]
  /\ unsigned' = [unsigned EXCEPT ![z] = Blank]
  /\ UNCHANGED <<registered, active, latest, centerVars, updates, queue,
                 reviewVars, treeVars, signer, dropping, dead, up>>

\* The transfer breaks off: what was written stays, nobody is told.
TransferFail(z) ==
  /\ incoming[z] # 0
  /\ incoming' = [incoming EXCEPT ![z] = 0]
  /\ UNCHANGED <<registered, active, latest, unsigned, centerVars, updates,
                 queue, reviewVars, treeVars, signer, dropping, dead, up>>

\* The transfer is committed, and the commit announces the new serial.
TransferCommit(z) ==
  LET s == incoming[z] IN
  /\ s # 0
  /\ incoming' = [incoming EXCEPT ![z] = 0]
  /\ latest' = [latest EXCEPT ![z] = s]
  /\ unsigned' = [unsigned EXCEPT ![z] = [soa |-> s, body |-> s]]
  /\ Post("UnsignedZoneUpdated", z, s)
  /\ UNCHANGED <<registered, active, centerVars, queue, reviewVars, treeVars,
                 signer, dropping, dead, up>>

\* Only after the refresh that first filled it, and so after that serial was
\* announced, does a zone move from the pending set into the tree.
Activate(z) ==
  /\ z \in registered \ active
  /\ latest[z] # 0
  /\ unsigned[z].soa # 0
  /\ active' = active \cup {z}
  /\ UNCHANGED <<registered, latest, incoming, unsigned, centerVars, updates,
                 queue, reviewVars, treeVars, signer, dropping, dead, up>>

\* The key manager finds the key set of a zone of the unsigned tree changed.
Resign(z) ==
  /\ z \in active
  /\ spent.resigns < MaxResigns
  /\ spent' = [spent EXCEPT !.resigns = @ + 1]
  /\ Post("ResignZone", z, 0)
  /\ UNCHANGED <<known, poisoned, loaderVars, queue, reviewVars, treeVars,
                 signer, dropping, dead, up>>
-----------------------------------------------------------------------------
(***************************************************************************)
(* The central command                                                     *)
(***************************************************************************)

\* Mutant: a signed zone goes to the publication server without a review.
TargetSkipsReview(k) ==
  CASE k = "UnsignedZoneUpdated" -> "RS"
    [] k \in {"UnsignedZoneApproved", "ResignZone"} -> "ZS"
    [] k \in {"ZoneSigned", "SignedZoneApproved"} -> "PS"

\* Mutant: a loaded zone goes to the signer without a review.
TargetSkipsFirstReview(k) ==
  CASE k \in {"UnsignedZoneUpdated", "UnsignedZoneApproved", "ResignZone"} -> "ZS"
    [] k = "ZoneSigned" -> "RS2"
    [] k = "SignedZoneApproved" -> "PS"

\* The unit an update of each kind becomes a command for.
Target(k) ==
  CASE k = "UnsignedZoneUpdated" -> "RS"
    [] k \in {"UnsignedZoneApproved", "ResignZone"} -> "ZS"
    [] k = "ZoneSigned" -> "RS2"
    [] k = "SignedZoneApproved" -> "PS"

\* Handle one update.  A change goes to every unit, and none acts on it.  The
\* command is forwarded to its unit by a task of main that unwraps the send: a
\* command for a unit that is dead ends the process.
DirectUpdate ==
  /\ updates # <<>>
  /\ LET u == Head(updates) IN
       \/ /\ u.kind = "Changed"
          /\ up' = (dead = {})
          /\ UNCHANGED queue
       \/ /\ u.kind # "Changed"
          /\ queue' = [queue EXCEPT ![Target(u.kind)] = Append(@, u.version)]
          /\ up' = (Target(u.kind) \notin dead)
  /\ updates' = Tail(updates)
  /\ UNCHANGED <<loaderVars, centerVars, reviewVars, treeVars, signer, dropping, dead>>
-----------------------------------------------------------------------------
(***************************************************************************)
(* The review servers RS and RS2                                           *)
(***************************************************************************)

\* The approval that review server r announces.
Approval(r) == IF r = "RS" THEN "UnsignedZoneApproved" ELSE "SignedZoneApproved"

Announce(r, v) ==
  /\ updates' = Append(updates, [kind |-> Approval(r), version |-> v])
  /\ announced' = [announced EXCEPT ![r][v] = @ + 1]

\* The tokens open for a version once its hooks were started, the last one that
\* could not be started being number f (0: none): the failure of a hook removes
\* every token the version has so far.
OpenTokens(open, made, hooks, f) ==
  {made + h : h \in (f + 1) .. hooks} \cup {t \in open : f = 0}

\* Mutant: a version approved before is put up for review again.
ReviewAgain(r, v) == FALSE

\* The version is in last_approvals.
AlreadyApproved(r, v) == v \in approved[r]

\* SeekApproval...: skip a version approved before, approve at once without
\* hooks, else start the hooks with a new token each.
SeekApproval(r) ==
  /\ r \notin dead
  /\ queue[r] # <<>>
  /\ LET v == Head(queue[r]) IN
       \/ /\ AlreadyApproved(r, v)
          /\ UNCHANGED <<updates, pending, issued, announced>>
       \/ /\ ~AlreadyApproved(r, v)
          /\ Hooks[r] = 0
          /\ Announce(r, v)
          /\ UNCHANGED <<pending, issued>>
       \/ /\ ~AlreadyApproved(r, v)
          /\ Hooks[r] > 0
          /\ \E f \in 0 .. Hooks[r] :
               pending' = [pending EXCEPT ![r][v] =
                             OpenTokens(@, issued[r][v], Hooks[r], f)]
          /\ issued' = [issued EXCEPT ![r][v] = @ + Hooks[r]]
          /\ UNCHANGED <<updates, announced>>
  /\ queue' = [queue EXCEPT ![r] = Tail(@)]
  /\ UNCHANGED <<loaderVars, centerVars, approved, rejected, treeVars, signer,
                 dropping, dead, up>>

\* GET .../approve/<token>: the token is spent; the last one approves the version.
Approve(r, v, t) ==
  /\ r \notin dead
  /\ t \in pending[r][v]
  /\ pending' = [pending EXCEPT ![r][v] = @ \ {t}]
  /\ \/ /\ pending[r][v] = {t}
        /\ approved' = [approved EXCEPT ![r] = @ \cup {v}]
        /\ Announce(r, v)
     \/ /\ pending[r][v] # {t}
        /\ UNCHANGED <<approved, announced, updates>>
  /\ UNCHANGED <<loaderVars, centerVars, queue, issued, rejected, treeVars,
                 signer, dropping, dead, up>>

\* GET .../reject/<token>: every token of the version is withdrawn.
Reject(r, v, t) ==
  /\ r \notin dead
  /\ t \in pending[r][v]
  /\ pending' = [pending EXCEPT ![r][v] = {}]
  /\ rejected' = IF r = "RS2" THEN rejected \cup {v} ELSE rejected
  /\ UNCHANGED <<loaderVars, centerVars, updates, queue, issued, approved,
                 announced, treeVars, signer, dropping, dead, up>>

\* A client of the API of a zone server is gone when its request, handled or refused,
\* is to be answered: the server panics over the answer, and whatever waits in its
\* queue is lost.  (A server obeys one command at a time: the publication server
\* answers nobody between the two halves of a publication.)
HangUp(r) ==
  /\ r \notin dead
  /\ r = "PS" => ~dropping.on
  /\ spent.hangups < MaxHangups
  /\ spent' = [spent EXCEPT !.hangups = @ + 1]
  /\ Panic(r)
  /\ UNCHANGED <<known, poisoned, loaderVars, updates, queue, reviewVars, treeVars,
                 signer, dropping>>

\* A request for a server that is dead cannot be forwarded to it.
RequestDead(r) ==
  /\ r \in dead
  /\ up' = FALSE
  /\ UNCHANGED <<loaderVars, centerVars, updates, queue, reviewVars, treeVars, signer,
                 dropping, dead>>
-----------------------------------------------------------------------------
(***************************************************************************)
(* The zone signer                                                         *)
(***************************************************************************)

\* Mutant: sign under the serial that the command names.
SoaAsNamed(v) ==
  IF v[2] # 0 THEN v[2]
  ELSE IF published[v[1]] # 0 THEN copies[v[1]][published[v[1]]].soa
  ELSE 0

\* The serial of the SOA to sign under, for the version a command names: that of
\* the unsigned zone, or of the published copy when re-signing (serial 0).  0 if
\* the zone is not in the tree or has no SOA.
SoaToSign(v) ==
  LET z == v[1] IN
  IF v[2] # 0 THEN (IF z \in active THEN unsigned[z].soa ELSE 0)
  ELSE IF published[z] # 0 THEN copies[z][published[z]].soa
  ELSE 0

\* Take the next SignZone command: whatever serial it names, read the SOA of the
\* zone as it is now.  Without one the command fails.
SignStart ==
  /\ "ZS" \notin dead
  /\ signer.phase = "idle"
  /\ queue["ZS"] # <<>>
  /\ LET v == Head(queue["ZS"]) IN
     signer' = IF SoaToSign(v) = 0 THEN signer
               ELSE [IdleSigner EXCEPT !.phase = "lookup",
                       !.version = <<v[1], SoaToSign(v)>>,
                       !.source = IF v[2] = 0 THEN published[v[1]] ELSE 0]
  /\ queue' = [queue EXCEPT !["ZS"] = Tail(@)]
  /\ UNCHANGED <<loaderVars, centerVars, updates, reviewVars, treeVars, dropping, dead, up>>

\* get_or_insert_signed_zone: load the signed tree.  An object found there is
\* the one to sign into; otherwise the tree read is the one to extend.
FindSignedZone ==
  LET z == signer.version[1] IN
  /\ signer.phase = "lookup"
  /\ signer' = IF signed[z] # 0
               THEN [signer EXCEPT !.phase = "collect", !.target = signed[z]]
               ELSE [signer EXCEPT !.phase = "insert", !.seen = signed]
  /\ UNCHANGED <<loaderVars, centerVars, updates, queue, reviewVars, treeVars,
                 dropping, dead, up>>

\* Mutants: the object is not the one created; the extended tree is not stored.
NextCopyOffByOne(z) == Len(copies[z]) + 2
NotExtended(tree, z, new) == tree

\* The number of the next signed zone object, and a tree extended with an object.
NextCopy(z) == Len(copies[z]) + 1
Extended(tree, z, new) == [tree EXCEPT ![z] = new]

\* ... and store the tree that was loaded, extended with a new empty zone.
InsertSignedZone ==
  LET z == signer.version[1] IN
  /\ signer.phase = "insert"
  /\ copies' = [copies EXCEPT ![z] = Append(@, Blank)]
  /\ signed' = Extended(signer.seen, z, NextCopy(z))
  /\ signer' = [signer EXCEPT !.phase = "collect", !.target = NextCopy(z),
                             !.seen = EmptyTree]
  /\ UNCHANGED <<loaderVars, centerVars, updates, queue, reviewVars, published,
                 dropping, dead, up>>

\* Look up the zone's policy and collect the records to sign, as they are now.
\* Both unwraps panic, the first under the lock of the state.
Collect ==
  LET z == signer.version[1] IN
  /\ signer.phase = "collect"
  /\ signer' =
       IF known[z] # "ready" THEN IdleSigner
       ELSE [signer EXCEPT !.phase = "sign", !.body =
               IF signer.source = 0 THEN unsigned[z].body
               ELSE copies[z][signer.source].body]
  /\ IF known[z] = "ready" THEN UNCHANGED <<dead, up>> ELSE Panic("ZS")
  /\ poisoned' = (poisoned \/ known[z] = "absent")
  /\ UNCHANGED <<known, spent, loaderVars, updates, queue, reviewVars, treeVars,
                 dropping>>

\* No key set, no usable key, or a failure to sign: the zone object stays as it is.
SignFail ==
  /\ signer.phase = "sign"
  /\ signer' = IdleSigner
  /\ UNCHANGED <<loaderVars, centerVars, updates, queue, reviewVars, treeVars,
                 dropping, dead, up>>

\* Commit the signed records to the zone object and announce the serial read at
\* the start.
SignCommit ==
  LET z == signer.version[1]
      s == signer.version[2]
  IN
  /\ signer.phase = "sign"
  /\ copies' = [copies EXCEPT ![z][signer.target] = [soa |-> s, body |-> signer.body]]
  /\ Post("ZoneSigned", z, s)
  /\ signer' = IdleSigner
  /\ UNCHANGED <<loaderVars, centerVars, queue, reviewVars, signed, published,
                 dropping, dead, up>>
-----------------------------------------------------------------------------
(***************************************************************************)
(* The publication server                                                  *)
(***************************************************************************)

\* PublishSignedZone: whatever serial it names, the object that the signed tree
\* holds for the zone now goes into the published tree.
PublishSwap ==
  /\ "PS" \notin dead
  /\ ~dropping.on
  /\ queue["PS"] # <<>>
  /\ LET z == Head(queue["PS"])[1] IN
       \/ /\ signed[z] = 0
          /\ UNCHANGED <<published, dropping>>
       \/ /\ signed[z] # 0
          /\ published' = [published EXCEPT ![z] = signed[z]]
          /\ dropping' = [on |-> TRUE, tree |-> [signed EXCEPT ![z] = 0]]
  /\ queue' = [queue EXCEPT !["PS"] = Tail(@)]
  /\ UNCHANGED <<loaderVars, centerVars, updates, reviewVars, copies, signed,
                 signer, dead, up>>

\* ... and the signed tree it loaded, without the zone, is stored back.
DropSigned ==
  /\ dropping.on
  /\ signed' = dropping.tree
  /\ dropping' = [on |-> FALSE, tree |-> EmptyTree]
  /\ UNCHANGED <<loaderVars, centerVars, updates, queue, reviewVars, copies,
                 published, signer, dead, up>>
-----------------------------------------------------------------------------
Operator ==
  \E z \in Zones :
    \/ \E p \in {"bare", "ready"}, s \in Serial : ZoneAdd(z, p, s)
    \/ ZoneRemove(z)

Loader ==
  \E z \in Zones :
    TransferBegin(z) \/ TransferFail(z) \/ TransferCommit(z) \/ Activate(z)

Reviewer ==
  \E r \in Servers, v \in Version : \E t \in pending[r][v] :
    Approve(r, v, t) \/ Reject(r, v, t)

Client == \E r \in ZoneServers : HangUp(r) \/ RequestDead(r)

Signer ==
  \/ SignStart \/ FindSignedZone \/ InsertSignedZone
  \/ Collect \/ SignFail \/ SignCommit

Next ==
  /\ up
  /\ \/ Operator
     \/ Loader
     \/ \E z \in Zones : Resign(z)
     \/ DirectUpdate
     \/ \E r \in Servers : SeekApproval(r)
     \/ Reviewer \/ Client
     \/ Signer
     \/ PublishSwap \/ DropSigned

Spec == Init /\ [][Next]_vars

\* The units run their loops for as long as the process does, the maintainer
\* handles its events, and a signing operation ends.  Nothing obliges an operator
\* to ask, a primary to answer, a reviewer to decide or a key set to change.
Fairness ==
  /\ WF_vars(up /\ DirectUpdate)
  /\ \A r \in Servers : WF_vars(up /\ SeekApproval(r))
  /\ WF_vars(up /\ Signer)
  /\ WF_vars(up /\ PublishSwap) /\ WF_vars(up /\ DropSigned)
  /\ \A z \in Zones : WF_vars(up /\ Activate(z))

FairSpec == Spec /\ Fairness
-----------------------------------------------------------------------------
(***************************************************************************)
(* Properties                                                              *)
(***************************************************************************)

CenterType ==
  /\ known \in [Zones -> {"absent", "bare", "ready"}]
  /\ poisoned \in BOOLEAN
  /\ spent \in [adds : 0 .. MaxAdds, removals : 0 .. MaxRemovals,
                resigns : 0 .. MaxResigns, hangups : 0 .. MaxHangups]

LoaderType ==
  /\ registered \subseteq Zones
  /\ active \subseteq Zones
  /\ latest \in [Zones -> Serial]
  /\ incoming \in [Zones -> Serial]
  /\ unsigned \in [Zones -> Content]

ChannelType ==
  /\ updates \in Seq(Update)
  /\ queue \in [Units -> Seq(Version)]

ReviewType ==
  /\ pending \in [Servers -> [Version -> SUBSET Nat]]
  /\ issued \in [Servers -> [Version -> Nat]]
  /\ approved \in [Servers -> SUBSET Version]
  /\ announced \in [Servers -> [Version -> Nat]]
  /\ rejected \subseteq Version

\* The trees that exist are the two of Center and the two snapshots of a tree that
\* the signer and the publication server hold between their load and their store.
TreeType ==
  /\ copies \in [Zones -> Seq(Content)]
  /\ signed \in Tree
  /\ published \in Tree
  /\ dropping \in [on : BOOLEAN, tree : Tree]

SignerType ==
  signer \in [phase : Phase, version : Version, source : Nat, target : Nat,
              seen : Tree, body : Serial]

\* Whatever refers to a signed zone object refers to one that exists.
Object(z) == 0 .. Len(copies[z])
ReferencesExist ==
  /\ \A z \in Zones :
       /\ signed[z] \in Object(z) /\ published[z] \in Object(z)
       /\ signer.seen[z] \in Object(z) /\ dropping.tree[z] \in Object(z)
  /\ signer.source \in Object(signer.version[1])
  /\ signer.target \in Object(signer.version[1])

\* Every variable has its type, and no tree and no signing operation refers to a
\* zone object that does not exist.
TypeOK ==
  /\ CenterType /\ LoaderType /\ ChannelType /\ ReviewType
  /\ TreeType /\ SignerType /\ ReferencesExist
  /\ dead \subseteq Units /\ up \in BOOLEAN

\* What a reader of zone z finds in the published tree.
PublishedSoa(z) == IF published[z] = 0 THEN 0 ELSE copies[z][published[z]].soa

\* A version that a review server has approved has no open token left, whatever
\* order reviews of several versions, repeated reviews of one, hook failures and
\* reviewers' answers came in: nothing can approve, or reject, it a second time.
ApprovalSettled ==
  \A r \in Servers : \A v \in approved[r] : pending[r][v] = {}

\* With hooks, a review server passes each version on at most once, and exactly
\* those that it keeps as approved: no repeated load, re-signing or late answer
\* makes the pipeline sign or publish on the strength of one approval twice.
AnnouncedOnce ==
  \A r \in Servers : Hooks[r] > 0 =>
    \A v \in Version : announced[r][v] = (IF v \in approved[r] THEN 1 ELSE 0)

\* Review server r announced some version of zone z as approved.
Passed(r, z) == \E s \in Serial : announced[r][<<z, s>>] > 0

\* No zone is ever published of which not at least one unsigned version and one
\* signed version were announced as approved: no path through the updates, the
\* shared trees, re-signing or a stale store of a tree leads around a review.
PublishedPassedReview ==
  \A z \in Zones : published[z] # 0 => \A r \in Servers : Passed(r, z)

\* Signing finds its zone forgotten under the lock of Center.state, and so makes
\* the state unusable for good, only if a zone was removed: a request to add a
\* zone, successful or not, never lets the loader run ahead of the state.
PoisonNeedsRemoval == poisoned => spent.removals > 0

\* What is published of a zone ("the latest published contents") never goes back
\* to an older serial, though several versions may be under way at once and every
\* unit reads the trees later than the command that it obeys was made.
PublishedNeverGoesBack ==
  [][\A z \in Zones : PublishedSoa(z)' = 0 \/ PublishedSoa(z)' >= PublishedSoa(z)]_vars

\* The command to publish the version waits for a publication server that is dead.
DiesUnpublished(v) ==
  "PS" \in dead /\ \E i \in 1 .. Len(queue["PS"]) : queue["PS"][i] = v

\* A zone of which a signed version was approved comes to be published, as long as
\* the process lives, unless the publication server dies of an answer while the
\* command to publish it waits: whatever else dies or hangs up, the process ends or
\* the zone is published.
ApprovedIsPublished ==
  \A v \in Version :
    v \in approved["RS2"] ~> published[v[1]] # 0 \/ ~up \/ DiesUnpublished(v)

\* "If review is required and the hook fails, the zone will not be propagated":
\* a published version that a reviewer has rejected was approved as well, in
\* another review.
RejectedNotPublished ==
  \A z \in Zones :
    LET v == <<z, PublishedSoa(z)>> IN
    published[z] # 0 /\ v \in rejected => v \in approved["RS2"]

\* "Move the zone from the signed collection to the published collection": what
\* the signed tree holds for a zone is only ever replaced after it was published.
SignedLeavesByPublishing ==
  [][\A z \in Zones : signed[z] # 0 /\ signed'[z] # signed[z]
                        => published[z] = signed[z]]_vars

\* state.zones.get(zone_name).unwrap(): a zone being signed is in the state, so that
\* nothing panics while it holds the lock of the state.
StateNeverPoisoned == ~poisoned

\* What the pipeline shows of itself to a reader of the published zones.
Reader == INSTANCE PublishedZone WITH
  loaded <- latest,
  unsignedOk <- {z \in Zones : Passed("RS", z)},
  signedOk <- {z \in Zones : Passed("RS2", z)},
  found <- {z \in Zones : published[z] # 0},
  shown <- [z \in Zones |-> PublishedSoa(z)]

\* The pipeline keeps what PublishedZone promises: every step of it loads a serial,
\* lets a zone pass one of its reviews after the one before, changes what the reader
\* finds of one zone that has passed both, or does none of this.
KeepsPromises == Reader!Spec
=============================================================================
