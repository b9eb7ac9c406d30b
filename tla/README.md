# A verification development of nameshed (Cascade)

nameshed, which calls itself Cascade in its code, is a DNSSEC signing pipeline:
it loads zones, has them reviewed, signs them, has the result reviewed, and
publishes it.  This directory holds TLA+ models of it, the TLC configurations
that check them, and proofs of their main properties.  Paths below are relative
to `src/src/`.

## 1. Inventory

### The parts, their state and operations

| part | code | state | operations |
|---|---|---|---|
| Center | `center.rs` | the known zones, the policies, the TSIG store (one mutex); three zone trees (unsigned, signed, published; each swapped as a whole) | `add_zone`, `remove_zone`, delayed saves |
| Zone state | `zone/mod.rs` | per zone: the version of its policy, a pending save | `change_policy`, delayed and immediate saves |
| Policies | `policy/mod.rs` | latest version, deletion mark, set of zones using it | loaded at the first start (`reload_all`); the requests to reload and to show them are `todo!()` |
| HTTP API (HS) | `units/http_server.rs` | none | zone add/remove/list/status, the review answers |
| Central command (CC) | `targets/central_command.rs`, `manager.rs` | the channel of updates | one update becomes one command for one unit |
| Zone loader (ZL) | `units/zone_loader.rs` | a bounded channel of committed versions | register a zone, refresh on NOTIFY, announce a commit |
| Zone maintainer | `zonemaintenance/maintainer.rs`, `types.rs` | pending and active zones, refresh state per zone, timers, a bounded event channel | refresh timers, NOTIFY, SOA query, XFR, expiry |
| Light-weight zone | `common/light_weight_zone.rs` | one unversioned tree of records | rewritten in place by a transfer |
| Review servers (RS, RS2) | `units/zone_server.rs` | open tokens and past approvals, per version | seek approval, approve, reject |
| Zone signer (ZS) | `units/zone_signer.rs` | one signing operation at a time; a ring buffer of statuses | sign a version, re-sign the published copy |
| Publication server (PS) | `units/zone_server.rs` | none | move a zone from the signed to the published tree |
| Key manager (KM) | `units/key_manager.rs` | per zone: times and retries of the key-set tool | cron, detect a changed key set, request re-signing |
| Saved state | `state/`, `zone/state/`, `tsig/file/`, `policy/file/`, `main.rs` | a file for the state, one per zone, one for the TSIG keys | load at start, save 5 s after a change and at exit |
| TSIG store | `tsig/mod.rs` | keys in memory and in a file | import, generate, remove, reload |
| Configuration | `config/` | settings from file, environment and arguments | load, reload |
| Logging, metrics, network helpers, client | `log.rs`, `metrics.rs`, `common/net.rs`, `cli/`, ... | - | - |

### How they interact

The units are tasks that never call each other.  A unit posts an `Update`; CC
takes updates one at a time and turns each into an `ApplicationCommand` on the
channel of another unit, by way of a forwarder task in `main`:

    ZL --UnsignedZoneUpdated--> RS --UnsignedZoneApproved--> ZS
       --ZoneSigned--> RS2 --SignedZoneApproved--> PS
    KM --ResignZone--> ZS        HS --RegisterZone--> ZL

The messages name a zone and a serial.  The contents are in the three trees of
Center, which several units load, copy, change and store without a lock, and in
the zone objects that the trees refer to.  So what a message is about and what its
receiver finds in the trees may be two versions of a zone.

### What is hard

* A message names a version, but its receiver reads the tree as it is later
  (`zone_signer.rs:252`, `zone_server.rs:355`).
* Load, change and store of a tree by two units at once (`zone_server.rs:380`,
  `zone_signer.rs:692`), and of the set of active zones (`maintainer.rs:313`).
* A signed zone is one object, shared between the signed and the published tree
  and re-signed in place.
* Repeated announcements, failed hooks, late or repeated answers of reviewers.
* An unwrap that kills a unit, poisons the lock of the state, or ends the process
  (`zone_signer.rs:324`, `zone_server.rs:503`, `manager.rs:190`).
* Panics: the release build aborts the process (`Cargo.toml:122`), a development
  build unwinds the task and leaves locks poisoned.  The models have both.
* Restarts: what is saved, when, and what the load restores.
* Stopping: the HTTP server goes on serving while the units are terminated and the
  state is saved (`main.rs:174`).
* Bounded channels that are sent to by the task that drains them.

`PROJECT.json` lists each hazard at its line with the properties aimed at it.

### What makes each part correct

* Pipeline: nothing is published around a review; what is approved is approved
  once and for all; published contents do not go back; an approved version gets
  published; a signed zone leaves the signed tree only by being published; signing
  never finds its zone forgotten.
* Zones and policies: a policy lists exactly the zones that use it, also after a
  reload and a restart; what was changed is on disk eventually; a start never
  fails on what an earlier run saved.
* Maintainer: every secondary zone keeps a refresh timer or an expiry; no zone
  drops out of the active set; a NOTIFY is not lost; the run loop never waits on
  itself.
* Signer: every record is signed by exactly one thread; a status entry is found
  for every operation that runs.
* Key manager: a failed cron command is retried, a changed key set leads to
  re-signing.
* TSIG store: a key in use is not removed, a reload loses no key.

## 2. Plan

| order | module | what it models | state |
|---|---|---|---|
| 1 | `Pipeline` | CC, RS, RS2, ZS, PS and what they need of ZL, KM, HS and Center | checked; its safety properties proved |
| 2 | `Registry` | Center, zone state and policies, delayed saves, stop, crash and restart | checked; its safety properties proved |
| 3 | `PublishedZone` | abstract specification: what the pipeline promises to a reader of the published zones | `Pipeline` implements it (proved) |
| 4 | `Refresh` | the zone maintainer and the loader: pending and active sets, timers, NOTIFY, transfers, expiry, locks and bounded channels | checked; its safety properties proved |
| 5 | `Signing` | the inside of a signing operation: status, division over threads, channel and storing task | checked; its safety properties proved |
| 6 | `KeySets` | the key manager's ticks, cached files, cron retries | checked; its safety properties proved |
| 7 | `TsigStore` | import, generation, removal, reload and saving of TSIG keys | checked; its properties proved |
| 8 | `Settings` | sources of settings, contents of policies, saves and starts | checked; its properties proved |
| 9 | `Services` | modules 5 to 8 side by side | checked; its safety properties proved from those of the parts |
| 10 | proofs | what each disagreement of section 9 needs, as a theorem that without it the property holds: `OnlyRemovalPoisons`, `OnlyResigningGoesBack`, `OnlyOverlapsUndo`, `OnlyOvertakingPublishesRejected`, `OnlyOverlapsLoseZones`, `ScratchLivesAreConsistent`, `OnlyLateOrInconsistentChangesAbortStops`; and what each liveness property rests on (section 8) | proved |
| next | composition | the death of a unit before an orderly stop (`main.rs:182`) | open |

Each module has constants, those with assumptions name them, and an `MC` module
holds its instances (`MCServices` that of `Services`); where there are theorems
they are in a `...Proofs` module.  No module has a `RECURSIVE` operator.

## 3. Pipeline

### State and actions

| variables | code |
|---|---|
| `known`, `poisoned` | `Center.state`: is a zone there, has it a policy; the mutex is poisoned |
| `registered`, `active`, `latest`, `incoming`, `unsigned` | the loader's zones, those in `unsigned_zones`, the serial last committed, the transfer going on, the content readers find |
| `updates`, `queue` | `Center.update_tx`; the command channel of each unit |
| `pending`, `approved` | `pending_approvals`, `last_approvals` of each review server; `issued` numbers the tokens |
| `copies`, `signed`, `published` | the signed zone objects; the trees `signed_zones`, `published_zones` |
| `signer`, `dropping` | where `sign_zone` is and what it has read; the tree that PS will store back |
| `dead`, `up` | units whose task panicked; the process runs |
| `announced`, `rejected`, `spent` | history and bounds |

A unit handles one command at a time, so an action is a handler, cut where the
handler loads or stores something that others share: `sign_zone` is `SignStart`
(SOA), `FindSignedZone` and `InsertSignedZone` (load and store of the signed tree),
`Collect` (policy and records), `SignFail` or `SignCommit`; publishing is
`PublishSwap` and `DropSigned`.  `DirectUpdate` is CC; `SeekApproval`, `Approve`,
`Reject` the review servers; `ZoneAdd`, `ZoneRemove` the HTTP handlers up to the
loader; `TransferBegin`, `TransferFail`, `TransferCommit`, `Activate` what loader
and maintainer do that the pipeline sees; `Resign` the key manager; `HangUp` is
the death of a zone server whose client is gone when the answer is ready, `RequestDead`
a command for a unit that died: `/ps/`, `/rs/` and `/rs2/` are routed to the same code (`http_server.rs:103`), so
that PS dies of it as the review servers do, and the command it has yet to handle waits
for good unless the next one ends the process.  `PROJECT.json` maps
each definition to its lines.

### Abstractions

* A zone's content is the serial of its SOA and the version its records are from.
* The channel to the forwarder and the forwarder itself are merged with CC; the
  review API's answers are handled without the channel in between (a stale token
  has no effect); the loader's channel of commits is merged with the commit
  (`Refresh` will have it).  `Changed` is ignored by every unit, but forwarding it
  to a dead one ends the process.
* A transfer is an AXFR into the unversioned light-weight zone; the signed zones are
  versioned (`manager.rs:124`), so that `SignCommit` is one step.
* The policy lookup and the collection of records are one step, as are the load of
  the signed tree and the store of the published one in `PublishSwap`: PS alone
  writes the latter, and nothing the properties speak of lies in between.
* A zone server answers a client between two commands, so that PS does not die inside
  `on_publish_signed_zone_cmd`.
* A transferred zone is added once; NOTIFY and expiry are in `Refresh`, shutdown in
  `Registry`.

### What it implements

`PublishedZone` is the pipeline as a reader of the published tree may think of it:
serials are loaded in growing order, a zone passes the review of its unsigned and then
that of its signed contents, and only then does the reader find it, with a serial that
was loaded or with none while contents are being replaced.  There are no channels,
units, tokens, trees or shared objects in it.  `KeepsPromises` at the end of `Pipeline`
is the refinement: what passed a review is what the history variable `announced` says,
the reader finds what is in `published` with the serial of the object the tree refers
to.  That the reader may be shown an older serial again is part of the promise on
purpose: that is what re-signing does (section 9, `rollback`).

## 4. Registry

### State and actions

| variables | code |
|---|---|
| `zones`, `policyOf`, `policies`, `users` | `State.zones`, `ZoneState.policy`, the keys of `State.policies`, `Policy.zones` |
| `made` | numbers the `Zone` objects made for a name: a removed zone's object lives on in its save task |
| `stateEnqueued`, `enqueued` | `State.enqueued_save`, `ZoneState.enqueued_save` of each object |
| `client` | how far the handler of a request is |
| `phase`, `left` | `main`: up, closing (units terminated), persisting (the last state is built), saving (the zones left to save), stopped, down after a crash, refused to start |
| `stateWrites`, `zoneWrites` | contents built and being written, each by a delayed save's task or by the main thread |
| `stateFile`, `zoneFile` | the files |
| `poisoned` | the mutex of the state is poisoned |
| `born`, `clean`, `meanwhile`, `lost`, `overlaps`, `spent` | history and bounds |

`AddZone`, `MarkZone` and `ChangePolicy` are the three parts of `zone_add`, each
under its own lock, so that another client's request may come between any two of
them.  `RemoveZone` and `TakeZone` are the two parts of `remove_zone`: it sends its
change without a lock and takes the zone under it later, by when the process may be
stopping (`meanwhile` has the zones that went once the last state was built);
`RemoveTooLate` is a removal that cannot send.  `WakeState` and `WakeZone` are the delayed
tasks when they build the contents, `LandState` and `LandZone` when the write ends.
`StartFromScratch`, `StartFromFile`, `StartRefused`, `Stop`, `SaveNow`, `ListZones`,
`SaveStateNow`, `SaveFails` and `Exit` are `main`: the main thread builds and writes the
state, lists the zones when that is written, and builds and writes one zone after the
other, while handlers and delayed saves go on beside it; `Crash` ends the process between
any two steps.  A failing `expect`, `assert!` or `unwrap` under a lock is `Panic`:
the process dies, or the lock is poisoned.

### Abstractions

* A policy is its name.  Nothing reloads policies once the process runs (the
  request is a `todo!()`), nothing sets `mid_deletion`, and a policy's contents have
  no bearing on what is linked or saved.
* A crash is one of the process: files that were replaced stay replaced.
* Two writes under way with the same contents for the same file count as one.
* A write may begin while another of the same file is under way, or an older object of the
  zone has yet to be saved; `overlaps` counts that, and `MaxSlips` bounds it together with
  the writes that fail.  A save
  starts five seconds after its change and writes a small file, so that this is rare, but
  nothing in the code prevents it: `AddedIsListed`, `ZoneFilesSettle`, `StoppedIsSaved`
  and `CleanStopRestarts` hold where no write was out of turn in that life of the process.
  Otherwise the older contents may be what remains, also after an orderly stop (section 9).
* The zones' files of a process that crashed before its first save of the state may be
  there in the beginning (`LeftOver`).
* Behind a poisoned lock it does not matter what a panic left half done.
* The TSIG store's save in between and the configuration in the state file are left
  out; a request to remove an unknown zone changes nothing.

## 5. Refresh

### State and actions

| variables | code |
|---|---|
| `primary`, `outage` | what the sources offer, and whether primaries answer (outside of the code) |
| `soa`, `expired`, `filled` | the zone objects made for each name, with their serial; the zones marked as expired; history: the objects that were filled |
| `pending`, `tree` | `pending_zones`; `Center.unsigned_zones` (`member_zones`) |
| `tracked`, `timers` | `time_tracking` with the status of each zone; the refresh timers of the run loop |
| `events`, `commits` | the maintainer's event channel; the loader's `zone_updated` channel |
| `loader`, `loop`, `task` | where the loader's task, the run loop, and each spawned refresh task is, and what it holds |
| `ahead` | the order in which actors wait for the lock of `pending_zones` |
| `up`, `spent` | the process runs; bounds |

The actions are the parts of a task between two awaits that matter: a lock to be
acquired, a message to be sent into a channel that may be full, an answer of a primary.
Locks are not variables but follow from where the tasks are: `KeepsPending` and
`KeepsTimes` name the places in which a task holds the read lock of `pending_zones` and
the write lock of `time_tracking`.  `pending_zones` is a tokio lock, which is fair: no
actor gets past one that came before.  `ahead` has the pairs of waiting actors, one of
them a writer, of which the first came first (`Arrives`); a reader waits for the writers
that came before it (`PendingReadable`), a writer for everybody who did
(`PendingWritable`).  Registering a zone is
`RegisterSecondary`, `InsertPending`, `TellMaintainer`, `StoreInserted`, or the same
with `RegisterPrimary`, `InsertPrimary`; the copy of the tree is taken in the first and
stored in the last.  `LockAdded`, `Track`, `LoadTree`, `StoreActive` are
`on_zone_added`; `Begin` to `ScheduleRetry` are `refresh_zone_and_update_state`.

### Abstractions

* Time is left out: an armed timer may fire whenever the run loop has no event, and a
  retry may find the zone expired at any failure.
* A zone has one primary; `MIN_DURATION_BETWEEN_ZONE_REFRESHES` is 0, so that the check
  of a zone's age never skips a refresh.
* A local change only makes the run loop notify others, which touches nothing here;
  the task for it is not modelled.
* A NOTIFY of an older serial and one for an unknown zone go no further
  (`LookupNotified`); `zone_status`, diffs and XFR out have no bearing on the state.
* A panic of the run loop leaves the rest running (`dead`) or ends the process.

## 6. The parts checked together in `Services`

They share no state with each other: a behaviour is one of one part while the others
are at rest, so one run checks four modules.  `Services` instantiates the modules that
hold the proofs about each part, which extend those of the parts, so that its own proofs
can cite their theorems.

`TsigStore`: `Put` is `import_key` and `generate_key`, `Remove` is `remove_key`, a
reload reads the file (`ReloadRead`) before it takes the lock (`ReloadApply`).  A delayed
save is a task that wakes (`Wake`), takes its snapshot under the lock if it still is the
enqueued one (`Snapshot`) and writes it (`Write`).  Nothing in the repository calls the
operations yet, so they come in any order, and the set of zones that use a key, a public
field that nothing sets, changes freely.  An observation the model keeps: merging an
entry of the file into a key replaces the key but not the copy of its secret, so that the
next save writes the old secret back (`ParseInto`, `tsig/file/v1.rs:106`).

`Signing`: an operation is walked through its stages; `Split` reports the number of
threads, `Open` waits for the write lock of the signed zone and starts them with the
chunks of `determine_signing_concurrency`, threads sign and send one owner at a time, the
storing task takes what they sent, and only after all of that comes `Commit`.  A failed
thread makes the operation end before the storing task does, which then keeps the write
lock of the zone for a while (`locked`).  The statuses are the ring buffer, searched
from its newest entry.  An operation that fails leaves its status unfinished.

`KeySets`: `Tick` takes the zones of the unsigned tree, `Visit` decides for each what to
do, `Stamp` and `Read` are the two reads of a state file, `Looked` puts the result in
place, `CronEnds` the end of the cron command.  The file's owner, the external program
`dnst`, may write at any moment; it is assumed to replace the file as a whole, as the
key manager unwraps its parse.  The modification time is the number of writes.  Of the
signer it has when it reads the file: `SignLoaded` for a version that was loaded,
`SignZone` for a request of the key manager, which finds no zone to sign if it was not
published (`Publish`), and is then dropped before the file is read.

`Settings`: each setting has a default and three sources.  `Overrides` is `Config::init`,
`WithFile` and `WithState` what a load replaces, `Value` the precedence, `Kept` what a
save keeps.  Policies have contents here and `StartFromState` brings the state file and
the files of the zones together.  Removal and change of a zone's policy are possible
after a restart too, where the code panics (`Registry` has that): the model allows more
than the code.  Saves come at any time, so that the files may be of any different age.

## 7. What the runs show

All passing runs check every reachable state.  `CHECK_DEADLOCK` is off: requests,
starts and serials are bounded, a process may end, and a start may be refused.

| run | instance | shows |
|---|---|---|
| `operator` | a file zone and a transferred zone, 3 adds, a removal, a re-signing, no hook before and two after signing | an approved version has no open token (`ApprovalSettled`); each approval is announced once (`AnnouncedOnce`); nothing is published around a review (`PublishedPassedReview`); only a removal lets signing run ahead of the state (`PoisonNeedsRemoval`); `PublishedZone` is implemented (`KeepsPromises`) |
| `progress` | 1 zone, 3 serials, no re-signing, a hook per server, a client of any zone server that hangs up | `operator`'s properties but the type invariant and `PoisonNeedsRemoval`, and: published serials never go back (`PublishedNeverGoesBack`), an approved signed version gets published, unless the publication server died with the command (`ApprovedIsPublished`) |
| `rejected`, `lost_signed`, `rollback`, `forgotten` | smallest instances | the disagreements of section 9 |
| `registry` | 1 zone, 2 policies, 2 clients, 3 requests, 2 starts, a crash, a write that fails or is out of turn in each life, a zone file left over | `NoPhantomUsers`, `KnownPolicies`, `ScratchLifeConsistent` for what is in memory; `AddedIsListed`, `ZoneFilesSettle` for the files of a running process; what an orderly stop leaves on disk is what the process knew, but for zones removed after the last state was built (`StoppedIsSaved`), and the next start misses the file of no other zone (`CleanStopRestarts`); a zone's policy gets to its file (`PolicyReachesDisk`) |
| `registry_restart`, `registry_stop` | smallest instances | the disagreements of section 9 |
| `refresh` | a transferred zone and a zone from a file, 2 registrations, 2 serials, a timer task, a NOTIFY task, channels of one place | a zone that is pending or served is refreshed again (`RefreshGoesOn`); the status that makes NOTIFYs be ignored does not stay (`NotifyStatusIsBrief`); a zone is served empty only if it was added again (`EmptyOnlyIfReAdded`); the actors get stuck in two ways alone, on a full channel each (`StuckNeedsFullChannel`); a pending zone comes to be served (`PendingIsServed`) |
| `lost_zone` | smallest instance | the disagreement of section 9 |
| `services` | see below | a changed TSIG key has a save to come (`TsigSaveIsComing`), keys in use stay (`TsigUsedKeysStay`); each owner name is signed exactly once (`SignedExactlyOnce`), the status found is that of the operation (`SigningStatusFollows`), operations end (`SigningEnds`); no stale cache of a key set (`CacheNeverStale`), cron gives up (`CronGivesUp`), a changed key set of a published zone is read by the signer (`KeyChangesReachTheSigner`); overrides are not saved (`OverridesAreNotSaved`), zones use the latest policy (`ZonesUseLatest`) |

Bounds.  Three serials let one version be published while a second is reviewed and
a third is loaded, the most that the two reviews and the publication keep apart; two
zones are what a lost update of a tree needs, and what is proved below holds for any
number.  Two hooks are the least for which a token can outlive another.  In the
registry a left over file, an addition, a crash and a second start are what it takes to
load a zone's file that names a policy unknown to the state file (a mutant of
`RestoredPolicies` needs exactly that); two clients and three requests let a zone be added,
removed and added again, or moved between policies, with two handlers under way.  The
properties of the files are about each zone's file by itself and are proved for any number
of zones.  `MaxSlips = 1` is one write per life that fails or is out of turn: the
properties of the files need a life without, the others hold in spite of it.

In `refresh`, two registrations are two zones or one zone twice, which is what the
loader's tree and the run loop's need to meet.  A channel of one place is full after one
message, which takes ten in the code; a timer's task and a NOTIFY's task for the same zone
can overlap.  `services` has two delayed saves and one key with two secrets; threads that
share four or five owner names three ways with a remainder, and fewer two ways or not,
with a channel of one place and two statuses kept of two zones; one zone with three
versions of a key set and a retry of cron, as the properties of a key set are about one
zone; one zone, two policies of two versions, and two settings, of which every source
gives one and only some give the other.

Every property has a mutant, a plausible slip in a mapped definition, under which the
run fails.

Fairness.  `Pipeline` assumes weak fairness of CC, the review servers' command
handling, the signer, PS, and the maintainer's activation of a filled zone: each is a
loop in a task of its own that takes the next command as soon as it is free, and the
runtime runs every task that can run (`zone_server.rs:257`, `zone_signer.rs:237`).
Nothing is assumed of operators, primaries, reviewers, key sets, or of a transfer.
`Registry` assumes weak fairness of a request's handler once it was accepted, and of
the delayed tasks and their writes; nothing of `main`, of requests or of crashes.
`Refresh` assumes weak fairness of the loader, the run loop and each refresh task, and
strong fairness of the timers of transferred zones: a timer is polled only when there is
no event, and stays armed.  That an outage ends is the premise of the property, not an
assumption.  `Signing` assumes it of the operation, the threads and the storing task;
`KeySets` of the task's steps, strong fairness of its tick beside commands (`select!`
picks among what is ready at random), and of the signer as long as it runs, but not of
reviews and publications.  Nothing is assumed of commands
or of the program that owns the files.
The conclusion of each liveness property names the ways out that the code has: the
process ended, was stopped or panicked, a write failed, a zone expired, the actors are
stuck on a full channel.

## 8. What is proved

For all values of the constants: any number of zones, policies, clients, hooks, serials,
requests and crashes, both builds; any number of owners, threads, saves, settings and
retries.  `PipelineProofs`, `RegistryProofs` and `RefreshProofs` use the named
assumptions `PipelineAssumption`, `RegistryAssumption` and `RefreshAssumption`.  The
modules that `Services` instantiates have none: what their theorems assume of constants
(`Sizes`, `Rooms`, `Bounds`, `TaskNames`: bounds are naturals, there are a thread, a place
for a status and a try of cron, `None` is no save and no information; `OperationsAreNeverStuck`
needs a place in the channel too) is a hypothesis of theirs, and
`ServicesAssumption` is all of these.

| theorem | property | argument |
|---|---|---|
| `Pipeline`: `TypeCorrect` | `TypeOK` | by action; includes that trees only refer to objects that exist, for which the snapshots in `signer.seen` and `dropping.tree` have to be typed too |
| `ApprovalsAreSettled`, `ApprovalsAreAnnouncedOnce` | `ApprovalSettled`, `AnnouncedOnce` | proved together (`ReviewInv`): a second announcement would need an open token of an approved version, and tokens are only opened for versions that are not |
| `NoWayAroundReview` | `PublishedPassedReview` | `GateInv`: at every stage behind a review (updates, commands, open tokens of RS2, the signing operation, the published tree) the zone passed that review; a re-signing takes its SOA from a published zone, which passed both |
| `OnlyRemovalPoisons` | `PoisonNeedsRemoval` | `KnownInv`: until a removal, the state knows every zone of the loader.  It needs that whatever names a zone, in any queue or review, was loaded (`FlowInv`), and that only the loader's zones are (`LoaderFlow`) |
| `SerialsWereLoaded` | - | `SerialInv`: the unsigned zone has the newest serial loaded or none, and no signed object nor operation a newer one |
| `PipelineKeepsPromises` | `KeepsPromises` | step by step, `PublishedZone` under the mapping: a load of `SerialInv`'s newest serial is `Load`; an announced approval is `PassUnsigned` or `PassSigned`, allowed by `FlowInv` and `GateInv`; what the reader finds changes with a publication, and also when the signer writes into the object that is published, both of which are `Show` |
| `SignedTreeHoldsTheNewest` | - | `NewestInv`: a lost or stale store of the signed tree can make a zone drop out of it, but never bring an older object back |
| `OnlyResigningGoesBack` | `PublishedNeverGoesBack` | assumes that nothing is signed again, as `rollback` shows it must.  Every command then names a serial (`NamingInv`), so that the signer takes its SOA from the unsigned zone, which has the newest serial loaded: whatever version it was told to sign, nothing of the zone is newer than what it signs, or than what its newest object holds (`OrderInv`).  With `NewestInv`, what is published is that object |
| `OnlyOverlapsUndo` | `SignedLeavesByPublishing` | assumes that the signer and the publication server do not both have a copy of the signed tree in their hands (`CopiesOverlap`), as `lost_signed` shows it must: a copy then stays what the tree is, but for the zone just published (`CopiesInHand`) |
| `OnlyOverlapsForgetApproved` | the safety part of `ApprovedIsPublished` | assumes that copies of the signed tree do not overlap.  `WayInv`: from its signing to its publication a version is `UnderReview` or `Accepted`, one after the other and in no other way (`WayForward`), and an approved one is accepted or its zone published; meanwhile the zone is in the signed tree or published (`Held`), as without overlaps it leaves the one for the other only |
| `OnlyOvertakingPublishesRejected` | `RejectedNotPublished` | assumes besides that no zone is signed anew while a signed version of it is between the signer and the reader (`SigningOvertakes`), as `rejected` shows one of the two must.  `TurnInv`: every version on its way is then the one that the zone's object in the signed tree still holds, so that what is published is what was approved |
| `Registry`: `TypeCorrect` | `TypeOK` | by action; a save is only enqueued for an object that was made |
| `NoPolicyListsPhantoms`, `ZonePoliciesExist`, `ScratchLivesAreConsistent` | `NoPhantomUsers`, `KnownPolicies`, `ScratchLifeConsistent` | proved together (`LinkInv`): `Unlinked` needs that no other policy lists the zone |
| `AddedZonesAreListed` | `AddedIsListed` | `StateSettling`: while no write failed or was out of turn, and without a save enqueued, what is being written, or was written last, lists every zone |
| `ZoneFilesAreSaved` | `ZoneFilesSettle` | `ZonesSettling`: a zone is due to be saved, or safe: no save of an older object of it is left, and what is being or was written last is its policy.  The property alone is not inductive, as the save that it lets wait could be that of an older object |
| `StoppedProcessIsSaved` | `StoppedIsSaved` | `StopSettling`: once the last state is built, whatever is being written to the state file or was written last fits what is known (`Fits`: all policies, all zones, no others but those removed meanwhile), and zones that have been saved are safe; `NoChangeWhileStopping`: a late request changes nothing, panics, or takes a zone away |
| `CleanStopsRestart` | `CleanStopRestarts` | `Startable`: from the previous theorem, and that a clean process that is down never ran |
| `OnlyLateOrInconsistentChangesAbortStops` | `StopPersists` | assumes that policies list their zones (`AlwaysConsistent`), that nothing crashes, and that no request changes the zones once the central command was terminated (`LateChange`): by action, a stop then only goes on |
| `OnlyOverlapsAndUnsavedRemovalsMislist` | - (`ListedExactly`) | assumes that one save of the state is written at a time, and that no zone without a policy is removed: without a save enqueued, what is written, or was written last, are the zones there are (`ListedInv`) |
| `Signing`: `EachOwnerSignedOnce` | `SignedExactlyOnce` | `SignInv`: the ranges of the threads follow each other and cover all owners (`Ranges`, `Covered`); an owner is in the channel or stored, once, if its thread is past it, and neither otherwise; the version is committed when no thread and nothing in the channel is left |
| `NewestStatusIsCurrent` | `StatusFollows` (`SigningStatusFollows` in the run) | `HistoryInv`: while an operation is under way, the last entry of the buffer is its own, with the status and the figures of its stage, as entries are only added between operations; the search for the newest of the zone's entries ends there |
| `OperationsKeepTypes` | `TypeOK` | with `SignInv`, of which the part that nothing is sent or stored twice does not depend on all threads going on |
| `OperationsAreNeverStuck` | the safety part of `OperationsEnd` (`SigningEnds` in the run) | a thread that waits for room leaves the storing task something to store, however small the channel; a lock that an operation waits for is that of a storing task that was left to itself; before `store` all threads are done (`StagesInTurn`) |
| `OperationsComeCloser` | - | by action: the stage grows, or the place of one thread in its chunk, or the channel gets shorter, or a lock is given back (`Closer`); stages, threads and places are bounded (`MoreTypes`) |
| `KeySets`: `NoUpdateHides`, `CronIsGivenUp` | `CacheNeverStale`, `CronGivesUp` | `KeysInv`: at each step of a look the time taken is no later than the contents, these no later than the file; each start of cron is counted, but for one under way |
| `ChangesAreNotForgotten` | the safety part of `KeyChangesReachTheSigner` | `NotForgotten` is stable for a published zone: what is known of a file moves on only together with a request to the signer (`LooksHaveReasons`, `NewsIsTold`), which stays until the signer, as the zone is published, reads a file that is as new; until then the known time differs from the file's, as times only grow (`TimesFirst`) |
| `TsigStore`: `ChangesGetSaved`, `NoUsedKeyIsLost` | `SaveIsComing`, `UsedKeysStay` (`Tsig...` in the run) | `SaveInv`: the enqueued task has yet to take its snapshot; the second is an action property that holds of each step by itself |
| `KeysAndFilesAreWhole` | `TypeOK` | merging a file into the store (`ParsedIsAStore`) and taking a snapshot of it (`BuiltIsAFile`) |
| `Refresh`: `TypeCorrect` | `TypeOK` | by action and part of the state; a task that has found its zone has an object of it; who waits for the lock of the pending zones is in an order without cycles (`QueueInv`) |
| `NotifiesAreHeard` | `NotifyStatusIsBrief` | `LockInv`: only the task of a NOTIFY is ever about to set its status |
| `NoRefreshIsTheLast` | `RefreshGoesOn` | `GoesOnInv`: what makes a served zone be refreshed again (`RefreshComes`) is more than what does so for a pending one (`PendingHandled`), as an event for a zone that is no longer pending is dropped.  A timer that fires while the tree lacks the zone starts a task that finds nothing; the zone cannot come back without a timer of its own, as no copy of the tree that is yet to be stored has it (`CopiesInStep`).  A zone that is not tracked yet is announced, in the channel, or with the run loop (`IntroducedInv`) |
| `OnlyReAddedServedEmpty` | `EmptyOnlyIfReAdded` | `FillInv`: a zone that was never filled and not added again is in no tree and in no copy of one, and no message says it was filled; while its first object is pending that is the only one in use and its registration was announced once at most, so a task that has found the zone has found that object, and only its transfer activates it.  A second addition is announced too, and breaks just that |
| `WaitsForRoomAlone` | `StuckNeedsFullChannel` | while both channels have room: a task that keeps the refresh states locked sends next; so one that keeps the pending zones locked can go on; without such tasks a writer of these can, and without a writer the readers.  The order of the waiting (`QueueInv`) has a first, whom nobody waiting keeps from the lock.  If the event channel is full, the run loop has not to wait for the refresh states (`LockInv`), nor a NOTIFY for a task (`CountInv`: the NOTIFYs with the loader, in the channel and in tasks are no more than were asked for) |
| `StuckMeansStuck` | - | each action of the loader, the run loop and a task has the guards that `LoaderReady`, `LoopReady` and `TaskReady` put together |
| `OnlyOverlapsLoseZones` | `ServedStaysServed` | assumes that the loader and the run loop do not both have a copy of the tree in their hands (`Overlap`), as `lost_zone` shows it must: each copy then has all zones of the tree (`CopiesAreCurrent`) |
| `Settings`: `OverridesEndWithTheProcess`, `PoliciesAreInStep` | `OverridesAreNotSaved`, `ZonesUseLatest` | `SettingsInv`: what has the file as a source, in memory or in the state file, was in a file that was read; a policy that is unknown is used by no zone |
| `Services`: `PartsAreTyped`, `TsigChangesGetSaved`, `UsedTsigKeysStay`, `OwnersSignedOnce`, `StatusIsTheOperations`, `OverridesStayUnsaved`, `ZonesFollowPolicies` | the safety properties of the run `services` | from the theorems of the parts, as each part's behaviour is one of its module; a key manager that has ended before anything happens satisfies `KeysInv` too |

Only model-checked: the five liveness properties (`ApprovedIsPublished`, `PolicyReachesDisk`,
`PendingIsServed`, `SigningEnds`, `KeyChangesReachTheSigner`), as fairness and `ENABLED` are
beyond the prover.  What each rests on is proved: that what it waits for
is under way and cannot be forgotten (`OnlyOverlapsForgetApproved`,
`ChangesAreNotForgotten`, `NoRefreshIsTheLast`, `ZoneFilesAreSaved`), and for signing that
it cannot get stuck nor go round in circles (`OperationsAreNeverStuck`,
`OperationsComeCloser`).  That the guards of `SomebodyReady` in `Refresh` are no more than
those of the actions is `StuckMeansStuck`; that they are no less is model-checked with
`PendingIsServed`, in which an actor whose guards hold but which cannot step would count
as not stuck and never serve its zone.

## 9. Where code and comments disagree

Each has a run that TLC finds violated; `PROJECT.json` quotes the lines.

* `rejected`: approving an older signed version publishes the newer one that was
  rejected, as both are one object.
* `lost_signed`: signer and publication server undo each other's change of the
  signed tree.
* `rollback`: re-signing takes the published zone back to an older serial.
* `forgotten`: a zone removed while it is being loaded or signed makes the signer
  panic under the lock of the state.
* `registry_restart`: after a restart no policy lists its zones; removing a zone or
  changing its policy then fails an assertion under the lock of the state.
* `registry_stop`: a zone added while the process stops makes it end without saving.
* `lost_zone`: adding a zone while another becomes active takes the latter out of the
  served zones.

Others are in the models and have no run of their own, as properties of the passing runs
except just these, by name:

* A zone that is added again while it is pending is served empty, although "This prevents
  callers of get_zone() or find_zone() attempting to use an empty zone" (`maintainer.rs:321`):
  its refresh state, which the first addition left, is taken for contents (`maintainer.rs:804`).
  `EmptyOnlyIfReAdded` says that nothing else is served empty.
* A removal that was sent before a stop may take effect after the last state was built
  (`center.rs:84-90`) and is then lost with the stop, although `main.rs:186` is to "Persist
  the current state."; if the zone had no file yet, the next start is refused.  It is the
  `meanwhile` of `StoppedIsSaved` and `CleanStopRestarts`.
* A delayed save that is being written when the process stops is not stopped, although "If
  there was an enqueued save operation, stop it." (`state/mod.rs:24`), as it took itself off
  before (`center.rs:197`), and may undo the stop's own; nor is the delayed save of a removed
  zone's object, which may undo that of the zone added again under the name
  (`zone/mod.rs:177`).  Both are the `overlaps = 0` of the properties of the files.
* A key set that changes while a zone waits for the review of its first signed version does
  not reach the signer, although the key manager is to "signal the signer to re-sign the
  zone" (`key_manager.rs:152`): the request is dropped as one for an unknown zone
  (`zone_signer.rs:294`), before the key set is read, and nobody asks again.
  `KeyChangesReachTheSigner` is about zones that were published.

Seen while modelling, without a run: the default of `zone_state_dir` is
`zone-state.db` without a configuration file (`config/mod.rs:60`) and `zone-state` with
one that does not set it (`config/file/v1.rs:88`); an expired zone is never marked as
served again (`maintainer.rs:1112`); reloading the configuration does not mark the state
as dirty (`config/mod.rs:117`); the first look at a key set asks for nothing, so that a
change made while the daemon is down does not lead to re-signing.

## 10. Not modelled

* Pure I/O and conversions without state that the properties speak of: zone files,
  DNS queries and answers, XFR out, cryptography, formatting of the files, command line
  and client, logging, metrics, network helpers.
* The light-weight zone as a tree of records: a zone object is its serial, or none while
  a transfer replaces it.  Reads that see some records of one version and some of another
  are in `Pipeline` (SOA and records are read apart), not record by record.
* Policy reload in a running daemon: `/policy/reload` and `policy_show` are `todo!()`,
  nothing sets `mid_deletion`.  `config::reload` and the operations of the TSIG store
  have no caller; they are modelled from their code.
* NSEC and NSEC3 chains, and which record gets which signature: the domain library.
* The death of a unit together with an orderly stop.

## 11. Running

    tlc -config PipelineProgress.cfg MCPipeline.tla
    tlc -config Registry.cfg MCRegistry.tla
    tlc -config Refresh.cfg MCRefresh.tla
    tlc -config Services.cfg MCServices.tla
    tlapm PipelineProofs.tla
    tlapm RegistryProofs.tla
    tlapm RefreshProofs.tla
    tlapm SigningProofs.tla
    tlapm KeySetsProofs.tla
    tlapm TsigStoreProofs.tla
    tlapm SettingsProofs.tla
    tlapm ServicesProofs.tla
