------------------------------ MODULE Services ------------------------------
(***************************************************************************)
(* Four parts that share no state with each other, in one specification:   *)
(* the TSIG store, the signing operations, the key manager and the         *)
(* settings.  Each behaviour is one of one part, with the others at rest   *)
(* in their first state, so the states add up instead of multiplying.      *)
(*                                                                         *)
(* The instances are those of the modules that prove things about the      *)
(* parts, so that ServicesProofs can cite their theorems.                  *)
(***************************************************************************)
EXTENDS Integers, Sequences

CONSTANTS
  None, Missing,
  \* of the TSIG store
  Names, Algs, Datas, TsigZones, Tasks,
  \* of the signing operations
  SignedZones, MaxOwners, MaxTasks, ParallelFrom, ChannelCap, HistoryCap,
  \* of the key manager
  KeyZones, MaxVersions, MaxRetries,
  \* of the settings
  Kinds, Policies, Versions, PolicyZones

VARIABLES
  part,
  tMap, tEnqueued, tTasks, tSaving, tFile, tLoaded, tPhase, tUnsaved,
  sStage, sZone, sOwners, sThreads, sChannel, sStored, sOk, sLocked, sHistory, sCommitted,
  kAt, kZone, kTodo, kWhy, kSeen, kInfo, kFile, kUnsigned, kAsked, kSigner,
  kPublished, kContent, kInvoked, kUsed,
  gUp, gGiven, gPolicies, gZones, gPolicyOf, gStateFile,
  gZoneFile, gFiled

Tsig == INSTANCE TsigStoreProofs WITH
  Zones <- TsigZones,
  map <- tMap, enqueued <- tEnqueued, tasks <- tTasks, saving <- tSaving, file <- tFile,
  loaded <- tLoaded, phase <- tPhase, unsaved <- tUnsaved

Sign == INSTANCE SigningProofs WITH
  Zones <- SignedZones,
  stage <- sStage, zone <- sZone, owners <- sOwners, threads <- sThreads,
  channel <- sChannel, stored <- sStored, ok <- sOk, locked <- sLocked,
  history <- sHistory, committed <- sCommitted

Keys == INSTANCE KeySetsProofs WITH
  Zones <- KeyZones,
  at <- kAt, zone <- kZone, todo <- kTodo, why <- kWhy, seen <- kSeen, info <- kInfo,
  file <- kFile, unsigned <- kUnsigned, asked <- kAsked, signer <- kSigner,
  published <- kPublished, content <- kContent, invoked <- kInvoked, used <- kUsed

Conf == INSTANCE SettingsProofs WITH
  Zones <- PolicyZones,
  up <- gUp, given <- gGiven, policies <- gPolicies, zones <- gZones,
  policyOf <- gPolicyOf, stateFile <- gStateFile, zoneFile <- gZoneFile, filed <- gFiled

\* What the proofs about the parts assume of their constants.
ServicesAssumption ==
  Tsig!TaskNames /\ Sign!Sizes /\ Sign!Rooms /\ Keys!Bounds
ASSUME ServicesAssumption

tsigVars == <<tMap, tEnqueued, tTasks, tSaving, tFile, tLoaded, tPhase, tUnsaved>>
signVars == <<sStage, sZone, sOwners, sThreads, sChannel, sStored, sOk, sLocked, sHistory,
              sCommitted>>
keysVars == <<kAt, kZone, kTodo, kWhy, kSeen, kInfo, kFile, kUnsigned, kAsked, kSigner,
              kPublished, kContent, kInvoked, kUsed>>
confVars == <<gUp, gGiven, gPolicies, gZones, gPolicyOf, gStateFile, gZoneFile, gFiled>>

vars == <<part, tsigVars, signVars, keysVars, confVars>>

Parts == {"tsig", "signing", "keys", "settings"}

\* The states of the parts at rest: one of each is enough.
KeysEnded ==
  /\ kAt = "terminated" /\ kZone = None /\ kTodo = {}
  /\ kWhy = None /\ kSeen = [modified |-> 0, version |-> 0, cron |-> FALSE]
  /\ kInfo = [z \in KeyZones |-> None]
  /\ kFile = [z \in KeyZones |-> [version |-> 0, cron |-> FALSE]]
  /\ kUnsigned = {} /\ kAsked = {}
  /\ kSigner = "ended" /\ kPublished = {}
  /\ kContent = [z \in KeyZones |-> 0]
  /\ kInvoked = [z \in KeyZones |-> 0]
  /\ kUsed = [z \in KeyZones |-> 0]

Init ==
  /\ part \in Parts
  /\ Tsig!Init
  /\ Sign!Init /\ (part # "signing" => sZone = CHOOSE z \in SignedZones : TRUE)
  /\ IF part = "keys" THEN Keys!Init ELSE KeysEnded
  /\ Conf!Init

TsigNext == part = "tsig" /\ Tsig!Next /\ UNCHANGED <<part, signVars, keysVars, confVars>>
SignNext == part = "signing" /\ Sign!Next /\ UNCHANGED <<part, tsigVars, keysVars, confVars>>
KeysNext == part = "keys" /\ Keys!Next /\ UNCHANGED <<part, tsigVars, signVars, confVars>>
ConfNext == part = "settings" /\ Conf!Next /\ UNCHANGED <<part, tsigVars, signVars, keysVars>>

Next == TsigNext \/ SignNext \/ KeysNext \/ ConfNext

\* In the parts at rest nothing that is to be scheduled fairly can happen: no signing
\* operation is under way, and the key manager has ended.
Spec ==
  /\ Init
  /\ [][Next]_vars
  /\ Sign!Fairness
  /\ Keys!Fairness

(***************************************************************************)
(* The properties of the parts.                                            *)
(***************************************************************************)

(* Every variable of every part has its type. *)
TypeOK == Tsig!TypeOK /\ Sign!TypeOK /\ Keys!TypeOK /\ Conf!TypeOK

(* What changed in the TSIG store after the last snapshot has a save to come. *)
TsigSaveIsComing == Tsig!SaveIsComing

(* A TSIG key that zones depend on stays in the store while the daemon runs. *)
TsigUsedKeysStay == Tsig!UsedKeysStay

(* Every owner name of a version that is committed was signed exactly once. *)
SignedExactlyOnce == Sign!SignedExactlyOnce

(* The newest status of the zone being signed is that of its operation. *)
SigningStatusFollows == Sign!StatusFollows

(* A signing operation comes to an end. *)
SigningEnds == Sign!OperationsEnd

(* No update of a key set's state file hides behind the time that is remembered of it. *)
CacheNeverStale == Keys!CacheNeverStale

(* Cron is run for what one state file says only as often as it is retried. *)
CronGivesUp == Keys!CronGivesUp

(* A key set that changed is read by the signer, if the zone was published. *)
KeyChangesReachTheSigner == Keys!KeyChangesReachTheSigner

(* Overrides of the command line and the environment are not saved. *)
OverridesAreNotSaved == Conf!OverridesAreNotSaved

(* Zones use the latest version of their policy. *)
ZonesUseLatest == Conf!ZonesUseLatest

=============================================================================
