------------------------------ MODULE Settings ------------------------------
(***************************************************************************)
(* The settings of the daemon and the contents of its policies: where they *)
(* come from at a start, and what of them outlives the process.            *)
(*                                                                         *)
(* A setting has four sources, a default and three that may give it a      *)
(* value; of a value only its source matters here.  The configuration file *)
(* and the files of the policies, which say whatever administrators made   *)
(* of them by then, are read when there is no state file;                  *)
(* otherwise the state file, and the file of each zone, take their place.  *)
(* Those are saved one by one, at some time after a change, or not at all  *)
(* if the process dies before.  Registry has the saves, and the policies'  *)
(* lists of zones, in detail; here a policy has contents.                  *)
(***************************************************************************)

CONSTANTS
  Kinds,     \* the settings considered, of those named below
  Policies,  \* names of policies
  Versions,  \* contents of policies
  Zones,     \* names of zones
  None,      \* nothing there
  Missing    \* there is no file for the zone

\* Which settings each source can give, and which of them the state file keeps.
InFile  == Kinds \cap {"level", "target", "daemonize"}
InEnv   == Kinds \cap {"state_file", "level", "target", "trace_targets", "config_file"}
InArgs  == Kinds \cap {"state_file", "level", "target", "config_file", "daemonize"}
InState == Kinds \cap {"level", "target", "trace_targets", "config_file", "daemonize"}

Sources  == {"file", "env", "args"}
Contents == [Policies -> Versions \cup {None}]
Use      == (Policies \X Versions) \cup {None}  \* the version a zone uses
Saved    == [settings : SUBSET InState, zones : SUBSET Zones, policies : Contents]

VARIABLES
  up,          \* the process runs
  given,       \* the sources that give each setting
  policies,    \* the latest version of each policy
  zones,       \* the known zones
  policyOf,    \* the version each zone uses
  stateFile,   \* the state file
  zoneFile     \* the file of each zone

\* History, read by the properties alone.
VARIABLE filed  \* the settings that a configuration file that was read has given

vars == <<up, given, policies, zones, policyOf, stateFile, zoneFile, filed>>

memory == <<up, given, policies, zones, policyOf>>
disk   == <<stateFile, zoneFile>>

NoPolicies == [p \in Policies |-> None]

\* The first start ever, or one that is to begin from scratch.
Init ==
  /\ up = FALSE /\ given = [k \in Kinds |-> {}]
  /\ policies = NoPolicies
  /\ zones = {} /\ policyOf = [z \in Zones |-> None]
  /\ stateFile = None /\ zoneFile = [z \in Zones |-> Missing]
  /\ filed = {}

\* Config::init: the environment and the command line, each with what it can give.
Overrides(env, args) ==
  [k \in Kinds |-> {s \in {"env"} : k \in env} \cup {s \in {"args"} : k \in args}]

\* Setting::setting, the source of the value in use.
Value(k) ==
  IF "args" \in given[k] THEN "args"
  ELSE IF "env" \in given[k] THEN "env"
  ELSE IF "file" \in given[k] THEN "file"
  ELSE "default"

\* DaemonSpec::parse_into replaces what the file can give, and leaves the rest.
WithFile(g, settings) ==
  [k \in Kinds |-> IF k \notin InFile THEN g[k]
                   ELSE (g[k] \ {"file"}) \cup {s \in {"file"} : k \in settings}]

\* The same of the state file.
WithState(g, settings) ==
  [k \in Kinds |-> IF k \notin InState THEN g[k]
                   ELSE (g[k] \ {"file"}) \cup {s \in {"file"} : k \in settings}]

\* Mutant: the state file keeps the value in use.
KeptInUse == {k \in InState : Value(k) # "default"}

\* ConfigSpec::build keeps the value of a setting that the file gave, no other.
Kept == {k \in InState : "file" \in given[k]}

\* reload_all takes what the files of the policies say; there are no policies yet that
\* it would keep because zones use them.
ReloadAll(contents) == policies' = contents

\* settings and contents: what the administrators' files give by then.
StartFromScratch(env, args, settings, contents) ==
  /\ ~ up /\ stateFile = None
  /\ up' = TRUE
  /\ given' = WithFile(Overrides(env, args), settings)
  /\ ReloadAll(contents)
  /\ zones' = {} /\ policyOf' = [z \in Zones |-> None]
  /\ filed' = filed \cup settings
  /\ UNCHANGED disk

\* The versions of a policy that the files of the zones know.
VersionsInUse(p) ==
  {v \in Versions : \E z \in stateFile.zones : zoneFile[z] = <<p, v>>}

\* A policy that only zones know is restored, from whichever is loaded first.
Restored(p) ==
  IF stateFile.policies[p] # None \/ VersionsInUse(p) = {}
  THEN {stateFile.policies[p]} ELSE VersionsInUse(p)

\* Mutant: a zone continues to use the older version.
Unsynced(use, latest) == use

\* sync_policy: a zone goes over to the latest version of its policy.
Synced(use, latest) == IF use = None THEN None ELSE <<use[1], latest[use[1]]>>

StartFromState(env, args) ==
  /\ ~ up /\ stateFile # None
  /\ \A z \in stateFile.zones : zoneFile[z] # Missing
  /\ up' = TRUE
  /\ given' = WithState(Overrides(env, args), stateFile.settings)
  /\ policies' \in {f \in Contents : \A p \in Policies : f[p] \in Restored(p)}
  /\ zones' = stateFile.zones
  /\ policyOf' = [z \in Zones |-> IF z \in zones' THEN Synced(zoneFile[z], policies')
                                  ELSE None]
  /\ UNCHANGED <<disk, filed>>

\* Reloading the configuration file, which nothing does yet.
Reload(settings) ==
  /\ up
  /\ given' = WithFile(given, settings)
  /\ filed' = filed \cup settings
  /\ UNCHANGED <<up, policies, zones, policyOf, disk>>

\* A zone is added without a policy ...
AddZone(z) ==
  /\ up /\ z \notin zones
  /\ zones' = zones \cup {z}
  /\ UNCHANGED <<up, given, policies, policyOf, disk, filed>>

\* ... and is given one, or another one: the latest version of it.
SetPolicy(z, p) ==
  /\ up /\ z \in zones /\ policies[p] # None
  /\ policyOf' = [policyOf EXCEPT ![z] = <<p, policies[p]>>]
  /\ UNCHANGED <<up, given, policies, zones, disk, filed>>

RemoveZone(z) ==
  /\ up /\ z \in zones
  /\ zones' = zones \ {z}
  /\ policyOf' = [policyOf EXCEPT ![z] = None]
  /\ UNCHANGED <<up, given, policies, disk, filed>>

SaveState ==
  /\ up
  /\ stateFile' = [settings |-> Kept, zones |-> zones, policies |-> policies]
  /\ UNCHANGED <<memory, zoneFile, filed>>

SaveZone(z) ==
  /\ up /\ z \in zones
  /\ zoneFile' = [zoneFile EXCEPT ![z] = policyOf[z]]
  /\ UNCHANGED <<memory, stateFile, filed>>

\* The process ends, after a clean stop or at any other moment.
End ==
  /\ up
  /\ up' = FALSE /\ given' = [k \in Kinds |-> {}]
  /\ policies' = NoPolicies
  /\ zones' = {} /\ policyOf' = [z \in Zones |-> None]
  /\ UNCHANGED <<disk, filed>>

\* An administrator removes the state file, to start from scratch.
RemoveStateFile ==
  /\ ~ up
  /\ stateFile' = None
  /\ UNCHANGED <<memory, zoneFile, filed>>

Next ==
  \/ \E env \in SUBSET InEnv, args \in SUBSET InArgs :
       \/ \E settings \in SUBSET InFile, contents \in Contents :
            StartFromScratch(env, args, settings, contents)
       \/ StartFromState(env, args)
  \/ \E settings \in SUBSET InFile : Reload(settings)
  \/ \E z \in Zones, p \in Policies : SetPolicy(z, p)
  \/ \E z \in Zones : AddZone(z) \/ RemoveZone(z) \/ SaveZone(z)
  \/ SaveState
  \/ End
  \/ RemoveStateFile

Spec == Init /\ [][Next]_vars

(***************************************************************************)
(* Properties.                                                             *)
(***************************************************************************)

TypeOK ==
  /\ up \in BOOLEAN
  /\ given \in [Kinds -> SUBSET Sources]
  /\ policies \in Contents
  /\ zones \subseteq Zones /\ policyOf \in [Zones -> Use]
  /\ stateFile \in Saved \cup {None}
  /\ zoneFile \in [Zones -> Use \cup {Missing}]
  /\ filed \subseteq Kinds

(* What the command line or the environment of one process set does not outlive *)
(* it: a later process uses a value as one of the configuration file only when   *)
(* a configuration file that was read gave the setting one.                      *)
OverridesAreNotSaved == \A k \in Kinds : Value(k) = "file" => k \in filed

(* A zone uses the latest version of its policy, whichever of the state file and *)
(* the zone's own file is older, and whatever the policy's file says by then.    *)
ZonesUseLatest ==
  \A z \in zones : policyOf[z] # None => policies[policyOf[z][1]] = policyOf[z][2]

=============================================================================
