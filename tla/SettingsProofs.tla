--------------------------- MODULE SettingsProofs ---------------------------
(***************************************************************************)
(* Proofs about Settings, for any settings, policies and zones.            *)
(***************************************************************************)
EXTENDS Settings, TLAPS

\* What the state file keeps, and what is taken for a value of the file, came from
\* a configuration file that was read.
FromFile ==
  /\ \A k \in Kinds : "file" \in given[k] => k \in filed
  /\ stateFile # None => stateFile.settings \subseteq filed

\* A zone that is not known, which may be added again, uses nothing.
UnknownUseNothing == \A z \in Zones \ zones : policyOf[z] = None

SettingsInv == TypeOK /\ FromFile /\ UnknownUseNothing /\ ZonesUseLatest

LEMMA InitInv == Init => SettingsInv
BY DEF Init, SettingsInv, TypeOK, FromFile, UnknownUseNothing, ZonesUseLatest, NoPolicies, Contents, Use, Saved

(* Loading a file gives settings of it, and only its own, the file as a source. *)
LEMMA LoadedFile ==
  ASSUME NEW g \in [Kinds -> SUBSET Sources], NEW settings
  PROVE  /\ WithFile(g, settings) \in [Kinds -> SUBSET Sources]
         /\ WithState(g, settings) \in [Kinds -> SUBSET Sources]
         /\ \A k \in Kinds :
              "file" \in WithFile(g, settings)[k] => k \in settings \/ "file" \in g[k]
         /\ \A k \in Kinds :
              "file" \in WithState(g, settings)[k] => k \in settings \/ "file" \in g[k]
BY DEF WithFile, WithState, Sources

LEMMA FromOverrides ==
  ASSUME NEW env, NEW args
  PROVE  /\ Overrides(env, args) \in [Kinds -> SUBSET Sources]
         /\ \A k \in Kinds : "file" \notin Overrides(env, args)[k]
BY DEF Overrides, Sources

LEMMA StepInv == ASSUME SettingsInv, [Next]_vars PROVE SettingsInv'
<1> USE DEF SettingsInv
<1>1. ASSUME NEW env \in SUBSET InEnv, NEW args \in SUBSET InArgs,
             NEW settings \in SUBSET InFile, NEW contents \in Contents,
             StartFromScratch(env, args, settings, contents)
      PROVE  SettingsInv'
  <2>1. filed' = filed \cup settings /\ given' = WithFile(Overrides(env, args), settings)
    BY <1>1 DEF StartFromScratch
  <2>2. settings \subseteq Kinds
    BY DEF InFile
  <2>3. given' \in [Kinds -> SUBSET Sources]
        /\ \A k \in Kinds : "file" \in given'[k] => k \in settings
    BY <2>1, LoadedFile, FromOverrides
  <2>4. TypeOK'
    BY <1>1, <2>1, <2>2, <2>3 DEF StartFromScratch, ReloadAll, TypeOK, Use, disk
  <2>5. FromFile'
    BY <1>1, <2>1, <2>3 DEF StartFromScratch, FromFile, disk
  <2>6. ZonesUseLatest' /\ UnknownUseNothing'
    BY <1>1 DEF StartFromScratch, ZonesUseLatest, UnknownUseNothing
  <2> QED BY <2>4, <2>5, <2>6
<1>2. ASSUME NEW env \in SUBSET InEnv, NEW args \in SUBSET InArgs, StartFromState(env, args)
      PROVE  SettingsInv'
  <2>1. stateFile \in Saved /\ given' = WithState(Overrides(env, args), stateFile.settings)
    BY <1>2 DEF StartFromState, TypeOK
  <2>2. given' \in [Kinds -> SUBSET Sources]
        /\ \A k \in Kinds : "file" \in given'[k] => k \in stateFile.settings
    BY <2>1, LoadedFile, FromOverrides
  <2>3. policies' \in Contents /\ zones' = stateFile.zones /\ zones' \subseteq Zones
    BY <1>2, <2>1 DEF StartFromState, Saved
  <2>4. \A z \in zones' : zoneFile[z] \in Use
    BY <1>2, <2>3 DEF StartFromState, TypeOK
  <2>5. \A z \in Zones : policyOf'[z] = IF z \in zones' THEN Synced(zoneFile[z], policies') ELSE None
    BY <1>2 DEF StartFromState
  <2>6. FromFile'
    BY <1>2, <2>2 DEF StartFromState, FromFile, disk
  <2>7. \A z \in zones' : zoneFile[z] # None =>
          zoneFile[z][1] \in Policies /\ policies'[zoneFile[z][1]] \in Versions
    <3> SUFFICES ASSUME NEW z \in zones', zoneFile[z] # None
                 PROVE  zoneFile[z][1] \in Policies /\ policies'[zoneFile[z][1]] \in Versions
      OBVIOUS
    <3>1. PICK p \in Policies, v \in Versions : zoneFile[z] = <<p, v>>
      BY <2>4 DEF Use
    <3>2. v \in VersionsInUse(p)
      BY <2>3, <3>1 DEF VersionsInUse
    <3>3. Restored(p) \subseteq Versions
      BY <2>1, <3>2 DEF Restored, VersionsInUse, Saved, Contents
    <3>4. policies'[p] \in Restored(p)
      BY <1>2 DEF StartFromState
    <3> QED BY <3>1, <3>3, <3>4
  <2>11. \A z \in zones' :
           \/ policyOf'[z] = None
           \/ \E p \in Policies : /\ policies'[p] \in Versions
                                 /\ policyOf'[z] = <<p, policies'[p]>>
    <3> SUFFICES ASSUME NEW z \in zones', policyOf'[z] # None
                 PROVE  \E p \in Policies : /\ policies'[p] \in Versions
                                            /\ policyOf'[z] = <<p, policies'[p]>>
      OBVIOUS
    <3>1. policyOf'[z] = Synced(zoneFile[z], policies')
      BY <2>3, <2>5
    <3>2. zoneFile[z] # None
      BY <3>1 DEF Synced
    <3> QED BY <2>7, <3>1, <3>2 DEF Synced
  <2>8. policyOf' \in [Zones -> Use]
    <3>1. \A z \in Zones : policyOf'[z] \in Use
      BY <2>5, <2>11 DEF Use
    <3>2. policyOf' = [z \in Zones |-> policyOf'[z]]
      BY <1>2 DEF StartFromState
    <3> QED BY <3>1, <3>2
  <2>9. ZonesUseLatest'
    BY <2>11 DEF ZonesUseLatest
  <2>10. TypeOK'
    BY <1>2, <2>2, <2>3, <2>8 DEF StartFromState, TypeOK, disk
  <2>12. UnknownUseNothing'
    BY <2>5 DEF UnknownUseNothing
  <2> QED BY <2>6, <2>9, <2>10, <2>12
<1>3. ASSUME NEW settings \in SUBSET InFile, Reload(settings) PROVE SettingsInv'
  <2>1. given' = WithFile(given, settings) /\ filed' = filed \cup settings
        /\ settings \subseteq Kinds
    BY <1>3 DEF Reload, InFile
  <2>2. given' \in [Kinds -> SUBSET Sources]
        /\ \A k \in Kinds : "file" \in given'[k] => k \in settings \/ "file" \in given[k]
    BY <2>1, LoadedFile DEF TypeOK
  <2> QED BY <1>3, <2>1, <2>2 DEF Reload, TypeOK, FromFile, UnknownUseNothing, ZonesUseLatest, disk
<1>4. ASSUME NEW z \in Zones, NEW p \in Policies, SetPolicy(z, p) PROVE SettingsInv'
  <2>1. policies[p] \in Versions
    BY <1>4 DEF SetPolicy, TypeOK, Contents
  <2>2. policyOf' = [policyOf EXCEPT ![z] = <<p, policies[p]>>]
        /\ UNCHANGED <<up, given, policies, zones, disk, filed>>
    BY <1>4 DEF SetPolicy
  <2>3. TypeOK'
    BY <2>1, <2>2 DEF TypeOK, Use, disk
  <2>4. ZonesUseLatest'
    BY <2>2 DEF TypeOK, ZonesUseLatest
  <2>5. UnknownUseNothing'
    BY <1>4, <2>2 DEF SetPolicy, TypeOK, UnknownUseNothing
  <2> QED BY <2>2, <2>3, <2>4, <2>5 DEF FromFile, disk
<1>5. ASSUME NEW z \in Zones, AddZone(z) PROVE SettingsInv'
  BY <1>5 DEF AddZone, TypeOK, FromFile, UnknownUseNothing, ZonesUseLatest, disk
<1>6. ASSUME NEW z \in Zones, RemoveZone(z) PROVE SettingsInv'
  BY <1>6 DEF RemoveZone, TypeOK, FromFile, UnknownUseNothing, ZonesUseLatest, disk, Use
<1>7. ASSUME NEW z \in Zones, SaveZone(z) PROVE SettingsInv'
  BY <1>7 DEF SaveZone, TypeOK, FromFile, UnknownUseNothing, ZonesUseLatest, memory
<1>8. CASE SaveState
  <2>1. Kept \subseteq InState /\ \A k \in Kept : k \in Kinds /\ "file" \in given[k]
    BY DEF Kept, InState
  <2>2. stateFile' = [settings |-> Kept, zones |-> zones, policies |-> policies]
        /\ UNCHANGED <<up, given, policies, zones, policyOf, zoneFile, filed>>
    BY <1>8 DEF SaveState, memory
  <2>3. stateFile' \in Saved
    BY <2>1, <2>2 DEF TypeOK, Saved
  <2> QED BY <2>1, <2>2, <2>3 DEF TypeOK, FromFile, UnknownUseNothing, ZonesUseLatest
<1>9. CASE End
  BY <1>9 DEF End, TypeOK, FromFile, UnknownUseNothing, ZonesUseLatest, disk, NoPolicies, Contents, Use
<1>10. CASE RemoveStateFile
  BY <1>10 DEF RemoveStateFile, TypeOK, FromFile, UnknownUseNothing, ZonesUseLatest, memory
<1>11. CASE UNCHANGED vars
  BY <1>11 DEF vars, TypeOK, FromFile, UnknownUseNothing, ZonesUseLatest
<1> QED BY <1>1, <1>2, <1>3, <1>4, <1>5, <1>6, <1>7, <1>8, <1>9, <1>10, <1>11 DEF Next

(* What is taken for a value of the configuration file came from one that was    *)
(* read, through any reloads, saves, crashes and starts: what the command line   *)
(* or the environment set never gets into the state file.                        *)
THEOREM OverridesEndWithTheProcess == Spec => []OverridesAreNotSaved
<1>1. SettingsInv => OverridesAreNotSaved
  BY DEF SettingsInv, FromFile, OverridesAreNotSaved, Value
<1> QED BY <1>1, InitInv, StepInv, PTL DEF Spec

(* Zones use the latest version of their policy, whatever ages the files have    *)
(* that a start loads.                                                           *)
THEOREM PoliciesAreInStep == Spec => []ZonesUseLatest
<1>1. SettingsInv => ZonesUseLatest
  BY DEF SettingsInv
<1> QED BY <1>1, InitInv, StepInv, PTL DEF Spec

=============================================================================
