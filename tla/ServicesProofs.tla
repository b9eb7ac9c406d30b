--------------------------- MODULE ServicesProofs ---------------------------
(***************************************************************************)
(* Proofs about the parts that share no state: each behaves as its own     *)
(* module says whatever the others do, so that what was proved of a part   *)
(* by itself holds of it in the whole.                                     *)
(***************************************************************************)
EXTENDS Services, TLAPS

LEMMA FirstStates == Init => Tsig!Init /\ Sign!Init /\ (Keys!Init \/ KeysEnded) /\ Conf!Init
BY DEF Init

(* A step of one part is a step of it, and none of any other. *)
LEMMA PartSteps ==
  [Next]_vars => /\ [Tsig!Next]_(Tsig!vars)
                 /\ [Sign!Next]_(Sign!vars)
                 /\ [Keys!Next]_(Keys!vars)
                 /\ [Conf!Next]_(Conf!vars)
BY DEF Next, TsigNext, SignNext, KeysNext, ConfNext,
       vars, tsigVars, signVars, keysVars, confVars,
       Tsig!vars, Sign!vars, Keys!vars, Keys!world, Keys!history, Conf!vars

(* The TSIG store, the signing operations and the settings start as their modules say *)
(* and take no other steps, whatever the other parts do; so do the fair ones.         *)
LEMMA PartsKeepToTheirModules == Spec => Tsig!Spec /\ Sign!Spec /\ Conf!Spec
BY FirstStates, PartSteps, PTL DEF Spec, Tsig!Spec, Sign!Spec, Conf!Spec

(***************************************************************************)
(* The key manager, which may have ended before anything happens.          *)
(***************************************************************************)

LEMMA EndedInv == ASSUME KeysEnded PROVE Keys!KeysInv
<1>1. Keys!Bounds
  BY ServicesAssumption DEF ServicesAssumption
<1>2. MaxVersions \in Nat /\ MaxRetries \in Nat
  BY <1>1 DEF Keys!Bounds
<1>3. Keys!TypeOK
  BY <1>2 DEF KeysEnded, Keys!TypeOK, Keys!Places, Keys!File, Keys!Info
<1>4. Keys!Placed /\ Keys!TimesFirst /\ Keys!TriesCounted
  BY <1>2 DEF KeysEnded, Keys!Placed, Keys!TimesFirst, Keys!TriesCounted
<1> QED BY <1>3, <1>4 DEF Keys!KeysInv

LEMMA KeyManager == Spec => []Keys!KeysInv
<1>1. Keys!Bounds
  BY ServicesAssumption DEF ServicesAssumption
<1>2. Init => Keys!KeysInv
  BY <1>1, FirstStates, EndedInv, Keys!InitInv
<1>3. Keys!KeysInv /\ [Next]_vars => Keys!KeysInv'
  BY <1>1, PartSteps, Keys!StepInv
<1> QED BY <1>2, <1>3, PTL DEF Spec

(***************************************************************************)
(* What the modules promise holds of the parts.                            *)
(***************************************************************************)

(* A TSIG key that zones depend on stays in the store while the daemon runs. *)
THEOREM UsedTsigKeysStay == Spec => TsigUsedKeysStay
BY Tsig!NoUsedKeyIsLost, PartsKeepToTheirModules, PTL DEF TsigUsedKeysStay

(* What changed in the TSIG store after the last snapshot has a save to come. *)
THEOREM TsigChangesGetSaved == Spec => []TsigSaveIsComing
<1>1. Tsig!Spec => []Tsig!SaveIsComing
  BY ServicesAssumption, Tsig!ChangesGetSaved DEF ServicesAssumption
<1> QED BY <1>1, PartsKeepToTheirModules, PTL DEF TsigSaveIsComing

(* Every owner name of a version that is committed was signed exactly once. *)
THEOREM OwnersSignedOnce == Spec => []SignedExactlyOnce
<1>1. Sign!Spec => []Sign!SignedExactlyOnce
  BY ServicesAssumption, Sign!EachOwnerSignedOnce DEF ServicesAssumption
<1> QED BY <1>1, PartsKeepToTheirModules, PTL DEF SignedExactlyOnce

(* The newest status of the zone being signed is that of its operation. *)
THEOREM StatusIsTheOperations == Spec => []SigningStatusFollows
<1>1. Sign!Spec => []Sign!StatusFollows
  BY ServicesAssumption, Sign!NewestStatusIsCurrent DEF ServicesAssumption
<1> QED BY <1>1, PartsKeepToTheirModules, PTL DEF SigningStatusFollows

(* Overrides of the command line and the environment are not saved. *)
THEOREM OverridesStayUnsaved == Spec => []OverridesAreNotSaved
BY Conf!OverridesEndWithTheProcess, PartsKeepToTheirModules, PTL DEF OverridesAreNotSaved

(* Zones use the latest version of their policy. *)
THEOREM ZonesFollowPolicies == Spec => []ZonesUseLatest
BY Conf!PoliciesAreInStep, PartsKeepToTheirModules, PTL DEF ZonesUseLatest

(* Every variable of every part has its type, whatever the bounds. *)
THEOREM PartsAreTyped == Spec => []TypeOK
<1>1. Tsig!Spec => []Tsig!TypeOK
  BY ServicesAssumption, Tsig!KeysAndFilesAreWhole DEF ServicesAssumption
<1>2. Sign!Spec => []Sign!TypeOK
  BY ServicesAssumption, Sign!OperationsKeepTypes DEF ServicesAssumption
<1>3. Keys!KeysInv => Keys!TypeOK
  BY DEF Keys!KeysInv
<1>4. Conf!Spec => []Conf!TypeOK
  <2>1. Conf!SettingsInv => Conf!TypeOK
    BY DEF Conf!SettingsInv
  <2> QED BY <2>1, Conf!InitInv, Conf!StepInv, PTL DEF Conf!Spec
<1> QED BY <1>1, <1>2, <1>3, <1>4, KeyManager, PartsKeepToTheirModules, PTL DEF TypeOK

=============================================================================
