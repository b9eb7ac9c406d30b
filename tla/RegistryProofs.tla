--------------------------- MODULE RegistryProofs ---------------------------
(***************************************************************************)
(* Theorems about the registry of zones and policies, for all zones,       *)
(* policies, clients and bounds, and for both builds.                      *)
(***************************************************************************)
EXTENDS Registry, TLAPS

-----------------------------------------------------------------------------
(***************************************************************************)
(* Types                                                                   *)
(***************************************************************************)

USE RegistryAssumption

\* The state of a process that is not running has the right types.
LEMMA DieType ==
  ASSUME TypeOK, Die, spent' \in [requests : Nat, starts : Nat, crashes : Nat]
  PROVE  TypeOK'
  <1>1. \A c \in Clients : client'[c] = [at |-> "idle"]
    BY DEF Die, Idle
  <1>2. \A c \in Clients : client'[c].at # "mark"
    BY <1>1
  <1>3. client' \in [Clients -> Handler]
    BY DEF Die, Handler
  <1> QED BY <1>2, <1>3 DEF TypeOK, Die, disk, MadeObject, Phase

LEMMA PanicType ==
  ASSUME TypeOK, NEW c \in Clients, Panic(c),
         spent' \in [requests : Nat, starts : Nat, crashes : Nat]
  PROVE  TypeOK'
  <1>1. CASE Die
    BY <1>1, DieType
  <1>2. CASE ~Die
    <2>1. /\ poisoned' = TRUE
          /\ client' = [client EXCEPT ![c] = Idle]
          /\ UNCHANGED <<memory, saves, writing, disk, process>>
      BY <1>2 DEF Panic
    <2>2. client' \in [Clients -> Handler]
      BY <2>1 DEF TypeOK, Handler
    <2>3. \A d \in Clients : client'[d].at = "mark" => MadeObject(client[d].object)'
      BY <2>1 DEF TypeOK, Idle, MadeObject, memory
    <2> QED BY <2>1, <2>2, <2>3
        DEF TypeOK, MadeObject, Object, memory, saves, writing, disk, process
  <1> QED BY <1>1, <1>2

LEMMA RequestType ==
  ASSUME TypeOK, Request
  PROVE  spent' \in [requests : Nat, starts : Nat, crashes : Nat]
  BY DEF TypeOK, Request

\* A handler goes on to change_policy, or is done.
LEMMA HandlerType ==
  ASSUME TypeOK, NEW c \in Clients, NEW h \in Handler, h.at # "mark",
         client' = [client EXCEPT ![c] = h], UNCHANGED made
  PROVE  /\ client' \in [Clients -> Handler]
         /\ \A d \in Clients : client'[d].at = "mark" => MadeObject(client[d].object)'
  BY DEF TypeOK, MadeObject

LEMMA AddZoneType ==
  ASSUME TypeOK, NEW c \in Clients, NEW z \in Zones, NEW p \in Policies, AddZone(c, z, p)
  PROVE  TypeOK'
  <1>1. Request /\ spent' \in [requests : Nat, starts : Nat, crashes : Nat]
    BY RequestType DEF AddZone
  <1>2. CASE Panic(c)
    BY <1>1, <1>2, PanicType
  <1>3. CASE z \in zones /\ ~Panic(c)
    <2> DEFINE h == [at |-> "policy", zone |-> z, policy |-> p]
    <2>1. h \in Handler /\ h.at # "mark"
      BY DEF Handler
    <2>2. /\ client' = [client EXCEPT ![c] = h]
          /\ UNCHANGED <<memory, saves, poisoned, writing, disk, process>>
      BY <1>3 DEF AddZone
    <2> HIDE DEF h
    <2>3. /\ client' \in [Clients -> Handler]
          /\ \A d \in Clients : client'[d].at = "mark" => MadeObject(client[d].object)'
      BY <2>1, <2>2, HandlerType DEF memory
    <2> QED BY <1>1, <2>2, <2>3
        DEF TypeOK, MadeObject, Object, memory, saves, writing, disk, process
  <1>4. CASE z \notin zones /\ ~Panic(c)
    <2> DEFINE n == made[z] + 1
               h == [at |-> "mark", zone |-> z, policy |-> p, object |-> <<z, n>>]
    <2>1. /\ zones' = zones \cup {z}
          /\ made' = [made EXCEPT ![z] = n]
          /\ policyOf' = [policyOf EXCEPT ![z] = None]
          /\ stateEnqueued' = TRUE
          /\ client' = [client EXCEPT ![c] = h]
          /\ UNCHANGED <<policies, users, enqueued, poisoned, writing, disk, process>>
      BY <1>4 DEF AddZone, NextObject, EnqueueState
    <2>2. n \in Nat /\ made[z] \in Nat /\ made' \in [Zones -> Nat]
      BY <2>1 DEF TypeOK
    <2>3. h \in Handler
      BY <2>2 DEF Handler
    <2>4. made'[z] = n /\ n \in 1 .. made'[z]
      BY <2>1, <2>2 DEF TypeOK
    <2>5. \A o : MadeObject(o) => MadeObject(o)'
      <3> SUFFICES ASSUME NEW y \in Zones, NEW k \in 1 .. made[y]
                   PROVE  k \in 1 .. made'[y]
        BY DEF MadeObject
      <3> QED BY <2>1, <2>2 DEF TypeOK
    <2>6. /\ client' \in [Clients -> Handler]
          /\ \A d \in Clients : client'[d].at = "mark" => MadeObject(client[d].object)'
      <3>1. client' \in [Clients -> Handler]
        BY <2>1, <2>3 DEF TypeOK
      <3>2. ASSUME NEW d \in Clients, client'[d].at = "mark"
            PROVE  MadeObject(client[d].object)'
        <4>1. CASE d = c
          BY <2>1, <2>4, <4>1 DEF TypeOK, MadeObject
        <4>2. CASE d # c
          BY <2>1, <2>5, <3>2, <4>2 DEF TypeOK, MadeObject
        <4> QED BY <4>1, <4>2
      <3> QED BY <3>1, <3>2
    <2>7. ASSUME NEW y \in zones'
          PROVE  MadeObject(Object(y))'
      <3>1. CASE y = z
        BY <2>4, <3>1 DEF MadeObject, Object
      <3>2. CASE y # z
        <4>1. y \in zones /\ y \in Zones /\ made'[y] = made[y]
          BY <2>1, <3>2 DEF TypeOK
        <4> QED BY <2>5, <4>1 DEF TypeOK, MadeObject, Object
      <3> QED BY <3>1, <3>2
    <2>8. /\ zones' \subseteq Zones /\ policyOf' \in [Zones -> Policies \cup {None}]
          /\ policies' \subseteq Policies /\ users' \in [Policies -> SUBSET Zones]
          /\ stateEnqueued' \in BOOLEAN /\ poisoned' \in BOOLEAN
      BY <2>1 DEF TypeOK
    <2>9. \A o \in enqueued' : MadeObject(o)'
      BY <2>1, <2>5 DEF TypeOK
    <2>10. /\ phase' \in Phase /\ left' \subseteq Zones /\ stateWrites' \subseteq StateWrite
           /\ zoneWrites' \subseteq ZoneWrite
           /\ stateFile' \in Contents /\ zoneFile' \in [Zones -> Policies \cup {None, Missing}]
           /\ lost' \in Nat /\ overlaps' \in Nat /\ meanwhile' \subseteq Zones
           /\ born' \in {"scratch", "file"} /\ clean' \in BOOLEAN
      BY <2>1 DEF TypeOK, writing, disk, process
    <2> QED BY <1>1, <2>2, <2>6, <2>7, <2>8, <2>9, <2>10 DEF TypeOK
  <1> QED BY <1>2, <1>3, <1>4

LEMMA ChangePolicyType ==
  ASSUME TypeOK, NEW c \in Clients, MarkZone(c) \/ ChangePolicy(c)
  PROVE  TypeOK'
  <1>1. spent' \in [requests : Nat, starts : Nat, crashes : Nat]
    BY DEF MarkZone, ChangePolicy, TypeOK
  <1>2. CASE Panic(c)
    BY <1>1, <1>2, PanicType
  <1>3. client[c].at \in {"mark", "policy"} /\ client[c] \in Handler
    BY DEF MarkZone, ChangePolicy, TypeOK
  <1>4. client[c].zone \in Zones /\ client[c].policy \in Policies
    BY <1>3 DEF Handler, Idle
  <1>5. Idle \in Handler /\ Idle.at # "mark"
    BY DEF Handler, Idle
  <1>6. CASE MarkZone(c)
    <2> DEFINE h == [at |-> "policy", zone |-> client[c].zone, policy |-> client[c].policy]
    <2>1. h \in Handler /\ h.at # "mark"
      BY <1>4 DEF Handler
    <2>2. /\ client' = [client EXCEPT ![c] = h]
          /\ enqueued' = enqueued \cup {client[c].object}
          /\ MadeObject(client[c].object)
          /\ UNCHANGED <<memory, stateEnqueued, poisoned, writing, disk, process, spent>>
      BY <1>6 DEF MarkZone, Enqueue, TypeOK
    <2> HIDE DEF h
    <2>3. /\ client' \in [Clients -> Handler]
          /\ \A d \in Clients : client'[d].at = "mark" => MadeObject(client[d].object)'
      BY <2>1, <2>2, HandlerType DEF memory
    <2>4. \A o \in enqueued' : MadeObject(o)'
      BY <2>2 DEF TypeOK, MadeObject, memory
    <2> QED BY <1>1, <2>2, <2>3, <2>4 DEF TypeOK, MadeObject, Object, memory, writing, disk, process
  <1>7. CASE ChangePolicy(c) /\ ~Panic(c)
    <2> DEFINE z == client[c].zone
               p == client[c].policy
    <2>1. /\ client' = [client EXCEPT ![c] = Idle]
          /\ UNCHANGED <<zones, made, policies, stateEnqueued, poisoned, writing, disk, process>>
      BY <1>7 DEF ChangePolicy, memory, saves
    <2>2. /\ client' \in [Clients -> Handler]
          /\ \A d \in Clients : client'[d].at = "mark" => MadeObject(client[d].object)'
      BY <1>5, <2>1, HandlerType
    <2>3. /\ policyOf' \in [Zones -> Policies \cup {None}]
          /\ users' \in [Policies -> SUBSET Zones]
          /\ \A o \in enqueued' : MadeObject(o)
      <3>1. CASE UNCHANGED <<policyOf, users, enqueued>>
        BY <3>1 DEF TypeOK
      <3>2. CASE /\ users' = Linked(Unlinked(z), z, p)
                 /\ policyOf' = [policyOf EXCEPT ![z] = p]
                 /\ enqueued' = enqueued \cup {Object(z)}
                 /\ z \in zones
        <4>1. users' \in [Policies -> SUBSET Zones]
          BY <1>4, <3>2 DEF TypeOK, Linked, Unlinked
        <4> QED BY <1>4, <3>2, <4>1 DEF TypeOK
      <3> QED BY <1>7, <3>1, <3>2 DEF ChangePolicy, Enqueue, memory, saves
    <2>4. \A o \in enqueued' : MadeObject(o)'
      BY <2>1, <2>3 DEF MadeObject
    <2> QED BY <1>1, <2>1, <2>2, <2>3, <2>4
        DEF TypeOK, MadeObject, Object, writing, disk, process
  <1> QED BY <1>2, <1>6, <1>7

LEMMA RemoveZoneType ==
  ASSUME TypeOK, NEW c \in Clients, NEW z \in Zones, RemoveZone(c, z)
  PROVE  TypeOK'
  <1> DEFINE h == [at |-> "remove", zone |-> z]
  <1>1. spent' \in [requests : Nat, starts : Nat, crashes : Nat]
    BY RequestType DEF RemoveZone
  <1>2. h \in Handler /\ h.at # "mark"
    BY DEF Handler
  <1>3. /\ client' = [client EXCEPT ![c] = h]
        /\ UNCHANGED <<memory, saves, poisoned, writing, disk, process>>
    BY DEF RemoveZone
  <1> HIDE DEF h
  <1>4. /\ client' \in [Clients -> Handler]
        /\ \A d \in Clients : client'[d].at = "mark" => MadeObject(client[d].object)'
    BY <1>2, <1>3, HandlerType DEF memory
  <1> QED BY <1>1, <1>3, <1>4
      DEF TypeOK, MadeObject, Object, memory, saves, writing, disk, process

LEMMA TakeZoneType ==
  ASSUME TypeOK, NEW c \in Clients, TakeZone(c)
  PROVE  TypeOK'
  <1> DEFINE z == client[c].zone
  <1>1. spent' \in [requests : Nat, starts : Nat, crashes : Nat]
    BY DEF TakeZone, TypeOK
  <1>2. CASE Panic(c)
    BY <1>1, <1>2, PanicType
  <1>3. CASE ~Panic(c)
    <2>1. /\ client' = [client EXCEPT ![c] = Idle]
          /\ UNCHANGED <<made, policies, enqueued, poisoned, writing, disk, phase, left,
                         lost, overlaps, born, clean>>
      BY <1>3 DEF TakeZone, memory, saves, process
    <2>2. Idle \in Handler /\ Idle.at # "mark"
      BY DEF Handler, Idle
    <2>3. /\ client' \in [Clients -> Handler]
          /\ \A d \in Clients : client'[d].at = "mark" => MadeObject(client[d].object)'
      BY <2>1, <2>2, HandlerType
    <2>4. CASE UNCHANGED <<memory, saves, process>>
      BY <1>1, <2>1, <2>3, <2>4
         DEF TypeOK, MadeObject, Object, memory, saves, writing, disk, process
    <2>5. CASE /\ z \in zones
               /\ zones' = zones \ {z}
               /\ users' = Unlinked(z)
               /\ policyOf' = [policyOf EXCEPT ![z] = None]
               /\ stateEnqueued' \in BOOLEAN
               /\ meanwhile' \in {meanwhile, meanwhile \cup {z}}
      <3> HIDE DEF z
      <3>1. users' \in [Policies -> SUBSET Zones]
        BY <2>5 DEF TypeOK, Unlinked
      <3>2. meanwhile' \subseteq Zones
        BY <2>5 DEF TypeOK
      <3> QED BY <1>1, <2>1, <2>3, <2>5, <3>1, <3>2
          DEF TypeOK, MadeObject, Object, writing, disk
    <2> QED BY <1>3, <2>4, <2>5 DEF TakeZone, EnqueueState, TypeOK
  <1> QED BY <1>2, <1>3

LEMMA BegunType ==
  ASSUME TypeOK, NEW t, Begun(t)
  PROVE  overlaps' \in Nat /\ (overlaps' = 0 => t /\ overlaps = 0)
  BY DEF TypeOK, Begun

\* What is built for a file.
LEMMA BuildStateType ==
  ASSUME TypeOK, NEW b \in Writer, BuildState(b)
  PROVE  /\ stateWrites' \subseteq StateWrite /\ stateEnqueued' \in BOOLEAN
         /\ overlaps' \in Nat
  <1>1. Current \in Contents
    BY DEF TypeOK, Current, Contents
  <1>2. overlaps' \in Nat
    BY DEF BuildState, Begun, TypeOK
  <1>3. [by |-> b, what |-> Current] \in StateWrite
    BY <1>1 DEF StateWrite
  <1> QED BY <1>2, <1>3 DEF BuildState, TypeOK

LEMMA BuildZoneType ==
  ASSUME TypeOK, NEW b \in Writer, NEW o, o[1] \in Zones, BuildZone(b, o)
  PROVE  /\ zoneWrites' \subseteq ZoneWrite /\ enqueued' \subseteq enqueued
         /\ overlaps' \in Nat
  <1>1. Held(o) \in Policies \cup {None}
    BY DEF TypeOK, Held
  <1> QED BY <1>1, BegunType DEF BuildZone, ZoneWrite, TypeOK

\* A save task: nothing but the pending saves and the files change.
LEMMA SavingType ==
  ASSUME TypeOK, Saving
  PROVE  TypeOK'
  <1>1. CASE WakeState
    <2>1. /\ stateWrites' \subseteq StateWrite /\ stateEnqueued' \in BOOLEAN
          /\ overlaps' \in Nat
      BY <1>1, BuildStateType DEF WakeState, Writer
    <2>2. UNCHANGED <<memory, enqueued, poisoned, client, zoneWrites, disk, phase, left,
                      lost, meanwhile, born, clean, spent>>
      BY <1>1 DEF WakeState
    <2> QED BY <2>1, <2>2 DEF TypeOK, MadeObject, Object, memory, disk
  <1>2. ASSUME NEW o \in enqueued, WakeZone(o)
        PROVE  TypeOK'
    <2>1. o[1] \in Zones
      BY DEF TypeOK, MadeObject
    <2>2. /\ zoneWrites' \subseteq ZoneWrite /\ enqueued' \subseteq enqueued
          /\ overlaps' \in Nat
      BY <1>2, <2>1, BuildZoneType DEF WakeZone, Writer
    <2>3. UNCHANGED <<memory, stateEnqueued, poisoned, client, stateWrites, disk, phase, left,
                      lost, meanwhile, born, clean, spent>>
      BY <1>2 DEF WakeZone
    <2> QED BY <2>2, <2>3 DEF TypeOK, MadeObject, Object, memory, disk
  <1>3. ASSUME NEW w \in stateWrites, LandState(w)
        PROVE  TypeOK'
    <2>1. w.what \in Contents
      BY DEF TypeOK, StateWrite
    <2>2. stateFile' \in Contents /\ lost' \in Nat /\ stateWrites' \subseteq stateWrites
      BY <1>3, <2>1 DEF LandState, Written, NotWritten, TypeOK
    <2> QED BY <1>3, <2>2 DEF LandState, TypeOK, MadeObject, Object, memory, saves
  <1>4. ASSUME NEW w \in zoneWrites, LandZone(w)
        PROVE  TypeOK'
    <2>1. w.zone \in Zones /\ w.policy \in Policies \cup {None}
      BY DEF TypeOK, ZoneWrite
    <2>2. /\ zoneFile' \in [Zones -> Policies \cup {None, Missing}]
          /\ lost' \in Nat
          /\ zoneWrites' \subseteq zoneWrites
          /\ UNCHANGED <<memory, saves, poisoned, client, stateWrites, stateFile, phase, left,
                         overlaps, meanwhile, born, clean, spent>>
      BY <1>4, <2>1 DEF LandZone, Written, NotWritten, TypeOK
    <2> QED BY <2>2 DEF TypeOK, MadeObject, Object, memory, saves
  <1> QED BY <1>1, <1>2, <1>3, <1>4 DEF Saving, WakeFor, LandFor

LEMMA BeginType ==
  ASSUME TypeOK, NEW from \in {"scratch", "file"}, Begin(from),
         zones' \subseteq Zones, policies' \subseteq Policies,
         made' = [z \in Zones |-> IF z \in zones' THEN 1 ELSE 0],
         policyOf' \in [Zones -> Policies \cup {None}]
  PROVE  TypeOK'
  <1>1. client' \in [Clients -> Handler] /\ \A c \in Clients : client'[c].at # "mark"
    BY DEF Begin, Handler, Idle
  <1>2. \A z \in zones' : MadeObject(Object(z))'
    <2>1. ASSUME NEW z \in zones'
          PROVE  z \in Zones /\ made'[z] = 1 /\ 1 \in 1 .. made'[z]
      OBVIOUS
    <2> QED BY <2>1 DEF MadeObject, Object
  <1>3. spent' \in [requests : Nat, starts : Nat, crashes : Nat]
    BY DEF Begin, TypeOK
  <1>4. made' \in [Zones -> Nat]
    OBVIOUS
  <1> QED BY <1>1, <1>2, <1>3, <1>4 DEF Begin, TypeOK, MadeObject, writing, disk, Phase

LEMMA MainType ==
  ASSUME TypeOK, Main
  PROVE  TypeOK'
  <1>1. ASSUME NEW present \in SUBSET Policies, StartFromScratch(present)
        PROVE  TypeOK'
    BY <1>1, BeginType DEF StartFromScratch
  <1>2. CASE StartFromFile
    <2>1. stateFile.zones \subseteq Zones /\ stateFile.policies \subseteq Policies
      BY DEF TypeOK, Contents
    <2>2. ASSUME NEW z \in stateFile.zones
          PROVE  zoneFile[z] \in Policies \cup {None}
      BY <1>2, <2>1 DEF StartFromFile, TypeOK
    <2>3. policyOf' \in [Zones -> Policies \cup {None}]
      BY <1>2, <2>1, <2>2 DEF StartFromFile
    <2>4. policies' \subseteq Policies
      BY <1>2, <2>1, <2>2 DEF StartFromFile, RestoredPolicies
    <2> QED BY <1>2, <2>1, <2>3, <2>4, BeginType DEF StartFromFile
  <1>3. CASE StartRefused \/ Stop \/ ListZones \/ Exit
    <2>1. /\ phase' \in Phase /\ clean' \in BOOLEAN /\ left' \subseteq Zones
          /\ spent' \in [requests : Nat, starts : Nat, crashes : Nat]
          /\ UNCHANGED <<memory, saves, poisoned, client, writing, disk, lost, overlaps,
                         meanwhile, born>>
      BY <1>3 DEF StartRefused, Stop, ListZones, ZonesToSave, Exit, Phase, TypeOK
    <2> QED BY <2>1 DEF TypeOK, MadeObject, Object, memory, saves, writing, disk
  <1>4. CASE SaveNow
    <2>1. /\ stateWrites' \subseteq StateWrite /\ stateEnqueued' \in BOOLEAN
          /\ overlaps' \in Nat
      BY <1>4, BuildStateType DEF SaveNow, Writer
    <2>2. /\ phase' \in Phase
          /\ UNCHANGED <<memory, enqueued, poisoned, client, zoneWrites, disk, left, lost,
                         meanwhile, born, clean, spent>>
      BY <1>4 DEF SaveNow, Phase
    <2> QED BY <2>1, <2>2 DEF TypeOK, MadeObject, Object, memory, disk
  <1>5. ASSUME NEW z \in left, SaveStateNow(z)
        PROVE  TypeOK'
    <2>1. Object(z)[1] \in Zones
      BY DEF TypeOK, Object
    <2>2. /\ zoneWrites' \subseteq ZoneWrite /\ enqueued' \subseteq enqueued
          /\ overlaps' \in Nat
      BY <1>5, <2>1, BuildZoneType DEF SaveStateNow, Writer
    <2>3. /\ left' \subseteq left
          /\ UNCHANGED <<memory, stateEnqueued, poisoned, client, stateWrites, disk, phase,
                         lost, meanwhile, born, clean, spent>>
      BY <1>5 DEF SaveStateNow
    <2> QED BY <2>2, <2>3 DEF TypeOK, MadeObject, Object, memory, disk
  <1>6. CASE SaveFails
    BY <1>6, DieType DEF SaveFails, TypeOK
  <1> QED BY <1>1, <1>2, <1>3, <1>4, <1>5, <1>6 DEF Main

\* Every variable has its type, and every zone, enqueued save and handler refers to a
\* zone object that was made, in every life of the process.
THEOREM TypeCorrect == Spec => []TypeOK
  <1>1. Init => TypeOK
    <2> SUFFICES ASSUME Init PROVE TypeOK
      OBVIOUS
    <2>1. client \in [Clients -> Handler] /\ \A c \in Clients : client[c].at # "mark"
      BY DEF Init, Handler, Idle
    <2> QED BY <2>1 DEF Init, TypeOK, MadeObject, NoState, Contents, Phase
  <1>2. TypeOK /\ [Next]_vars => TypeOK'
    <2> SUFFICES ASSUME TypeOK, [Next]_vars PROVE TypeOK'
      OBVIOUS
    <2>1. CASE HttpServer
      <3>1. ASSUME NEW c \in Clients, RemoveTooLate(c)
            PROVE  TypeOK'
        BY <3>1, RequestType, DieType DEF RemoveTooLate
      <3> QED BY <2>1, <3>1, AddZoneType, ChangePolicyType, RemoveZoneType, TakeZoneType
          DEF HttpServer, Handle
    <2>2. CASE Crash
      <3>1. spent' \in [requests : Nat, starts : Nat, crashes : Nat]
        BY <2>2 DEF Crash, TypeOK
      <3> QED BY <2>2, <3>1, DieType DEF Crash
    <2>3. CASE UNCHANGED vars
      BY <2>3 DEF vars, TypeOK, MadeObject, Object, memory, saves, writing, disk, process
    <2> QED BY <2>1, <2>2, <2>3, SavingType, MainType DEF Next
  <1> QED BY <1>1, <1>2, PTL DEF Spec

-----------------------------------------------------------------------------
(***************************************************************************)
(* Zones and policies                                                      *)
(***************************************************************************)

LinkInv == NoPhantomUsers /\ KnownPolicies /\ ScratchLifeConsistent

LEMMA LinksKept ==
  ASSUME LinkInv, UNCHANGED <<zones, policyOf, policies, users, born>>
  PROVE  LinkInv'
  BY DEF LinkInv, NoPhantomUsers, KnownPolicies, ScratchLifeConsistent, Consistent

LEMMA DieLinks ==
  ASSUME Die
  PROVE  LinkInv'
  BY DEF Die, LinkInv, NoPhantomUsers, KnownPolicies, ScratchLifeConsistent

LEMMA PanicLinks ==
  ASSUME LinkInv, NEW c \in Clients, Panic(c)
  PROVE  LinkInv'
  BY LinksKept, DieLinks DEF Panic, memory, process

LEMMA AddZoneLinks ==
  ASSUME TypeOK, LinkInv, NEW c \in Clients, NEW z \in Zones, NEW p \in Policies,
         AddZone(c, z, p)
  PROVE  LinkInv'
  <1>1. CASE z \notin zones /\ ~Panic(c)
    <2>1. /\ zones' = zones \cup {z}
          /\ policyOf' = [policyOf EXCEPT ![z] = None]
          /\ UNCHANGED <<policies, users, born>>
      BY <1>1 DEF AddZone, process
    <2>2. \A q \in Policies : z \notin users[q]
      BY <1>1 DEF LinkInv, NoPhantomUsers
    <2> QED BY <2>1, <2>2
        DEF TypeOK, LinkInv, NoPhantomUsers, KnownPolicies, ScratchLifeConsistent, Consistent
  <1>2. CASE z \in zones /\ ~Panic(c)
    BY <1>2, LinksKept DEF AddZone, memory, process
  <1> QED BY <1>1, <1>2, PanicLinks

\* Moving zone z to policy p, from the policy that lists it or from none.
LEMMA ChangePolicyLinks ==
  ASSUME TypeOK, LinkInv, NEW c \in Clients, ChangePolicy(c)
  PROVE  LinkInv'
  <1> DEFINE z == client[c].zone
             p == client[c].policy
  <1>1. CASE /\ z \in zones /\ p \in policies /\ Consistent(z)
             /\ users' = Linked(Unlinked(z), z, p)
             /\ policyOf' = [policyOf EXCEPT ![z] = p]
             /\ UNCHANGED <<zones, policies, born>>
    <2>1. z \in Zones /\ p \in Policies
      BY <1>1 DEF TypeOK
    <2> HIDE DEF z, p
    <2>2. ASSUME NEW q \in Policies
          PROVE  users'[q] = (users[q] \ (IF q = policyOf[z] THEN {z} ELSE {}))
                               \cup (IF q = p THEN {z} ELSE {})
      BY <1>1, <2>1 DEF Linked, Unlinked, TypeOK
    <2>3. \A q \in Policies : z \in users[q] => q = policyOf[z]
      BY DEF LinkInv, NoPhantomUsers
    <2>4. \A y \in Zones : policyOf'[y] = IF y = z THEN p ELSE policyOf[y]
      BY <1>1, <2>1 DEF TypeOK
    <2>5. NoPhantomUsers'
      BY <1>1, <2>1, <2>2, <2>3, <2>4 DEF TypeOK, LinkInv, NoPhantomUsers
    <2>6. KnownPolicies'
      BY <1>1, <2>1, <2>4 DEF TypeOK, LinkInv, KnownPolicies
    <2>7. ScratchLifeConsistent'
      <3> SUFFICES ASSUME born = "scratch", NEW y \in zones, policyOf'[y] # None
                   PROVE  policyOf'[y] \in policies /\ y \in users'[policyOf'[y]]
        BY <1>1 DEF ScratchLifeConsistent, Consistent
      <3>1. CASE y = z
        BY <1>1, <2>1, <2>2, <2>4, <3>1
      <3>2. CASE y # z
        <4>1. policyOf'[y] = policyOf[y] /\ policyOf[y] \in policies /\ y \in users[policyOf[y]]
          BY <2>4, <3>2 DEF TypeOK, LinkInv, ScratchLifeConsistent, Consistent
        <4> QED BY <2>2, <3>2, <4>1 DEF TypeOK
      <3> QED BY <3>1, <3>2
    <2> QED BY <2>5, <2>6, <2>7 DEF LinkInv
  <1>2. CASE UNCHANGED <<memory, process>>
    BY <1>2, LinksKept DEF memory, process
  <1> QED BY <1>1, <1>2, PanicLinks DEF ChangePolicy, process

LEMMA TakeZoneLinks ==
  ASSUME TypeOK, LinkInv, NEW c \in Clients, TakeZone(c)
  PROVE  LinkInv'
  <1> DEFINE z == client[c].zone
  <1>1. CASE /\ z \in zones /\ zones' = zones \ {z}
             /\ users' = Unlinked(z)
             /\ policyOf' = [policyOf EXCEPT ![z] = None]
             /\ UNCHANGED <<policies, born>>
    <2> HIDE DEF z
    <2>1. /\ z \in zones /\ zones' = zones \ {z}
          /\ users' = Unlinked(z)
          /\ policyOf' = [policyOf EXCEPT ![z] = None]
          /\ UNCHANGED <<policies, born>>
      BY <1>1
    <2>2. \A q \in Policies : users'[q] = users[q] \ {z}
      BY <2>1 DEF LinkInv, NoPhantomUsers, Unlinked
    <2>3. \A y \in zones' : policyOf'[y] = policyOf[y]
      BY <2>1 DEF TypeOK
    <2>4. NoPhantomUsers'
      BY <2>1, <2>2, <2>3 DEF LinkInv, NoPhantomUsers
    <2>5. KnownPolicies'
      BY <2>1, <2>3 DEF LinkInv, KnownPolicies
    <2>6. ScratchLifeConsistent'
      BY <2>1, <2>2, <2>3 DEF TypeOK, LinkInv, ScratchLifeConsistent, Consistent
    <2> QED BY <2>4, <2>5, <2>6 DEF LinkInv
  <1>2. CASE UNCHANGED <<memory, process>>
    BY <1>2, LinksKept DEF memory, process
  <1> QED BY <1>1, <1>2, PanicLinks DEF TakeZone

LEMMA MainLinks ==
  ASSUME TypeOK, LinkInv, Main
  PROVE  LinkInv'
  <1>1. ASSUME NEW present \in SUBSET Policies, StartFromScratch(present)
        PROVE  LinkInv'
    BY <1>1 DEF StartFromScratch, Begin, LinkInv, NoPhantomUsers, KnownPolicies,
       ScratchLifeConsistent
  <1>2. CASE StartFromFile
    <2>1. zones' = stateFile.zones /\ stateFile.zones \subseteq Zones
      BY <1>2 DEF StartFromFile, TypeOK, Contents
    <2>2. \A z \in zones' : policyOf'[z] \in RestoredPolicies \cup {None}
      BY <1>2, <2>1 DEF StartFromFile, RestoredPolicies
    <2>3. policies' = RestoredPolicies /\ users' = [q \in Policies |-> {}] /\ born' = "file"
      BY <1>2 DEF StartFromFile, Begin
    <2> QED BY <2>2, <2>3 DEF LinkInv, NoPhantomUsers, KnownPolicies, ScratchLifeConsistent
  <1>3. CASE \/ StartRefused \/ Stop \/ SaveNow \/ ListZones
             \/ (\E z \in left : SaveStateNow(z)) \/ Exit
    BY <1>3, LinksKept DEF StartRefused, Stop, SaveNow, ListZones, SaveStateNow, Exit, memory
  <1>4. CASE SaveFails
    BY <1>4, DieLinks DEF SaveFails
  <1> QED BY <1>1, <1>2, <1>3, <1>4 DEF Main

LEMMA LinksInvariant == Spec => []LinkInv
  <1>1. Init => LinkInv
    BY DEF Init, LinkInv, NoPhantomUsers, KnownPolicies, ScratchLifeConsistent
  <1>2. TypeOK /\ LinkInv /\ [Next]_vars => LinkInv'
    <2> SUFFICES ASSUME TypeOK, LinkInv, [Next]_vars PROVE LinkInv'
      OBVIOUS
    <2>1. CASE HttpServer
      <3>1. ASSUME NEW c \in Clients,
                   MarkZone(c) \/ (\E z \in Zones : RemoveZone(c, z)) \/ RemoveTooLate(c)
            PROVE  LinkInv'
        BY <3>1, LinksKept, DieLinks DEF MarkZone, RemoveZone, RemoveTooLate, memory, process
      <3> QED BY <2>1, <3>1, AddZoneLinks, ChangePolicyLinks, TakeZoneLinks
          DEF HttpServer, Handle
    <2>2. CASE Saving
      BY <2>2, LinksKept DEF Saving, WakeFor, LandFor, WakeState, WakeZone, LandState,
         LandZone, memory, process
    <2>3. CASE Crash
      BY <2>3, DieLinks DEF Crash
    <2>4. CASE UNCHANGED vars
      BY <2>4, LinksKept DEF vars, memory, process
    <2> QED BY <2>1, <2>2, <2>3, <2>4, MainLinks DEF Next
  <1> QED BY <1>1, <1>2, TypeCorrect, PTL DEF Spec

\* No policy lists a zone that is not there or uses another policy.
THEOREM NoPolicyListsPhantoms == Spec => []NoPhantomUsers
  <1>1. LinkInv => NoPhantomUsers
    BY DEF LinkInv
  <1> QED BY <1>1, LinksInvariant, PTL

\* The policy of every zone is known, whatever files of different age a start loads.
THEOREM ZonePoliciesExist == Spec => []KnownPolicies
  <1>1. LinkInv => KnownPolicies
    BY DEF LinkInv
  <1> QED BY <1>1, LinksInvariant, PTL

\* In a process that started from scratch, zones and policies are consistent.
THEOREM ScratchLivesAreConsistent == Spec => []ScratchLifeConsistent
  <1>1. LinkInv => ScratchLifeConsistent
    BY DEF LinkInv
  <1> QED BY <1>1, LinksInvariant, PTL

-----------------------------------------------------------------------------
(***************************************************************************)
(* Saves of the state                                                      *)
(***************************************************************************)

\* Nothing is being written while the process does not run.
Quiet == ~Live => stateWrites = {} /\ zoneWrites = {}

\* Without a save enqueued, what is being or was written last lists every zone.
StateSettling ==
  phase = "up" /\ ~poisoned /\ ~stateEnqueued /\ lost = 0 /\ overlaps = 0 =>
    /\ stateWrites = {} => zones \subseteq stateFile.zones
    /\ \A w \in stateWrites : zones \subseteq w.what.zones

LEMMA QuietInvariant == Spec => []Quiet
  <1>1. Init => Quiet
    BY DEF Init, Quiet
  <1>2. Quiet /\ [Next]_vars => Quiet'
    <2> SUFFICES ASSUME Quiet, [Next]_vars PROVE Quiet'
      OBVIOUS
    <2>1. CASE Die
      BY <2>1 DEF Die, Quiet
    <2>2. CASE UNCHANGED <<writing, phase>>
      BY <2>2 DEF writing, Quiet, Live, Stopping
    <2>3. CASE HttpServer
      BY <2>1, <2>2, <2>3 DEF HttpServer, Handle, AddZone, MarkZone, ChangePolicy, RemoveZone,
         TakeZone, RemoveTooLate, Panic, process
    <2>4. CASE Saving
      BY <2>4 DEF Saving, WakeFor, LandFor, WakeState, WakeZone, LandState, LandZone, Quiet,
         Live, Stopping
    <2>5. CASE Main
      BY <2>1, <2>2, <2>5 DEF Main, StartFromScratch, StartFromFile, Begin, StartRefused, Stop,
         SaveNow, ListZones, SaveStateNow, SaveFails, Exit, writing, Quiet, Live, Stopping
    <2> QED BY <2>1, <2>2, <2>3, <2>4, <2>5 DEF Next, Crash, vars, process
  <1> QED BY <1>1, <1>2, PTL DEF Spec

LEMMA StateSettlingKept ==
  ASSUME StateSettling, zones' \subseteq zones,
         UNCHANGED <<phase, stateWrites, stateFile, lost>>, overlaps' = 0 => overlaps = 0,
         poisoned => poisoned', stateEnqueued => stateEnqueued'
  PROVE  StateSettling'
  BY DEF StateSettling

LEMMA StateSettles == Spec => []StateSettling
  <1>1. Init => StateSettling
    BY DEF Init, StateSettling
  <1>2. TypeOK /\ Quiet /\ StateSettling /\ [Next]_vars => StateSettling'
    <2> SUFFICES ASSUME TypeOK, Quiet, StateSettling, [Next]_vars PROVE StateSettling'
      OBVIOUS
    <2>1. CASE Die
      BY <2>1 DEF Die, StateSettling
    <2>2. ASSUME NEW c \in Clients, Panic(c)
          PROVE  StateSettling'
      BY <2>1, <2>2, StateSettlingKept DEF Panic, memory, saves, writing, disk, process, TypeOK
    <2>3. CASE HttpServer
      <3>1. ASSUME NEW c \in Clients, NEW z \in Zones, NEW p \in Policies, AddZone(c, z, p)
            PROVE  StateSettling'
        <4>1. CASE z \notin zones /\ ~Panic(c)
          <5>1. stateEnqueued' = TRUE
            BY <3>1, <4>1 DEF AddZone, EnqueueState
          <5> QED BY <5>1 DEF StateSettling
        <4>2. CASE z \in zones /\ ~Panic(c)
          BY <3>1, <4>2, StateSettlingKept DEF AddZone, memory, saves, writing, disk, process
        <4> QED BY <2>2, <4>1, <4>2
      <3>2. ASSUME NEW c \in Clients, Handle(c)
            PROVE  StateSettling'
        <4>1. CASE MarkZone(c) \/ ChangePolicy(c)
          BY <2>2, <4>1, StateSettlingKept
             DEF MarkZone, ChangePolicy, memory, saves, writing, disk, process
        <4>2. CASE TakeZone(c) /\ ~Panic(c)
          <5>1. /\ zones' \subseteq zones
                /\ UNCHANGED <<phase, stateWrites, stateFile, lost, overlaps, poisoned>>
                /\ stateEnqueued' \in {stateEnqueued, TRUE}
            BY <4>2 DEF TakeZone, EnqueueState, memory, saves, writing, disk, process
          <5>2. stateEnqueued => stateEnqueued'
            BY <5>1
          <5> QED BY <5>1, <5>2, StateSettlingKept
        <4> QED BY <2>2, <3>2, <4>1, <4>2 DEF Handle
      <3>3. ASSUME NEW c \in Clients, NEW z \in Zones, RemoveZone(c, z)
            PROVE  StateSettling'
        BY <3>3, StateSettlingKept DEF RemoveZone, memory, saves, writing, disk, process
      <3> QED BY <2>1, <2>3, <3>1, <3>2, <3>3 DEF HttpServer, RemoveTooLate
    <2>4. CASE WakeState
      <3>1. Current.zones = zones
        BY DEF Current
      <3>2. overlaps' = 0 => stateWrites = {}
        BY <2>4 DEF WakeState, BuildState, Begun, TypeOK
      <3>3. stateWrites' = stateWrites \cup {[by |-> "task", what |-> Current]}
        BY <2>4 DEF WakeState, BuildState
      <3>4. zones' = zones
        BY <2>4 DEF WakeState, memory
      <3>5. ASSUME overlaps' = 0
            PROVE  stateWrites' # {} /\ \A w \in stateWrites' : zones' \subseteq w.what.zones
        <4> DEFINE built == [by |-> "task", what |-> Current]
        <4>1. stateWrites' = {built} /\ built.what.zones = zones'
          BY <3>1, <3>2, <3>3, <3>4, <3>5
        <4> QED BY <4>1
      <3> QED BY <3>5 DEF StateSettling
    <2>5. ASSUME NEW w \in stateWrites, LandState(w)
          PROVE  StateSettling'
      <3>1. CASE lost' = lost
        BY <2>5, <3>1 DEF LandState, Written, NotWritten, StateSettling, TypeOK, memory, saves
      <3>2. CASE lost' # lost
        BY <2>5, <3>2 DEF LandState, Written, NotWritten, StateSettling, TypeOK
      <3> QED BY <3>1, <3>2
    <2>6. ASSUME NEW z \in Zones, WakeFor(z) \/ LandFor(z)
          PROVE  StateSettling'
      <3>1. ASSUME NEW o \in enqueued, WakeZone(o)
            PROVE  StateSettling'
        BY <3>1, StateSettlingKept, BegunType DEF WakeZone, BuildZone, memory, disk
      <3>2. ASSUME NEW w \in zoneWrites, LandZone(w)
            PROVE  StateSettling'
        <4>1. CASE lost' = lost
          BY <3>2, <4>1, StateSettlingKept DEF LandZone, memory, saves
        <4>2. CASE lost' # lost
          BY <3>2, <4>2 DEF LandZone, Written, NotWritten, StateSettling, TypeOK
        <4> QED BY <4>1, <4>2
      <3> QED BY <2>6, <3>1, <3>2 DEF WakeFor, LandFor
    <2>7. CASE Main
      <3>1. ASSUME NEW present \in SUBSET Policies, StartFromScratch(present)
            PROVE  StateSettling'
        BY <3>1 DEF StartFromScratch, Begin, StateSettling, Quiet, Live, Stopping, writing
      <3>2. CASE StartFromFile
        BY <3>2 DEF StartFromFile, Begin, StateSettling, Quiet, Live, Stopping, writing, disk
      <3>3. CASE phase' # "up"
        BY <3>3 DEF StateSettling
      <3> QED BY <2>1, <2>7, <3>1, <3>2, <3>3
          DEF Main, StartRefused, Stop, SaveNow, ListZones, SaveStateNow, SaveFails, Exit
    <2>8. CASE UNCHANGED vars
      BY <2>8, StateSettlingKept DEF vars, memory, saves, writing, disk, process
    <2> QED BY <2>1, <2>3, <2>4, <2>5, <2>6, <2>7, <2>8 DEF Next, Saving, Crash
  <1> QED BY <1>1, <1>2, TypeCorrect, QuietInvariant, PTL DEF Spec

\* Every zone is on disk once no save of the state is enqueued or under way.
THEOREM AddedZonesAreListed == Spec => []AddedIsListed
  <1>1. StateSettling => AddedIsListed
    BY DEF StateSettling, AddedIsListed
  <1> QED BY <1>1, StateSettles, PTL

-----------------------------------------------------------------------------
(***************************************************************************)
(* Saves of zones                                                          *)
(***************************************************************************)

\* The handler of client c is about to mark object o.
Marking(c, o) == client[c].at = "mark" /\ client[c].object = o

\* A save of zone z's own object is enqueued, or about to be.
Due(z) == Object(z) \in enqueued \/ \E c \in Clients : Marking(c, Object(z))

\* Of zone z, only its own object may still be saved, and what is being or was written
\* last to its file is its policy.
Safe(z) ==
  /\ \A o \in enqueued : o[1] = z => o = Object(z)
  /\ \A c \in Clients :
       client[c].at = "mark" /\ client[c].object[1] = z => Marking(c, Object(z))
  /\ \A w \in zoneWrites : w.zone = z => w.policy = policyOf[z]
  /\ (\A w \in zoneWrites : w.zone # z) => zoneFile[z] = policyOf[z]

ZonesSettling ==
  phase = "up" /\ ~poisoned /\ lost = 0 /\ overlaps = 0 =>
    \A z \in zones : Due(z) \/ Safe(z)

\* Zone z, its saves and its file are as they were, but for a save of its own object
\* that may have been enqueued or dropped, and a handler that is done with it.
LEMMA SafeKept ==
  ASSUME NEW z, Safe(z),
         made'[z] = made[z], policyOf'[z] = policyOf[z], zoneFile'[z] = zoneFile[z],
         zoneWrites' = zoneWrites,
         \A o \in enqueued' : o[1] = z => o \in enqueued \/ o = Object(z),
         \A c \in Clients : client'[c].at = "mark" /\ client'[c].object[1] = z
                           => client'[c] = client[c]
  PROVE  Safe(z)'
  <1>1. Object(z)' = Object(z)
    BY DEF Object
  <1> QED BY <1>1 DEF Safe, Marking

\* A save that is built in its turn, of a zone's own object or of another one.
LEMMA BuildSafe ==
  ASSUME TypeOK, NEW b, NEW o, o \in enqueued \/ o = Object(o[1]),
         BuildZone(b, o), overlaps' = 0, UNCHANGED <<memory, client, disk>>,
         NEW z \in zones
  PROVE  /\ o = Object(z) => Safe(z)'
         /\ Due(z) \/ Safe(z) => (Due(z) \/ Safe(z))'
         /\ Safe(z) => Safe(z)'
  <1>1. /\ InTurn(o)
        /\ enqueued' = enqueued \ {o}
        /\ zoneWrites' = zoneWrites \cup {[by |-> b, zone |-> o[1], policy |-> Held(o)]}
    BY BegunType DEF BuildZone
  <1>2. Object(z)' = Object(z) /\ z \in Zones /\ made[z] \in Nat
    BY DEF memory, Object, TypeOK
  <1>3. ASSUME NEW e, MadeObject(e), e[1] = z, ~Older(e, Object(z))
        PROVE  e = Object(z)
    BY <1>2, <1>3 DEF MadeObject, Older, Object
  <1>4. CASE o = Object(z)
    <2>1. o[1] = z /\ Held(o) = policyOf[z]
      BY <1>4 DEF Held, Object
    <2>2. \A e \in enqueued' : e[1] # z
      BY <1>1, <1>3, <1>4 DEF InTurn, TypeOK
    <2>3. \A c \in Clients : client[c].at = "mark" /\ client[c].object[1] = z
                              => client[c].object = Object(z)
      BY <1>1, <1>3, <1>4 DEF InTurn, TypeOK
    <2>4. \A w \in zoneWrites' : w.zone = z => w.policy = policyOf[z]
      BY <1>1, <2>1 DEF InTurn
    <2>5. \E w \in zoneWrites' : w.zone = z
      <3> DEFINE built == [by |-> b, zone |-> o[1], policy |-> Held(o)]
      <3>1. built \in zoneWrites' /\ built.zone = z
        BY <1>1, <2>1
      <3> QED BY <3>1
    <2>6. Safe(z)'
      BY <1>1, <1>2, <2>2, <2>3, <2>4, <2>5 DEF Safe, Marking, memory
    <2> QED BY <2>6
  <1>5. CASE o # Object(z)
    <2>1. Due(z) => Due(z)'
      BY <1>1, <1>2, <1>5 DEF Due, Marking
    <2>2. Safe(z) => o[1] # z
      BY <1>5 DEF Safe
    <2>3. ASSUME Safe(z) PROVE Safe(z)'
      <3>1. /\ \A e \in enqueued' : e[1] = z => e = Object(z)'
            /\ \A c \in Clients : client'[c].at = "mark" /\ client'[c].object[1] = z
                                 => Marking(c, Object(z))'
        BY <1>1, <1>2, <2>3 DEF Safe, Marking
      <3>2. \A w \in zoneWrites' : w.zone = z => w \in zoneWrites
        BY <1>1, <2>2, <2>3
      <3>3. zoneWrites \subseteq zoneWrites' /\ UNCHANGED <<policyOf, zoneFile>>
        BY <1>1 DEF memory, disk
      <3> QED BY <2>3, <3>1, <3>2, <3>3 DEF Safe
    <2> QED BY <1>5, <2>1, <2>3
  <1> QED BY <1>4, <1>5

\* A write that succeeds.
LEMMA LandSafe ==
  ASSUME TypeOK, NEW w \in zoneWrites, LandZone(w), lost' = lost,
         NEW z \in zones, Safe(z)
  PROVE  Safe(z)'
  <1>1. /\ zoneWrites' = zoneWrites \ {w}
        /\ zoneFile' = [zoneFile EXCEPT ![w.zone] = w.policy]
        /\ UNCHANGED <<memory, saves, client>>
    BY DEF LandZone, Written, NotWritten, TypeOK
  <1>2. z \in Zones /\ Object(z)' = Object(z)
    BY <1>1 DEF TypeOK, Object, memory
  <1>3. CASE w.zone = z
    <2>1. zoneFile'[z] = policyOf[z]
      BY <1>1, <1>2, <1>3 DEF Safe, TypeOK
    <2> QED BY <1>1, <1>2, <2>1 DEF Safe, Marking, memory, saves
  <1>4. CASE w.zone # z
    <2>1. zoneFile'[z] = zoneFile[z]
      BY <1>1, <1>2, <1>4 DEF TypeOK
    <2>2. (\A v \in zoneWrites' : v.zone # z) => (\A v \in zoneWrites : v.zone # z)
      BY <1>1, <1>4
    <2> QED BY <1>1, <1>2, <2>1, <2>2 DEF Safe, Marking, memory, saves
  <1> QED BY <1>3, <1>4

LEMMA DueKept ==
  ASSUME NEW z, Due(z), made'[z] = made[z], enqueued \subseteq enqueued',
         \A c \in Clients : Marking(c, Object(z)) =>
           client'[c] = client[c] \/ Object(z) \in enqueued'
  PROVE  Due(z)'
  <1>1. Object(z)' = Object(z)
    BY DEF Object
  <1> QED BY <1>1 DEF Due, Marking

\* Adding zone z makes a save of its new object due, and no other zone's less so.
LEMMA AddZoneSettling ==
  ASSUME TypeOK, NEW c \in Clients, NEW z \in Zones, NEW p \in Policies, AddZone(c, z, p),
         ~Panic(c), NEW y \in zones', y \in zones => Due(y) \/ Safe(y)
  PROVE  (Due(y) \/ Safe(y))'
  <1>1. /\ y \in Zones /\ client[c] = Idle /\ ~Marking(c, Object(y))
        /\ UNCHANGED <<enqueued, writing, disk>>
    BY DEF AddZone, Marking, Idle, memory, saves, TypeOK
  <1>2. CASE z \in zones
    <2>1. /\ client' = [client EXCEPT ![c] = [at |-> "policy", zone |-> z, policy |-> p]]
          /\ UNCHANGED <<memory, saves>>
      BY <1>2 DEF AddZone
    <2>2. \A d \in Clients : client'[d].at = "mark" => client'[d] = client[d]
      BY <2>1 DEF TypeOK
    <2>3. \A d \in Clients : Marking(d, Object(y)) => client'[d] = client[d]
      BY <1>1, <2>1 DEF TypeOK
    <2> QED BY <1>1, <2>1, <2>2, <2>3, DueKept, SafeKept DEF memory, saves, writing, disk
  <1>3. CASE z \notin zones
    <2> DEFINE n == made[z] + 1
    <2>1. /\ made' = [made EXCEPT ![z] = n]
          /\ policyOf' = [policyOf EXCEPT ![z] = None]
          /\ zones' = zones \cup {z}
          /\ client' = [client EXCEPT ![c] =
               [at |-> "mark", zone |-> z, policy |-> p, object |-> <<z, n>>]]
      BY <1>3 DEF AddZone, NextObject
    <2>2. client'[c].at = "mark" /\ client'[c].object = <<z, n>>
      BY <2>1 DEF TypeOK
    <2>3. CASE y = z
      <3>1. Object(z)' = <<z, n>>
        BY <2>1 DEF Object, TypeOK
      <3> QED BY <2>2, <2>3, <3>1 DEF Due, Marking
    <2>4. CASE y # z
      <3>1. y \in zones /\ made'[y] = made[y] /\ policyOf'[y] = policyOf[y]
        BY <1>1, <2>1, <2>4 DEF TypeOK
      <3>2. client'[c].object[1] = z
        BY <2>2
      <3>3. \A d \in Clients : d # c => client'[d] = client[d]
        BY <2>1 DEF TypeOK
      <3>4. CASE Due(y)
        BY <1>1, <3>1, <3>3, <3>4, DueKept
      <3>5. CASE Safe(y)
        BY <1>1, <2>4, <3>1, <3>2, <3>3, <3>5, SafeKept DEF writing, disk
      <3> QED BY <3>1, <3>4, <3>5
    <2> QED BY <2>3, <2>4
  <1> QED BY <1>2, <1>3

\* A handler that marks an object, whichever zone's, or that is done.
LEMMA MarkZoneSettling ==
  ASSUME TypeOK, NEW c \in Clients, MarkZone(c), NEW y \in zones
  PROVE  (Due(y) => Due(y)') /\ (Safe(y) => Safe(y)')
  <1>1. /\ client[c].at = "mark"
        /\ enqueued' = enqueued \cup {client[c].object}
        /\ client'[c].at = "policy"
        /\ \A d \in Clients : d # c => client'[d] = client[d]
        /\ UNCHANGED <<memory, writing, disk>>
    BY DEF MarkZone, Enqueue, TypeOK
  <1>2. Due(y) => Due(y)'
    <2>1. \A d \in Clients : Marking(d, Object(y)) =>
            client'[d] = client[d] \/ Object(y) \in enqueued'
      BY <1>1 DEF Marking
    <2> QED BY <1>1, <2>1, DueKept DEF memory
  <1>3. Safe(y) => Safe(y)'
    <2> SUFFICES ASSUME Safe(y) PROVE Safe(y)'
      OBVIOUS
    <2>1. client[c].object[1] = y => client[c].object = Object(y)
      BY <1>1 DEF Safe, Marking
    <2>2. \A o \in enqueued' : o[1] = y => o \in enqueued \/ o = Object(y)
      BY <1>1, <2>1
    <2>3. \A d \in Clients : client'[d].at = "mark" => client'[d] = client[d]
      BY <1>1
    <2> QED BY <1>1, <2>2, <2>3, SafeKept DEF memory, writing, disk
  <1> QED BY <1>2, <1>3

LEMMA ChangePolicySettling ==
  ASSUME TypeOK, NEW c \in Clients, ChangePolicy(c), ~Panic(c),
         NEW y \in zones, Due(y) \/ Safe(y)
  PROVE  (Due(y) \/ Safe(y))'
  <1> DEFINE z == client[c].zone
             p == client[c].policy
  <1>1. /\ client[c].at = "policy"
        /\ client'[c].at # "mark"
        /\ \A d \in Clients : d # c => client'[d] = client[d]
        /\ UNCHANGED <<made, writing, disk>>
    BY DEF ChangePolicy, Idle, memory, TypeOK
  <1>2. \A d \in Clients : client'[d].at = "mark" => client'[d] = client[d]
    BY <1>1
  <1>3. \A d \in Clients : Marking(d, Object(y)) => client'[d] = client[d]
    BY <1>1 DEF Marking
  <1>4. CASE UNCHANGED <<memory, saves>>
    BY <1>1, <1>2, <1>3, <1>4, DueKept, SafeKept DEF memory, saves, writing, disk
  <1>5. CASE /\ z \in zones
             /\ policyOf' = [policyOf EXCEPT ![z] = p]
             /\ enqueued' = enqueued \cup {Object(z)}
    <2> HIDE DEF z, p
    <2>1. CASE y = z
      BY <1>1, <1>5, <2>1 DEF Due, Object
    <2>2. CASE y # z
      <3>1. policyOf'[y] = policyOf[y]
        BY <1>5, <2>2 DEF TypeOK
      <3>2. \A o \in enqueued' : o[1] = y => o \in enqueued
        BY <1>5, <2>2 DEF Object
      <3>3. enqueued \subseteq enqueued'
        BY <1>5
      <3> QED BY <1>1, <1>2, <1>3, <3>1, <3>2, <3>3, DueKept, SafeKept DEF writing, disk
    <2> QED BY <2>1, <2>2
  <1> QED BY <1>4, <1>5 DEF ChangePolicy, Enqueue

\* A removal that is announced, and one that takes place: no save is enqueued or begun.
LEMMA TakeZoneSettling ==
  ASSUME TypeOK, NEW c \in Clients, TakeZone(c), ~Panic(c), NEW y \in zones'
  PROVE  y \in zones /\ (Due(y) => Due(y)') /\ (Safe(y) => Safe(y)')
  <1> DEFINE z == client[c].zone
  <1>1. /\ client[c].at = "remove" /\ client'[c].at # "mark"
        /\ \A d \in Clients : d # c => client'[d] = client[d]
        /\ UNCHANGED <<made, enqueued, writing, disk>>
    BY DEF TakeZone, Idle, memory, saves, TypeOK
  <1>2. /\ \A d \in Clients : client'[d].at = "mark" => client'[d] = client[d]
        /\ \A d \in Clients : Marking(d, Object(y)) => client'[d] = client[d]
    BY <1>1 DEF Marking
  <1>3. y \in zones /\ policyOf'[y] = policyOf[y]
    <2>1. CASE UNCHANGED memory
      BY <2>1 DEF memory
    <2>2. CASE zones' = zones \ {z} /\ policyOf' = [policyOf EXCEPT ![z] = None]
      BY <2>2 DEF TypeOK
    <2> QED BY <2>1, <2>2 DEF TakeZone
  <1> QED BY <1>1, <1>2, <1>3, DueKept, SafeKept DEF writing, disk

LEMMA RemoveZoneSettling ==
  ASSUME TypeOK, NEW c \in Clients, NEW z \in Zones, RemoveZone(c, z), NEW y \in zones
  PROVE  (Due(y) => Due(y)') /\ (Safe(y) => Safe(y)')
  <1>1. /\ client[c] = Idle /\ client'[c].at # "mark"
        /\ \A d \in Clients : d # c => client'[d] = client[d]
        /\ UNCHANGED <<memory, saves, writing, disk>>
    BY DEF RemoveZone, TypeOK
  <1>2. Idle.at # "mark"
    BY DEF Idle
  <1>3. /\ \A d \in Clients : client'[d].at = "mark" => client'[d] = client[d]
        /\ \A d \in Clients : Marking(d, Object(y)) => client'[d] = client[d]
    BY <1>1, <1>2 DEF Marking
  <1> QED BY <1>1, <1>3, DueKept, SafeKept DEF memory, saves, writing, disk

LEMMA ZonesSettle == Spec => []ZonesSettling
  <1>1. Init => ZonesSettling
    BY DEF Init, ZonesSettling
  <1>2. TypeOK /\ Quiet /\ ZonesSettling /\ [Next]_vars => ZonesSettling'
    <2> SUFFICES ASSUME TypeOK, Quiet, ZonesSettling, [Next]_vars,
                        phase' = "up", ~poisoned', lost' = 0, overlaps' = 0,
                        NEW z \in zones'
                 PROVE  (Due(z) \/ Safe(z))'
      BY DEF ZonesSettling
    <2>1. ~Die
      BY DEF Die
    <2>2. ASSUME NEW c \in Clients, Panic(c)
          PROVE  FALSE
      BY <2>1, <2>2 DEF Panic, Die
    \* The zones were settling before, where it matters.
    <2>3. ASSUME phase = "up", ~poisoned, lost = 0, overlaps = 0, z \in zones
          PROVE  Due(z) \/ Safe(z)
      BY <2>3 DEF ZonesSettling
    <2>4. CASE HttpServer
      <3>1. phase = "up" /\ ~poisoned /\ lost = 0 /\ overlaps = 0
        BY <2>1, <2>2, <2>4
           DEF HttpServer, Handle, AddZone, MarkZone, ChangePolicy, RemoveZone, TakeZone,
               RemoveTooLate, process
      <3>2. ASSUME NEW c \in Clients, NEW y \in Zones, NEW p \in Policies, AddZone(c, y, p)
            PROVE  (Due(z) \/ Safe(z))'
        BY <2>2, <2>3, <3>1, <3>2, AddZoneSettling
      <3>3. ASSUME NEW c \in Clients, MarkZone(c)
            PROVE  (Due(z) \/ Safe(z))'
        BY <2>3, <3>1, <3>3, MarkZoneSettling DEF MarkZone, memory
      <3>4. ASSUME NEW c \in Clients, ChangePolicy(c)
            PROVE  (Due(z) \/ Safe(z))'
        <4>1. z \in zones
          BY <2>2, <3>4 DEF ChangePolicy, memory
        <4> QED BY <2>2, <2>3, <3>1, <3>4, <4>1, ChangePolicySettling
      <3>5. ASSUME NEW c \in Clients, NEW y \in Zones, RemoveZone(c, y)
            PROVE  (Due(z) \/ Safe(z))'
        <4>1. z \in zones
          BY <3>5 DEF RemoveZone, memory
        <4> QED BY <2>3, <3>1, <3>5, <4>1, RemoveZoneSettling
      <3>6. ASSUME NEW c \in Clients, TakeZone(c)
            PROVE  (Due(z) \/ Safe(z))'
        BY <2>2, <2>3, <3>1, <3>6, TakeZoneSettling
      <3> QED BY <2>1, <2>4, <3>2, <3>3, <3>4, <3>5, <3>6 DEF HttpServer, Handle, RemoveTooLate
    <2>5. CASE Saving
      <3>1. /\ phase = "up" /\ ~poisoned /\ z \in zones
            /\ UNCHANGED <<memory, client>>
        BY <2>5 DEF Saving, WakeFor, LandFor, WakeState, WakeZone, LandState, LandZone, memory
      <3>2. lost = 0 /\ lost' = lost /\ overlaps = 0
        <4>1. lost = 0 /\ lost' = lost
          BY <2>5 DEF Saving, WakeFor, LandFor, WakeState, WakeZone, LandState, LandZone,
             Written, NotWritten, TypeOK
        <4>2. overlaps = 0
          BY <2>5, BegunType DEF Saving, WakeFor, LandFor, WakeState, WakeZone, BuildState,
             BuildZone, LandState, LandZone
        <4> QED BY <4>1, <4>2
      <3>3. Due(z) \/ Safe(z)
        BY <2>3, <3>1, <3>2
      <3>4. CASE UNCHANGED <<enqueued, zoneWrites, zoneFile>>
        BY <3>1, <3>3, <3>4, DueKept, SafeKept DEF memory
      <3>5. ASSUME NEW o \in enqueued, WakeZone(o)
            PROVE  (Due(z) \/ Safe(z))'
        BY <3>1, <3>3, <3>5, BuildSafe DEF WakeZone
      <3>6. ASSUME NEW w \in zoneWrites, LandZone(w)
            PROVE  (Due(z) \/ Safe(z))'
        <4>1. CASE Due(z)
          BY <3>1, <3>6, <4>1, DueKept DEF LandZone, memory, saves
        <4>2. CASE Safe(z)
          BY <3>1, <3>2, <3>6, <4>2, LandSafe
        <4> QED BY <3>3, <4>1, <4>2
      <3> QED BY <2>5, <3>4, <3>5, <3>6
          DEF Saving, WakeFor, LandFor, WakeState, BuildState, LandState, disk, saves
    <2>6. CASE Main
      <3>1. ASSUME NEW present \in SUBSET Policies, StartFromScratch(present)
            PROVE  FALSE
        BY <3>1 DEF StartFromScratch
      <3>2. CASE StartFromFile
        <4>1. /\ policyOf'[z] = zoneFile[z] /\ zoneFile' = zoneFile
              /\ enqueued' = {} /\ zoneWrites' = {}
              /\ \A c \in Clients : client'[c] = [at |-> "idle"]
          BY <3>2 DEF StartFromFile, Begin, Idle, Quiet, Live, Stopping, writing, disk, TypeOK,
                      Contents
        <4>2. \A c \in Clients : client'[c].at # "mark"
          BY <4>1
        <4> QED BY <4>1, <4>2 DEF Safe
      <3> QED BY <2>1, <2>6, <3>1, <3>2
          DEF Main, StartRefused, Stop, SaveNow, ListZones, SaveStateNow, SaveFails, Exit
    <2>7. CASE UNCHANGED vars
      BY <2>3, <2>7, DueKept, SafeKept
         DEF vars, memory, saves, writing, disk, process
    <2> QED BY <2>1, <2>4, <2>5, <2>6, <2>7 DEF Next, Crash
  <1> QED BY <1>1, <1>2, TypeCorrect, QuietInvariant, PTL DEF Spec

\* A zone's file holds its policy, unless a save that will write it is enqueued, under
\* way, or about to be enqueued: no save of an older object of the zone spoils it.
THEOREM ZoneFilesAreSaved == Spec => []ZoneFilesSettle
  <1>1. TypeOK /\ ZonesSettling => ZoneFilesSettle
    <2> SUFFICES ASSUME TypeOK, ZonesSettling,
                        phase = "up", ~poisoned, lost = 0, overlaps = 0,
                        NEW z \in zones
                 PROVE  \/ zoneFile[z] = policyOf[z]
                        \/ \E o \in enqueued : o[1] = z
                        \/ \E w \in zoneWrites : w.zone = z
                        \/ \E c \in Clients :
                             client[c].at = "mark" /\ client[c].object = Object(z)
      BY DEF ZoneFilesSettle
    <2>1. Due(z) \/ Safe(z)
      BY DEF ZonesSettling
    <2> QED BY <2>1 DEF Due, Safe, Marking, Object
  <1> QED BY <1>1, ZonesSettle, TypeCorrect, PTL

-----------------------------------------------------------------------------
(***************************************************************************)
(* An orderly stop                                                         *)
(***************************************************************************)

\* Contents that list every zone there is, and else only zones removed meanwhile.
Fits(x) ==
  /\ x.there /\ x.policies = policies
  /\ zones \subseteq x.zones /\ x.zones \subseteq zones \cup meanwhile

\* Once the main thread has built the last state file, whatever is being or was written
\* last fits, and nothing will spoil the file of a zone that has been saved.
StopSettling ==
  phase \in {"persisting", "saving", "stopped"} /\ lost = 0 /\ overlaps = 0 =>
    /\ \A w \in stateWrites : Fits(w.what)
    /\ stateWrites = {} => Fits(stateFile)
    /\ phase # "persisting" => \A z \in zones : z \notin left => Safe(z)
    /\ phase = "stopped" => left = {}

\* The process no longer changes what it knows, but for a zone that is removed: any other
\* request that would panics.
LEMMA NoChangeWhileStopping ==
  ASSUME TypeOK, HttpServer, phase # "up"
  PROVE  \/ Die
         \/ \E c \in Clients : MarkZone(c)
         \/ \E c \in Clients : TakeZone(c) /\ ~Panic(c) /\ client[c].zone \in zones
         \/ /\ UNCHANGED <<memory, saves, writing, disk, process>>
            /\ \A c \in Clients : client'[c].at = "mark" => client'[c] = client[c]
  <1>1. ASSUME NEW c \in Clients, Panic(c), ~Die
        PROVE  /\ UNCHANGED <<memory, saves, writing, disk, process>>
               /\ \A d \in Clients : client'[d].at = "mark" => client'[d] = client[d]
    BY <1>1 DEF Panic, Idle, TypeOK
  <1>2. ASSUME NEW c \in Clients, NEW z \in Zones, NEW p \in Policies, AddZone(c, z, p),
               ~Panic(c)
        PROVE  /\ UNCHANGED <<memory, saves, writing, disk, process>>
               /\ \A d \in Clients : client'[d].at = "mark" => client'[d] = client[d]
    BY <1>2 DEF AddZone, TypeOK
  <1>3. ASSUME NEW c \in Clients, ChangePolicy(c), ~Panic(c)
        PROVE  /\ UNCHANGED <<memory, saves, writing, disk, process>>
               /\ \A d \in Clients : client'[d].at = "mark" => client'[d] = client[d]
    BY <1>3 DEF ChangePolicy, Idle, TypeOK
  <1>4. ASSUME NEW c \in Clients, TakeZone(c), client[c].zone \notin zones
        PROVE  /\ UNCHANGED <<memory, saves, writing, disk, process>>
               /\ \A d \in Clients : client'[d].at = "mark" => client'[d] = client[d]
    BY <1>4 DEF TakeZone, Idle, TypeOK
  <1> QED BY <1>1, <1>2, <1>3, <1>4 DEF HttpServer, Handle, RemoveZone, RemoveTooLate

\* A zone removed beside the last saves leaves what fits fitting.
LEMMA TakeZoneFits ==
  ASSUME TypeOK, NEW c \in Clients, TakeZone(c), ~Panic(c), client[c].zone \in zones,
         phase \in {"persisting", "saving"}, NEW x, Fits(x)
  PROVE  Fits(x)'
  <1> DEFINE z == client[c].zone
  <1>1. /\ zones' = zones \ {z} /\ meanwhile' = meanwhile \cup {z}
        /\ UNCHANGED policies
    BY DEF TakeZone
  <1> HIDE DEF z
  <1> QED BY <1>1 DEF Fits

LEMMA FitsKept ==
  ASSUME UNCHANGED <<zones, policies, meanwhile>>, NEW x, Fits(x)
  PROVE  Fits(x)'
  BY DEF Fits

LEMMA CurrentFits == Fits(Current)
  BY DEF Fits, Current

\* What StopSettling says of the state after a step.
LEMMA StopSettlingRequest ==
  ASSUME TypeOK, StopSettling, HttpServer, ~Die,
         phase' \in {"persisting", "saving", "stopped"}, lost' = 0, overlaps' = 0
  PROVE  StopSettling'
  <1>1. phase' = phase /\ Live
    BY DEF HttpServer, Handle, AddZone, MarkZone, ChangePolicy, RemoveZone, TakeZone,
       RemoveTooLate, Request, Panic, process
  <1>2. phase \in {"persisting", "saving"} /\ phase # "up"
    BY <1>1 DEF Live, Stopping
  <1>3. CASE \E c \in Clients : MarkZone(c)
    <2>1. PICK c \in Clients : MarkZone(c)
      BY <1>3
    <2>2. UNCHANGED <<memory, stateEnqueued, writing, disk, process>>
      BY <2>1 DEF MarkZone
    <2>3. \A z \in zones : Safe(z) => Safe(z)'
      BY <2>1, MarkZoneSettling
    <2>4. \A x : Fits(x) => Fits(x)'
      BY <2>2, FitsKept DEF memory, process
    <2> QED BY <1>2, <2>2, <2>3, <2>4 DEF StopSettling, memory, writing, disk, process
  <1>4. CASE \E c \in Clients : TakeZone(c) /\ ~Panic(c) /\ client[c].zone \in zones
    <2>1. PICK c \in Clients : TakeZone(c) /\ ~Panic(c) /\ client[c].zone \in zones
      BY <1>4
    <2>2. UNCHANGED <<writing, disk, phase, left, lost, overlaps>>
      BY <2>1 DEF TakeZone
    <2>3. \A z \in zones' : z \in zones /\ (Safe(z) => Safe(z)')
      BY <2>1, TakeZoneSettling
    <2>4. \A x : Fits(x) => Fits(x)'
      BY <1>2, <2>1, TakeZoneFits
    <2> QED BY <1>2, <2>2, <2>3, <2>4 DEF StopSettling, writing, disk
  <1>5. CASE /\ UNCHANGED <<memory, saves, writing, disk, process>>
             /\ \A c \in Clients : client'[c].at = "mark" => client'[c] = client[c]
    <2>1. \A z \in zones : Safe(z) => Safe(z)'
      BY <1>5, SafeKept DEF memory, saves, writing, disk
    <2>2. \A x : Fits(x) => Fits(x)'
      BY <1>5, FitsKept DEF memory, process
    <2> QED BY <1>2, <1>5, <2>1, <2>2 DEF StopSettling, memory, writing, disk, process
  <1> QED BY <1>2, <1>3, <1>4, <1>5, NoChangeWhileStopping

LEMMA StopSettlingSaving ==
  ASSUME TypeOK, StopSettling, Saving,
         phase' \in {"persisting", "saving", "stopped"}, lost' = 0, overlaps' = 0
  PROVE  StopSettling'
  <1>1. UNCHANGED <<memory, client, phase, left, meanwhile>>
    BY DEF Saving, WakeFor, LandFor, WakeState, WakeZone, LandState, LandZone
  <1>2. lost = 0 /\ lost' = lost
    BY DEF Saving, WakeFor, LandFor, WakeState, WakeZone, LandState, LandZone, Written,
       NotWritten, TypeOK
  <1>3. overlaps = 0
    BY BegunType DEF Saving, WakeFor, LandFor, WakeState, WakeZone, BuildState, BuildZone,
       LandState, LandZone
  <1>4. /\ \A w \in stateWrites : Fits(w.what)
        /\ stateWrites = {} => Fits(stateFile)
        /\ phase # "persisting" => \A z \in zones : z \notin left => Safe(z)
        /\ phase = "stopped" => left = {}
    BY <1>1, <1>2, <1>3 DEF StopSettling
  <1>5. \A x : Fits(x) => Fits(x)'
    BY <1>1, FitsKept DEF memory
  <1>6. /\ \A w \in stateWrites' : Fits(w.what)'
        /\ (stateWrites = {})' => Fits(stateFile)'
    <2>1. CASE WakeState
      <3>1. stateWrites' = stateWrites \cup {[by |-> "task", what |-> Current]}
        BY <2>1 DEF WakeState, BuildState
      <3>2. \A w \in stateWrites' : Fits(w.what)
        BY <1>4, <3>1, CurrentFits
      <3> QED BY <1>5, <3>1, <3>2
    <2>2. ASSUME NEW w \in stateWrites, LandState(w)
          PROVE  /\ \A v \in stateWrites' : Fits(v.what)'
                 /\ (stateWrites = {})' => Fits(stateFile)'
      <3>1. stateFile' = w.what /\ stateWrites' = stateWrites \ {w}
        BY <1>2, <2>2 DEF LandState, NotWritten, TypeOK
      <3> QED BY <1>4, <1>5, <3>1 DEF Fits
    <2>3. CASE UNCHANGED <<stateWrites, stateFile>>
      BY <1>4, <1>5, <2>3 DEF Fits
    <2> QED BY <2>1, <2>2, <2>3 DEF Saving, WakeFor, LandFor, WakeZone, LandZone, disk
  <1>7. ASSUME NEW z \in zones, Safe(z)
        PROVE  Safe(z)'
    <2>1. ASSUME NEW o \in enqueued, WakeZone(o)
          PROVE  Safe(z)'
      BY <1>7, <2>1, BuildSafe DEF WakeZone
    <2>2. ASSUME NEW w \in zoneWrites, LandZone(w)
          PROVE  Safe(z)'
      BY <1>2, <1>7, <2>2, LandSafe
    <2>3. CASE UNCHANGED <<enqueued, zoneWrites, zoneFile>>
      BY <1>1, <1>7, <2>3, SafeKept DEF memory
    <2> QED BY <2>1, <2>2, <2>3
        DEF Saving, WakeFor, LandFor, WakeState, BuildState, LandState, saves, disk
  <1> QED BY <1>1, <1>4, <1>6, <1>7 DEF StopSettling, memory

LEMMA StopSettlingMain ==
  ASSUME TypeOK, StopSettling, Main, ~Die,
         phase' \in {"persisting", "saving", "stopped"}, lost' = 0, overlaps' = 0
  PROVE  StopSettling'
  <1>1. CASE SaveNow
    <2>1. stateWrites = {} /\ overlaps = 0
      BY <1>1, BegunType DEF SaveNow, BuildState
    <2>2. /\ stateWrites' = {[by |-> "main", what |-> Current]}
          /\ phase' = "persisting"
          /\ UNCHANGED <<memory, meanwhile>>
      BY <1>1, <2>1 DEF SaveNow, BuildState
    <2>3. Fits(Current)'
      BY <2>2 DEF memory, Fits, Current
    <2>4. Current' = Current
      BY <2>2 DEF memory, Current
    <2>5. \A w \in stateWrites' : Fits(w.what)'
      BY <2>2, <2>3, <2>4
    <2> QED BY <2>2, <2>5 DEF StopSettling
  <1>2. CASE ListZones
    <2>1. /\ phase = "persisting" /\ left' = zones /\ phase' = "saving"
          /\ UNCHANGED <<memory, saves, client, writing, disk, lost, overlaps, meanwhile>>
      BY <1>2 DEF ListZones, ZonesToSave
    <2>2. \A x : Fits(x) => Fits(x)'
      BY <2>1, FitsKept DEF memory
    <2> QED BY <2>1, <2>2 DEF StopSettling, memory, writing, disk
  <1>3. ASSUME NEW x \in left, SaveStateNow(x)
        PROVE  StopSettling'
    <2>1. /\ phase = "saving" /\ left' = left \ {x}
          /\ UNCHANGED <<memory, client, disk, stateEnqueued, stateWrites, phase, lost,
                         meanwhile>>
      BY <1>3 DEF SaveStateNow
    <2>2. overlaps = 0
      BY <1>3, BegunType DEF SaveStateNow, BuildZone
    <2>3. \A z \in zones : z = x \/ Safe(z) => Safe(z)'
      <3>1. Object(x) = Object(Object(x)[1])
        BY DEF Object
      <3>2. BuildZone("main", Object(x))
        BY <1>3 DEF SaveStateNow
      <3> QED BY <2>1, <3>1, <3>2, BuildSafe
    <2>4. \A y : Fits(y) => Fits(y)'
      BY <2>1, FitsKept DEF memory
    <2> QED BY <2>1, <2>2, <2>3, <2>4 DEF StopSettling, memory, disk
  <1>4. CASE Exit
    <2>1. /\ phase = "saving" /\ left = {} /\ phase' = "stopped"
          /\ UNCHANGED <<memory, saves, writing, disk, client, lost, left, overlaps, meanwhile>>
      BY <1>4 DEF Exit
    <2>2. \A z \in zones : Safe(z) => Safe(z)'
      BY <2>1, SafeKept DEF memory, saves, writing, disk
    <2>3. \A x : Fits(x) => Fits(x)'
      BY <2>1, FitsKept DEF memory
    <2> QED BY <2>1, <2>2, <2>3 DEF StopSettling, memory, writing, disk
  <1> QED BY <1>1, <1>2, <1>3, <1>4
      DEF Main, StartFromScratch, StartFromFile, Begin, StartRefused, Stop, SaveFails

LEMMA StopSettles == Spec => []StopSettling
  <1>1. Init => StopSettling
    BY DEF Init, StopSettling
  <1>2. TypeOK /\ StopSettling /\ [Next]_vars => StopSettling'
    <2> SUFFICES ASSUME TypeOK, StopSettling, [Next]_vars,
                        phase' \in {"persisting", "saving", "stopped"}, lost' = 0, overlaps' = 0
                 PROVE  StopSettling'
      BY DEF StopSettling
    <2>1. ~Die
      BY DEF Die
    <2>2. CASE UNCHANGED vars
      <3>1. /\ UNCHANGED <<memory, saves, writing, disk, client, phase, left, lost, overlaps,
                           meanwhile>>
        BY <2>2 DEF vars, process
      <3>2. \A z \in zones : Safe(z) => Safe(z)'
        BY <3>1, SafeKept DEF memory, saves, writing, disk
      <3>3. \A x : Fits(x) => Fits(x)'
        BY <3>1, FitsKept DEF memory
      <3> QED BY <3>1, <3>2, <3>3 DEF StopSettling, memory, writing, disk
    <2> QED BY <2>1, <2>2, StopSettlingRequest, StopSettlingSaving, StopSettlingMain
        DEF Next, Crash
  <1> QED BY <1>1, <1>2, TypeCorrect, PTL DEF Spec

\* When the process has stopped in order, no write failed and none overtook another, the
\* files hold what it knew, but that the state file may list zones whose removal took
\* place beside the last saves: nothing else that a late request or a delayed save does
\* spoils what the main thread saved.
THEOREM StoppedProcessIsSaved == Spec => []StoppedIsSaved
  <1>1. Quiet /\ StopSettling => StoppedIsSaved
    BY DEF Quiet, Live, Stopping, StopSettling, Fits, Safe, StoppedIsSaved
  <1> QED BY <1>1, StopSettles, QuietInvariant, PTL

\* A process that was stopped in order, and one that never ran, can be started.
Startable ==
  /\ phase = "down" /\ clean => ~stateFile.there
  /\ phase = "stopped" /\ clean => lost = 0 /\ overlaps = 0
  /\ CleanStopRestarts

\* After an orderly stop in which no write failed or overtook another, a start is refused
\* only over a zone that was removed beside the last saves.
THEOREM CleanStopsRestart == Spec => []CleanStopRestarts
  <1>1. Init => Startable
    BY DEF Init, Startable, NoState, CleanStopRestarts
  <1>2. TypeOK /\ StoppedIsSaved /\ Startable /\ [Next]_vars => Startable'
    <2> SUFFICES ASSUME TypeOK, StoppedIsSaved, Startable, [Next]_vars
                 PROVE  Startable'
      OBVIOUS
    <2>1. CASE Die
      BY <2>1 DEF Die, Startable, CleanStopRestarts
    <2>2. CASE UNCHANGED <<process, disk>>
      BY <2>2 DEF process, disk, Startable, CleanStopRestarts
    <2>3. CASE phase' \in {"up", "closing", "persisting", "saving"}
      BY <2>3 DEF Startable, CleanStopRestarts
    <2>4. CASE StartRefused
      <3>1. /\ phase' = "refused" /\ phase \in {"down", "stopped"} /\ stateFile.there
            /\ UNCHANGED <<clean, meanwhile, disk>>
        BY <2>4 DEF StartRefused
      <3>2. PICK z \in stateFile.zones : zoneFile[z] = Missing
        BY <2>4 DEF StartRefused
      <3>3. ASSUME clean
            PROVE  z \in meanwhile
        <4>1. phase = "stopped" /\ lost = 0 /\ overlaps = 0
          BY <3>1, <3>3 DEF Startable
        <4>2. /\ stateFile.zones \subseteq zones \cup meanwhile
              /\ \A y \in zones : zoneFile[y] = policyOf[y]
          BY <4>1 DEF StoppedIsSaved
        <4>3. \A y \in zones : policyOf[y] # Missing
          BY DEF TypeOK
        <4> QED BY <3>2, <4>2, <4>3
      <3> QED BY <3>1, <3>2, <3>3 DEF Startable, CleanStopRestarts, disk
    <2>5. CASE Exit
      BY <2>5 DEF Exit, Startable, CleanStopRestarts
    <2>6. CASE Saving
      <3>1. Live /\ phase' = phase
        BY <2>6 DEF Saving, WakeFor, LandFor, WakeState, WakeZone, LandState, LandZone
      <3> QED BY <2>3, <3>1 DEF Live, Stopping
    <2>7. CASE HttpServer
      <3>1. Live /\ (Die \/ phase' = phase)
        BY <2>7 DEF HttpServer, Handle, AddZone, MarkZone, ChangePolicy, RemoveZone, TakeZone,
           RemoveTooLate, Request, Panic, process
      <3> QED BY <2>1, <2>3, <3>1 DEF Live, Stopping
    <2>8. CASE Main
      BY <2>1, <2>3, <2>4, <2>5, <2>8
         DEF Main, StartFromScratch, StartFromFile, Begin, Stop, SaveNow, ListZones,
             SaveStateNow, SaveFails
    <2> QED BY <2>1, <2>2, <2>6, <2>7, <2>8 DEF Next, Crash, vars
  <1>3. Startable => CleanStopRestarts
    BY DEF Startable
  <1> QED BY <1>1, <1>2, <1>3, TypeCorrect, StoppedProcessIsSaved, PTL DEF Spec
-----------------------------------------------------------------------------
(***************************************************************************)
(* What it takes to keep a process from stopping in order                  *)
(***************************************************************************)

\* A request gets to change the zones although the central command, which it must tell
\* of the change, was terminated already.
LateChange ==
  /\ phase # "up"
  /\ \E c \in Clients :
       \/ \E z \in Zones \ zones, p \in Policies : AddZone(c, z, p)
       \/ ChangePolicy(c) /\ client[c].zone \in zones /\ client[c].policy \in policies
       \/ RemoveTooLate(c)

\* The requests that neither come too late nor meet an inconsistent zone leave the lock
\* intact and the process running.
LEMMA RequestsKeepProcess ==
  ASSUME AlwaysConsistent, ~poisoned, HttpServer, ~LateChange
  PROVE  UNCHANGED <<poisoned, phase>>
  <1>1. PICK c \in Clients :
          \/ \E z \in Zones, p \in Policies : AddZone(c, z, p)
          \/ \E z \in Zones : RemoveZone(c, z)
          \/ RemoveTooLate(c)
          \/ Handle(c)
    BY DEF HttpServer
  <1>2. ASSUME NEW z \in Zones, NEW p \in Policies, AddZone(c, z, p)
        PROVE  UNCHANGED <<poisoned, phase>>
    <2>1. z \in zones \/ phase = "up"
      BY <1>2 DEF LateChange
    <2> QED BY <1>2, <2>1 DEF AddZone, process
  <1>3. CASE (\E z \in Zones : RemoveZone(c, z)) \/ TakeZone(c)
    BY <1>3 DEF RemoveZone, TakeZone, AlwaysConsistent, process
  <1>4. CASE RemoveTooLate(c)
    BY <1>4 DEF LateChange, RemoveTooLate
  <1>5. CASE MarkZone(c)
    BY <1>5 DEF MarkZone, process
  <1>6. CASE ChangePolicy(c)
    <2>1. client[c].zone \in zones /\ client[c].policy \in policies => phase = "up"
      BY <1>6 DEF LateChange
    <2> QED BY <1>6, <2>1 DEF ChangePolicy, AlwaysConsistent, process
  <1> QED BY <1>1, <1>2, <1>3, <1>4, <1>5, <1>6 DEF Handle

\* "Persist the current state.": without a crash, a process that was told to stop goes on
\* to save its state and exits, unless a request to change the zones comes in after the
\* central command was terminated, or one meets a zone that its policy does not list.
THEOREM OnlyLateOrInconsistentChangesAbortStops ==
  Spec /\ []AlwaysConsistent /\ [][~(Crash \/ LateChange)]_vars => StopPersists
  <1> DEFINE Persisting == Stopping => Stopping' \/ phase' = "stopped"
             Excluded == Crash \/ LateChange
  <1>1. Init => ~poisoned
    BY DEF Init
  <1>2. ASSUME AlwaysConsistent, ~poisoned, [Next]_vars, [~Excluded]_vars
        PROVE  ~poisoned' /\ [Persisting]_vars
    <2>1. CASE UNCHANGED vars
      BY <1>2, <2>1 DEF vars
    <2>2. CASE HttpServer
      <3>1. UNCHANGED <<poisoned, phase>> \/ UNCHANGED vars
        BY <1>2, <2>2, RequestsKeepProcess
      <3> QED BY <1>2, <2>1, <3>1 DEF Stopping
    <2>3. CASE Saving
      <3>1. UNCHANGED <<poisoned, phase>>
        BY <2>3 DEF Saving, WakeFor, LandFor, WakeState, WakeZone, LandState, LandZone
      <3> QED BY <1>2, <3>1 DEF Stopping
    <2>4. CASE Main
      <3>1. CASE (\E present \in SUBSET Policies : StartFromScratch(present)) \/ StartFromFile
        BY <3>1 DEF StartFromScratch, StartFromFile, Begin, Stopping
      <3>2. CASE StartRefused
        BY <1>2, <3>2 DEF StartRefused, Stopping
      <3>3. CASE Stop \/ SaveNow \/ ListZones \/ Exit
        BY <1>2, <3>3 DEF Stop, SaveNow, ListZones, Exit, Stopping
      <3>4. CASE \E z \in left : SaveStateNow(z)
        BY <1>2, <3>4 DEF SaveStateNow, Stopping
      <3>5. CASE SaveFails
        BY <1>2, <3>5 DEF SaveFails
      <3> QED BY <2>4, <3>1, <3>2, <3>3, <3>4, <3>5 DEF Main
    <2>5. CASE Crash
      BY <1>2, <2>1, <2>5
    <2> QED BY <1>2, <2>1, <2>2, <2>3, <2>4, <2>5 DEF Next
  <1> HIDE DEF Persisting, Excluded
  <1>3. Spec /\ []AlwaysConsistent /\ [][~Excluded]_vars => [][Persisting]_vars
    BY <1>1, <1>2, PTL DEF Spec
  <1> QED BY <1>3 DEF Persisting, Excluded, StopPersists
-----------------------------------------------------------------------------
(***************************************************************************)
(* What it takes to have a removed zone back, or to lose an added one      *)
(***************************************************************************)

\* No two saves of the state are being written at a time.
OneStateWrite == \A v, w \in stateWrites : v = w

\* A zone without a policy is removed, and no save is enqueued that would say so.
UnsavedRemoval ==
  /\ ~stateEnqueued
  /\ \E c \in Clients : /\ TakeZone(c)
                        /\ client[c].zone \in zones /\ policyOf[client[c].zone] = None

\* Once no save of the state is enqueued or under way, the state file lists the zones
\* there are, no more and no less.
ListedExactly ==
  phase = "up" /\ ~poisoned /\ ~stateEnqueued /\ stateWrites = {} /\ lost = 0
    => stateFile.zones = zones

ListedInv ==
  /\ ~stateFile.there => stateFile.zones = {}
  /\ \A w \in stateWrites : w.what.there
  /\ phase = "up" /\ ~poisoned /\ ~stateEnqueued /\ lost = 0 =>
       /\ stateWrites = {} => stateFile.zones = zones
       /\ \A w \in stateWrites : w.what.zones = zones

LEMMA ListedKept ==
  ASSUME ListedInv, UNCHANGED <<zones, phase, stateWrites, stateFile, lost>>,
         poisoned => poisoned', stateEnqueued => stateEnqueued'
  PROVE  ListedInv'
  BY DEF ListedInv

\* A step after which a save is enqueued, or the process is not up.
LEMMA ListedLater ==
  ASSUME ListedInv, UNCHANGED <<stateWrites, stateFile>>, stateEnqueued' \/ phase' # "up"
  PROVE  ListedInv'
  BY DEF ListedInv

LEMMA ListedRequest ==
  ASSUME TypeOK, ListedInv, HttpServer, ~UnsavedRemoval
  PROVE  ListedInv'
  <1>1. CASE Die
    BY <1>1 DEF Die, disk, ListedInv
  <1>2. ASSUME NEW c \in Clients, Panic(c)
        PROVE  ListedInv'
    BY <1>1, <1>2, ListedKept DEF Panic, memory, saves, writing, disk, process, TypeOK
  <1>3. ASSUME NEW c \in Clients, NEW z \in Zones, NEW p \in Policies, AddZone(c, z, p), ~Panic(c)
        PROVE  ListedInv'
    <2>1. CASE z \notin zones
      BY <1>3, <2>1, ListedLater DEF AddZone, EnqueueState, writing, disk
    <2>2. CASE z \in zones
      BY <1>3, <2>2, ListedKept DEF AddZone, memory, saves, writing, disk, process
    <2> QED BY <2>1, <2>2
  <1>4. ASSUME NEW c \in Clients, MarkZone(c) \/ ChangePolicy(c), ~Panic(c)
        PROVE  ListedInv'
    BY <1>4, ListedKept DEF MarkZone, ChangePolicy, memory, saves, writing, disk, process
  <1>5. ASSUME NEW c \in Clients, NEW z \in Zones, RemoveZone(c, z)
        PROVE  ListedInv'
    BY <1>5, ListedKept DEF RemoveZone, memory, saves, writing, disk, process
  <1>6. ASSUME NEW c \in Clients, TakeZone(c), ~Panic(c)
        PROVE  ListedInv'
    <2>1. CASE client[c].zone \notin zones
      BY <1>6, <2>1, ListedKept DEF TakeZone, memory, saves, writing, disk, process
    <2>2. CASE client[c].zone \in zones
      <3>1. stateEnqueued'
        BY <1>6, <2>2 DEF TakeZone, UnsavedRemoval, EnqueueState, TypeOK
      <3> QED BY <1>6, <2>2, <3>1, ListedLater DEF TakeZone, writing, disk
    <2> QED BY <2>1, <2>2
  <1> QED BY <1>1, <1>2, <1>3, <1>4, <1>5, <1>6 DEF HttpServer, Handle, RemoveTooLate

LEMMA ListedSaving ==
  ASSUME TypeOK, ListedInv, OneStateWrite, OneStateWrite', Saving
  PROVE  ListedInv'
  <1>1. CASE WakeState
    <2>1. /\ Current.zones = zones /\ Current.there
          /\ [by |-> "task", what |-> Current] \in stateWrites'
      BY <1>1 DEF Current, WakeState, BuildState
    <2>2. \A w \in stateWrites' : w = [by |-> "task", what |-> Current]
      BY <2>1 DEF OneStateWrite
    <2>3. UNCHANGED <<zones, stateFile>>
      BY <1>1 DEF WakeState, memory, disk
    <2> QED BY <2>1, <2>2, <2>3 DEF ListedInv
  <1>2. ASSUME NEW w \in stateWrites, LandState(w)
        PROVE  ListedInv'
    <2>1. stateWrites' = {} /\ UNCHANGED <<zones, phase, poisoned, stateEnqueued>>
      BY <1>2 DEF LandState, OneStateWrite, memory, saves
    <2>2. w.what.there
      BY DEF ListedInv
    <2>3. CASE lost' = lost
      <3>1. stateFile' = w.what
        BY <1>2, <2>3 DEF LandState, NotWritten, TypeOK
      <3> QED BY <2>1, <2>2, <2>3, <3>1 DEF ListedInv
    <2>4. CASE lost' # lost
      <3>1. stateFile' = stateFile /\ lost' # 0
        BY <1>2, <2>4 DEF LandState, Written, NotWritten, TypeOK
      <3> QED BY <2>1, <3>1 DEF ListedInv
    <2> QED BY <2>3, <2>4
  <1>3. ASSUME NEW z \in Zones, WakeFor(z) \/ LandFor(z)
        PROVE  ListedInv'
    <2>1. ASSUME NEW o \in enqueued, WakeZone(o)
          PROVE  ListedInv'
      BY <2>1, ListedKept DEF WakeZone, memory, disk
    <2>2. ASSUME NEW w \in zoneWrites, LandZone(w)
          PROVE  ListedInv'
      <3>1. CASE lost' = lost
        BY <2>2, <3>1, ListedKept DEF LandZone, memory, saves
      <3>2. CASE lost' # lost
        <4>1. lost' # 0 /\ UNCHANGED <<stateWrites, stateFile>>
          BY <2>2, <3>2 DEF LandZone, Written, NotWritten, TypeOK
        <4> QED BY <4>1 DEF ListedInv
      <3> QED BY <3>1, <3>2
    <2> QED BY <1>3, <2>1, <2>2 DEF WakeFor, LandFor
  <1> QED BY <1>1, <1>2, <1>3 DEF Saving

LEMMA ListedMain ==
  ASSUME TypeOK, Quiet, ListedInv, Main
  PROVE  ListedInv'
  <1>1. ASSUME NEW present \in SUBSET Policies, StartFromScratch(present)
        PROVE  ListedInv'
    BY <1>1 DEF StartFromScratch, Begin, ListedInv, Quiet, Live, Stopping, writing, disk
  <1>2. CASE StartFromFile
    BY <1>2 DEF StartFromFile, Begin, ListedInv, Quiet, Live, Stopping, writing, disk
  <1>3. CASE SaveNow
    <2>1. /\ stateFile' = stateFile /\ phase' # "up"
          /\ stateWrites' = stateWrites \cup {[by |-> "main", what |-> Current]}
          /\ Current.there
      BY <1>3 DEF SaveNow, BuildState, Current, disk
    <2> QED BY <2>1 DEF ListedInv
  <1>4. CASE SaveFails
    BY <1>4 DEF SaveFails, Die, disk, ListedInv
  <1>5. CASE StartRefused \/ Stop \/ ListZones \/ (\E z \in left : SaveStateNow(z)) \/ Exit
    <2>1. phase' # "up" /\ UNCHANGED <<stateWrites, stateFile>>
      BY <1>5 DEF StartRefused, Stop, ListZones, SaveStateNow, Exit, writing, disk
    <2> QED BY <2>1, ListedLater
  <1> QED BY <1>1, <1>2, <1>3, <1>4, <1>5 DEF Main

\* "It will be saved in the near future": the state file comes to list exactly the zones
\* there are, unless two of its saves overlap, so that the older may land last
\* (center.rs:209), or a zone without a policy is removed (center.rs:94).
THEOREM OnlyOverlapsAndUnsavedRemovalsMislist ==
  Spec /\ []OneStateWrite /\ [][~UnsavedRemoval]_vars => []ListedExactly
  <1>1. Init => ListedInv
    BY DEF Init, NoState, ListedInv
  <1>2. ASSUME TypeOK, Quiet, ListedInv, OneStateWrite, OneStateWrite',
               [Next]_vars, [~UnsavedRemoval]_vars
        PROVE  ListedInv'
    <2>1. CASE UNCHANGED vars
      BY <1>2, <2>1, ListedKept DEF vars, memory, saves, writing, disk, process
    <2>2. CASE HttpServer
      BY <1>2, <2>1, <2>2, ListedRequest
    <2>3. CASE Crash
      BY <1>2, <2>3 DEF Crash, Die, disk, ListedInv
    <2> QED BY <1>2, <2>1, <2>2, <2>3, ListedSaving, ListedMain DEF Next
  <1>3. ListedInv => ListedExactly
    BY DEF ListedInv, ListedExactly
  <1> QED BY <1>1, <1>2, <1>3, TypeCorrect, QuietInvariant, PTL DEF Spec
=============================================================================
