---------------------------- MODULE PublishedZone ----------------------------
(***************************************************************************)
(* What the pipeline promises to a reader of the published zones, whatever *)
(* channels, tokens, trees and copies of zones it uses to keep it.         *)
(*                                                                         *)
(* Serials of a zone are loaded, in growing order.  A zone that has been   *)
(* loaded may pass the review of its unsigned contents, then that of its   *)
(* signed contents, and what has passed stays passed.  Only then may the   *)
(* reader find the zone, with the serial of something that was loaded, or  *)
(* no serial while the contents are being replaced.  Which of the loaded   *)
(* serials it is stays open: re-signing may show an older one again.       *)
(***************************************************************************)
EXTENDS Naturals

CONSTANTS
  Zones,
  MaxSerial

VARIABLES
  loaded,      \* the newest serial loaded of each zone, 0 before there is one
  unsignedOk,  \* zones of which unsigned contents passed their review
  signedOk,    \* zones of which signed contents did
  found,       \* zones the reader finds
  shown        \* the serial the reader finds of each zone, or 0

vars == <<loaded, unsignedOk, signedOk, found, shown>>

Init ==
  /\ loaded = [z \in Zones |-> 0]
  /\ unsignedOk = {} /\ signedOk = {}
  /\ found = {}
  /\ shown = [z \in Zones |-> 0]

Load(z) ==
  /\ \E s \in 1 .. MaxSerial : s > loaded[z] /\ loaded' = [loaded EXCEPT ![z] = s]
  /\ UNCHANGED <<unsignedOk, signedOk, found, shown>>

PassUnsigned(z) ==
  /\ loaded[z] # 0
  /\ unsignedOk' = unsignedOk \cup {z}
  /\ UNCHANGED <<loaded, signedOk, found, shown>>

PassSigned(z) ==
  /\ z \in unsignedOk
  /\ signedOk' = signedOk \cup {z}
  /\ UNCHANGED <<loaded, unsignedOk, found, shown>>

Show(z) ==
  /\ z \in signedOk
  /\ found' = found \cup {z}
  /\ \E s \in 0 .. loaded[z] : shown' = [shown EXCEPT ![z] = s]
  /\ UNCHANGED <<loaded, unsignedOk, signedOk>>

Next == \E z \in Zones : Load(z) \/ PassUnsigned(z) \/ PassSigned(z) \/ Show(z)

Spec == Init /\ [][Next]_vars

=============================================================================
