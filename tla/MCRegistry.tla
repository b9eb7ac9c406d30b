----------------------------- MODULE MCRegistry -----------------------------
(***************************************************************************)
(* Instances of the registry of zones and policies for TLC.                *)
(***************************************************************************)
EXTENDS Registry
=============================================================================
