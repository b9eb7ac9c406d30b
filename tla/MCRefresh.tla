----------------------------- MODULE MCRefresh -----------------------------
(***************************************************************************)
(* Instances of zone maintenance for TLC.                                  *)
(***************************************************************************)
EXTENDS Refresh, TLC
=============================================================================
