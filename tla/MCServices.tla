----------------------------- MODULE MCServices -----------------------------
(***************************************************************************)
(* Instances of the parts that are checked together for TLC.               *)
(***************************************************************************)
EXTENDS Services
=============================================================================
