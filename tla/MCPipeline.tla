----------------------------- MODULE MCPipeline -----------------------------
(***************************************************************************)
(* Instances of the signing pipeline for TLC.                              *)
(***************************************************************************)
EXTENDS Pipeline

\* As manager.rs starts the review servers.
OneHook == [r \in Servers |-> 1]

\* No review of unsigned zones, two hooks for signed ones: what the component
\* provides for beyond that.
NoneAndTwoHooks == [r \in Servers |-> IF r = "RS" THEN 0 ELSE 2]
=============================================================================
