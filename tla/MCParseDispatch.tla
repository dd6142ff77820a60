-------------------------- MODULE MCParseDispatch --------------------------
(* Instances of ParseDispatch for TLC.                                     *)
EXTENDS ParseDispatch

AllFailures == FailureKinds
=============================================================================
