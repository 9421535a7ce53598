----------------------------- MODULE MCWorkflows -----------------------------
(* Instances of Workflows for TLC.                                            *)
EXTENDS Workflows

CONSTANT s1
=============================================================================
