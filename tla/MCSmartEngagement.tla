-------------------------- MODULE MCSmartEngagement --------------------------
(* Values of the constants of SmartEngagement for model checking.            *)
EXTENDS SmartEngagement, TLC

EngagementSymmetry ==
  Permutations(Threads) \union Permutations(Streams) \union Permutations(Targets)
=============================================================================
