------------------------- MODULE MCOperatorCopilot -------------------------
(* Values of the constants of OperatorCopilot for model checking.            *)
EXTENDS OperatorCopilot, TLC

StreamSymmetry == Permutations(Streams)

A(id, tool, ok) == [id |-> id, tool |-> tool, argsOk |-> ok]

\* Reads, writes, unknown tools and bad arguments, alone and together, with
\* ids of their own and with one id for both calls.
SomePlans ==
  {<<A(1, "read", TRUE)>>,
   <<A(1, "write", TRUE), A(2, "read", TRUE)>>,
   <<A(1, "unknown", TRUE), A(2, "write", TRUE)>>}
SameIdPlans == {<<A(1, "write", TRUE), A(1, "read", TRUE)>>}
SomeEdits ==
  {<<A(1, "write", TRUE)>>,
   <<A(1, "write", FALSE), A(2, "unknown", TRUE)>>}
=============================================================================
