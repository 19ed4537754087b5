---------------------------- MODULE MCDeltaLog ----------------------------
(* DeltaLog and its refinement on small sets of responses, conversations   *)
(* and payloads.  Response ids and payload contents are interchangeable.   *)
EXTENDS DeltaLogRefinement, TLC

Symmetry == Permutations(Responses) \cup Permutations(Payloads)
=============================================================================
