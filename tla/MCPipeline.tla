----------------------------- MODULE MCPipeline -----------------------------
(* Instances of Pipeline for TLC.  Threads are interchangeable.            *)
EXTENDS Pipeline, TLC

Symmetry == Permutations(Producers) \cup Permutations(Consumers)
=============================================================================
