---------------------------- MODULE MCTaskQueues ----------------------------
(* Instances of TaskQueues for TLC. *)
EXTENDS TaskQueues

\* Any two queues may be merged, as the unit tests of Merge and Unmerge do, except
\* that a queue with a Dart event loop is never subsumed.
AllPairs == {pair \in Queues \X Queues : pair[2] \notin Pausable}
=============================================================================
