---------------------------- MODULE BoundedQueue ----------------------------
(***************************************************************************)
(* What shell/common/pipeline.h promises its users: a FIFO buffer with     *)
(* Depth slots.  A slot is claimed before its resource is prepared, is     *)
(* filled or given back later, and stays taken until the consumer has      *)
(* finished with the resource.  Pipeline is shown to implement this module *)
(* with its semaphores and its mutex.                                      *)
(***************************************************************************)
EXTENDS Naturals, Sequences

CONSTANTS Depth, Resources

VARIABLES
  buf,        \* the resources queued, oldest first
  claimed,    \* slots promised to producers that have not filled them
  consuming   \* slots whose resource a consumer is working on

vars == <<buf, claimed, consuming>>

Used == claimed + Len(buf) + consuming

Init == buf = << >> /\ claimed = 0 /\ consuming = 0

\* A slot is promised only while one is free.
Claim ==
  /\ Used < Depth
  /\ claimed' = claimed + 1
  /\ UNCHANGED <<buf, consuming>>

Put(r) ==
  /\ claimed > 0
  /\ buf' = Append(buf, r)
  /\ claimed' = claimed - 1
  /\ UNCHANGED consuming

\* A promised slot is given back unused only because another resource is
\* already waiting for the consumer.
Cancel ==
  /\ claimed > 0
  /\ buf # << >>
  /\ claimed' = claimed - 1
  /\ UNCHANGED <<buf, consuming>>

Take ==
  /\ buf # << >>
  /\ buf' = Tail(buf)
  /\ consuming' = consuming + 1
  /\ UNCHANGED claimed

Release ==
  /\ consuming > 0
  /\ consuming' = consuming - 1
  /\ UNCHANGED <<buf, claimed>>

Next == Claim \/ (\E r \in Resources : Put(r)) \/ Cancel \/ Take \/ Release

Spec == Init /\ [][Next]_vars
=============================================================================
