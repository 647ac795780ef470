------------------------------ MODULE Pipeline ------------------------------
(***************************************************************************)
(* shell/common/pipeline.h: the frame pipeline between the animator (UI    *)
(* thread) and the rasterizer (raster thread).  Two counting semaphores    *)
(* and a deque under a mutex; every semaphore operation and every critical *)
(* section is one atomic step, and threads interleave between them.        *)
(*                                                                         *)
(* Left out: the trace ids (they are only traced).  inflight_ is read by   *)
(* the trace counter alone, so its increment and its decrement belong to   *)
(* the step that holds the semaphore operation next to them.               *)
(***************************************************************************)
EXTENDS Integers, Sequences, FiniteSets

CONSTANTS
  Producers,   \* threads that call Produce / ProduceIfEmpty
  Consumers,   \* threads that call Consume
  Resources,   \* the non-null resources
  NoResource,  \* a null ResourcePtr
  Depth,       \* the constructor's depth
  MaxInflight  \* bound on inflight_, which leaks (see ProducerCommitIfEmpty)

ASSUME PipelineAssumption ==
  /\ IsFiniteSet(Producers)
  /\ IsFiniteSet(Consumers)
  /\ Depth \in Nat \ {0}
  /\ NoResource \notin Resources
  /\ MaxInflight \in Nat \ {0}

VARIABLES
  empty,      \* empty_: free slots
  available,  \* available_: resources a consumer may still acquire
  inflight,   \* inflight_: "counter of inflight resource producers"
  queue,      \* queue_
  stage,      \* what each producer is doing
  kind,       \* which commit function its continuation is bound to
  first,      \* is_first_item of the commit under way, or of the last one
  cstage,     \* what each consumer is doing
  item,       \* the resource each consumer popped
  more        \* items_count > 0 when it popped it

vars == <<empty, available, inflight, queue, stage, kind, first,
          cstage, item, more>>
prodVars == <<stage, kind, first>>
consVars == <<cstage, item, more>>

Kinds == {"always", "ifEmpty"}
Items == Resources \cup {NoResource}

\* A continuation is "held" from Produce to Complete (or its destruction);
\* "pushed" is the window between releasing queue_mutex_ and signalling.
Holding == {p \in Producers : stage[p] = "held"}
Pushed == {p \in Producers : stage[p] = "pushed"}
\* "acquired" is the window between available_.TryWait and the lock.
Acquired == {c \in Consumers : cstage[c] = "acquired"}
Consuming == {c \in Consumers : cstage[c] = "consuming"}

TypeOK ==
  /\ empty \in 0..Depth
  /\ available \in Nat
  /\ inflight \in Int
  /\ queue \in Seq(Items)
  /\ stage \in [Producers -> {"idle", "held", "pushed"}]
  /\ kind \in [Producers -> Kinds]
  /\ first \in [Producers -> BOOLEAN]
  /\ cstage \in [Consumers -> {"idle", "acquired", "consuming"}]
  /\ item \in [Consumers -> Items]
  /\ more \in [Consumers -> BOOLEAN]

Init ==
  /\ empty = Depth
  /\ available = 0
  /\ inflight = 0
  /\ queue = << >>
  /\ stage = [p \in Producers |-> "idle"]
  /\ kind = [p \in Producers |-> "always"]
  /\ first = [p \in Producers |-> FALSE]
  /\ cstage = [c \in Consumers |-> "idle"]
  /\ item = [c \in Consumers |-> NoResource]
  /\ more = [c \in Consumers |-> FALSE]

-----------------------------------------------------------------------------
(* Producers *)

\* Mutant: the result of empty_.TryWait is ignored.
ClaimSlotUnchecked(p, k) ==
  /\ stage[p] = "idle"
  /\ inflight < MaxInflight
  /\ empty' = empty - 1
  /\ inflight' = inflight + 1
  /\ stage' = [stage EXCEPT ![p] = "held"]
  /\ kind' = [kind EXCEPT ![p] = k]
  /\ UNCHANGED <<available, queue, first>>
  /\ UNCHANGED consVars

\* Produce and ProduceIfEmpty differ in the commit function they bind.  When
\* empty_.TryWait fails they return an empty continuation and nothing changes.
ClaimSlot(p, k) ==
  /\ stage[p] = "idle"
  /\ empty > 0
  /\ inflight < MaxInflight
  /\ empty' = empty - 1
  /\ inflight' = inflight + 1
  /\ stage' = [stage EXCEPT ![p] = "held"]
  /\ kind' = [kind EXCEPT ![p] = k]
  /\ UNCHANGED <<available, queue, first>>
  /\ UNCHANGED consVars

Produce(p) == ClaimSlot(p, "always")
ProduceIfEmpty(p) == ClaimSlot(p, "ifEmpty")

\* Mutant: emplace_front, as the rasterizer's comment on resubmitted frames has it.
PushFront(p, r) ==
  /\ first' = [first EXCEPT ![p] = (queue = << >>)]
  /\ queue' = <<r>> \o queue
  /\ stage' = [stage EXCEPT ![p] = "pushed"]
  /\ UNCHANGED <<empty, available, inflight, kind>>
  /\ UNCHANGED consVars

\* The critical section of both commit functions when they enqueue.
Push(p, r) ==
  /\ first' = [first EXCEPT ![p] = (queue = << >>)]
  /\ queue' = Append(queue, r)
  /\ stage' = [stage EXCEPT ![p] = "pushed"]
  /\ UNCHANGED <<empty, available, inflight, kind>>
  /\ UNCHANGED consVars

ProducerCommit(p, r) ==
  /\ stage[p] = "held"
  /\ kind[p] = "always"
  /\ Push(p, r)

ProducerCommitIfEmpty(p, r) ==
  /\ stage[p] = "held"
  /\ kind[p] = "ifEmpty"
  /\ queue = << >>
  /\ Push(p, r)

\* Mutant: the early return forgets empty_.Signal().
BailKeepsSlot(p) ==
  /\ stage[p] = "held"
  /\ kind[p] = "ifEmpty"
  /\ queue # << >>
  /\ first' = [first EXCEPT ![p] = FALSE]
  /\ stage' = [stage EXCEPT ![p] = "idle"]
  /\ UNCHANGED <<empty, available, inflight, queue, kind>>
  /\ UNCHANGED consVars

\* Mutant: the early return signals the consumer as well.
BailSignalsConsumer(p) ==
  /\ stage[p] = "held"
  /\ kind[p] = "ifEmpty"
  /\ queue # << >>
  /\ empty' = empty + 1
  /\ available' = available + 1
  /\ first' = [first EXCEPT ![p] = FALSE]
  /\ stage' = [stage EXCEPT ![p] = "idle"]
  /\ UNCHANGED <<inflight, queue, kind>>
  /\ UNCHANGED consVars

\* The early return of ProducerCommitIfEmpty: the slot is free again, the
\* inflight counter keeps the increment of ProduceIfEmpty.
BailIfNotEmpty(p) ==
  /\ stage[p] = "held"
  /\ kind[p] = "ifEmpty"
  /\ queue # << >>
  /\ empty' = empty + 1
  /\ first' = [first EXCEPT ![p] = FALSE]
  /\ stage' = [stage EXCEPT ![p] = "idle"]
  /\ UNCHANGED <<available, inflight, queue, kind>>
  /\ UNCHANGED consVars

\* Complete(resource), or with NoResource ~ProducerContinuation, up to the end
\* of the critical section.
Complete(p, r) ==
  ProducerCommit(p, r) \/ ProducerCommitIfEmpty(p, r) \/ BailIfNotEmpty(p)

\* available_.Signal() and the return of the commit function.
SignalAvailable(p) ==
  /\ stage[p] = "pushed"
  /\ available' = available + 1
  /\ stage' = [stage EXCEPT ![p] = "idle"]
  /\ UNCHANGED <<empty, inflight, queue, kind, first>>
  /\ UNCHANGED consVars

-----------------------------------------------------------------------------
(* Consumers: the three parts of Consume.  When available_.TryWait fails it *)
(* returns NoneAvailable and nothing changes.                               *)

ConsumeAcquire(c) ==
  /\ cstage[c] = "idle"
  /\ available > 0
  /\ available' = available - 1
  /\ cstage' = [cstage EXCEPT ![c] = "acquired"]
  /\ UNCHANGED <<empty, inflight, queue, item, more>>
  /\ UNCHANGED prodVars

\* queue_.front() is not guarded by queue_.empty(): see FrontIsDefined.
ConsumePop(c) ==
  /\ cstage[c] = "acquired"
  /\ item' = [item EXCEPT ![c] = Head(queue)]
  /\ queue' = Tail(queue)
  /\ more' = [more EXCEPT ![c] = Len(queue) > 1]
  /\ cstage' = [cstage EXCEPT ![c] = "consuming"]
  /\ UNCHANGED <<empty, available, inflight>>
  /\ UNCHANGED prodVars

\* The consumer callback has returned; `more` is the result of Consume.
ConsumeFinish(c) ==
  /\ cstage[c] = "consuming"
  /\ empty' = empty + 1
  /\ inflight' = inflight - 1
  /\ item' = [item EXCEPT ![c] = NoResource]
  /\ cstage' = [cstage EXCEPT ![c] = "idle"]
  /\ UNCHANGED <<available, queue, more>>
  /\ UNCHANGED prodVars

-----------------------------------------------------------------------------
ProducerStep(p) ==
  \/ Produce(p)
  \/ ProduceIfEmpty(p)
  \/ \E r \in Items : Complete(p, r)
  \/ SignalAvailable(p)

ConsumerStep(c) == ConsumeAcquire(c) \/ ConsumePop(c) \/ ConsumeFinish(c)

Next == (\E p \in Producers : ProducerStep(p)) \/ (\E c \in Consumers : ConsumerStep(c))

Spec == Init /\ [][Next]_vars

-----------------------------------------------------------------------------
(* Properties *)

\* Every slot is free, held by a continuation, queued, or being consumed:
\* empty_ never loses or invents a slot, whichever way a continuation ends.
SlotsConserved ==
  empty + Cardinality(Holding) + Len(queue) + Cardinality(Consuming) = Depth

\* available_ counts the queued resources, less those pushed but not yet
\* signalled and those a consumer acquired but has not popped.
AvailableBacksQueue ==
  available + Cardinality(Pushed) + Cardinality(Acquired) = Len(queue)

\* Consume takes queue_.front() without testing queue_.empty(): the deque is
\* never empty there, however producers and consumers interleave.
FrontIsDefined == Acquired # {} => queue # << >>

\* The pipeline implements the FIFO buffer of Depth slots.
Abstract == INSTANCE BoundedQueue WITH
  Resources <- Items, buf <- queue,
  claimed <- Cardinality(Holding), consuming <- Cardinality(Consuming)
ImplementsBoundedQueue == Abstract!Spec
=============================================================================
