--------------------------- MODULE PipelineProofs ---------------------------
(***************************************************************************)
(* Proofs about Pipeline for any number of producers and consumers, any    *)
(* depth and any resources.  The inductive invariant is the conjunction of *)
(* the type invariant and of the two counting invariants: `empty` stays in *)
(* 0..Depth only because slots are conserved, and a consumer finds a       *)
(* resource to pop only because available_ backs the queue.                *)
(***************************************************************************)
EXTENDS Pipeline, FiniteSetTheorems, SequenceTheorems, TLAPS

InductiveInv == TypeOK /\ SlotsConserved /\ AvailableBacksQueue

\* The numbers the counting invariants are about.
H == Cardinality(Holding)
P == Cardinality(Pushed)
A == Cardinality(Acquired)
C == Cardinality(Consuming)

-----------------------------------------------------------------------------
(* Counting threads *)

LEMMA Insert ==
  ASSUME NEW S, IsFiniteSet(S), NEW x, x \notin S
  PROVE  Cardinality(S \cup {x}) = Cardinality(S) + 1
BY FS_AddElement

LEMMA Remove ==
  ASSUME NEW S, IsFiniteSet(S), NEW x, x \in S
  PROVE  /\ Cardinality(S \ {x}) = Cardinality(S) - 1
         /\ Cardinality(S) > 0
<1>1. Cardinality(S \ {x}) = Cardinality(S) - 1
  BY FS_RemoveElement
<1>2. Cardinality(S) \in Nat /\ Cardinality(S) # 0
  BY FS_CardinalityType, FS_EmptySet
<1> QED
  BY <1>1, <1>2

LEMMA StagesFinite ==
  /\ IsFiniteSet(Holding) /\ IsFiniteSet(Pushed)
  /\ IsFiniteSet(Acquired) /\ IsFiniteSet(Consuming)
<1>1. Holding \in SUBSET Producers /\ Pushed \in SUBSET Producers
  BY DEF Holding, Pushed
<1>2. Acquired \in SUBSET Consumers /\ Consuming \in SUBSET Consumers
  BY DEF Acquired, Consuming
<1> QED
  BY <1>1, <1>2, PipelineAssumption, FS_Subset

LEMMA CountTypes == H \in Nat /\ P \in Nat /\ A \in Nat /\ C \in Nat
BY StagesFinite, FS_CardinalityType DEF H, P, A, C

-----------------------------------------------------------------------------
(* What each step does to the counts *)

LEMMA ClaimCounts ==
  ASSUME TypeOK, NEW p \in Producers, NEW k \in Kinds, ClaimSlot(p, k)
  PROVE  H' = H + 1 /\ P' = P /\ A' = A /\ C' = C
<1>1. Holding' = Holding \cup {p} /\ p \notin Holding /\ Pushed' = Pushed
  BY DEF TypeOK, ClaimSlot, Holding, Pushed
<1>2. Acquired' = Acquired /\ Consuming' = Consuming
  BY DEF ClaimSlot, consVars, Acquired, Consuming
<1>3. Cardinality(Holding \cup {p}) = Cardinality(Holding) + 1
  BY <1>1, StagesFinite, Insert
<1> QED
  BY <1>1, <1>2, <1>3 DEF H, P, A, C

LEMMA PushCounts ==
  ASSUME TypeOK, NEW p \in Producers, NEW r \in Items, stage[p] = "held", Push(p, r)
  PROVE  H' = H - 1 /\ P' = P + 1 /\ A' = A /\ C' = C /\ H > 0
<1>1. /\ Holding' = Holding \ {p} /\ p \in Holding
      /\ Pushed' = Pushed \cup {p} /\ p \notin Pushed
  BY DEF TypeOK, Push, Holding, Pushed
<1>2. Acquired' = Acquired /\ Consuming' = Consuming
  BY DEF Push, consVars, Acquired, Consuming
<1>3. Cardinality(Holding \ {p}) = Cardinality(Holding) - 1 /\ Cardinality(Holding) > 0
  BY <1>1, StagesFinite, Remove
<1>4. Cardinality(Pushed \cup {p}) = Cardinality(Pushed) + 1
  BY <1>1, StagesFinite, Insert
<1> QED
  BY <1>1, <1>2, <1>3, <1>4 DEF H, P, A, C

LEMMA BailCounts ==
  ASSUME TypeOK, NEW p \in Producers, BailIfNotEmpty(p)
  PROVE  H' = H - 1 /\ P' = P /\ A' = A /\ C' = C /\ H > 0
<1>1. Holding' = Holding \ {p} /\ p \in Holding /\ Pushed' = Pushed
  BY DEF TypeOK, BailIfNotEmpty, Holding, Pushed
<1>2. Acquired' = Acquired /\ Consuming' = Consuming
  BY DEF BailIfNotEmpty, consVars, Acquired, Consuming
<1>3. Cardinality(Holding \ {p}) = Cardinality(Holding) - 1 /\ Cardinality(Holding) > 0
  BY <1>1, StagesFinite, Remove
<1> QED
  BY <1>1, <1>2, <1>3 DEF H, P, A, C

LEMMA SignalCounts ==
  ASSUME TypeOK, NEW p \in Producers, SignalAvailable(p)
  PROVE  H' = H /\ P' = P - 1 /\ A' = A /\ C' = C /\ P > 0
<1>1. Pushed' = Pushed \ {p} /\ p \in Pushed /\ Holding' = Holding
  BY DEF TypeOK, SignalAvailable, Holding, Pushed
<1>2. Acquired' = Acquired /\ Consuming' = Consuming
  BY DEF SignalAvailable, consVars, Acquired, Consuming
<1>3. Cardinality(Pushed \ {p}) = Cardinality(Pushed) - 1 /\ Cardinality(Pushed) > 0
  BY <1>1, StagesFinite, Remove
<1> QED
  BY <1>1, <1>2, <1>3 DEF H, P, A, C

LEMMA AcquireCounts ==
  ASSUME TypeOK, NEW c \in Consumers, ConsumeAcquire(c)
  PROVE  H' = H /\ P' = P /\ A' = A + 1 /\ C' = C
<1>1. Acquired' = Acquired \cup {c} /\ c \notin Acquired /\ Consuming' = Consuming
  BY DEF TypeOK, ConsumeAcquire, Acquired, Consuming
<1>2. Holding' = Holding /\ Pushed' = Pushed
  BY DEF ConsumeAcquire, prodVars, Holding, Pushed
<1>3. Cardinality(Acquired \cup {c}) = Cardinality(Acquired) + 1
  BY <1>1, StagesFinite, Insert
<1> QED
  BY <1>1, <1>2, <1>3 DEF H, P, A, C

LEMMA PopCounts ==
  ASSUME TypeOK, NEW c \in Consumers, ConsumePop(c)
  PROVE  H' = H /\ P' = P /\ A' = A - 1 /\ C' = C + 1 /\ A > 0
<1>1. /\ Acquired' = Acquired \ {c} /\ c \in Acquired
      /\ Consuming' = Consuming \cup {c} /\ c \notin Consuming
  BY DEF TypeOK, ConsumePop, Acquired, Consuming
<1>2. Holding' = Holding /\ Pushed' = Pushed
  BY DEF ConsumePop, prodVars, Holding, Pushed
<1>3. Cardinality(Acquired \ {c}) = Cardinality(Acquired) - 1 /\ Cardinality(Acquired) > 0
  BY <1>1, StagesFinite, Remove
<1>4. Cardinality(Consuming \cup {c}) = Cardinality(Consuming) + 1
  BY <1>1, StagesFinite, Insert
<1> QED
  BY <1>1, <1>2, <1>3, <1>4 DEF H, P, A, C

LEMMA FinishCounts ==
  ASSUME TypeOK, NEW c \in Consumers, ConsumeFinish(c)
  PROVE  H' = H /\ P' = P /\ A' = A /\ C' = C - 1 /\ C > 0
<1>1. Consuming' = Consuming \ {c} /\ c \in Consuming /\ Acquired' = Acquired
  BY DEF TypeOK, ConsumeFinish, Acquired, Consuming
<1>2. Holding' = Holding /\ Pushed' = Pushed
  BY DEF ConsumeFinish, prodVars, Holding, Pushed
<1>3. Cardinality(Consuming \ {c}) = Cardinality(Consuming) - 1 /\ Cardinality(Consuming) > 0
  BY <1>1, StagesFinite, Remove
<1> QED
  BY <1>1, <1>2, <1>3 DEF H, P, A, C

-----------------------------------------------------------------------------
(* The inductive invariant *)

\* A consumer that acquired a unit of available_ finds the deque non-empty.
LEMMA AcquiredHasFront ==
  ASSUME InductiveInv, Acquired # {}
  PROVE  queue # << >> /\ queue \in Seq(Items) /\ Len(queue) \in Nat \ {0}
<1>1. A # 0
  BY StagesFinite, FS_EmptySet DEF A
<1>2. Len(queue) \in Nat /\ Len(queue) # 0
  BY <1>1, CountTypes, LenProperties DEF InductiveInv, AvailableBacksQueue, TypeOK, A, P
<1> QED
  BY <1>2, EmptySeq DEF InductiveInv, TypeOK

\* A step that fills or takes a slot keeps the sums, hence the type of empty.
LEMMA PushStep ==
  ASSUME InductiveInv, NEW p \in Producers, NEW r \in Items, stage[p] = "held", Push(p, r)
  PROVE  InductiveInv'
<1>1. queue' \in Seq(Items) /\ Len(queue') = Len(queue) + 1 /\ Len(queue) \in Nat
  BY DEF InductiveInv, TypeOK, Push
<1>2. TypeOK'
  BY <1>1 DEF InductiveInv, TypeOK, Push, consVars
<1>3. H' = H - 1 /\ P' = P + 1 /\ A' = A /\ C' = C
  BY PushCounts DEF InductiveInv
<1>4. empty' = empty /\ available' = available /\ empty \in Int /\ available \in Int
  BY DEF InductiveInv, TypeOK, Push
<1>5. empty + H + Len(queue) + C = Depth /\ available + P + A = Len(queue)
  BY DEF InductiveInv, SlotsConserved, AvailableBacksQueue, H, P, A, C
<1>6. empty' + H' + Len(queue') + C' = Depth /\ available' + P' + A' = Len(queue')
  BY <1>1, <1>3, <1>4, <1>5, CountTypes
<1> QED
  BY <1>2, <1>6 DEF InductiveInv, SlotsConserved, AvailableBacksQueue, H, P, A, C

LEMMA InvInit ==
  ASSUME Init
  PROVE  InductiveInv
<1>1. Holding = {} /\ Pushed = {} /\ Acquired = {} /\ Consuming = {}
  BY DEF Init, Holding, Pushed, Acquired, Consuming
<1>2. TypeOK
  BY PipelineAssumption DEF Init, TypeOK, Kinds, Items
<1>3. empty = Depth /\ available = 0 /\ Len(queue) = 0
  BY DEF Init
<1> QED
  BY <1>1, <1>2, <1>3, FS_EmptySet, PipelineAssumption
  DEF InductiveInv, SlotsConserved, AvailableBacksQueue

LEMMA InvStep ==
  ASSUME InductiveInv, [Next]_vars
  PROVE  InductiveInv'
<1> USE DEF InductiveInv
<1>1. ASSUME NEW p \in Producers, NEW k \in Kinds, ClaimSlot(p, k)
      PROVE  InductiveInv'
  <2>1. H' = H + 1 /\ P' = P /\ A' = A /\ C' = C
    BY <1>1, ClaimCounts
  <2>2. /\ empty' = empty - 1 /\ empty > 0 /\ empty \in 0..Depth
        /\ available' = available /\ queue' = queue
        /\ available \in Nat /\ Len(queue) \in Nat
    BY <1>1 DEF ClaimSlot, TypeOK
  <2>3. TypeOK'
    BY <1>1, <2>2, PipelineAssumption DEF TypeOK, ClaimSlot, consVars
  <2> QED
    BY <2>1, <2>2, <2>3, CountTypes, PipelineAssumption
    DEF SlotsConserved, AvailableBacksQueue, H, P, A, C
<1>2. ASSUME NEW p \in Producers, BailIfNotEmpty(p)
      PROVE  InductiveInv'
  <2>1. H' = H - 1 /\ P' = P /\ A' = A /\ C' = C /\ H > 0
    BY <1>2, BailCounts
  <2>2. /\ empty' = empty + 1 /\ empty \in 0..Depth
        /\ available' = available /\ queue' = queue
        /\ available \in Nat /\ Len(queue) \in Nat
    BY <1>2 DEF BailIfNotEmpty, TypeOK
  <2>3. SlotsConserved' /\ AvailableBacksQueue' /\ empty' \in 0..Depth
    BY <2>1, <2>2, CountTypes, PipelineAssumption
    DEF SlotsConserved, AvailableBacksQueue, H, P, A, C
  <2>4. TypeOK'
    BY <1>2, <2>3 DEF TypeOK, BailIfNotEmpty, consVars
  <2> QED
    BY <2>3, <2>4
<1>3. ASSUME NEW p \in Producers, SignalAvailable(p)
      PROVE  InductiveInv'
  <2>1. H' = H /\ P' = P - 1 /\ A' = A /\ C' = C
    BY <1>3, SignalCounts
  <2>2. /\ available' = available + 1 /\ available \in Nat
        /\ empty' = empty /\ queue' = queue /\ Len(queue) \in Nat
    BY <1>3 DEF SignalAvailable, TypeOK
  <2>3. TypeOK'
    BY <1>3, <2>2 DEF TypeOK, SignalAvailable, consVars
  <2> QED
    BY <2>1, <2>2, <2>3, CountTypes
    DEF SlotsConserved, AvailableBacksQueue, H, P, A, C
<1>4. ASSUME NEW c \in Consumers, ConsumeAcquire(c)
      PROVE  InductiveInv'
  <2>1. H' = H /\ P' = P /\ A' = A + 1 /\ C' = C
    BY <1>4, AcquireCounts
  <2>2. /\ available' = available - 1 /\ available > 0 /\ available \in Nat
        /\ empty' = empty /\ queue' = queue /\ Len(queue) \in Nat
    BY <1>4 DEF ConsumeAcquire, TypeOK
  <2>3. TypeOK'
    BY <1>4, <2>2 DEF TypeOK, ConsumeAcquire, prodVars
  <2> QED
    BY <2>1, <2>2, <2>3, CountTypes
    DEF SlotsConserved, AvailableBacksQueue, H, P, A, C
<1>5. ASSUME NEW c \in Consumers, ConsumePop(c)
      PROVE  InductiveInv'
  <2>1. H' = H /\ P' = P /\ A' = A - 1 /\ C' = C + 1
    BY <1>5, PopCounts
  <2>2. Acquired # {}
    BY <1>5 DEF ConsumePop, Acquired
  <2>3. queue # << >> /\ queue \in Seq(Items) /\ Len(queue) \in Nat \ {0}
    BY <2>2, AcquiredHasFront
  <2>4. /\ Head(queue) \in Items
        /\ Tail(queue) \in Seq(Items)
        /\ Len(Tail(queue)) = Len(queue) - 1
    BY <2>3, HeadTailProperties
  <2>5. /\ available' = available /\ available \in Nat
        /\ empty' = empty /\ empty \in 0..Depth /\ Len(queue') = Len(queue) - 1
    BY <1>5, <2>4 DEF ConsumePop, TypeOK
  <2>6. TypeOK'
    BY <1>5, <2>3, <2>4, <2>5 DEF TypeOK, ConsumePop, prodVars
  <2>7. empty + H + Len(queue) + C = Depth /\ available + P + A = Len(queue)
    BY DEF SlotsConserved, AvailableBacksQueue, H, P, A, C
  <2>8. empty' + H' + Len(queue') + C' = Depth /\ available' + P' + A' = Len(queue')
    BY <2>1, <2>3, <2>5, <2>7, CountTypes
  <2> QED
    BY <2>6, <2>8 DEF SlotsConserved, AvailableBacksQueue, H, P, A, C
<1>6. ASSUME NEW c \in Consumers, ConsumeFinish(c)
      PROVE  InductiveInv'
  <2>1. H' = H /\ P' = P /\ A' = A /\ C' = C - 1 /\ C > 0
    BY <1>6, FinishCounts
  <2>2. /\ empty' = empty + 1 /\ empty \in 0..Depth
        /\ available' = available /\ queue' = queue
        /\ available \in Nat /\ Len(queue) \in Nat
    BY <1>6 DEF ConsumeFinish, TypeOK
  <2>3. SlotsConserved' /\ AvailableBacksQueue' /\ empty' \in 0..Depth
    BY SMTT(30), <2>1, <2>2, CountTypes, PipelineAssumption
    DEF SlotsConserved, AvailableBacksQueue, H, P, A, C
  <2>4. TypeOK'
    BY <1>6, <2>3 DEF TypeOK, ConsumeFinish, prodVars, Items
  <2> QED
    BY <2>3, <2>4
<1>7. CASE UNCHANGED vars
  BY <1>7 DEF vars, TypeOK, SlotsConserved, AvailableBacksQueue,
              Holding, Pushed, Acquired, Consuming
<1> QED
  BY <1>1, <1>2, <1>3, <1>4, <1>5, <1>6, <1>7, PushStep
  DEF Next, ProducerStep, ConsumerStep, Produce, ProduceIfEmpty, Complete,
      ProducerCommit, ProducerCommitIfEmpty, Kinds

THEOREM InductiveInvariance == Spec => []InductiveInv
<1>1. Init => InductiveInv
  BY InvInit
<1>2. InductiveInv /\ [Next]_vars => InductiveInv'
  BY InvStep
<1> QED
  BY <1>1, <1>2, PTL DEF Spec
\* The type invariant: in particular empty_ stays in 0..depth, so neither
\* semaphore is signalled beyond the slots the constructor gave it.
THEOREM TypeCorrect == Spec => []TypeOK
BY InductiveInvariance, PTL DEF InductiveInv

\* No way of ending a continuation (commit, commit-if-empty, its early return,
\* destruction) loses or duplicates a slot of the pipeline.
THEOREM SlotsConservedAlways == Spec => []SlotsConserved
BY InductiveInvariance, PTL DEF InductiveInv

\* Consume's unguarded queue_.front() and pop_front() are always defined.
THEOREM FrontIsDefinedAlways == Spec => []FrontIsDefined
<1>1. InductiveInv => FrontIsDefined
  BY AcquiredHasFront DEF FrontIsDefined
<1> QED
  BY InductiveInvariance, <1>1, PTL

-----------------------------------------------------------------------------
(* Refinement *)

\* Every step of the pipeline is a step of the bounded FIFO buffer or a
\* stutter (signalling and acquiring available_ are invisible to it).
LEMMA StepSimulation ==
  ASSUME InductiveInv, [Next]_vars
  PROVE  [Abstract!Next]_Abstract!vars
<1> USE DEF InductiveInv
<1>1. ASSUME NEW p \in Producers, NEW k \in Kinds, ClaimSlot(p, k)
      PROVE  Abstract!Claim
  <2>1. H' = H + 1 /\ C' = C
    BY <1>1, ClaimCounts
  <2>2. H + Len(queue) + C < Depth
    <3>1. empty > 0 /\ empty \in Nat /\ Len(queue) \in Nat
      BY <1>1 DEF ClaimSlot, TypeOK
    <3>2. empty + H + Len(queue) + C = Depth
      BY DEF SlotsConserved, H, C
    <3> QED
      BY <3>1, <3>2, CountTypes, PipelineAssumption
  <2>3. queue' = queue
    BY <1>1 DEF ClaimSlot
  <2> QED
    BY <2>1, <2>2, <2>3 DEF Abstract!Claim, Abstract!Used, H, C
<1>2. ASSUME NEW p \in Producers, NEW r \in Items, stage[p] = "held", Push(p, r)
      PROVE  Abstract!Put(r)
  <2>1. H' = H - 1 /\ C' = C /\ H > 0
    BY <1>2, PushCounts
  <2> QED
    BY <1>2, <2>1 DEF Push, Abstract!Put, H, C
<1>3. ASSUME NEW p \in Producers, BailIfNotEmpty(p)
      PROVE  Abstract!Cancel
  <2>1. H' = H - 1 /\ C' = C /\ H > 0
    BY <1>3, BailCounts
  <2> QED
    BY <1>3, <2>1 DEF BailIfNotEmpty, Abstract!Cancel, H, C
<1>4. ASSUME NEW p \in Producers, SignalAvailable(p)
      PROVE  UNCHANGED Abstract!vars
  <2>1. H' = H /\ C' = C
    BY <1>4, SignalCounts
  <2> QED
    BY <1>4, <2>1 DEF SignalAvailable, Abstract!vars, H, C
<1>5. ASSUME NEW c \in Consumers, ConsumeAcquire(c)
      PROVE  UNCHANGED Abstract!vars
  <2>1. H' = H /\ C' = C
    BY <1>5, AcquireCounts
  <2> QED
    BY <1>5, <2>1 DEF ConsumeAcquire, Abstract!vars, H, C
<1>6. ASSUME NEW c \in Consumers, ConsumePop(c)
      PROVE  Abstract!Take
  <2>1. H' = H /\ C' = C + 1
    BY <1>6, PopCounts
  <2>2. queue # << >>
    BY <1>6, AcquiredHasFront DEF ConsumePop, Acquired
  <2> QED
    BY <1>6, <2>1, <2>2 DEF ConsumePop, Abstract!Take, H, C
<1>7. ASSUME NEW c \in Consumers, ConsumeFinish(c)
      PROVE  Abstract!Release
  <2>1. H' = H /\ C' = C - 1 /\ C > 0
    BY <1>7, FinishCounts
  <2> QED
    BY <1>7, <2>1 DEF ConsumeFinish, Abstract!Release, H, C
<1>8. CASE UNCHANGED vars
  BY <1>8 DEF vars, Abstract!vars, Holding, Consuming
<1> QED
  BY <1>1, <1>2, <1>3, <1>4, <1>5, <1>6, <1>7, <1>8
  DEF Next, ProducerStep, ConsumerStep, Produce, ProduceIfEmpty, Complete,
      ProducerCommit, ProducerCommitIfEmpty, Kinds, Abstract!Next

\* The semaphores and the mutex of pipeline.h implement a FIFO buffer of Depth
\* slots: a slot is granted only while one is free, a resource is taken only
\* when one is queued, and a continuation is refused only behind another one.
THEOREM PipelineImplementsBoundedQueue == Spec => ImplementsBoundedQueue
<1>1. Init => Abstract!Init
  <2> SUFFICES ASSUME Init PROVE Abstract!Init
    OBVIOUS
  <2>1. Holding = {} /\ Consuming = {} /\ queue = << >>
    BY DEF Init, Holding, Consuming
  <2> QED
    BY <2>1, FS_EmptySet DEF Abstract!Init
<1>2. InductiveInv /\ [Next]_vars => [Abstract!Next]_Abstract!vars
  BY StepSimulation
<1> QED
  BY <1>1, <1>2, InductiveInvariance, PTL
  DEF Spec, ImplementsBoundedQueue, Abstract!Spec
=============================================================================
