-------------------------- MODULE TaskQueuesProofs --------------------------
(***************************************************************************)
(* Type correctness, the merge topology and the absence of lost wake-ups   *)
(* for any number of queues, posters, tasks and instants.                  *)
(***************************************************************************)
EXTENDS TaskQueues, TLAPS

\* A queue that is paused now and then is never subsumed: its owner would not
\* be woken by ResumeSecondarySource.
PausableUnsubsumed == \A q \in Pausable : subsumed_by[q] = kUnmerged

\* The inductive invariant.
Inv == TypeOK /\ MergeTopology /\ PausableUnsubsumed /\ NoLostWakeUp

\* What loop q may run, spelled out.
LEMMA PendingMember ==
  ASSUME NEW q, NEW t
  PROVE  t \in Pending(q) <=>
           /\ subsumed_by[q] = kUnmerged
           /\ \E o \in {q} \cup owner_of[q] :
                t \in tasks[o] /\ (t.body = "dart" => pauses[o] = 0)
  BY DEF Pending, Source

\* The same, after a step.
LEMMA PendingMemberNext ==
  ASSUME NEW q, NEW t
  PROVE  t \in Pending(q)' <=>
           /\ subsumed_by'[q] = kUnmerged
           /\ \E o \in {q} \cup owner_of'[q] :
                t \in tasks'[o] /\ (t.body = "dart" => pauses'[o] = 0)
  BY DEF Pending, Source

\* Pending tasks are tasks, and none is due before the next one.
LEMMA NextIsEarliest ==
  ASSUME TypeOK, NEW q \in Queues
  PROVE  \A t \in NextTasks(q) :
           /\ t \in Task
           /\ \A u \in Pending(q) : t.target <= u.target
<1> SUFFICES ASSUME NEW t \in NextTasks(q)
             PROVE  t \in Task /\ \A u \in Pending(q) : t.target <= u.target
  OBVIOUS
<1>1. \A u \in Pending(q) : u \in Task
  BY PendingMember DEF TypeOK
<1>2. t \in Pending(q) /\ \A u \in Pending(q) : ~Later(t, u)
  BY DEF NextTasks
<1>3. \A u \in Pending(q) : ~(t.target > u.target)
  BY <1>2 DEF Later
<1>4. \A u \in Task : u.target \in Int
  BY QueuesAssumption DEF Task, Times
<1> QED
  BY <1>1, <1>2, <1>3, <1>4

\* The same, after a step.
LEMMA NextIsEarliestNext ==
  ASSUME TypeOK', NEW q \in Queues
  PROVE  \A t \in NextTasks(q)' :
           /\ t \in Task
           /\ \A u \in Pending(q)' : t.target <= u.target
<1> SUFFICES ASSUME NEW t \in NextTasks(q)'
             PROVE  t \in Task /\ \A u \in Pending(q)' : t.target <= u.target
  OBVIOUS
<1>1. \A u \in Pending(q)' : u \in Task
  BY PendingMemberNext DEF TypeOK
<1>2. t \in Pending(q)' /\ \A u \in Pending(q)' : ~Later(t, u)
  BY DEF NextTasks
<1>3. \A u \in Pending(q)' : ~(t.target > u.target)
  BY <1>2 DEF Later
<1>4. \A u \in Task : u.target \in Int
  BY QueuesAssumption DEF Task, Times
<1> QED
  BY <1>1, <1>2, <1>3, <1>4

-----------------------------------------------------------------------------
(* Types *)

\* The timer after WakeUpIfPending, whose other variables are of their types.
LEMMA WakeUpType ==
  ASSUME timer \in [Queues -> Times \cup {Never}],
         tasks' \in [Queues -> SUBSET Task],
         owner_of' \in [Queues -> SUBSET Queues],
         NEW q \in Queues,
         WakeUpIfPending(q)
  PROVE  timer' \in [Queues -> Times \cup {Never}]
<1>1. \A t \in NextTasks(q)' : t \in Task
  BY PendingMemberNext DEF NextTasks
<1>2. \A t \in Task : t.target \in Times
  BY DEF Task
<1> QED
  BY <1>1, <1>2 DEF WakeUpIfPending, TimerRearm

\* RegisterTask keeps the types of what it changes.
LEMMA RegisterType ==
  ASSUME TypeOK, NEW q \in Queues, NEW target \in Times, NEW body \in Bodies,
         RegisterTask(q, target, body)
  PROVE  /\ tasks' \in [Queues -> SUBSET Task]
         /\ order' \in Nat
         /\ timer' \in [Queues -> Times \cup {Never}]
<1>1. [order |-> order, target |-> target, body |-> body] \in Task
  BY DEF TypeOK, Task
<1>2. tasks' \in [Queues -> SUBSET Task] /\ order' \in Nat
  BY <1>1 DEF TypeOK, RegisterTask
<1>3. \E l \in Queues : WakeUpIfPending(l)
  BY DEF TypeOK, RegisterTask, LoopToWake
<1>4. owner_of' \in [Queues -> SUBSET Queues]
  BY DEF TypeOK, RegisterTask, merge
<1> QED
  BY <1>2, <1>3, <1>4, WakeUpType DEF TypeOK

LEMMA TypeStep ==
  ASSUME TypeOK, [Next]_vars
  PROVE  TypeOK'
<1> USE QueuesAssumption
<1>1. CASE \E p \in Posters, q \in Queues, target \in Times : PostTask(p, q, target)
  BY <1>1 DEF TypeOK, PostTask, Post, merge, thread
<1>2. CASE \E p \in Posters : PostTaskRegister(p)
  <2>1. PICK p \in Posters : PostTaskRegister(p)
    BY <1>2
  <2>2. post[p] \in Post
    BY <2>1 DEF TypeOK, PostTaskRegister
  <2>3. PICK r \in Post : r = post[p] /\ RegisterTask(r.queue, r.target, r.body)
    BY <2>1, <2>2 DEF PostTaskRegister
  <2>4. r.queue \in Queues /\ r.target \in Times /\ r.body \in Bodies
    BY DEF Post, Bodies
  <2>5. /\ tasks' \in [Queues -> SUBSET Task]
        /\ order' \in Nat
        /\ timer' \in [Queues -> Times \cup {Never}]
    BY <2>3, <2>4, RegisterType
  <2>6. post' \in [Posters -> Post \cup {NoPost}]
    BY <2>1 DEF TypeOK, PostTaskRegister
  <2>7. UNCHANGED <<pauses, merge, now, thread, joined, switches>>
    BY <2>3 DEF RegisterTask
  <2> QED
    BY <2>5, <2>6, <2>7 DEF TypeOK, merge, thread
<1>3. CASE \E q \in Pausable : PostDartTask(q)
  <2>1. PICK q \in Queues : RegisterTask(q, now, "dart") /\ UNCHANGED post
    BY <1>3 DEF PostDartTask
  <2>2. now \in Times /\ "dart" \in Bodies
    BY DEF TypeOK, Bodies
  <2>3. /\ tasks' \in [Queues -> SUBSET Task]
        /\ order' \in Nat
        /\ timer' \in [Queues -> Times \cup {Never}]
    BY <2>1, <2>2, RegisterType
  <2>4. UNCHANGED <<pauses, merge, now, thread, joined, switches>>
    BY <2>1 DEF RegisterTask
  <2> QED
    BY <2>1, <2>3, <2>4 DEF TypeOK, merge, thread
<1>4. CASE \E p \in Posters, q \in Joined : ThreadJoin(p, q)
  BY <1>4 DEF TypeOK, ThreadJoin, Post, merge, thread
<1>5. CASE \E pair \in Pairs : Merge(pair[1], pair[2])
  <2>1. PICK o \in Queues, s \in Queues : Merge(o, s)
    BY <1>5
  <2>2. /\ owner_of' \in [Queues -> SUBSET Queues]
        /\ subsumed_by' \in [Queues -> Queues \cup {kUnmerged}]
        /\ tasks' \in [Queues -> SUBSET Task]
        /\ switches' \in Nat
    BY <2>1 DEF TypeOK, Merge, Switch
  <2>3. timer' \in [Queues -> Times \cup {Never}]
    BY <2>1, <2>2, WakeUpType DEF TypeOK, Merge
  <2> QED
    BY <2>1, <2>2, <2>3 DEF TypeOK, Merge, thread
<1>6. CASE \E pair \in Pairs : Unmerge(pair[1], pair[2])
  <2>1. PICK o \in Queues, s \in Queues : Unmerge(o, s)
    BY <1>6
  <2>2. /\ owner_of' \in [Queues -> SUBSET Queues]
        /\ subsumed_by' \in [Queues -> Queues \cup {kUnmerged}]
        /\ tasks' \in [Queues -> SUBSET Task]
        /\ switches' \in Nat
    BY <2>1 DEF TypeOK, Unmerge, Switch
  <2>3. \A q \in Queues : \A t \in NextTasks(q)' : t.target \in Times
    BY <2>2, PendingMemberNext DEF NextTasks, Task
  <2>4. timer' \in [Queues -> Times \cup {Never}]
    BY <2>1, <2>3 DEF TypeOK, Unmerge
  <2> QED
    BY <2>1, <2>2, <2>4 DEF TypeOK, Unmerge, thread
<1>7. CASE \E q \in Pausable : PauseSecondarySource(q)
  BY <1>7 DEF TypeOK, PauseSecondarySource, Switch, merge, thread
<1>8. CASE \E q \in Pausable : ResumeSecondarySource(q)
  <2>1. PICK q \in Queues : ResumeSecondarySource(q)
    BY <1>8
  <2>2. timer' \in [Queues -> Times \cup {Never}]
    BY <2>1, WakeUpType DEF TypeOK, ResumeSecondarySource, merge
  <2>3. pauses' \in [Queues -> Nat]
    BY <2>1 DEF TypeOK, ResumeSecondarySource
  <2> QED
    BY <2>1, <2>2, <2>3 DEF TypeOK, ResumeSecondarySource, merge, thread
<1>9. CASE \E q \in Queues : LoopThread(q)
  <2>1. PICK q \in Queues : LoopThread(q)
    BY <1>9
  <2>2. CASE OnEventFired(q)
    BY <2>2 DEF TypeOK, OnEventFired, TimerDrain, merge
  <2>3. CASE GetNextTaskToRun(q)
    <3>1. \A t \in NextTasks(q) : t \in Task /\ t.target \in Times
      BY NextIsEarliest DEF Task
    <3>2. 0 \in Times
      BY DEF Times
    <3> QED
      BY SMTT(30), <2>3, <3>1, <3>2 DEF TypeOK, GetNextTaskToRun, TimerRearm, FlushEnds, merge
  <2>4. CASE FinishTask(q)
    BY <2>4 DEF TypeOK, FinishTask, merge
  <2>5. CASE Terminate(q)
    BY <2>5 DEF TypeOK, Terminate, TimerRearm, merge
  <2>6. CASE RunReturns(q)
    BY <2>6 DEF TypeOK, RunReturns, merge
  <2>7. CASE DisposeTasks(q)
    BY <2>7 DEF TypeOK, DisposeTasks, merge
  <2> QED
    BY <2>1, <2>2, <2>3, <2>4, <2>5, <2>6, <2>7 DEF LoopThread
<1>10. CASE Tick
  BY <1>10 DEF TypeOK, Tick, Times, merge, thread
<1>11. CASE UNCHANGED vars
  BY <1>11 DEF TypeOK, vars
<1> QED
  BY <1>1, <1>2, <1>3, <1>4, <1>5, <1>6, <1>7, <1>8, <1>9, <1>10, <1>11 DEF Next

-----------------------------------------------------------------------------
(* Merge topology *)

\* Only Merge and Unmerge change who owns whom.
LEMMA MergeUnchanged ==
  ASSUME [Next]_vars,
         ~ \E pair \in Pairs : Merge(pair[1], pair[2]),
         ~ \E pair \in Pairs : Unmerge(pair[1], pair[2])
  PROVE  UNCHANGED merge
<1>1. CASE \E q \in Queues : LoopThread(q)
  BY <1>1 DEF LoopThread, OnEventFired, TimerDrain, GetNextTaskToRun, TimerRearm, FinishTask, Terminate, RunReturns,
              DisposeTasks, merge
<1>2. CASE UNCHANGED vars
  BY <1>2 DEF vars, merge
<1> QED
  BY <1>1, <1>2 DEF Next, PostTask, PostTaskRegister, PostDartTask, RegisterTask, ThreadJoin,
     PauseSecondarySource, ResumeSecondarySource, Tick, merge

LEMMA TopologyStep ==
  ASSUME TypeOK, MergeTopology, PausableUnsubsumed, [Next]_vars
  PROVE  MergeTopology' /\ PausableUnsubsumed'
<1> USE QueuesAssumption, PausableIsNotSubsumed
<1>1. CASE \E pair \in Pairs : Merge(pair[1], pair[2])
  <2>1. PICK o \in Queues, s \in Queues : Merge(o, s) /\ s \notin Pausable
    BY <1>1
  <2>2. /\ owner_of' = [owner_of EXCEPT ![o] = @ \cup {s}]
        /\ subsumed_by' = [subsumed_by EXCEPT ![s] = o]
        /\ o # s /\ owner_of[s] = {}
        /\ subsumed_by[o] = kUnmerged /\ subsumed_by[s] = kUnmerged
    BY <2>1 DEF Merge
  <2>3. \A q, r \in Queues : q \in owner_of'[r] <=> subsumed_by'[q] = r
    BY <2>2 DEF TypeOK, MergeTopology
  <2>4. \A q \in Queues : owner_of'[q] # {} => subsumed_by'[q] = kUnmerged
    BY <2>2 DEF TypeOK, MergeTopology
  <2>5. PausableUnsubsumed'
    BY <2>1, <2>2 DEF TypeOK, PausableUnsubsumed
  <2> QED
    BY <2>3, <2>4, <2>5 DEF MergeTopology
<1>2. CASE \E pair \in Pairs : Unmerge(pair[1], pair[2])
  <2>1. PICK o \in Queues, s \in Queues : Unmerge(o, s)
    BY <1>2
  <2>2. /\ subsumed_by' = [subsumed_by EXCEPT ![s] = kUnmerged]
        /\ owner_of' = [owner_of EXCEPT ![o] = @ \ {s}]
        /\ s \in owner_of[o]
    BY <2>1 DEF Unmerge
  <2>3. \A q, r \in Queues : q \in owner_of'[r] <=> subsumed_by'[q] = r
    BY <2>2 DEF TypeOK, MergeTopology
  <2>4. \A q \in Queues : owner_of'[q] # {} => subsumed_by'[q] = kUnmerged
    BY <2>2 DEF TypeOK, MergeTopology
  <2>5. PausableUnsubsumed'
    BY <2>2 DEF TypeOK, PausableUnsubsumed
  <2> QED
    BY <2>3, <2>4, <2>5 DEF MergeTopology
<1>3. CASE UNCHANGED merge
  BY <1>3 DEF MergeTopology, PausableUnsubsumed, merge
<1> QED
  BY <1>1, <1>2, <1>3, MergeUnchanged

-----------------------------------------------------------------------------
(* Wake-ups *)

\* The timer of loop q is set in time for all it may run.
Covered(q) ==
  \A t \in Pending(q) :
    \/ loop[q] = "flush"
    \/ timer[q] <= t.target
    \/ timer[q] <= now

\* A loop stays covered when it gains no task and keeps its timer and its place.
LEMMA StaysCovered ==
  ASSUME TypeOK, NEW q \in Queues, Covered(q),
         \A t : t \in Pending(q)' => t \in Pending(q),
         timer'[q] = timer[q],
         loop[q] = "flush" => loop'[q] = "flush",
         now' = now \/ (now' \in Nat /\ now <= now')
  PROVE  Covered(q)'
<1> SUFFICES ASSUME NEW t \in Pending(q)'
             PROVE  loop'[q] = "flush" \/ timer'[q] <= t.target \/ timer'[q] <= now'
  BY DEF Covered
<1>1. timer[q] \in Int /\ now \in Int
  BY QueuesAssumption DEF TypeOK, Times, Never
<1> QED
  BY <1>1 DEF Covered

\* A re-armed loop is covered.
LEMMA WokenIsCovered ==
  ASSUME TypeOK', NEW q \in Queues,
         \/ Pending(q)' = {}
         \/ \E t \in NextTasks(q)' : timer'[q] = t.target
  PROVE  Covered(q)'
  BY NextIsEarliestNext DEF Covered

\* WakeUpIfPending covers its loop and leaves the other timers alone.
LEMMA WakeUpCovers ==
  ASSUME TypeOK, TypeOK', NEW q \in Queues, WakeUpIfPending(q)
  PROVE  /\ Covered(q)'
         /\ \A r \in Queues : r # q => timer'[r] = timer[r]
<1>1. \/ Pending(q)' = {}
      \/ \E t \in NextTasks(q)' : timer'[q] = t.target
  BY DEF WakeUpIfPending, TimerRearm, HasPendingTasks, TypeOK
<1>2. \A r \in Queues : r # q => timer'[r] = timer[r]
  BY DEF WakeUpIfPending, TimerRearm, TypeOK
<1> QED
  BY <1>1, <1>2, WokenIsCovered

\* RegisterTask wakes the one loop that sees the new task.
LEMMA RegisterCovers ==
  ASSUME TypeOK, TypeOK', MergeTopology, NoLostWakeUp,
         NEW q \in Queues, NEW target \in Times, NEW body \in Bodies,
         RegisterTask(q, target, body)
  PROVE  \A r \in Queues : Covered(r)'
<1>1. PICK l \in Queues : l = LoopToWake(q) /\ WakeUpIfPending(l)
  BY DEF RegisterTask, LoopToWake, TypeOK
<1>2. Covered(l)' /\ \A r \in Queues : r # l => timer'[r] = timer[r]
  BY <1>1, WakeUpCovers
<1>3. SUFFICES ASSUME NEW r \in Queues, r # l
               PROVE  Covered(r)'
  BY <1>2
<1>4. /\ UNCHANGED <<owner_of, subsumed_by, pauses, loop, now>>
      /\ tasks' = [tasks EXCEPT ![q] =
                     @ \cup {[order |-> order, target |-> target, body |-> body]}]
  BY DEF RegisterTask, merge, thread
<1>5. CASE subsumed_by[r] # kUnmerged
  <2>1. Pending(r)' = {}
    BY <1>4, <1>5, PendingMemberNext
  <2> QED
    BY <2>1 DEF Covered
<1>6. CASE subsumed_by[r] = kUnmerged
  <2>1. q \notin {r} \cup owner_of[r]
    BY <1>1, <1>3, <1>6, QueuesAssumption DEF LoopToWake, MergeTopology
  <2>2. \A o \in {r} \cup owner_of[r] : tasks'[o] = tasks[o]
    BY <1>4, <2>1 DEF TypeOK
  <2>3. \A t : t \in Pending(r)' => t \in Pending(r)
    BY <1>4, <2>2, PendingMember, PendingMemberNext
  <2> QED
    BY <1>2, <1>3, <1>4, <2>3, StaysCovered DEF NoLostWakeUp, Covered
<1> QED
  BY <1>5, <1>6

\* A loop whose tasks, pauses and merges did not grow gains no pending task.
LEMMA NoNewPending ==
  ASSUME TypeOK, NEW q \in Queues,
         subsumed_by'[q] = subsumed_by[q],
         owner_of'[q] = owner_of[q],
         \A o \in Queues : tasks'[o] \subseteq tasks[o],
         \A o \in {q} \cup owner_of[q] : pauses'[o] = 0 => pauses[o] = 0
  PROVE  \A t : t \in Pending(q)' => t \in Pending(q)
<1>1. {q} \cup owner_of[q] \subseteq Queues
  BY DEF TypeOK
<1> QED
  BY <1>1, PendingMember, PendingMemberNext

\* A merge wakes the owner; the queue it subsumes has nothing left to run.
LEMMA MergeCovers ==
  ASSUME TypeOK, TypeOK', NoLostWakeUp, NEW o \in Queues, NEW s \in Queues, Merge(o, s)
  PROVE  \A r \in Queues : Covered(r)'
<1>1. /\ owner_of' = [owner_of EXCEPT ![o] = @ \cup {s}]
      /\ subsumed_by' = [subsumed_by EXCEPT ![s] = o]
      /\ UNCHANGED <<tasks, pauses, now, loop>>
      /\ WakeUpIfPending(o)
  BY DEF Merge, thread
<1>2. Covered(o)' /\ \A r \in Queues : r # o => timer'[r] = timer[r]
  BY <1>1, WakeUpCovers
<1>3. Covered(s)'
  <2>1. subsumed_by'[s] # kUnmerged
    BY <1>1, QueuesAssumption DEF TypeOK
  <2> QED
    BY <2>1, PendingMemberNext DEF Covered
<1>4. ASSUME NEW r \in Queues, r # o, r # s
      PROVE  Covered(r)'
  <2>1. subsumed_by'[r] = subsumed_by[r] /\ owner_of'[r] = owner_of[r]
    BY <1>1, <1>4 DEF TypeOK
  <2>2. \A t : t \in Pending(r)' => t \in Pending(r)
    BY <1>1, <2>1, NoNewPending
  <2> QED
    BY <1>1, <1>2, <1>4, <2>2, StaysCovered DEF NoLostWakeUp, Covered
<1> QED
  BY <1>2, <1>3, <1>4

\* Unmerge wakes both loops.
LEMMA UnmergeCovers ==
  ASSUME TypeOK, TypeOK', MergeTopology, NoLostWakeUp,
         NEW o \in Queues, NEW s \in Queues, Unmerge(o, s)
  PROVE  \A r \in Queues : Covered(r)'
<1>1. /\ subsumed_by' = [subsumed_by EXCEPT ![s] = kUnmerged]
      /\ owner_of' = [owner_of EXCEPT ![o] = @ \ {s}]
      /\ UNCHANGED <<tasks, pauses, now, loop>>
  BY DEF Unmerge, thread
<1>2. o # s
  BY QueuesAssumption DEF Unmerge, MergeTopology, TypeOK
<1>3. PICK wo, ws :
        /\ wo \in IF HasPendingTasks(o)' THEN {t.target : t \in NextTasks(o)'} ELSE {timer[o]}
        /\ ws \in IF HasPendingTasks(s)' THEN {t.target : t \in NextTasks(s)'} ELSE {timer[s]}
        /\ timer' = [timer EXCEPT ![o] = wo, ![s] = ws]
  BY DEF Unmerge
<1>4. timer'[o] = wo /\ timer'[s] = ws /\ \A r \in Queues \ {o, s} : timer'[r] = timer[r]
  BY <1>2, <1>3 DEF TypeOK
<1>5. Covered(o)'
  BY <1>3, <1>4, WokenIsCovered DEF HasPendingTasks
<1>6. Covered(s)'
  BY <1>3, <1>4, WokenIsCovered DEF HasPendingTasks
<1>7. ASSUME NEW r \in Queues, r # o, r # s
      PROVE  Covered(r)'
  <2>1. subsumed_by'[r] = subsumed_by[r] /\ owner_of'[r] = owner_of[r]
    BY <1>1, <1>7 DEF TypeOK
  <2>2. \A t : t \in Pending(r)' => t \in Pending(r)
    BY <1>1, <2>1, NoNewPending
  <2> QED
    BY <1>1, <1>4, <1>7, <2>2, StaysCovered DEF NoLostWakeUp, Covered
<1> QED
  BY <1>5, <1>6, <1>7

\* A resume wakes the one loop that sees the secondary source again.
LEMMA ResumeCovers ==
  ASSUME TypeOK, TypeOK', MergeTopology, PausableUnsubsumed, NoLostWakeUp,
         NEW q \in Pausable, ResumeSecondarySource(q)
  PROVE  \A r \in Queues : Covered(r)'
<1>0. q \in Queues
  BY QueuesAssumption
<1>1. /\ pauses' = [pauses EXCEPT ![q] = @ - 1]
      /\ UNCHANGED <<tasks, owner_of, subsumed_by, now, loop>>
      /\ WakeUpIfPending(q)
  BY DEF ResumeSecondarySource, merge, thread
<1>2. Covered(q)' /\ \A r \in Queues : r # q => timer'[r] = timer[r]
  BY <1>0, <1>1, WakeUpCovers
<1>3. ASSUME NEW r \in Queues, r # q
      PROVE  Covered(r)'
  <2>1. q \notin owner_of[r]
    BY <1>0, QueuesAssumption DEF MergeTopology, PausableUnsubsumed
  <2>2. \A o \in {r} \cup owner_of[r] : pauses'[o] = pauses[o]
    BY <1>1, <1>3, <2>1 DEF TypeOK
  <2>3. \A t : t \in Pending(r)' => t \in Pending(r)
    BY <1>1, <2>2, NoNewPending
  <2> QED
    BY <1>1, <1>2, <1>3, <2>3, StaysCovered DEF NoLostWakeUp, Covered
<1> QED
  BY <1>2, <1>3

\* A loop ends its flush only once its timer covers what is pending.
LEMMA GetNextCovers ==
  ASSUME TypeOK, TypeOK', NoLostWakeUp, NEW q \in Queues, GetNextTaskToRun(q)
  PROVE  \A r \in Queues : Covered(r)'
<1>1. /\ UNCHANGED <<pauses, owner_of, subsumed_by, now>>
      /\ \A o \in Queues : tasks'[o] \subseteq tasks[o]
  BY DEF GetNextTaskToRun, TimerRearm, FlushEnds, merge, TypeOK
<1>2. \A r \in Queues : \A t : t \in Pending(r)' => t \in Pending(r)
  BY <1>1, NoNewPending
<1>3. \A r \in Queues : r # q => timer'[r] = timer[r] /\ loop'[r] = loop[r]
  BY DEF GetNextTaskToRun, TimerRearm, FlushEnds, TypeOK
<1>4. Covered(q)'
  <2>1. CASE ~HasPendingTasks(q)
    BY <2>1, <1>2 DEF Covered, HasPendingTasks
  <2>2. CASE \E t \in NextTasks(q) : timer' = [timer EXCEPT ![q] = t.target]
    <3>1. PICK t \in NextTasks(q) : timer'[q] = t.target
      BY <2>2 DEF TypeOK
    <3>2. \A u \in Pending(q) : t.target <= u.target
      BY NextIsEarliest
    <3> QED
      BY <1>2, <3>1, <3>2 DEF Covered
  <2> QED
    BY <2>1, <2>2 DEF GetNextTaskToRun, TimerRearm
<1>5. ASSUME NEW r \in Queues, r # q
      PROVE  Covered(r)'
  BY <1>1, <1>2, <1>3, <1>5, StaysCovered DEF NoLostWakeUp, Covered
<1> QED
  BY <1>4, <1>5

LEMMA WakeStep ==
  ASSUME TypeOK, TypeOK', MergeTopology, PausableUnsubsumed, NoLostWakeUp, [Next]_vars
  PROVE  NoLostWakeUp'
<1> USE QueuesAssumption
<1> SUFFICES \A r \in Queues : Covered(r)'
  BY DEF NoLostWakeUp, Covered
<1>0. ASSUME UNCHANGED <<pauses, owner_of, subsumed_by, timer>>,
             \A o \in Queues : tasks'[o] \subseteq tasks[o],
             \A r \in Queues : loop[r] = "flush" => loop'[r] = "flush",
             now' = now \/ (now' \in Nat /\ now <= now')
      PROVE  \A r \in Queues : Covered(r)'
  <2>1. \A r \in Queues : \A t : t \in Pending(r)' => t \in Pending(r)
    BY <1>0, NoNewPending
  <2> QED
    BY <1>0, <2>1, StaysCovered DEF NoLostWakeUp, Covered
<1>1. CASE \E p \in Posters, q \in Queues, target \in Times : PostTask(p, q, target)
  BY <1>0, <1>1 DEF PostTask, merge, thread
<1>2. CASE \E p \in Posters : PostTaskRegister(p)
  <2>1. PICK p \in Posters : PostTaskRegister(p)
    BY <1>2
  <2>2. post[p] \in Post
    BY <2>1 DEF TypeOK, PostTaskRegister
  <2>3. PICK x \in Post : RegisterTask(x.queue, x.target, x.body)
    BY <2>1, <2>2 DEF PostTaskRegister
  <2>4. x.queue \in Queues /\ x.target \in Times /\ x.body \in Bodies
    BY DEF Post, Bodies
  <2> QED
    BY <2>3, <2>4, RegisterCovers
<1>3. CASE \E q \in Pausable : PostDartTask(q)
  <2>1. PICK q \in Queues, target \in Times : RegisterTask(q, target, "dart")
    BY <1>3 DEF PostDartTask, TypeOK
  <2>2. "dart" \in Bodies
    BY DEF Bodies
  <2> QED
    BY <2>1, <2>2, RegisterCovers
<1>4. CASE \E p \in Posters, q \in Joined : ThreadJoin(p, q)
  BY <1>0, <1>4 DEF ThreadJoin, merge, thread
<1>5. CASE \E pair \in Pairs : Merge(pair[1], pair[2])
  BY <1>5, MergeCovers
<1>6. CASE \E pair \in Pairs : Unmerge(pair[1], pair[2])
  BY <1>6, UnmergeCovers
<1>7. CASE \E q \in Pausable : PauseSecondarySource(q)
  <2>1. PICK q \in Queues : PauseSecondarySource(q)
    BY <1>7
  <2>2. \A o \in Queues : pauses'[o] = 0 => pauses[o] = 0
    BY <2>1 DEF PauseSecondarySource, TypeOK
  <2>3. UNCHANGED <<tasks, owner_of, subsumed_by, timer, loop, now>>
    BY <2>1 DEF PauseSecondarySource, merge, thread
  <2>4. \A r \in Queues : {r} \cup owner_of[r] \subseteq Queues
    BY DEF TypeOK
  <2>5. \A r \in Queues : \A t : t \in Pending(r)' => t \in Pending(r)
    BY <2>2, <2>3, <2>4, NoNewPending
  <2> QED
    BY <2>3, <2>5, StaysCovered DEF NoLostWakeUp, Covered
<1>8. CASE \E q \in Pausable : ResumeSecondarySource(q)
  BY <1>8, ResumeCovers
<1>9. CASE \E q \in Queues : LoopThread(q)
  <2>1. PICK q \in Queues : LoopThread(q)
    BY <1>9
  <2>2. CASE GetNextTaskToRun(q)
    BY <2>2, GetNextCovers
  <2>3. CASE OnEventFired(q) \/ Terminate(q)
    <3>1. /\ UNCHANGED <<tasks, pauses, owner_of, subsumed_by, now>>
          /\ \A r \in Queues : r # q => timer'[r] = timer[r] /\ loop'[r] = loop[r]
          /\ loop'[q] = "flush" \/ timer'[q] = now
      BY <2>3 DEF OnEventFired, TimerDrain, Terminate, TimerRearm, merge, TypeOK
    <3>2. \A r \in Queues : \A t : t \in Pending(r)' => t \in Pending(r)
      BY <3>1, NoNewPending
    <3>3. now \in Int
      BY DEF TypeOK, Times
    <3>4. Covered(q)'
      BY <3>1, <3>3 DEF Covered
    <3>5. ASSUME NEW r \in Queues, r # q
          PROVE  Covered(r)'
      BY <3>1, <3>2, <3>5, StaysCovered DEF NoLostWakeUp, Covered
    <3> QED
      BY <3>4, <3>5
  <2>4. CASE FinishTask(q)
    BY <2>4, <1>0 DEF FinishTask, TypeOK, merge
  <2>5. CASE RunReturns(q)
    BY <2>5, <1>0 DEF RunReturns, TypeOK, merge
  <2>6. CASE DisposeTasks(q)
    <3>1. \A o \in Queues : tasks'[o] \subseteq tasks[o]
      BY <2>6 DEF DisposeTasks, TypeOK
    <3>2. \A r \in Queues : loop[r] = "flush" => loop'[r] = "flush"
      BY <2>6 DEF DisposeTasks, TypeOK
    <3> QED
      BY <2>6, <3>1, <3>2, <1>0 DEF DisposeTasks, merge
  <2> QED
    BY <2>1, <2>2, <2>3, <2>4, <2>5, <2>6 DEF LoopThread
<1>10. CASE Tick
  <2>1. now' \in Nat /\ now <= now'
    BY <1>10 DEF Tick, TypeOK, Times
  <2> QED
    BY <1>10, <2>1, <1>0 DEF Tick, merge, thread
<1>11. CASE UNCHANGED vars
  BY <1>11, <1>0 DEF vars
<1> QED
  BY <1>1, <1>2, <1>3, <1>4, <1>5, <1>6, <1>7, <1>8, <1>9, <1>10, <1>11 DEF Next

-----------------------------------------------------------------------------
(* The results *)

\* The invariant holds initially and every step of the queues, the loops and
\* their users preserves it.
THEOREM InductiveInvariance == Spec => []Inv
<1>1. Init => Inv
  <2> SUFFICES ASSUME Init PROVE Inv
    OBVIOUS
  <2>1. TypeOK
    BY QueuesAssumption DEF Init, TypeOK, Times, Never
  <2>2. MergeTopology /\ PausableUnsubsumed
    BY QueuesAssumption DEF Init, MergeTopology, PausableUnsubsumed
  <2>3. NoLostWakeUp
    BY PendingMember DEF Init, NoLostWakeUp
  <2> QED
    BY <2>1, <2>2, <2>3 DEF Inv
<1>2. Inv /\ [Next]_vars => Inv'
  BY TypeStep, TopologyStep, WakeStep DEF Inv
<1> QED
  BY <1>1, <1>2, PTL DEF Spec

\* TypeOK for any number of queues and tasks: in particular secondary_pause_requests_
\* never becomes negative and a timer is never set to a time that cannot come.
THEOREM TypeCorrect == Spec => []TypeOK
  BY InductiveInvariance, PTL DEF Inv

\* Invariant 3 of message_loop_task_queues.h: owner_of and subsumed_by describe the
\* same relation, and an owner is never subsumed, whatever pairs are merged.
THEOREM MergeTopologyAlways == Spec => []MergeTopology
  BY InductiveInvariance, PTL DEF Inv

\* No operation of MessageLoopTaskQueues loses a wake-up: RegisterTask, Merge,
\* Unmerge, ResumeSecondarySource and GetNextTaskToRun leave every loop's timer
\* early enough for what it may run.
THEOREM NoLostWakeUpEver == Spec => []NoLostWakeUp
  BY InductiveInvariance, PTL DEF Inv

-----------------------------------------------------------------------------
(* The order in which tasks are taken *)

\* order_ numbers the tasks, in whatever queue they are: without it a task could
\* be one of two queues at once, and taken from the wrong one.
OrdersUnique ==
  /\ \A q \in Queues : \A t \in tasks[q] : t.order < order
  /\ \A q, r \in Queues : \A t \in tasks[q], u \in tasks[r] :
       t.order = u.order => q = r /\ t = u

LEMMA FewerTasksUnique ==
  ASSUME OrdersUnique, \A q \in Queues : tasks'[q] \subseteq tasks[q], UNCHANGED order
  PROVE  OrdersUnique'
  BY DEF OrdersUnique

LEMMA RegisterUnique ==
  ASSUME TypeOK, OrdersUnique, NEW q \in Queues, NEW target \in Times, NEW body \in Bodies,
         RegisterTask(q, target, body)
  PROVE  OrdersUnique'
<1> DEFINE new == [order |-> order, target |-> target, body |-> body]
<1>1. /\ tasks' = [tasks EXCEPT ![q] = @ \cup {new}] /\ order' = order + 1
      /\ order \in Nat /\ new.order = order
  BY DEF RegisterTask, TypeOK
<1>2. \A r \in Queues : \A t \in tasks[r] : t.order \in Nat /\ t.order < order
  BY DEF TypeOK, Task, OrdersUnique
<1>3. \A r \in Queues : \A t \in tasks'[r] : t \in tasks[r] \/ (t = new /\ r = q)
  BY <1>1 DEF TypeOK
<1> HIDE DEF new
<1>4. ASSUME NEW r \in Queues, NEW t \in tasks'[r]
      PROVE  t.order < order'
  BY <1>1, <1>2, <1>3, <1>4
<1>5. ASSUME NEW r1 \in Queues, NEW r2 \in Queues, NEW t \in tasks'[r1], NEW u \in tasks'[r2],
             t.order = u.order
      PROVE  r1 = r2 /\ t = u
  <2>1. CASE t \in tasks[r1] /\ u \in tasks[r2]
    BY <1>5, <2>1 DEF OrdersUnique
  <2>2. CASE t = new /\ r1 = q
    BY <1>1, <1>2, <1>3, <1>5, <2>2
  <2>3. CASE u = new /\ r2 = q
    BY <1>1, <1>2, <1>3, <1>5, <2>3
  <2> QED
    BY <1>3, <2>1, <2>2, <2>3
<1> QED
  BY <1>4, <1>5 DEF OrdersUnique

\* Only RegisterTask adds a task, only GetNextTaskToRun and DisposeTasks take one.
LEMMA TasksChange ==
  ASSUME TypeOK, [Next]_vars
  PROVE  \/ \E q \in Queues, target \in Times, body \in Bodies : RegisterTask(q, target, body)
         \/ \E q \in Queues : (GetNextTaskToRun(q) \/ DisposeTasks(q)) /\ UNCHANGED order
         \/ UNCHANGED <<tasks, order>>
<1>1. CASE \E p \in Posters : PostTaskRegister(p)
  <2>1. PICK p \in Posters : PostTaskRegister(p)
    BY <1>1
  <2>2. post[p] \in Post
    BY <2>1 DEF TypeOK, PostTaskRegister
  <2>3. PICK r \in Post : RegisterTask(r.queue, r.target, r.body)
    BY <2>1, <2>2 DEF PostTaskRegister
  <2>4. r.queue \in Queues /\ r.target \in Times /\ r.body \in Bodies
    BY DEF Post, Bodies
  <2> QED
    BY <2>3, <2>4
<1>2. CASE \E q \in Pausable : PostDartTask(q)
  <2>1. PICK q \in Queues : RegisterTask(q, now, "dart")
    BY <1>2, QueuesAssumption DEF PostDartTask
  <2>2. now \in Times /\ "dart" \in Bodies
    BY DEF TypeOK, Bodies
  <2> QED
    BY <2>1, <2>2
<1>3. CASE \E q \in Queues : LoopThread(q)
  BY <1>3 DEF LoopThread, OnEventFired, GetNextTaskToRun, FinishTask, Terminate, RunReturns,
     DisposeTasks
<1>4. CASE \/ \E p \in Posters, q \in Queues, target \in Times : PostTask(p, q, target)
           \/ \E p \in Posters, q \in Joined : ThreadJoin(p, q)
           \/ \E pair \in Pairs : Merge(pair[1], pair[2])
           \/ \E pair \in Pairs : Unmerge(pair[1], pair[2])
  BY <1>4 DEF PostTask, ThreadJoin, Merge, Unmerge
<1>5. CASE \/ \E q \in Pausable : PauseSecondarySource(q) \/ ResumeSecondarySource(q)
           \/ Tick \/ UNCHANGED vars
  BY <1>5 DEF PauseSecondarySource, ResumeSecondarySource, Tick, vars
<1> QED
  BY <1>1, <1>2, <1>3, <1>4, <1>5 DEF Next

\* What GetNextTaskToRun and DisposeTasks take.
LEMMA TasksTaken ==
  ASSUME TypeOK, NEW q \in Queues, GetNextTaskToRun(q) \/ DisposeTasks(q)
  PROVE  \/ UNCHANGED tasks
         \/ \E t \in NextTasks(q) : tasks' = [x \in Queues |-> tasks[x] \ {t}]
         \/ tasks' = [x \in Queues |-> IF x \in {q} \cup owner_of[q] THEN {} ELSE tasks[x]]
  BY DEF GetNextTaskToRun, FlushEnds, DisposeTasks

LEMMA UniqueStep ==
  ASSUME TypeOK, OrdersUnique, [Next]_vars
  PROVE  OrdersUnique'
<1>1. CASE \E q \in Queues, target \in Times, body \in Bodies : RegisterTask(q, target, body)
  BY <1>1, RegisterUnique
<1>2. CASE \E q \in Queues : (GetNextTaskToRun(q) \/ DisposeTasks(q)) /\ UNCHANGED order
  <2>1. \A x \in Queues : tasks'[x] \subseteq tasks[x]
    BY <1>2, TasksTaken DEF TypeOK
  <2> QED
    BY <1>2, <2>1, FewerTasksUnique
<1>3. CASE UNCHANGED <<tasks, order>>
  BY <1>3, FewerTasksUnique
<1> QED
  BY <1>1, <1>2, <1>3, TasksChange

LEMMA UniqueInvariant == Spec => [](TypeOK /\ OrdersUnique)
<1>1. Init => OrdersUnique
  BY DEF Init, OrdersUnique
<1>2. TypeOK /\ OrdersUnique /\ [Next]_vars => OrdersUnique'
  BY UniqueStep
<1> QED
  BY <1>1, <1>2, TypeCorrect, PTL DEF Spec

\* TakenInOrder's action.
InOrder ==
  \A l \in Queues :
    (running'[l] # running[l] /\ running'[l] # NoTask) =>
      \A q \in Queues : LoopToWake(q) = l =>
        \A u \in tasks'[q] :
          \/ u.body = "dart" /\ pauses[q] # 0
          \/ u.target > running'[l].target
          \/ u.target = running'[l].target /\ u.order > running'[l].order

\* A loop has a new task only from GetNextTaskToRun.
LEMMA TakesByGetNext ==
  ASSUME TypeOK, [Next]_vars, NEW l \in Queues,
         running'[l] # running[l], running'[l] # NoTask
  PROVE  \E t \in NextTasks(l) :
           /\ running'[l] = t
           /\ tasks' = [x \in Queues |-> tasks[x] \ {t}]
<1>1. CASE \E q \in Queues : LoopThread(q)
  <2>1. PICK q \in Queues : LoopThread(q)
    BY <1>1
  <2>2. CASE GetNextTaskToRun(q)
    <3>1. CASE UNCHANGED running
      BY <3>1
    <3>2. CASE \E t \in NextTasks(q) :
                 /\ tasks' = [x \in Queues |-> tasks[x] \ {t}]
                 /\ running' = [running EXCEPT ![q] = t]
      BY <3>2 DEF TypeOK
    <3> QED
      BY <2>2, <3>1, <3>2 DEF GetNextTaskToRun, FlushEnds
  <2>3. CASE FinishTask(q)
    BY <2>3 DEF FinishTask, TypeOK
  <2> QED
    BY <2>1, <2>2, <2>3 DEF LoopThread, OnEventFired, Terminate, RunReturns, DisposeTasks
<1>2. CASE UNCHANGED running
  BY <1>2
<1> QED
  BY <1>1, <1>2 DEF Next, PostTask, PostTaskRegister, PostDartTask, RegisterTask, ThreadJoin,
     Merge, Unmerge, PauseSecondarySource, ResumeSecondarySource, Tick, thread, vars

LEMMA TakenInOrderStep ==
  ASSUME TypeOK, MergeTopology, OrdersUnique, [Next]_vars
  PROVE  InOrder
<1> SUFFICES ASSUME NEW l \in Queues, running'[l] # running[l], running'[l] # NoTask,
                    NEW q \in Queues, LoopToWake(q) = l, NEW u \in tasks'[q],
                    ~(u.body = "dart" /\ pauses[q] # 0)
             PROVE  \/ u.target > running'[l].target
                    \/ u.target = running'[l].target /\ u.order > running'[l].order
  BY DEF InOrder
<1>1. PICK t \in NextTasks(l) :
        /\ running'[l] = t
        /\ tasks' = [x \in Queues |-> tasks[x] \ {t}]
  BY TakesByGetNext
<1>2. t \in Pending(l) /\ \A v \in Pending(l) : ~Later(t, v)
  BY DEF NextTasks
<1>3. PICK o \in {l} \cup owner_of[l] : t \in tasks[o] /\ subsumed_by[l] = kUnmerged
  BY <1>2, PendingMember
<1>4. o \in Queues /\ u \in tasks[q] /\ u # t
  BY <1>1, <1>3 DEF TypeOK
<1>5. q \in {l} \cup owner_of[l]
  BY DEF LoopToWake, MergeTopology
<1>6. u \in Pending(l)
  BY <1>3, <1>4, <1>5, PendingMember
<1>7. ~(t.target > u.target) /\ ~(t.target = u.target /\ t.order > u.order)
  BY <1>2, <1>6 DEF Later
<1>8. t \in Task /\ u \in Task
  BY <1>3, <1>4 DEF TypeOK
<1>9. t.order # u.order
  BY <1>3, <1>4 DEF OrdersUnique
<1>10. /\ t.target \in Int /\ u.target \in Int
       /\ t.order \in Nat /\ u.order \in Nat
  BY <1>8, QueuesAssumption DEF Task, Times
<1> QED
  BY <1>1, <1>7, <1>9, <1>10

\* Whatever is merged, a loop takes the task that is due first, and of those due at
\* the same time the one registered first, from among all the queues it serves
\* (DelayedTask::operator> and the peek of message_loop_task_queues.cc:357-397).
THEOREM TakenInOrderAlways == Spec => TakenInOrder
<1>1. TypeOK /\ MergeTopology /\ OrdersUnique /\ [Next]_vars => [InOrder]_vars
  BY TakenInOrderStep
<1>2. Spec => [][InOrder]_vars
  BY <1>1, UniqueInvariant, MergeTopologyAlways, PTL DEF Spec
<1> QED
  BY <1>2, PTL DEF TakenInOrder, InOrder
=============================================================================
