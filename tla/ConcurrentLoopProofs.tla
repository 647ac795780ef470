------------------------- MODULE ConcurrentLoopProofs -------------------------
(***************************************************************************)
(* The pool of concurrent_message_loop.cc for any number of workers and    *)
(* tasks: no wake-up is lost, no task is lost or executed twice.           *)
(***************************************************************************)
EXTENDS ConcurrentLoop, TLAPS

-----------------------------------------------------------------------------
(* Types *)

\* The counts stay in their bounds because each counts part of another.
Counted ==
  /\ notifying <= posted
  /\ \A w \in Workers : threadTasks[w] <= broadcasts

TypeInv == TypeOK /\ Counted

LEMMA TypeInitially == Init => TypeInv
<1> SUFFICES ASSUME Init PROVE TypeInv
  OBVIOUS
<1>1. tasks \in Seq(Tasks) /\ executed \subseteq Tasks /\ shutdown \in BOOLEAN
  <2>1. tasks = << >> /\ executed = {} /\ shutdown = FALSE
    BY DEF Init
  <2>2. << >> \in Seq(Tasks)
    OBVIOUS
  <2> QED
    BY <2>1, <2>2
<1>2. /\ threadTasks \in [Workers -> 0 .. MaxBroadcasts]
      /\ worker \in [Workers -> States]
      /\ held \in [Workers -> 0 .. MaxTasks]
  BY LoopAssumption DEF Init, States
<1>3. notifying \in 0 .. MaxTasks /\ posted \in 0 .. MaxTasks /\ broadcasts \in 0 .. MaxBroadcasts
  BY LoopAssumption DEF Init
<1>4. Counted
  BY DEF Init, Counted
<1> QED
  BY <1>1, <1>2, <1>3, <1>4 DEF TypeInv, TypeOK

LEMMA TypeStep ==
  ASSUME TypeInv, [Next]_vars
  PROVE  TypeInv'
<1> USE LoopAssumption DEF TypeInv, Counted, Tasks
<1>1. CASE PostTask
  <2>1. posted' \in Tasks /\ posted' = posted + 1
    BY <1>1 DEF PostTask, TypeOK
  <2>2. Append(tasks, posted') \in Seq(Tasks)
    BY <2>1 DEF TypeOK
  <2>3. notifying' \in 0 .. MaxTasks /\ notifying' <= posted'
    BY <1>1, <2>1 DEF PostTask, TypeOK
  <2>4. tasks' \in Seq(Tasks) /\ executed' \subseteq Tasks
    BY <1>1, <2>1, <2>2 DEF PostTask, TypeOK
  <2>5. UNCHANGED <<threadTasks, shutdown, worker, held, broadcasts>>
    BY <1>1 DEF PostTask
  <2>6. posted' \in 0 .. MaxTasks
    BY <2>1
  <2> QED
    BY <2>3, <2>4, <2>5, <2>6 DEF TypeOK
<1>2. CASE NotifyOne
  <2>1. worker' \in [Workers -> States]
    BY <1>2 DEF NotifyOne, TypeOK, States, Asleep
  <2> QED
    BY <1>2, <2>1 DEF NotifyOne, TypeOK
<1>3. CASE PostTaskToAllWorkers
  <2>1. worker' \in [Workers -> States]
    BY <1>3 DEF PostTaskToAllWorkers, WakeAll, TypeOK, States
  <2>2. /\ threadTasks' \in [Workers -> 0 .. MaxBroadcasts]
        /\ \A w \in Workers : threadTasks'[w] <= broadcasts'
    BY <1>3 DEF PostTaskToAllWorkers, TypeOK
  <2> QED
    BY <1>3, <2>1, <2>2 DEF PostTaskToAllWorkers, TypeOK
<1>4. CASE Terminate
  <2>1. worker' \in [Workers -> States]
    BY <1>4 DEF Terminate, WakeAll, TypeOK, States
  <2> QED
    BY <1>4, <2>1 DEF Terminate, TypeOK
<1>5. ASSUME NEW w \in Workers, Sleep(w) \/ SpuriousWake(w)
      PROVE  TypeInv'
  BY <1>5 DEF Sleep, SpuriousWake, TypeOK, States
<1>6. ASSUME NEW w \in Workers, Take(w)
      PROVE  TypeInv'
  <2>1. worker' \in [Workers -> States]
    BY <1>6 DEF Take, TypeOK, States
  <2>2. /\ threadTasks' \in [Workers -> 0 .. MaxBroadcasts]
        /\ \A v \in Workers : threadTasks'[v] <= broadcasts
    BY <1>6 DEF Take, TypeOK
  <2>3. tasks' \in Seq(Tasks) /\ held' \in [Workers -> 0 .. MaxTasks]
    <3>1. CASE tasks = << >>
      BY <1>6, <3>1 DEF Take, TypeOK
    <3>2. CASE tasks # << >>
      <4>1. Head(tasks) \in 1 .. MaxTasks /\ Tail(tasks) \in Seq(Tasks)
        BY <3>2 DEF TypeOK
      <4>2. tasks' = Tail(tasks) /\ held' = [held EXCEPT ![w] = Head(tasks)]
        BY <1>6, <3>2 DEF Take
      <4>3. held \in [Workers -> 0 .. MaxTasks] /\ Head(tasks) \in 0 .. MaxTasks
        BY <4>1 DEF TypeOK
      <4>4. held' \in [Workers -> 0 .. MaxTasks]
        BY <4>2, <4>3
      <4> QED
        BY <4>1, <4>2, <4>4
    <3> QED
      BY <3>1, <3>2
  <2> QED
    BY <1>6, <2>1, <2>2, <2>3 DEF Take, TypeOK
<1>7. ASSUME NEW w \in Workers, Executed(w)
      PROVE  TypeInv'
  <2>1. worker' \in [Workers -> States] /\ held' \in [Workers -> 0 .. MaxTasks]
    BY <1>7 DEF Executed, TypeOK, States
  <2>2. executed' \subseteq Tasks
    <3>1. held[w] \in 0 .. MaxTasks /\ executed \subseteq Tasks
      BY DEF TypeOK
    <3>2. {held[w]} \ {0} \subseteq Tasks
      BY <3>1
    <3>3. executed' = executed \cup ({held[w]} \ {0})
      BY <1>7 DEF Executed
    <3> QED
      BY <3>1, <3>2, <3>3
  <2> QED
    BY <1>7, <2>1, <2>2 DEF Executed, TypeOK
<1>8. CASE UNCHANGED vars
  BY <1>8 DEF vars, TypeOK
<1> QED
  BY <1>1, <1>2, <1>3, <1>4, <1>5, <1>6, <1>7, <1>8 DEF Next, WorkerMain

\* concurrent_message_loop.cc keeps its types, and no counter outgrows what it
\* counts.
THEOREM LoopTypeOK == Spec => []TypeOK
<1>1. TypeInv /\ [Next]_vars => TypeInv'
  BY TypeStep
<1>2. TypeInv => TypeOK
  BY DEF TypeInv
<1> QED
  BY <1>1, <1>2, TypeInitially, PTL DEF Spec

-----------------------------------------------------------------------------
(* Wake-ups *)

\* Only a loop that is shut down has workers that return.
LastInShutdown == \A w \in Workers : worker[w] \in {"last", "done"} => shutdown

\* The inductive invariant.
WakeInv == TypeOK /\ LastInShutdown /\ SleepersIdle /\ QueueHasWaker

LEMMA WakeInitially == Init => WakeInv
<1>1. Init => TypeOK
  BY TypeInitially DEF TypeInv
<1>2. Init => LastInShutdown /\ SleepersIdle /\ QueueHasWaker
  BY DEF Init, LastInShutdown, SleepersIdle, QueueHasWaker, Asleep
<1> QED
  BY <1>1, <1>2 DEF WakeInv

LEMMA WakeStep ==
  ASSUME WakeInv, TypeOK', [Next]_vars
  PROVE  WakeInv'
<1> USE DEF WakeInv, LastInShutdown, SleepersIdle, QueueHasWaker, Asleep
<1>1. CASE PostTask
  <2>1. CASE shutdown
    BY <1>1, <2>1 DEF PostTask, TypeOK
  <2>2. CASE ~shutdown
    <3>1. notifying' > 0
      BY <1>1, <2>2 DEF PostTask, TypeOK
    <3> QED
      BY <1>1, <2>2, <3>1 DEF PostTask, TypeOK
  <2> QED
    BY <2>1, <2>2
<1>2. CASE NotifyOne
  <2>1. CASE Asleep = {}
    BY <1>2, <2>1 DEF NotifyOne, TypeOK
  <2>2. CASE Asleep # {}
    <3>1. PICK w \in Workers : worker[w] = "asleep" /\ worker' = [worker EXCEPT ![w] = "check"]
      BY <1>2, <2>2 DEF NotifyOne
    <3>2. worker'[w] = "check"
      BY <3>1 DEF TypeOK
    <3> QED
      BY <1>2, <3>1, <3>2 DEF NotifyOne, TypeOK
  <2> QED
    BY <2>1, <2>2
<1>3. CASE PostTaskToAllWorkers \/ Terminate
  <2>1. \A w \in Workers : worker'[w] # "asleep"
    BY <1>3 DEF PostTaskToAllWorkers, Terminate, WakeAll, TypeOK
  <2>2. \A w \in Workers : worker'[w] \in {"last", "done"} => worker'[w] = worker[w]
    BY <1>3 DEF PostTaskToAllWorkers, Terminate, WakeAll, TypeOK
  <2>3. shutdown => shutdown'
    BY <1>3 DEF PostTaskToAllWorkers, Terminate
  <2> QED
    BY <2>1, <2>2, <2>3 DEF TypeOK
<1>4. ASSUME NEW w \in Workers, Sleep(w)
      PROVE  WakeInv'
  <2>1. tasks' = << >> /\ shutdown' = FALSE /\ threadTasks'[w] = 0
    BY <1>4 DEF Sleep, HasWork, TypeOK
  <2> QED
    BY <1>4, <2>1 DEF Sleep, TypeOK
<1>5. ASSUME NEW w \in Workers, SpuriousWake(w)
      PROVE  WakeInv'
  <2>1. worker'[w] = "check"
    BY <1>5 DEF SpuriousWake, TypeOK
  <2> QED
    BY <1>5, <2>1 DEF SpuriousWake, TypeOK
<1>6. ASSUME NEW w \in Workers, Take(w)
      PROVE  WakeInv'
  <2>1. worker'[w] = IF shutdown THEN "last" ELSE "run"
    BY <1>6 DEF Take, TypeOK
  <2> QED
    BY <1>6, <2>1 DEF Take, TypeOK
<1>7. ASSUME NEW w \in Workers, Executed(w)
      PROVE  WakeInv'
  <2>1. worker'[w] = IF worker[w] = "last" THEN "done" ELSE "check"
    BY <1>7 DEF Executed, TypeOK
  <2> QED
    BY <1>7, <2>1 DEF Executed, TypeOK
<1>8. CASE UNCHANGED vars
  BY <1>8 DEF vars, TypeOK
<1> QED
  BY <1>1, <1>2, <1>3, <1>4, <1>5, <1>6, <1>7, <1>8 DEF Next, WorkerMain

LEMMA WakeInvariant == Spec => []WakeInv
<1>1. WakeInv /\ TypeOK' /\ [Next]_vars => WakeInv'
  BY WakeStep
<1> QED
  BY <1>1, WakeInitially, LoopTypeOK, PTL DEF Spec

\* However many workers there are: the notification PostTask makes after it has
\* released tasks_mutex_ is not lost, and no worker sleeps through
\* PostTaskToAllWorkers or Terminate.
THEOREM NoMissedNotifyAlways == Spec => []NoMissedNotify
<1>1. WakeInv => NoMissedNotify
  BY DEF WakeInv, NoMissedNotify
<1> QED
  BY <1>1, WakeInvariant, PTL

-----------------------------------------------------------------------------
(* Tasks *)

\* A worker holds a task only while it executes tasks.
HeldByRunners == \A w \in Workers : worker[w] \notin {"run", "last"} => held[w] = 0

\* The inductive invariant.
TaskInv == TypeOK /\ HeldByRunners /\ TasksConserved

Queued == {tasks[k] : k \in DOMAIN tasks}

LEMMA TaskInitially == Init => TaskInv
<1> SUFFICES ASSUME Init PROVE TaskInv
  OBVIOUS
<1>1. TypeOK
  BY TypeInitially DEF TypeInv
<1>2. HeldByRunners
  BY DEF Init, HeldByRunners
<1>3. tasks = << >> /\ held = [w \in Workers |-> 0] /\ executed = {} /\ posted = 0
  BY DEF Init
<1>4. DOMAIN tasks = {} /\ Running = {} /\ 1 .. posted = {}
  BY <1>3 DEF Running
<1>5. {tasks[k] : k \in DOMAIN tasks} = {}
  BY <1>4
<1>6. TasksConserved
  BY <1>3, <1>4, <1>5 DEF TasksConserved
<1> QED
  BY <1>1, <1>2, <1>6 DEF TaskInv

\* The conjuncts of TasksConserved.
LEMMA Conserved ==
  ASSUME TaskInv
  PROVE  /\ Queued \cup Running \cup executed = 1 .. posted
         /\ \A j, k \in DOMAIN tasks : j < k => tasks[j] < tasks[k]
         /\ \A v, w \in Workers : v # w /\ held[v] # 0 => held[v] # held[w]
         /\ \A k \in DOMAIN tasks : tasks[k] \notin Running \cup executed
         /\ Running \cap executed = {}
BY DEF TaskInv, TasksConserved, Queued

\* A task posted to the queue goes behind the others.
LEMMA PostConserves ==
  ASSUME TaskInv, PostTask
  PROVE  TasksConserved'
<1>1. posted' = posted + 1 /\ posted \in Nat /\ held' = held /\ Running' = Running
  BY DEF PostTask, Running, TaskInv, TypeOK
<1>2. 1 .. posted' = (1 .. posted) \cup {posted'} /\ posted' \notin 1 .. posted
  BY <1>1
<1>3. posted' \notin Queued \cup Running \cup executed
  BY <1>2, Conserved
<1>4. CASE shutdown
  <2>1. tasks' = tasks /\ executed' = executed \cup {posted'}
    BY <1>4 DEF PostTask
  <2>2. {tasks'[k] : k \in DOMAIN tasks'} = Queued
    BY <2>1 DEF Queued
  <2>3. \A k \in DOMAIN tasks : tasks[k] # posted'
    BY <1>3 DEF Queued
  <2>4. {tasks'[k] : k \in DOMAIN tasks'} \cup Running' \cup executed' = 1 .. posted'
    BY <1>1, <1>2, <2>1, <2>2, Conserved
  <2>5. \A k \in DOMAIN tasks' : tasks'[k] \notin Running' \cup executed'
    BY <1>1, <2>1, <2>3, Conserved
  <2>6. Running' \cap executed' = {}
    BY <1>1, <1>3, <2>1, Conserved
  <2> QED
    BY <1>1, <2>1, <2>4, <2>5, <2>6, Conserved DEF TasksConserved
<1>5. CASE ~shutdown
  <2>1. tasks' = Append(tasks, posted') /\ executed' = executed
    BY <1>5 DEF PostTask
  <2>2. /\ DOMAIN tasks' = 1 .. Len(tasks) + 1
        /\ DOMAIN tasks = 1 .. Len(tasks) /\ Len(tasks) \in Nat
        /\ tasks'[Len(tasks) + 1] = posted'
        /\ \A k \in DOMAIN tasks : tasks'[k] = tasks[k]
    BY <2>1 DEF TaskInv, TypeOK
  <2>3. DOMAIN tasks' = DOMAIN tasks \cup {Len(tasks) + 1}
    BY <2>2
  <2>4. {tasks'[k] : k \in DOMAIN tasks'} = Queued \cup {posted'}
    BY <2>2, <2>3 DEF Queued
  <2>5. \A k \in DOMAIN tasks : tasks[k] \in 1 .. posted
    BY Conserved DEF Queued
  <2>6. ASSUME NEW j \in DOMAIN tasks', NEW k \in DOMAIN tasks', j < k
        PROVE  tasks'[j] < tasks'[k]
    <3>1. j \in DOMAIN tasks
      BY <2>2, <2>6
    <3>2. CASE k \in DOMAIN tasks
      BY <2>2, <2>6, <3>1, <3>2, Conserved
    <3>3. CASE k = Len(tasks) + 1
      BY <1>1, <2>2, <2>5, <3>1, <3>3
    <3> QED
      BY <2>3, <3>2, <3>3
  <2>7. ASSUME NEW k \in DOMAIN tasks'
        PROVE  tasks'[k] \notin Running \cup executed
    BY <1>3, <2>2, <2>3, Conserved
  <2>8. {tasks'[k] : k \in DOMAIN tasks'} \cup Running' \cup executed' = 1 .. posted'
    BY <1>1, <1>2, <2>1, <2>4, Conserved
  <2> QED
    BY <1>1, <2>1, <2>6, <2>7, <2>8, Conserved DEF TasksConserved
<1> QED
  BY <1>4, <1>5

\* A worker takes the front task out of the queue into its own hands.
LEMMA TakeConserves ==
  ASSUME TaskInv, NEW w \in Workers, Take(w)
  PROVE  TasksConserved'
<1>1. held[w] = 0 /\ posted' = posted /\ executed' = executed
  BY DEF Take, TaskInv, HeldByRunners
<1>2. CASE tasks = << >>
  <2>1. UNCHANGED <<tasks, held, posted, executed>>
    BY <1>1, <1>2 DEF Take
  <2> QED
    BY <2>1 DEF TaskInv, TasksConserved, Running
<1>3. CASE tasks # << >>
  <2>1. tasks' = Tail(tasks) /\ held' = [held EXCEPT ![w] = Head(tasks)]
    BY <1>3 DEF Take
  <2>2. /\ Len(tasks) \in Nat \ {0} /\ DOMAIN tasks = 1 .. Len(tasks)
        /\ Head(tasks) = tasks[1] /\ Head(tasks) \in Tasks
        /\ DOMAIN tasks' = 1 .. Len(tasks) - 1
        /\ \A k \in DOMAIN tasks' : tasks'[k] = tasks[k + 1]
    BY <1>3, <2>1 DEF TaskInv, TypeOK
  <2>3. 1 \in DOMAIN tasks /\ \A k \in DOMAIN tasks' : k + 1 \in DOMAIN tasks
    BY <2>2
  <2>4. {tasks'[k] : k \in DOMAIN tasks'} \cup {tasks[1]} = Queued
    <3>1. ASSUME NEW k \in DOMAIN tasks, k # 1
          PROVE  tasks[k] \in {tasks'[j] : j \in DOMAIN tasks'}
      <4>1. k - 1 \in DOMAIN tasks' /\ (k - 1) + 1 = k
        BY <2>2, <3>1
      <4>2. tasks'[k - 1] = tasks[k]
        BY <2>2, <4>1
      <4> QED
        BY <4>1, <4>2
    <3>2. ASSUME NEW k \in DOMAIN tasks'
          PROVE  tasks'[k] \in Queued
      BY <2>2, <2>3 DEF Queued
    <3> QED
      BY <2>3, <3>1, <3>2 DEF Queued
  <2>5. /\ held'[w] = tasks[1] /\ tasks[1] # 0
        /\ \A v \in Workers \ {w} : held'[v] = held[v]
    BY <2>1, <2>2 DEF Tasks, TaskInv, TypeOK
  <2>6. Running' = Running \cup {tasks[1]}
    BY <1>1, <2>5 DEF Running
  <2>7. tasks[1] \notin Running \cup executed
    BY <2>3, Conserved
  <2>8. {tasks'[k] : k \in DOMAIN tasks'} \cup Running' \cup executed' = 1 .. posted'
    BY <1>1, <2>4, <2>6, Conserved
  <2>9. ASSUME NEW j \in DOMAIN tasks', NEW k \in DOMAIN tasks', j < k
        PROVE  tasks'[j] < tasks'[k]
    <3>1. j + 1 \in DOMAIN tasks /\ k + 1 \in DOMAIN tasks /\ j + 1 < k + 1
      BY <2>2, <2>3, <2>9
    <3>2. tasks[j + 1] < tasks[k + 1]
      BY <3>1, Conserved
    <3> QED
      BY <2>2, <3>2
  <2>10. ASSUME NEW k \in DOMAIN tasks'
         PROVE  tasks'[k] \notin Running' \cup executed'
    <3>1. k + 1 \in DOMAIN tasks /\ 1 < k + 1
      BY <2>2, <2>3
    <3>2. tasks[1] < tasks[k + 1] /\ tasks[1] \in Int
      BY <2>2, <2>3, <3>1, Conserved DEF Tasks
    <3>3. tasks[k + 1] \notin Running \cup executed
      BY <3>1, Conserved
    <3> QED
      BY <1>1, <2>2, <2>6, <3>2, <3>3
  <2>11. Running' \cap executed' = {}
    BY <1>1, <2>6, <2>7, Conserved
  <2>12. \A u, v \in Workers : u # v /\ held'[u] # 0 => held'[u] # held'[v]
    <3>1. \A v \in Workers \ {w} : held[v] # tasks[1]
      BY <2>5, <2>7 DEF Running
    <3> QED
      BY <2>5, <3>1, Conserved
  <2> QED
    BY <2>8, <2>9, <2>10, <2>11, <2>12 DEF TasksConserved
<1> QED
  BY <1>2, <1>3

\* A task leaves a worker's hands when it has been executed.
LEMMA ExecutedConserves ==
  ASSUME TaskInv, NEW w \in Workers, Executed(w)
  PROVE  TasksConserved'
<1> USE DEF TaskInv, TasksConserved, TypeOK
<1>1. /\ posted' = posted /\ tasks' = tasks
      /\ executed' = executed \cup ({held[w]} \ {0})
      /\ held' = [held EXCEPT ![w] = 0]
  BY DEF Executed
<1>2. held'[w] = 0 /\ \A v \in Workers \ {w} : held'[v] = held[v]
  BY <1>1
<1>3. Running = Running' \cup ({held[w]} \ {0})
  <2>1. Running = {held[v] : v \in Workers} \ {0} /\ Running' = {held'[v] : v \in Workers} \ {0}
    BY DEF Running
  <2>2. {held[v] : v \in Workers} = {held[v] : v \in Workers \ {w}} \cup {held[w]}
    OBVIOUS
  <2>3. {held'[v] : v \in Workers} = {held[v] : v \in Workers \ {w}} \cup {0}
    BY <1>2
  <2> QED
    BY <2>1, <2>2, <2>3
<1>4. held[w] \notin Running'
  BY <1>2 DEF Running
<1>5. {tasks[k] : k \in DOMAIN tasks} \cup Running' \cup executed' = 1 .. posted
  BY <1>1, <1>3
<1>6. Running' \cap executed' = {}
  BY <1>1, <1>3, <1>4
<1>7. \A u, v \in Workers : u # v /\ held'[u] # 0 => held'[u] # held'[v]
  BY <1>2
<1>8. \A k \in DOMAIN tasks' : tasks'[k] \notin Running' \cup executed'
  BY <1>1, <1>3
<1> QED
  BY <1>1, <1>5, <1>6, <1>7, <1>8

LEMMA TaskStep ==
  ASSUME TaskInv, TypeOK', [Next]_vars
  PROVE  TaskInv'
<1>1. HeldByRunners'
  <2> USE DEF TaskInv, HeldByRunners, TypeOK
  <2>1. CASE PostTask \/ NotifyOne \/ PostTaskToAllWorkers \/ Terminate \/ UNCHANGED vars
    BY <2>1 DEF PostTask, NotifyOne, PostTaskToAllWorkers, Terminate, WakeAll, Asleep, vars
  <2>2. ASSUME NEW w \in Workers, WorkerMain(w) \/ SpuriousWake(w)
        PROVE  HeldByRunners'
    BY <2>2 DEF WorkerMain, SpuriousWake, Sleep, Take, Executed
  <2> QED
    BY <2>1, <2>2 DEF Next
<1>2. TasksConserved'
  <2>1. CASE UNCHANGED <<tasks, held, posted, executed>>
    BY <2>1 DEF TaskInv, TasksConserved, Running
  <2>2. CASE NotifyOne \/ PostTaskToAllWorkers \/ Terminate \/ UNCHANGED vars
    BY <2>1, <2>2 DEF NotifyOne, PostTaskToAllWorkers, Terminate, vars
  <2>3. CASE PostTask
    BY <2>3, PostConserves
  <2>4. ASSUME NEW w \in Workers, WorkerMain(w) \/ SpuriousWake(w)
        PROVE  TasksConserved'
    <3>1. CASE Sleep(w) \/ SpuriousWake(w)
      BY <2>1, <3>1 DEF Sleep, SpuriousWake
    <3> QED
      BY <2>4, <3>1, TakeConserves, ExecutedConserves DEF WorkerMain
  <2> QED
    BY <2>2, <2>3, <2>4 DEF Next
<1> QED
  BY <1>1, <1>2 DEF TaskInv

\* Whatever the number of workers and the moment of the shutdown, a task posted is
\* queued, in the hands of one worker, or executed once.
THEOREM TasksConservedAlways == Spec => []TasksConserved
<1>1. TaskInv /\ TypeOK' /\ [Next]_vars => TaskInv'
  BY TaskStep
<1>2. TaskInv => TasksConserved
  BY DEF TaskInv
<1> QED
  BY <1>1, <1>2, TaskInitially, LoopTypeOK, PTL DEF Spec
=============================================================================
