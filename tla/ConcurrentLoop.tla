---------------------------- MODULE ConcurrentLoop ----------------------------
(***************************************************************************)
(* The pool of worker threads of fml/concurrent_message_loop.cc: a queue   *)
(* of tasks for any worker, tasks posted to every worker, one condition    *)
(* variable, and a shutdown that joins the workers.                        *)
(*                                                                         *)
(* Tasks are numbered in the order they are posted; a task may be posted by*)
(* any thread, a worker included.  A step is what is done with tasks_mutex_*)
(* held, or one notification: PostTask notifies after it has unlocked.     *)
(***************************************************************************)
EXTENDS Integers, Sequences, FiniteSets

CONSTANTS
  Workers,        \* worker threads
  MaxTasks,       \* bound: tasks posted
  MaxBroadcasts   \* bound: calls of PostTaskToAllWorkers

ASSUME LoopAssumption ==
  /\ IsFiniteSet(Workers) /\ Workers # {}
  /\ MaxTasks \in Nat /\ MaxBroadcasts \in Nat

VARIABLES
  tasks,        \* tasks_
  threadTasks,  \* thread_tasks_: how many there are for each worker
  shutdown,     \* shutdown_
  worker,       \* where each worker is in WorkerMain
  held,         \* the task each worker executes, 0 if none
  notifying,    \* notify_one calls that are still to be made
  posted,       \* tasks posted
  executed,     \* tasks executed
  broadcasts    \* calls of PostTaskToAllWorkers

vars == <<tasks, threadTasks, shutdown, worker, held, notifying, posted, executed, broadcasts>>

Tasks == 1 .. MaxTasks

\* At the wait, asleep in it, executing tasks, executing the last ones, returned.
States == {"check", "asleep", "run", "last", "done"}

TypeOK ==
  /\ tasks \in Seq(Tasks)
  /\ threadTasks \in [Workers -> 0 .. MaxBroadcasts]
  /\ shutdown \in BOOLEAN
  /\ worker \in [Workers -> States]
  /\ held \in [Workers -> 0 .. MaxTasks]
  /\ notifying \in 0 .. MaxTasks
  /\ posted \in 0 .. MaxTasks
  /\ executed \subseteq Tasks
  /\ broadcasts \in 0 .. MaxBroadcasts

Init ==
  /\ tasks = << >>
  /\ threadTasks = [w \in Workers |-> 0]
  /\ shutdown = FALSE
  /\ worker = [w \in Workers |-> "check"]
  /\ held = [w \in Workers |-> 0]
  /\ notifying = 0 /\ posted = 0 /\ executed = {} /\ broadcasts = 0

-----------------------------------------------------------------------------
Asleep == {w \in Workers : worker[w] = "asleep"}

\* notify_all
WakeAll == worker' = [w \in Workers |-> IF w \in Asleep THEN "check" ELSE worker[w]]

\* Mutant: the new task wakes nobody.
PostTaskWithoutNotify ==
  /\ posted < MaxTasks
  /\ posted' = posted + 1
  /\ tasks' = IF shutdown THEN tasks ELSE Append(tasks, posted')
  /\ executed' = IF shutdown THEN executed \cup {posted'} ELSE executed
  /\ UNCHANGED <<notifying, threadTasks, shutdown, worker, held, broadcasts>>

\* PostTask: the caller executes the task of a loop that is shut down (as
\* ConcurrentTaskRunner::PostTask does if the loop is gone).
PostTask ==
  /\ posted < MaxTasks
  /\ posted' = posted + 1
  /\ \/ /\ shutdown
        /\ executed' = executed \cup {posted'}
        /\ UNCHANGED <<tasks, notifying>>
     \/ /\ ~shutdown
        /\ tasks' = Append(tasks, posted')
        /\ notifying' = notifying + 1
        /\ UNCHANGED executed
  /\ UNCHANGED <<threadTasks, shutdown, worker, held, broadcasts>>

NotifyOne ==
  /\ notifying > 0
  /\ notifying' = notifying - 1
  /\ \/ Asleep = {} /\ UNCHANGED worker
     \/ \E w \in Asleep : worker' = [worker EXCEPT ![w] = "check"]
  /\ UNCHANGED <<tasks, threadTasks, shutdown, held, posted, executed, broadcasts>>

\* Mutant: the workers are not woken.
PostTaskToAllWithoutNotify ==
  /\ broadcasts < MaxBroadcasts
  /\ broadcasts' = broadcasts + 1
  /\ threadTasks' = [w \in Workers |-> threadTasks[w] + 1]
  /\ UNCHANGED <<tasks, shutdown, worker, held, notifying, posted, executed>>

PostTaskToAllWorkers ==
  /\ broadcasts < MaxBroadcasts
  /\ broadcasts' = broadcasts + 1
  /\ threadTasks' = [w \in Workers |-> threadTasks[w] + 1]
  /\ WakeAll
  /\ UNCHANGED <<tasks, shutdown, held, notifying, posted, executed>>

\* Mutant: one worker is woken.
TerminateNotifiesOne ==
  /\ ~shutdown
  /\ shutdown' = TRUE
  /\ notifying' = notifying + 1
  /\ UNCHANGED <<tasks, threadTasks, worker, held, posted, executed, broadcasts>>

\* Terminate, by the destructor; then the workers are joined.
Terminate ==
  /\ ~shutdown
  /\ shutdown' = TRUE
  /\ WakeAll
  /\ UNCHANGED <<tasks, threadTasks, held, notifying, posted, executed, broadcasts>>

HasWork(w) == tasks # << >> \/ shutdown \/ threadTasks[w] > 0

\* The predicate of the wait is false; the mutex is released.
Sleep(w) ==
  /\ worker[w] = "check" /\ ~HasWork(w)
  /\ worker' = [worker EXCEPT ![w] = "asleep"]
  /\ UNCHANGED <<tasks, threadTasks, shutdown, held, notifying, posted, executed, broadcasts>>

\* A condition variable may wake a thread without reason.
SpuriousWake(w) ==
  /\ worker[w] = "asleep"
  /\ worker' = [worker EXCEPT ![w] = "check"]
  /\ UNCHANGED <<tasks, threadTasks, shutdown, held, notifying, posted, executed, broadcasts>>

\* Mutant: the task is executed but not removed.
TakeKeepsTask(w) ==
  /\ worker[w] = "check" /\ HasWork(w)
  /\ held' = [held EXCEPT ![w] = IF tasks = << >> THEN 0 ELSE Head(tasks)]
  /\ threadTasks' = [threadTasks EXCEPT ![w] = 0]
  /\ worker' = [worker EXCEPT ![w] = IF shutdown THEN "last" ELSE "run"]
  /\ UNCHANGED <<tasks, shutdown, notifying, posted, executed, broadcasts>>

\* A worker takes the front task, if there is one, and its own tasks.
Take(w) ==
  /\ worker[w] = "check" /\ HasWork(w)
  /\ \/ tasks = << >> /\ UNCHANGED <<tasks, held>>
     \/ /\ tasks # << >>
        /\ held' = [held EXCEPT ![w] = Head(tasks)]
        /\ tasks' = Tail(tasks)
  /\ threadTasks' = [threadTasks EXCEPT ![w] = 0]
  /\ worker' = [worker EXCEPT ![w] = IF shutdown THEN "last" ELSE "run"]
  /\ UNCHANGED <<shutdown, notifying, posted, executed, broadcasts>>

\* The end of ExecuteTask for all of them; after a shutdown the worker returns.
Executed(w) ==
  /\ worker[w] \in {"run", "last"}
  /\ executed' = executed \cup ({held[w]} \ {0})
  /\ held' = [held EXCEPT ![w] = 0]
  /\ worker' = [worker EXCEPT ![w] = IF @ = "last" THEN "done" ELSE "check"]
  /\ UNCHANGED <<tasks, threadTasks, shutdown, notifying, posted, broadcasts>>

WorkerMain(w) == Sleep(w) \/ Take(w) \/ Executed(w)

Next ==
  \/ PostTask \/ NotifyOne \/ PostTaskToAllWorkers \/ Terminate
  \/ \E w \in Workers : WorkerMain(w) \/ SpuriousWake(w)

Spec == Init /\ [][Next]_vars

\* Threads keep running and tasks end; nobody has to post or to shut down.
Fairness == WF_vars(NotifyOne) /\ \A w \in Workers : WF_vars(WorkerMain(w))

FairSpec == Spec /\ Fairness

-----------------------------------------------------------------------------
(* Properties *)

Running == {held[w] : w \in Workers} \ {0}

\* Every task posted is in exactly one place: queued, in the hands of one
\* worker, or executed; none is lost, none executed twice.
TasksConserved ==
  /\ {tasks[k] : k \in DOMAIN tasks} \cup Running \cup executed = 1 .. posted
  /\ \A j, k \in DOMAIN tasks : j < k => tasks[j] < tasks[k]
  /\ \A v, w \in Workers : v # w /\ held[v] # 0 => held[v] # held[w]
  /\ \A k \in DOMAIN tasks : tasks[k] \notin Running \cup executed
  /\ Running \cap executed = {}

\* With tasks in the queue, a worker is awake or will be woken: PostTask may
\* notify after the mutex is released, and before or after a worker sleeps.
QueueHasWaker ==
  tasks # << >> /\ Asleep # {} =>
    notifying > 0 \/ \E w \in Workers : worker[w] \in {"check", "run"}

\* No worker sleeps through a task of its own or through the shutdown.
SleepersIdle == \A w \in Asleep : threadTasks[w] = 0 /\ ~shutdown

\* No notification is missed: neither the one of a task for any worker nor those
\* to all workers (their own tasks, the shutdown).
NoMissedNotify == QueueHasWaker /\ SleepersIdle

\* A task is executed, unless the loop is shut down with the task in the queue.
TaskIsExecuted == \A t \in Tasks : (posted >= t /\ ~shutdown) ~> (t \in executed \/ shutdown)

\* The destructor's joins return.
WorkersReturn == shutdown ~> (\A w \in Workers : worker[w] = "done")
=============================================================================
