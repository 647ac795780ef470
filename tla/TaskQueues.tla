----------------------------- MODULE TaskQueues -----------------------------
(***************************************************************************)
(* fml/message_loop_task_queues.cc with task_source.cc, delayed_task.cc,   *)
(* and the message loops that drain it: message_loop_impl.cc over the      *)
(* timerfd loop of platform/ohos/message_loop_ohos.cc.                     *)
(*                                                                         *)
(* Each queue has a loop with a thread of its own.  queue_mutex_ makes     *)
(* every operation of MessageLoopTaskQueues atomic; a loop thread gives it *)
(* up between two of them, while a task runs, and while it polls.  The     *)
(* primary and the secondary heap of a queue are one set of tasks: (target *)
(* time, order) is a total order, and the grade tells the heap.            *)
(***************************************************************************)
EXTENDS Integers, FiniteSets

CONSTANTS
  Queues,      \* task queue ids
  kUnmerged,   \* the id that is no queue
  Pairs,       \* the <<owner, subsumed>> pairs that are merged and unmerged
  Pausable,    \* queues with a Dart event loop, whose secondary source is paused
  Joined,      \* queues whose thread is joined
  Posters,     \* threads that call PostTask
  MaxTime,     \* bound: the last instant
  MaxTasks,    \* bound: tasks ever registered
  MaxSwitches  \* bound: calls of Merge, Unmerge and PauseSecondarySource

ASSUME QueuesAssumption ==
  /\ kUnmerged \notin Queues
  /\ Pairs \subseteq Queues \X Queues
  /\ Pausable \subseteq Queues
  /\ Joined \subseteq Queues
  /\ MaxTime \in Nat
  /\ MaxTasks \in Nat
  /\ MaxSwitches \in Nat

\* The vsync waiter pauses the UI queue; only raster queues become subsumed.  A
\* pause of a subsumed queue would be resumed without a wake of its owner.
ASSUME PausableIsNotSubsumed == \A pair \in Pairs : pair[2] \notin Pausable

VARIABLES
  tasks,        \* the heaps of each queue's TaskSource
  pauses,       \* secondary_pause_requests_
  owner_of,
  subsumed_by,
  order,        \* order_
  now,          \* the monotonic clock
  timer,        \* when the loop's timerfd expires next; Never once drained
  loop,         \* what the loop's thread does
  flushTime,    \* `now` of the FlushTasks under way
  running,      \* the invocation under way
  terminated,   \* terminated_
  exiting,      \* Run() has returned: DoRun does its last flush
  post,         \* a PostTask between its check of terminated_ and RegisterTask
  joined,       \* Thread::Join has been called
  switches      \* switches made so far

merge == <<owner_of, subsumed_by>>
thread == <<loop, flushTime, running, terminated, exiting>>
vars == <<tasks, pauses, owner_of, subsumed_by, order, now, timer, loop, flushTime,
          running, terminated, exiting, post, joined, switches>>

Times == 0 .. MaxTime
Never == MaxTime + 1

\* "join" is the task with which Thread::Join terminates the loop it runs on.
Bodies == {"work", "dart", "join"}
Task == [order : Nat, target : Times, body : Bodies]
NoTask == [order |-> 0, target |-> 0, body |-> "none"]
Post == [queue : Queues, target : Times, body : {"work", "join"}]
NoPost == [queue |-> kUnmerged, target |-> 0, body |-> "none"]

TypeOK ==
  /\ tasks \in [Queues -> SUBSET Task]
  /\ pauses \in [Queues -> Nat]
  /\ owner_of \in [Queues -> SUBSET Queues]
  /\ subsumed_by \in [Queues -> Queues \cup {kUnmerged}]
  /\ order \in Nat
  /\ now \in Times
  /\ timer \in [Queues -> Times \cup {Never}]
  /\ loop \in [Queues -> {"poll", "flush", "run", "dispose", "stopped"}]
  /\ flushTime \in [Queues -> Times]
  /\ running \in [Queues -> Task \cup {NoTask}]
  /\ terminated \in [Queues -> BOOLEAN]
  /\ exiting \in [Queues -> BOOLEAN]
  /\ post \in [Posters -> Post \cup {NoPost}]
  /\ joined \subseteq Joined
  /\ switches \in Nat

Init ==
  /\ tasks = [q \in Queues |-> {}]
  /\ pauses = [q \in Queues |-> 0]
  /\ owner_of = [q \in Queues |-> {}]
  /\ subsumed_by = [q \in Queues |-> kUnmerged]
  /\ order = 0
  /\ now = 0
  /\ timer = [q \in Queues |-> Never]
  /\ loop = [q \in Queues |-> "poll"]
  /\ flushTime = [q \in Queues |-> 0]
  /\ running = [q \in Queues |-> NoTask]
  /\ terminated = [q \in Queues |-> FALSE]
  /\ exiting = [q \in Queues |-> FALSE]
  /\ post = [p \in Posters |-> NoPost]
  /\ joined = {}
  /\ switches = 0

-----------------------------------------------------------------------------
(* What the queues hold *)

\* DelayedTask::operator>
Later(t, u) ==
  \/ t.target > u.target
  \/ t.target = u.target /\ t.order > u.order

\* The tasks a TaskSource offers: a paused secondary heap counts for nothing.
Source(q) == {t \in tasks[q] : t.body = "dart" => pauses[q] = 0}

\* What loop q may run: nothing when it is subsumed, else its own tasks and
\* those of the queues it owns.
Pending(q) ==
  {t \in UNION {Source(o) : o \in {q} \cup owner_of[q]} : subsumed_by[q] = kUnmerged}

HasPendingTasks(q) == Pending(q) # {}

\* Mutant: the owner's source goes before those of the queues merged into it.
NextOwnFirst(q) ==
  LET own == Pending(q) \cap Source(q)
      offered == IF own = {} THEN Pending(q) ELSE own
  IN  {t \in offered : \A u \in offered : ~Later(t, u)}

\* PeekNextTaskUnlocked: the earliest pending task (orders are unique).
NextTasks(q) == {t \in Pending(q) : \A u \in Pending(q) : ~Later(t, u)}

\* The loop's timerfd: one expiry at an absolute time, at once if it has passed.
TimerRearm(q, time) == timer' = [timer EXCEPT ![q] = time]

\* Reading it succeeds once it has expired, and only once.
TimerDrain(q) ==
  /\ timer[q] <= now
  /\ timer' = [timer EXCEPT ![q] = Never]

\* The end of the operations that add tasks to what loop q sees: re-arm its
\* timer with the next wake time, if anything is pending now.
WakeUpIfPending(q) ==
  IF HasPendingTasks(q)'
  THEN \E t \in NextTasks(q)' : TimerRearm(q, t.target)
  ELSE timer' = timer

-----------------------------------------------------------------------------
(* Posting *)

\* Bound: room for one more task than those registered and those on their way.
Room == order + Cardinality({p \in Posters : post[p] # NoPost}) < MaxTasks

\* loop_to_wake: the loop that runs the tasks of q.
LoopToWake(q) == IF subsumed_by[q] = kUnmerged THEN q ELSE subsumed_by[q]

\* Mutant: the wake goes to the queue's own loop, although it is subsumed.
RegisterWakesSelf(q, target, body) ==
  /\ order' = order + 1
  /\ tasks' = [tasks EXCEPT ![q] =
                 @ \cup {[order |-> order, target |-> target, body |-> body]}]
  /\ UNCHANGED <<pauses, merge, now, thread, joined, switches>>
  /\ WakeUpIfPending(q)

RegisterTask(q, target, body) ==
  /\ order' = order + 1
  /\ tasks' = [tasks EXCEPT ![q] =
                 @ \cup {[order |-> order, target |-> target, body |-> body]}]
  /\ UNCHANGED <<pauses, merge, now, thread, joined, switches>>
  /\ \E l \in {LoopToWake(q)} : WakeUpIfPending(l)

\* TaskRunner::PostTask, PostDelayedTask and PostTaskForTime (any time may be
\* given) call MessageLoopImpl::PostTask, which drops the task of a terminated
\* loop, and else ...
PostTask(p, q, target) ==
  /\ Room
  /\ post[p] = NoPost
  /\ ~terminated[q]
  /\ post' = [post EXCEPT ![p] = [queue |-> q, target |-> target, body |-> "work"]]
  /\ UNCHANGED <<tasks, pauses, merge, order, now, timer, thread, joined, switches>>

\* ... registers it, in a critical section of its own.
PostTaskRegister(p) ==
  /\ post[p] # NoPost
  /\ \E r \in {post[p]} : RegisterTask(r.queue, r.target, r.body)
  /\ post' = [post EXCEPT ![p] = NoPost]

\* A message for the isolate of queue q: the dispatcher registers the task that
\* handles it without asking whether the loop is terminated.
PostDartTask(q) ==
  /\ Room
  /\ RegisterTask(q, now, "dart")
  /\ UNCHANGED post

\* Thread::Join, called once.  It posts, whatever is merged with the queue, a task
\* that terminates the loop of the thread it runs on; MessageLoopImpl::PostTask
\* drops it when the loop is terminated.
ThreadJoin(p, q) ==
  /\ q \in Joined \ joined
  /\ Room
  /\ post[p] = NoPost
  /\ joined' = joined \cup {q}
  /\ post' = IF terminated[q] THEN post
             ELSE [post EXCEPT ![p] = [queue |-> q, target |-> now, body |-> "join"]]
  /\ UNCHANGED <<tasks, pauses, merge, order, now, timer, thread, switches>>

-----------------------------------------------------------------------------
(* Merging and pausing *)

Switch ==
  /\ switches < MaxSwitches
  /\ switches' = switches + 1

\* Called by a task of the queue that becomes subsumed, on its own thread.  A
\* call that fails a check changes nothing.
Merge(o, s) ==
  /\ Switch
  /\ o # s
  /\ running[s] # NoTask
  /\ s \notin owner_of[o]
  /\ subsumed_by[o] = kUnmerged
  /\ owner_of[s] = {}
  /\ subsumed_by[s] = kUnmerged
  /\ owner_of' = [owner_of EXCEPT ![o] = @ \cup {s}]
  /\ subsumed_by' = [subsumed_by EXCEPT ![s] = o]
  /\ UNCHANGED <<tasks, pauses, order, now, thread, post, joined>>
  /\ WakeUpIfPending(o)

\* Mutant: the owner's entry keeps the queue that is unmerged.
UnmergeKeepsOwned(o, s) ==
  /\ Switch
  /\ running[o] # NoTask
  /\ owner_of[o] # {}
  /\ subsumed_by[o] = kUnmerged
  /\ subsumed_by[s] # kUnmerged
  /\ s \in owner_of[o]
  /\ subsumed_by' = [subsumed_by EXCEPT ![s] = kUnmerged]
  /\ UNCHANGED <<owner_of, tasks, pauses, order, now, thread, post, joined, timer>>

\* Called by a task that the owner's thread runs.  Both loops are woken.
Unmerge(o, s) ==
  /\ Switch
  /\ running[o] # NoTask
  /\ owner_of[o] # {}
  /\ subsumed_by[o] = kUnmerged
  /\ subsumed_by[s] # kUnmerged
  /\ s \in owner_of[o]
  /\ subsumed_by' = [subsumed_by EXCEPT ![s] = kUnmerged]
  /\ owner_of' = [owner_of EXCEPT ![o] = @ \ {s}]
  /\ UNCHANGED <<tasks, pauses, order, now, thread, post, joined>>
  /\ \E wo \in IF HasPendingTasks(o)' THEN {t.target : t \in NextTasks(o)'} ELSE {timer[o]} :
       \E ws \in IF HasPendingTasks(s)' THEN {t.target : t \in NextTasks(s)'} ELSE {timer[s]} :
         timer' = [timer EXCEPT ![o] = wo, ![s] = ws]

PauseSecondarySource(q) ==
  /\ Switch
  /\ pauses' = [pauses EXCEPT ![q] = @ + 1]
  /\ UNCHANGED <<tasks, merge, order, now, timer, thread, post, joined>>

\* Mutant: a resume without a pause (the FML_DCHECK of task_source.cc:100).
ResumeUnpaused(q) ==
  /\ pauses' = [pauses EXCEPT ![q] = @ - 1]
  /\ UNCHANGED <<tasks, merge, order, now, thread, post, joined, switches>>
  /\ WakeUpIfPending(q)

\* The vsync task resumes what its waiter paused.
ResumeSecondarySource(q) ==
  /\ pauses[q] > 0
  /\ pauses' = [pauses EXCEPT ![q] = @ - 1]
  /\ UNCHANGED <<tasks, merge, order, now, thread, post, joined, switches>>
  /\ WakeUpIfPending(q)

-----------------------------------------------------------------------------
(* The thread of loop q *)

\* The timerfd is readable: OnEventFired drains it and FlushTasks begins.
\* Terminate has stopped the poll.
OnEventFired(q) ==
  /\ loop[q] = "poll"
  /\ ~terminated[q]
  /\ TimerDrain(q)
  /\ loop' = [loop EXCEPT ![q] = "flush"]
  /\ flushTime' = [flushTime EXCEPT ![q] = now]
  /\ UNCHANGED <<tasks, pauses, merge, order, now, running, terminated, exiting,
                 post, joined, switches>>

\* FlushTasks returns, to the poll or to the end of DoRun; its `now` is gone.
FlushEnds(q) ==
  /\ loop' = [loop EXCEPT ![q] = IF exiting[q] THEN "dispose" ELSE "poll"]
  /\ flushTime' = [flushTime EXCEPT ![q] = 0]
  /\ UNCHANGED <<tasks, running>>

\* Mutant: the timer is left alone when the next task is not due yet.
GetNextForgetsTimer(q) ==
  /\ loop[q] = "flush"
  /\ \/ ~HasPendingTasks(q) /\ FlushEnds(q) /\ UNCHANGED timer
     \/ \E t \in NextTasks(q) :
          /\ UNCHANGED timer
          /\ \/ t.target > flushTime[q] /\ FlushEnds(q)
             \/ /\ t.target <= flushTime[q]
                /\ tasks' = [x \in Queues |-> tasks[x] \ {t}]
                /\ running' = [running EXCEPT ![q] = t]
                /\ loop' = [loop EXCEPT ![q] = "run"]
                /\ UNCHANGED flushTime
  /\ UNCHANGED <<pauses, merge, order, now, terminated, exiting, post, joined, switches>>

\* The timer is re-armed for the task peeked at, before it is popped: a loop
\* that runs a task finds its timer expired once more, and flushes again.
GetNextTaskToRun(q) ==
  /\ loop[q] = "flush"
  /\ \/ ~HasPendingTasks(q) /\ FlushEnds(q) /\ UNCHANGED timer
     \/ \E t \in NextTasks(q) :
          /\ TimerRearm(q, t.target)
          /\ \/ t.target > flushTime[q] /\ FlushEnds(q)
             \/ /\ t.target <= flushTime[q]
                /\ tasks' = [x \in Queues |-> tasks[x] \ {t}]
                /\ running' = [running EXCEPT ![q] = t]
                /\ loop' = [loop EXCEPT ![q] = "run"]
                /\ UNCHANGED flushTime
  /\ UNCHANGED <<pauses, merge, order, now, terminated, exiting, post, joined, switches>>

\* The invocation returns; the flush goes on (FlushType::kAll).
FinishTask(q) ==
  /\ loop[q] = "run"
  /\ running[q].body = "join" => terminated[q]
  /\ loop' = [loop EXCEPT ![q] = "flush"]
  /\ running' = [running EXCEPT ![q] = NoTask]
  /\ UNCHANGED <<tasks, pauses, merge, order, now, timer, flushTime, terminated,
                 exiting, post, joined, switches>>

\* The join task terminates the loop of the thread it runs on.
Terminate(q) ==
  /\ loop[q] = "run"
  /\ running[q].body = "join"
  /\ ~terminated[q]
  /\ terminated' = [terminated EXCEPT ![q] = TRUE]
  /\ TimerRearm(q, now)
  /\ UNCHANGED <<tasks, pauses, merge, order, now, loop, flushTime, running, exiting,
                 post, joined, switches>>

\* Run() returns after uv_stop: the last flush begins.
RunReturns(q) ==
  /\ loop[q] = "poll"
  /\ terminated[q]
  /\ ~exiting[q]
  /\ exiting' = [exiting EXCEPT ![q] = TRUE]
  /\ loop' = [loop EXCEPT ![q] = "flush"]
  /\ flushTime' = [flushTime EXCEPT ![q] = now]
  /\ UNCHANGED <<tasks, pauses, merge, order, now, timer, running, terminated,
                 post, joined, switches>>

\* The tasks of the queue and of those it owns are dropped.
DisposeTasks(q) ==
  /\ loop[q] = "dispose"
  /\ tasks' = [x \in Queues |-> IF x \in {q} \cup owner_of[q] THEN {} ELSE tasks[x]]
  /\ loop' = [loop EXCEPT ![q] = "stopped"]
  /\ UNCHANGED <<pauses, merge, order, now, timer, flushTime, running, terminated,
                 exiting, post, joined, switches>>

Tick ==
  /\ now < MaxTime
  /\ now' = now + 1
  /\ UNCHANGED <<tasks, pauses, merge, order, timer, thread, post, joined, switches>>

-----------------------------------------------------------------------------
LoopThread(q) ==
  \/ OnEventFired(q) \/ GetNextTaskToRun(q) \/ FinishTask(q) \/ Terminate(q)
  \/ RunReturns(q) \/ DisposeTasks(q)

Next ==
  \/ \E p \in Posters, q \in Queues, target \in Times : PostTask(p, q, target)
  \/ \E p \in Posters : PostTaskRegister(p)
  \/ \E q \in Pausable : PostDartTask(q)
  \/ \E p \in Posters, q \in Joined : ThreadJoin(p, q)
  \/ \E pair \in Pairs : Merge(pair[1], pair[2])
  \/ \E pair \in Pairs : Unmerge(pair[1], pair[2])
  \/ \E q \in Pausable : PauseSecondarySource(q)
  \/ \E q \in Pausable : ResumeSecondarySource(q)
  \/ \E q \in Queues : LoopThread(q)
  \/ Tick

\* Every loop's thread keeps running and every task returns, a pause has its
\* resume (VsyncWaiter!PauseHasResume), a thread in PostTask goes on, and time
\* passes.
Fairness ==
  /\ \A q \in Queues : WF_vars(LoopThread(q))
  /\ \A q \in Pausable : WF_vars(ResumeSecondarySource(q))
  /\ \A p \in Posters : WF_vars(PostTaskRegister(p))
  /\ WF_vars(Tick)

Spec == Init /\ [][Next]_vars
FairSpec == Spec /\ Fairness

-----------------------------------------------------------------------------
(* Properties *)

\* message_loop_task_queues.h:113-117 (3.a-c): the two sides of the merge
\* relation agree, and a queue that owns another is not itself subsumed.
MergeTopology ==
  \A q \in Queues :
    /\ \A o \in Queues : q \in owner_of[o] <=> subsumed_by[q] = o
    /\ owner_of[q] # {} => subsumed_by[q] = kUnmerged

\* No wake-up is lost: unless its loop is about to look for work, the timer of
\* a queue goes off in time for every task the loop may run, its own or one of a
\* queue it owns, whatever was merged, unmerged, paused or resumed meanwhile.
NoLostWakeUp ==
  \A q \in Queues : \A t \in Pending(q) :
    \/ loop[q] = "flush"
    \/ timer[q] <= t.target
    \/ timer[q] <= now

\* A loop takes the task that is due first, and of those due at the same time the
\* one registered first, among all the queues it serves: its own and those that are
\* merged into it (delayed_task.cc:36-41 with the peek over the owner's and the
\* subsumed sources).  Only Dart messages of a paused queue are passed over.
TakenInOrder ==
  [][\A l \in Queues :
       (running'[l] # running[l] /\ running'[l] # NoTask) =>
         \A q \in Queues : LoopToWake(q) = l =>
           \A u \in tasks'[q] :
             \/ u.body = "dart" /\ pauses[q] # 0
             \/ u.target > running'[l].target
             \/ u.target = running'[l].target /\ u.order > running'[l].order]_vars

\* A registered task is taken, by whatever loop serves its queue by then, unless
\* that loop has stopped: it is stranded neither by merging and unmerging nor by a
\* pause.  (A loop that has stopped takes nothing: the tasks of its queue, and of
\* the queues merged into it, stay.)
TaskIsTaken ==
  \A n \in 0 .. MaxTasks - 1 :
    (\E q \in Queues : \E t \in tasks[q] : t.order = n)
      ~> ~ \E q \in Queues :
             loop[LoopToWake(q)] # "stopped" /\ \E t \in tasks[q] : t.order = n

\* Thread::Join ends a loop: that of the joined thread or, when the thread's queue is
\* subsumed as the task is taken, the loop of another thread, whose own queue then
\* serves both.  In the second case the joined thread goes on and the caller of
\* Join waits for it (thread.cc:170-177 asks nothing about merges).
JoinEndsALoop ==
  \A q \in Joined :
    (q \in joined) ~> \/ loop[q] = "stopped"
                      \/ \E o \in Queues \ {q} : terminated[o] /\ loop[o] = "stopped"
=============================================================================
