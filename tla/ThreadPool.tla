------------------------------ MODULE ThreadPool ------------------------------
(***************************************************************************)
(* The thread pool (src/src/util/threadpool.c), from threadpool_start on.  *)
(* Slots are the entries of p_threads_info; a thread works in one slot.  A *)
(* thread that gives up its slot when idle still runs its exit callback,   *)
(* with the slot's address, while the slot may have a new thread.          *)
(*                                                                         *)
(* Every section under p_pool->lock is one step.  Time is abstracted to    *)
(* the number of waits that timed out since a thread began to idle.        *)
(***************************************************************************)
EXTENDS Integers, Sequences, FiniteSets

CONSTANTS
  Thread,          \* identities of threads
  Task,            \* tasks the program adds, each once
  MinThreads, MaxThreads,
  Seed,            \* thread_seed
  RetryTimes,      \* task_retry_times
  CreateMayFail,   \* may pthread_create fail when the pool grows?
  MayStop,         \* does the program destroy the pool?
  LateTasks,       \* may tasks be added while the pool is being stopped?
  Resize,          \* <<min, max>> pairs given to threadpool_setThreads
  None             \* id 0 of an unused slot, and no task

VARIABLES
  slot,            \* id of each slot
  idle,            \* per slot: -1, or the waits since its status is WAITED
  cmd,             \* per slot: a reload command is pending
  threadCount,     \* thread_count
  queue,           \* the task list (its length is task_count)
  leaked,          \* somebody returned without unlocking p_pool->lock
  shutdown,
  pc, home, task,  \* per thread: control, slot, task being run
  tries, accept,   \* per task: retry_times, what has become of it
  stop,            \* next slot threadpool_stop joins; 0 before, -1 freed,
                   \* -2 stopped with tasks left
  refused          \* resizes answered with THREADPOOL_FORBIT_DIMINISH

vars == <<slot, idle, cmd, threadCount, queue, leaked, shutdown, pc, home, task,
          tries, accept, stop, refused>>

Slots == 1 .. MaxThreads

ASSUME PoolAssumption ==
  /\ MinThreads \in Nat \ {0} /\ MaxThreads \in Nat /\ MinThreads <= MaxThreads
  /\ Seed \in Nat \ {0} /\ RetryTimes \in Nat
  /\ CreateMayFail \in BOOLEAN /\ MayStop \in BOOLEAN /\ LateTasks \in BOOLEAN
  /\ None \notin Thread \cup Task
  /\ Resize \subseteq Nat \X Nat

(* Control points of a thread: not created; at the top of its loop; before *)
(* the lock; in the timed wait; signalled; in a task; putting it back;     *)
(* leaving because of shutdown, or because idle; returned; joined.         *)
ThreadPc == {"none", "top", "ready", "wait", "woken", "run", "again",
             "leave", "quit", "over", "joined"}

Free == ~leaked
Alive == stop # -1                      \* the pool's memory is not freed
Working(t) == pc[t] \in {"top", "ready", "wait", "woken", "run", "again"}
Goto(t, l) == pc' = [pc EXCEPT ![t] = l]

-----------------------------------------------------------------------------
(* The parts of threadpool_addTask2.                                       *)

(* A thread is added only when the length before the insertion is a        *)
(* multiple of the seed.                                                   *)
Grows == /\ Len(queue) > threadCount
         /\ threadCount < MaxThreads
         /\ Len(queue) % Seed = 0

FirstFree(i) == slot[i] = None /\ \A j \in 1 .. i - 1 : slot[j] # None

NoSignal(f) == pc' = f                  \* defect: nobody is woken up

(* pthread_cond_signal: one waiting thread, if there is any.               *)
Signal(f) ==
  IF \E t \in Thread : f[t] = "wait"
  THEN \E t \in Thread : f[t] = "wait" /\ pc' = [f EXCEPT ![t] = "woken"]
  ELSE pc' = f

(* The insertion, with f the control points after it.                      *)
Insert(k, f) ==
  /\ Free
  /\ queue' = Append(queue, k)
  /\ \/ ~Grows
        /\ Signal(f)
        /\ UNCHANGED <<slot, home, threadCount, leaked>>
     \/ Grows                           \* add_thread
        /\ \E i \in Slots, t \in Thread :
             /\ FirstFree(i) /\ pc[t] = "none"
             /\ slot' = [slot EXCEPT ![i] = t]
             /\ home' = [home EXCEPT ![t] = i]
             /\ Signal([f EXCEPT ![t] = "top"])
        /\ threadCount' = threadCount + 1
        /\ UNCHANGED leaked

(* When the thread cannot be created the task is in the list, the lock     *)
(* stays locked and the caller gets an error.                              *)
InsertFails(k, f) ==
  /\ Free /\ CreateMayFail
  /\ queue' = Append(queue, k)
  /\ Grows
  /\ leaked' = TRUE
  /\ pc' = f
  /\ UNCHANGED <<slot, home, threadCount>>

AddTask(k) ==
  /\ Alive /\ (shutdown => LateTasks)
  /\ accept[k] = "new"
  /\ Insert(k, pc)
  /\ accept' = [accept EXCEPT ![k] = "added"]
  /\ UNCHANGED <<idle, cmd, shutdown, task, tries, stop, refused>>

AddTaskFails(k) ==
  /\ Alive /\ (shutdown => LateTasks)
  /\ accept[k] = "new"
  /\ InsertFails(k, pc)
  /\ accept' = [accept EXCEPT ![k] = "added"]
  /\ UNCHANGED <<idle, cmd, shutdown, task, tries, stop, refused>>

-----------------------------------------------------------------------------
(* thread_working *)

(* run_callback (ThreadRunning): reload when told to.                      *)
RunCallback(t) ==
  /\ pc[t] = "top"
  /\ cmd' = [cmd EXCEPT ![home[t]] = FALSE]
  /\ Goto(t, "ready")
  /\ UNCHANGED <<slot, idle, threadCount, queue, leaked, shutdown, home, task,
                 tries, accept, stop, refused>>

Take(t) ==
  /\ pc[t] = "ready" /\ Free /\ queue # <<>>
  /\ queue' = Tail(queue)
  /\ task' = [task EXCEPT ![t] = Head(queue)]
  /\ idle' = [idle EXCEPT ![home[t]] = -1]
  /\ Goto(t, "run")
  /\ UNCHANGED <<slot, cmd, threadCount, leaked, shutdown, home, tries, accept,
                 stop, refused>>

(* The callback returns; unless it wants a retry the task is freed.        *)
Finish(t) ==
  /\ pc[t] = "run"
  /\ accept' = [accept EXCEPT ![task[t]] = "done"]
  /\ task' = [task EXCEPT ![t] = None]
  /\ Goto(t, "top")
  /\ UNCHANGED <<slot, idle, cmd, threadCount, queue, leaked, shutdown, home,
                 tries, stop, refused>>

(* Defect: a task to be retried is freed.                                  *)
AskRetryFrees(t) ==
  /\ pc[t] = "run" /\ tries[task[t]] < RetryTimes
  /\ tries' = [tries EXCEPT ![task[t]] = @ + 1]
  /\ accept' = [accept EXCEPT ![task[t]] = "done"]
  /\ Goto(t, "again")
  /\ UNCHANGED <<slot, idle, cmd, threadCount, queue, leaked, shutdown, home, task,
                 stop, refused>>

(* THREADPOOL_TASK_RETRY, while retries are left.                          *)
AskRetry(t) ==
  /\ pc[t] = "run" /\ tries[task[t]] < RetryTimes
  /\ tries' = [tries EXCEPT ![task[t]] = @ + 1]
  /\ Goto(t, "again")
  /\ UNCHANGED <<slot, idle, cmd, threadCount, queue, leaked, shutdown, home, task,
                 accept, stop, refused>>

Retry(t) ==
  /\ pc[t] = "again"
  /\ \/ Insert(task[t], [pc EXCEPT ![t] = "top"])
     \/ InsertFails(task[t], [pc EXCEPT ![t] = "top"])
  /\ task' = [task EXCEPT ![t] = None]
  /\ UNCHANGED <<idle, cmd, shutdown, tries, accept, stop, refused>>

(* Only an empty queue lets a thread leave.                                *)
LeaveBusy(t) ==                         \* defect: leaves tasks behind
  /\ pc[t] = "ready" /\ Free /\ shutdown
  /\ Goto(t, "leave")
  /\ UNCHANGED <<slot, idle, cmd, threadCount, queue, leaked, shutdown, home, task,
                 tries, accept, stop, refused>>
LeaveExcess(t) ==                       \* defect: min_threads threads stay
  /\ pc[t] = "ready" /\ Free /\ queue = <<>> /\ shutdown
  /\ threadCount > MinThreads
  /\ Goto(t, "leave")
  /\ UNCHANGED <<slot, idle, cmd, threadCount, queue, leaked, shutdown, home, task,
                 tries, accept, stop, refused>>
Leave(t) ==
  /\ pc[t] = "ready" /\ Free /\ queue = <<>> /\ shutdown
  /\ Goto(t, "leave")
  /\ UNCHANGED <<slot, idle, cmd, threadCount, queue, leaked, shutdown, home, task,
                 tries, accept, stop, refused>>

(* cost_time > thread_wait_timeout: perhaps after one wait that timed out, *)
(* surely after two.                                                       *)
MayQuitBelow(i) == idle[i] >= 1         \* defect: min_threads is forgotten
MayQuit(i)  == idle[i] >= 1 /\ threadCount > MinThreads
MustQuit(i) == idle[i] >= 2 /\ threadCount > MinThreads

QuitUncounted(t) ==                     \* defect: thread_count is not updated
  /\ pc[t] = "ready" /\ Free /\ queue = <<>> /\ ~shutdown
  /\ MayQuit(home[t])
  /\ slot' = [slot EXCEPT ![home[t]] = None]
  /\ Goto(t, "quit")
  /\ UNCHANGED <<idle, threadCount, cmd, queue, leaked, shutdown, home, task, tries,
                 accept, stop, refused>>

(* An idle thread gives its slot up, and the others start waiting anew.    *)
Quit(t) ==
  /\ pc[t] = "ready" /\ Free /\ queue = <<>> /\ ~shutdown
  /\ MayQuit(home[t])
  /\ threadCount' = threadCount - 1
  /\ slot' = [slot EXCEPT ![home[t]] = None]
  /\ idle' = [i \in Slots |-> IF i = home[t] THEN -1
                              ELSE IF slot[i] # None /\ idle[i] >= 0 THEN 0
                              ELSE idle[i]]
  /\ Goto(t, "quit")
  /\ UNCHANGED <<cmd, queue, leaked, shutdown, home, task, tries, accept, stop, refused>>

Wait(t) ==
  /\ pc[t] = "ready" /\ Free /\ queue = <<>> /\ ~shutdown
  /\ ~MustQuit(home[t])
  /\ idle' = [idle EXCEPT ![home[t]] = IF @ < 0 THEN 0 ELSE @]
  /\ Goto(t, "wait")
  /\ UNCHANGED <<slot, cmd, threadCount, queue, leaked, shutdown, home, task, tries,
                 accept, stop, refused>>

TimeOut(t) ==
  /\ pc[t] = "wait" /\ Free
  /\ idle' = [idle EXCEPT ![home[t]] = IF @ < 2 THEN @ + 1 ELSE @]
  /\ Goto(t, "top")
  /\ UNCHANGED <<slot, cmd, threadCount, queue, leaked, shutdown, home, task, tries,
                 accept, stop, refused>>

WakeUp(t) ==
  /\ pc[t] = "woken" /\ Free
  /\ idle' = [idle EXCEPT ![home[t]] = -1]
  /\ Goto(t, "top")
  /\ UNCHANGED <<slot, cmd, threadCount, queue, leaked, shutdown, home, task, tries,
                 accept, stop, refused>>

(* exit_callback (ThreadExit), which writes to the slot.                   *)
ExitCallback(t) ==
  /\ pc[t] \in {"leave", "quit"}
  /\ cmd' = IF Alive THEN [cmd EXCEPT ![home[t]] = FALSE] ELSE cmd
  /\ Goto(t, IF pc[t] = "leave" THEN "over" ELSE "none")
  /\ home' = IF pc[t] = "leave" THEN home ELSE [home EXCEPT ![t] = 0]
  /\ UNCHANGED <<slot, idle, threadCount, queue, leaked, shutdown, task, tries,
                 accept, stop, refused>>

-----------------------------------------------------------------------------
(* threadpool_setThreadsCommand *)
Command ==
  /\ Alive
  /\ cmd' = [i \in Slots |-> slot[i] # None \/ cmd[i]]
  /\ UNCHANGED <<slot, idle, threadCount, queue, leaked, shutdown, pc, home, task,
                 tries, accept, stop, refused>>

(* threadpool_setThreads: the ; after the condition (line 700) makes the   *)
(* refusal unconditional.                                                  *)
SetThreads ==
  /\ Alive
  /\ \E r \in Resize :
       /\ r # <<MinThreads, MaxThreads>>
       /\ refused' = refused \cup {r}
  /\ UNCHANGED <<slot, idle, cmd, threadCount, queue, leaked, shutdown, pc, home,
                 task, tries, accept, stop>>

(* threadpool_destroy: stop, wake everybody up, join slot by slot, free.   *)
Stop ==
  /\ MayStop /\ stop = 0 /\ Free
  /\ shutdown' = TRUE
  /\ pc' = [t \in Thread |-> IF pc[t] = "wait" THEN "woken" ELSE pc[t]]
  /\ stop' = 1
  /\ UNCHANGED <<slot, idle, cmd, threadCount, queue, leaked, home, task, tries,
                 accept, refused>>

Join ==
  /\ stop \in Slots
  /\ \/ slot[stop] = None /\ UNCHANGED pc
     \/ slot[stop] # None /\ pc[slot[stop]] = "over" /\ Goto(slot[stop], "joined")
  /\ stop' = stop + 1
  /\ UNCHANGED <<slot, idle, cmd, threadCount, queue, leaked, shutdown, home, task,
                 tries, accept, refused>>

Destroy ==
  /\ stop = MaxThreads + 1
  /\ stop' = IF queue = <<>> THEN -1 ELSE -2
  /\ UNCHANGED <<slot, idle, cmd, threadCount, queue, leaked, shutdown, pc, home,
                 task, tries, accept, refused>>

(* A second threadpool_destroy (CleanEnvironment, env.c:301) after one that *)
(* left tasks: threadpool_stop returns at once and the list is freed.      *)
DestroyAgain ==
  /\ stop = -2
  /\ stop' = -1
  /\ queue' = <<>>
  /\ accept' = [k \in Task |-> IF \E i \in DOMAIN queue : queue[i] = k
                               THEN "dropped" ELSE accept[k]]
  /\ UNCHANGED <<slot, idle, cmd, threadCount, leaked, shutdown, pc, home, task,
                 tries, refused>>

-----------------------------------------------------------------------------
(* After threadpool_start: min_threads threads in the first slots.         *)
Init ==
  /\ \E f \in [1 .. MinThreads -> Thread] :
       /\ \A i, j \in 1 .. MinThreads : f[i] = f[j] => i = j
       /\ slot = [i \in Slots |-> IF i <= MinThreads THEN f[i] ELSE None]
       /\ pc = [t \in Thread |->
                  IF \E i \in 1 .. MinThreads : f[i] = t THEN "top" ELSE "none"]
       /\ home = [t \in Thread |-> CHOOSE i \in 0 .. MinThreads :
                    IF \E j \in 1 .. MinThreads : f[j] = t
                    THEN i > 0 /\ f[i] = t ELSE i = 0]
  /\ idle = [i \in Slots |-> -1]
  /\ cmd = [i \in Slots |-> FALSE]
  /\ threadCount = MinThreads
  /\ queue = <<>>
  /\ leaked = FALSE
  /\ shutdown = FALSE
  /\ task = [t \in Thread |-> None]
  /\ tries = [k \in Task |-> 0]
  /\ accept = [k \in Task |-> "new"]
  /\ stop = 0
  /\ refused = {}

Step(t) ==
  \/ RunCallback(t) \/ Take(t) \/ Finish(t) \/ AskRetry(t) \/ Retry(t)
  \/ Leave(t) \/ Quit(t) \/ Wait(t) \/ TimeOut(t) \/ WakeUp(t) \/ ExitCallback(t)

Next ==
  \/ \E k \in Task : AddTask(k) \/ AddTaskFails(k)
  \/ \E t \in Thread : Step(t)
  \/ Command \/ SetThreads \/ Stop \/ Join \/ Destroy \/ DestroyAgain

Spec == Init /\ [][Next]_vars
-----------------------------------------------------------------------------
(* Properties *)

TypeOK ==
  /\ slot \in [Slots -> Thread \cup {None}]
  /\ idle \in [Slots -> -1 .. 2]
  /\ cmd \in [Slots -> BOOLEAN]
  /\ threadCount \in Nat
  /\ queue \in Seq(Task)
  /\ leaked \in BOOLEAN /\ shutdown \in BOOLEAN
  /\ pc \in [Thread -> ThreadPc]
  /\ home \in [Thread -> Slots \cup {0}]
  /\ task \in [Thread -> Task \cup {None}]
  /\ tries \in [Task -> 0 .. RetryTimes]
  /\ accept \in [Task -> {"new", "added", "done", "dropped"}]
  /\ stop \in -2 .. MaxThreads + 1
  /\ refused \subseteq Resize

(* thread_count, updated in three places, is the number of slots in use,   *)
(* and every thread that is not on its way out because idle owns the slot  *)
(* it works in: a new thread never gets the slot of a working one.         *)
SlotsOwned ==
  /\ threadCount = Cardinality({i \in Slots : slot[i] # None})
  /\ \A t \in Thread :
       pc[t] \notin {"none", "quit"} => home[t] \in Slots /\ slot[home[t]] = t
  /\ \A i \in Slots :
       slot[i] # None => home[slot[i]] = i /\ pc[slot[i]] \notin {"none", "quit"}

(* Growing and shrinking stay within the configured sizes (src/README.md:7). *)
WithinLimits == threadCount \in MinThreads .. MaxThreads

(* A task that has been added and not finished is in one place: once in    *)
(* the list, or with the one thread that runs it or puts it back.          *)
TaskOnce ==
  \A k \in Task :
    Cardinality({i \in DOMAIN queue : queue[i] = k})
      + Cardinality({t \in Thread : task[t] = k})
      = IF accept[k] = "added" THEN 1 ELSE 0

(* Adding a task wakes an idle thread up (src/README.md:7): while a thread *)
(* sleeps unsignalled there is an awake one for each task of the list,     *)
(* unless the lock is lost.                                                *)
Idling(t) == pc[t] \in {"top", "ready", "woken"}
NoSleepOverWork ==
  Free /\ (\E t \in Thread : pc[t] = "wait")
    => Cardinality({t \in Thread : Idling(t)}) >= Len(queue)

(* Whoever destroys the pool waits for all tasks to be done (worker.c:631). *)
AllTasksDone ==
  stop < 0 => queue = <<>> /\ \A t \in Thread : task[t] = None


(* Threads run, and the lock lets each through; the caller of stop goes on. *)
Fairness == /\ \A t \in Thread : WF_vars(Step(t))
            /\ WF_vars(Join \/ Destroy)
FairSpec == Spec /\ Fairness

(* Every task added is run to its end, also when the pool is being stopped. *)
TaskRun == \A k \in Task : accept[k] = "added" ~> accept[k] = "done"

(* A stop ends: every thread it joins leaves.                              *)
StopEnds == stop > 0 ~> stop < 0
=============================================================================
