----------------------------- MODULE ThreadPool -----------------------------
(***************************************************************************)
(* packages/thread_pool-v4.0.1/thread_pool.c on the mutex and the          *)
(* semaphore of the kernel.  One thread, the shell, uses the pool, as      *)
(* thread_pool_sample of command.c does but with the calls in any order;   *)
(* a task may use the lock that the pool offers to its users.  A step is   *)
(* one section of the kernel together with the accesses to the pool that   *)
(* the lock of the queue protects.                                         *)
(***************************************************************************)
EXTENDS KernelMutex, FiniteSets

CONSTANTS
  Worker,   \* the threads of the pool
  shell,    \* the thread that uses it
  UINT8,    \* 2^8, the range of cur_wait_thread_num
  MaxTask   \* bound on the tasks that are added

(* init_thread_pool gives all workers the same priority. *)
ASSUME ThreadPoolAssumption ==
  /\ Threads = Worker \cup {shell} /\ shell \notin Worker
  /\ Mutexes = {"queue_lock", "user_lock"}
  /\ UINT8 \in Nat \ {0} /\ MaxTask \in Nat
  /\ \A v, w \in Worker : Base[v] = Base[w]

VARIABLES
  queue,       \* the list at queue_head; tasks are numbered as they are added
  cur_wait,    \* cur_wait_thread_num
  is_shutdown,
  value,       \* value of queue_ready
  ready_wait,  \* suspend_thread of queue_ready
  pc,          \* where a thread is
  task,        \* the task that a worker runs, 0 for none
  marked,      \* workers that were deleted while they ran on the other CPU, and run on
  added,       \* tasks added so far
  started,     \* tasks in the order in which workers took them
  dropped,     \* tasks that were deleted
  reused,      \* has del_all read a block that was given to somebody else?
  lent         \* for a mutex, who has lent its owner a priority that it still has

pool == <<queue, cur_wait, is_shutdown>>
ready == <<value, ready_wait>>
locks == <<mutex, prio, lent>>
rest == <<marked, added, started, dropped, reused>>
vars == <<pool, ready, locks, pc, task, rest>>

Task == 1..MaxTask

Init ==
  /\ MutexInit /\ lent = [m \in Mutexes |-> {}]
  /\ queue = <<>> /\ cur_wait = 0 /\ is_shutdown = FALSE
  /\ value = 0 /\ ready_wait = <<>>
  /\ pc = [t \in Threads |-> IF t = shell THEN "init" ELSE "none"]
  /\ task = [w \in Worker |-> 0]
  /\ marked = {} /\ added = 0 /\ started = <<>> /\ dropped = {} /\ reused = FALSE

InReady(t) == Contains(ready_wait, t)
Blocked(t) == InReady(t) \/ \E m \in Mutexes : Waits(m, t)

At(t, p) == pc[t] = p /\ ~Blocked(t)
Goes(t, p) == pc' = [pc EXCEPT ![t] = p]

(* A loan lasts until the owner releases the mutex, or another one: the      *)
(* release sets the priority that the owner had when it took that one.       *)
Locks(m, t) ==
  /\ rt_mutex_take(m, t)
  /\ lent' = [lent EXCEPT ![m] = IF mutex[m].owner \in {t, none} THEN @ ELSE @ \cup {t}]
Unlocks(m, t) ==
  /\ rt_mutex_release(m, t)
  /\ lent' = [k \in Mutexes |-> IF Owns(k, t) THEN {} ELSE lent[k]]

-----------------------------------------------------------------------------
(* init_thread_pool creates and starts one worker after the other. *)
Create(w) ==
  /\ At(shell, "init") /\ pc[w] = "none"
  /\ pc' = [pc EXCEPT ![w] = "lock",
                      ![shell] = IF \A v \in Worker \ {w} : pc[v] # "none" THEN "user" ELSE @]
  /\ UNCHANGED <<pool, ready, locks, task, rest>>

(* add_task; when the heap is full it returns before it changes anything. *)
AddTask ==
  /\ At(shell, "user") /\ added < MaxTask
  /\ Locks("queue_lock", shell) /\ Goes(shell, "append")
  /\ UNCHANGED <<pool, ready, task, rest>>

(* The end of add_task's section: the tail of the list. *)
AppendTask ==
  /\ At(shell, "append")
  /\ added' = added + 1 /\ queue' = Append(queue, added + 1)
  /\ cur_wait' = (cur_wait + 1) % UINT8
  /\ Unlocks("queue_lock", shell) /\ Goes(shell, "post")
  /\ UNCHANGED <<is_shutdown, ready, task, marked, started, dropped, reused>>

(* rt_sem_release(queue_ready), outside of the lock. *)
PostReady ==
  /\ At(shell, "post") /\ Goes(shell, "user")
  /\ IF ready_wait = <<>> THEN value' = value + 1 /\ UNCHANGED ready_wait
                          ELSE ready_wait' = Tail(ready_wait) /\ UNCHANGED value
  /\ UNCHANGED <<pool, locks, task, rest>>

DelAll ==
  /\ At(shell, "user") /\ Locks("queue_lock", shell) /\ Goes(shell, "clear")
  /\ UNCHANGED <<pool, ready, task, rest>>

(* The loop of del_all reads next in a block it has just freed.  If another  *)
(* thread was given the block and has cleared it, the list ends there: k     *)
(* tasks are counted and the others are lost.  (Any other value in the block *)
(* sends the loop out of the pool; that is not followed.)                    *)
Clear ==
  /\ At(shell, "clear")
  /\ \E k \in 0..Len(queue) :
       /\ (k = 0) <=> (queue = <<>>)
       /\ cur_wait' = (cur_wait - k) % UINT8 /\ reused' = (reused \/ k < Len(queue))
  /\ queue' = <<>> /\ dropped' = dropped \cup {queue[i] : i \in 1..Len(queue)}
  /\ Goes(shell, "reset")
  /\ UNCHANGED <<is_shutdown, ready, locks, task, marked, added, started>>

(* rt_sem_control(RT_IPC_CMD_RESET): all waiters go on, and find no task. *)
Reset ==
  /\ At(shell, "reset") /\ value' = 0 /\ ready_wait' = <<>> /\ Goes(shell, "unlock")
  /\ UNCHANGED <<pool, locks, task, rest>>

DelAllEnd ==
  /\ At(shell, "unlock") /\ Unlocks("queue_lock", shell) /\ Goes(shell, "user")
  /\ UNCHANGED <<pool, ready, task, rest>>

(* sync_lock and sync_unlock by the user. *)
UserLock ==
  /\ At(shell, "user") /\ ~Owns("user_lock", shell) /\ Locks("user_lock", shell)
  /\ UNCHANGED <<pool, ready, pc, task, rest>>

UserUnlock ==
  /\ At(shell, "user") /\ Owns("user_lock", shell) /\ Unlocks("user_lock", shell)
  /\ UNCHANGED <<pool, ready, pc, task, rest>>

-----------------------------------------------------------------------------
(* destroy: the flag is set without the lock ... *)
Destroy ==
  /\ At(shell, "user") /\ ~is_shutdown
  /\ is_shutdown' = TRUE /\ Goes(shell, "delete")
  /\ UNCHANGED <<queue, cur_wait, ready, locks, task, rest>>

(* Off every list of the pool. *)
Removed(w) ==
  /\ mutex' = [m \in Mutexes |-> [mutex[m] EXCEPT !.wait = RemoveFirst(@, w)]]
  /\ ready_wait' = RemoveFirst(ready_wait, w)
  /\ lent' = [m \in Mutexes |-> lent[m] \ {w}]

(* ... rt_thread_delete takes a worker that does not run off the list it is  *)
(* in, wherever it is.  A worker that has returned and was freed by the idle *)
(* thread is no thread any more: rt_thread_delete asserts.                   *)
Delete(w) ==
  /\ At(shell, "delete") /\ pc[w] # "gone" /\ w \notin marked
  /\ pc' = IF pc[w] = "freed" THEN [pc EXCEPT ![shell] = "assert"] ELSE [pc EXCEPT ![w] = "gone"]
  /\ Removed(w)
  /\ UNCHANGED <<pool, value, prio, task, rest>>

(* A worker that runs on the other CPU is only marked (RT_THREAD_CLOSE) and  *)
(* goes on, and the shell does not wait for it.  There is one such CPU.      *)
Mark(w) ==
  /\ At(shell, "delete") /\ pc[w] \notin {"gone", "freed"} /\ ~Blocked(w)
  /\ marked = {} /\ marked' = {w}
  /\ UNCHANGED <<pool, ready, locks, pc, task, added, started, dropped, reused>>

(* The next switch of that CPU stops the worker for good, at the latest when *)
(* it would have to wait.  (That its entry in the list of the dead is linked *)
(* into the list of what it waits for, and that the idle thread may free it  *)
(* while it runs, is not followed.)                                          *)
Stop(w) ==
  /\ w \in marked /\ pc[w] # "stray" /\ Goes(w, "gone") /\ marked' = {}
  /\ Removed(w)
  /\ UNCHANGED <<pool, value, prio, task, added, started, dropped, reused>>

(* ... and the locks, the semaphore and the tasks are freed, also under a    *)
(* worker that still runs: what it does from here on is not followed.        *)
DestroyEnd ==
  /\ At(shell, "delete") /\ \A w \in Worker : pc[w] = "gone" \/ w \in marked
  /\ pc' = [t \in Threads |-> IF t = shell THEN "end" ELSE IF t \in marked THEN "stray" ELSE pc[t]]
  /\ mutex' = [m \in Mutexes |-> Unowned] /\ ready_wait' = <<>> /\ lent' = [m \in Mutexes |-> {}]
  /\ queue' = <<>> /\ dropped' = dropped \cup {queue[i] : i \in 1..Len(queue)}
  /\ UNCHANGED <<cur_wait, is_shutdown, value, prio, task, marked, added, started, reused>>

-----------------------------------------------------------------------------
(* thread_job.  The loop waits for cur_wait_thread_num to become positive.   *)
(* A worker that is marked takes the steps that need not wait.               *)
Lock(w) ==
  /\ At(w, "lock") /\ (w \in marked => mutex["queue_lock"].owner = none)
  /\ Locks("queue_lock", w) /\ Goes(w, "test")
  /\ UNCHANGED <<pool, ready, task, rest>>

(* queue_ready is 0: the lock is released before the worker waits ... *)
Empty(w) ==
  /\ At(w, "test") /\ cur_wait = 0 /\ ~is_shutdown /\ value = 0
  /\ Unlocks("queue_lock", w) /\ Goes(w, "wait")
  /\ UNCHANGED <<pool, ready, task, rest>>

(* ... else it takes queue_ready, which another may have taken by then. *)
Surplus(w) ==
  /\ At(w, "test") /\ cur_wait = 0 /\ ~is_shutdown /\ value # 0 /\ Goes(w, "take")
  /\ UNCHANGED <<pool, ready, locks, task, rest>>

(* rt_sem_take(queue_ready), without and with the lock. *)
TakeReady(w, p, q) ==
  /\ At(w, p) /\ (w \in marked => value > 0) /\ Goes(w, q)
  /\ IF value > 0 THEN value' = value - 1 /\ UNCHANGED ready_wait
                  ELSE ready_wait' = Append(ready_wait, w) /\ UNCHANGED value
  /\ UNCHANGED <<pool, locks, task, rest>>

Wait(w) == TakeReady(w, "wait", "lock")
TakeSurplus(w) == TakeReady(w, "take", "test")

Shutdown(w) ==
  /\ At(w, "test") /\ is_shutdown
  /\ Unlocks("queue_lock", w) /\ Goes(w, "exit")
  /\ UNCHANGED <<pool, ready, task, rest>>

(* Mutant: the task stays in the queue. *)
LoadKeeps(w) ==
  /\ At(w, "test") /\ cur_wait # 0 /\ ~is_shutdown
  /\ IF queue = <<>> THEN Goes(w, "assert") /\ UNCHANGED <<queue, cur_wait, task, started, locks>>
     ELSE /\ cur_wait' = (cur_wait - 1) % UINT8 /\ UNCHANGED queue
          /\ task' = [task EXCEPT ![w] = Head(queue)] /\ started' = Append(started, Head(queue))
          /\ Unlocks("queue_lock", w) /\ Goes(w, "run")
  /\ UNCHANGED <<is_shutdown, ready, marked, added, dropped, reused>>

(* Mutant: the counter is not decreased. *)
LoadForgets(w) ==
  /\ At(w, "test") /\ cur_wait # 0 /\ ~is_shutdown /\ UNCHANGED cur_wait
  /\ IF queue = <<>> THEN Goes(w, "assert") /\ UNCHANGED <<queue, task, started, locks>>
     ELSE /\ queue' = Tail(queue)
          /\ task' = [task EXCEPT ![w] = Head(queue)] /\ started' = Append(started, Head(queue))
          /\ Unlocks("queue_lock", w) /\ Goes(w, "run")
  /\ UNCHANGED <<is_shutdown, ready, marked, added, dropped, reused>>

(* The assertion on queue_head, and the task is taken. *)
Load(w) ==
  /\ At(w, "test") /\ cur_wait # 0 /\ ~is_shutdown
  /\ IF queue = <<>> THEN Goes(w, "assert") /\ UNCHANGED <<queue, cur_wait, task, started, locks>>
     ELSE /\ cur_wait' = (cur_wait - 1) % UINT8 /\ queue' = Tail(queue)
          /\ task' = [task EXCEPT ![w] = Head(queue)] /\ started' = Append(started, Head(queue))
          /\ Unlocks("queue_lock", w) /\ Goes(w, "run")
  /\ UNCHANGED <<is_shutdown, ready, marked, added, dropped, reused>>

(* The task may use the lock of the users. *)
TaskLock(w) ==
  /\ At(w, "run") /\ (w \in marked => mutex["user_lock"].owner = none)
  /\ Locks("user_lock", w) /\ Goes(w, "sync")
  /\ UNCHANGED <<pool, ready, task, rest>>

TaskUnlock(w) ==
  /\ At(w, "sync") /\ Unlocks("user_lock", w) /\ Goes(w, "finish")
  /\ UNCHANGED <<pool, ready, task, rest>>

(* Mutant: a worker returns after one task. *)
FinishReturns(w) ==
  /\ At(w, "run") \/ At(w, "finish")
  /\ Goes(w, "exit") /\ task' = [task EXCEPT ![w] = 0]
  /\ UNCHANGED <<pool, ready, locks, rest>>

(* The task ends and is freed. *)
Finish(w) ==
  /\ At(w, "run") \/ At(w, "finish")
  /\ Goes(w, "lock") /\ task' = [task EXCEPT ![w] = 0]
  /\ UNCHANGED <<pool, ready, locks, rest>>

(* The idle thread frees a worker that has returned. *)
IdleFrees(w) ==
  /\ pc[w] = "exit" /\ w \notin marked /\ Goes(w, "freed")
  /\ UNCHANGED <<pool, ready, locks, task, rest>>

-----------------------------------------------------------------------------
Calls == AddTask \/ DelAll \/ UserLock \/ Destroy
Continues ==
  \/ AppendTask \/ PostReady \/ Clear \/ Reset \/ DelAllEnd \/ UserUnlock \/ DestroyEnd
  \/ \E w \in Worker : Create(w) \/ Delete(w) \/ Mark(w)
Works(w) ==
  \/ Lock(w) \/ Empty(w) \/ Surplus(w) \/ Wait(w) \/ TakeSurplus(w) \/ Shutdown(w)
  \/ Load(w) \/ TaskUnlock(w) \/ Finish(w)

Next ==
  \/ Calls \/ Continues
  \/ \E w \in Worker : Works(w) \/ TaskLock(w) \/ Stop(w) \/ IdleFrees(w)
Spec == Init /\ [][Next]_vars

(* A call that has begun goes on, and a worker that can run does; tasks end. *)
FairSpec == Spec /\ WF_vars(Continues) /\ \A w \in Worker : WF_vars(Works(w))

-----------------------------------------------------------------------------
TypeOK ==
  /\ MutexType /\ queue \in Seq(Task) /\ cur_wait \in 0..(UINT8 - 1)
  /\ is_shutdown \in BOOLEAN /\ value \in Nat /\ ready_wait \in Seq(Worker)
  /\ pc \in [Threads -> {"init", "none", "user", "append", "post", "clear", "reset",
                         "unlock", "delete", "end", "lock", "test", "wait", "take", "run",
                         "sync", "finish", "exit", "freed", "gone", "stray", "assert"}]
  /\ task \in [Worker -> 0..MaxTask] /\ marked \subseteq Worker /\ added \in 0..MaxTask
  /\ started \in Seq(Task) /\ dropped \subseteq Task /\ reused \in BOOLEAN
  /\ lent \in [Mutexes -> SUBSET Threads]

(* Variables keep their types and RT_ASSERT never fails: a worker that       *)
(* leaves the waiting loop finds a task, and destroy deletes threads that    *)
(* exist - unless del_all followed a block that was not its own any more, a  *)
(* worker returned and was freed before destroy came to it, or a worker      *)
(* still ran when destroy freed what it uses.                                *)
AssertionsHold ==
  /\ TypeOK
  /\ \A t \in Threads : pc[t] \in {"assert", "stray"} =>
       \/ reused
       \/ t = shell /\ \E w \in Worker : pc[w] = "freed"
       \/ t \in marked /\ pc[shell] = "end"

(* Every task that was accepted is started once, or deleted, or still        *)
(* queued, and tasks start in the order in which they were added, as long as *)
(* no worker runs on in a pool that was destroyed.                           *)
TasksConserved ==
  (\A w \in Worker : pc[w] # "stray") =>
    /\ \A k \in 1..added : Cardinality({i \in 1..Len(started) : started[i] = k})
                             + Cardinality({i \in 1..Len(queue) : queue[i] = k})
                             + (IF k \in dropped THEN 1 ELSE 0) = 1
    /\ \A i, j \in 1..Len(started) : i < j => started[i] < started[j]

(* Priority inheritance: who waits for a lock has lent its priority to the   *)
(* owner, until the owner releases this lock or another; and who holds no    *)
(* lock has its own priority.                                                *)
Inheritance ==
  /\ \A m \in Mutexes : \A t \in lent[m] : Waits(m, t) /\ prio[mutex[m].owner] <= prio[t]
  /\ \A t \in Threads : (~OwnsSome(t) /\ pc[t] \notin {"gone", "stray", "end"}) => prio[t] = Base[t]

(* A worker waits for queue_ready although it holds the lock of the queue.   *)
Stuck == \E w \in Worker : InReady(w) /\ Owns("queue_lock", w)

(* "Before thread block the queueLock will unlock" (thread_pool.c:202).      *)
BlocksUnlocked == ~Stuck

(* A task that is queued is started or deleted, so no wake-up is lost -      *)
(* unless a worker holds the lock for ever, the 8-bit counter has wrapped to *)
(* 0, del_all miscounted or the pool is being destroyed.                     *)
TaskServed ==
  \A k \in Task : Contains(queue, k) ~>
    (~Contains(queue, k) \/ Stuck \/ reused \/ Len(queue) >= UINT8 \/ is_shutdown)
=============================================================================
