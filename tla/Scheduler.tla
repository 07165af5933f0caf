----------------------------- MODULE Scheduler ------------------------------
(***************************************************************************)
(* The SMP scheduler of RT-Thread as the board runs it: scheduler.c,       *)
(* thread.c, cpu.c, clock.c, idle.c, the semaphore of ipc.c that guards    *)
(* the heap, and the trap entry of libcpu/risc-v/k210.                     *)
(*                                                                         *)
(* rt_hw_interrupt_disable is rt_cpus_lock: it masks the interrupts of the *)
(* CPU and takes one spin lock for all CPUs, so a section between it and   *)
(* rt_hw_interrupt_enable is one step here.  What is left to interleave is *)
(* what the kernel does between two sections: the window between a         *)
(* suspension and rt_schedule, a trap that waits for the lock, the clock's *)
(* unlocked update of stat, the hand-over of the lock through a context    *)
(* switch, and the wait for the second spin lock, _rt_critical_lock.       *)
(***************************************************************************)
EXTENDS ReadyQueue, FiniteSets

CONSTANTS
  Thread,     \* the threads of the application
  main,       \* the thread that rt_application_init starts
  idle,       \* the idle thread of every CPU
  none        \* no thread

ASSUME SchedulerAssumption ==
  /\ AllThreads = Thread \cup {idle[c] : c \in Cpu}
  /\ main \in Thread /\ bind_cpu[main] = Global
  /\ none \notin AllThreads
  /\ \A c \in Cpu : /\ idle[c] \notin Thread /\ bind_cpu[idle[c]] = c
                    /\ priority[idle[c]] = RT_THREAD_PRIORITY_MAX - 1
  /\ \A c, d \in Cpu : idle[c] = idle[d] => c = d

VARIABLES
  stat,    \* state of a thread, without its flags
  yield,   \* RT_THREAD_STAT_YIELD of a thread
  oncpu,   \* the CPU of a thread, DETACHED for none
  queue,   \* rt_thread_priority_table and the tables of the CPUs
  current, \* current_thread of a CPU
  flag,    \* irq_switch_flag of a CPU
  ipi,     \* is an inter-processor interrupt pending?
  trap,    \* where a CPU is in trap_entry
  reg,     \* stat as the clock interrupt of a CPU has read it
  lock,    \* the CPU that holds _cpus_lock, Free for none
  nest,    \* cpus_lock_nest of a thread
  snest,   \* scheduler_lock_nest of a thread
  crit,    \* the thread that holds _rt_critical_lock
  pc,      \* what a thread does
  sched,   \* "call": next is rt_schedule; "in": switched out inside of it
  value,   \* value of heap_sem
  waiting, \* suspend_thread of heap_sem, a FIFO
  asleep,  \* threads whose thread_timer runs
  defunct, \* rt_thread_defunct
  frees,   \* blocks that the idle thread has still to free
  acct,    \* threads with an account of cpu_usage.c
  hung,    \* is a CPU lost in the schedule hook?
  raced,   \* has the clock written back a stat that had changed?
  broken   \* has a thread gone on without the semaphore it waited for?

DETACHED == RT_CPUS_NR
Free == RT_CPUS_NR

locks == <<lock, nest, snest, crit>>
heap == <<value, waiting>>
run == <<stat, yield, oncpu, queue, current, ipi, acct>>
irqs == <<flag, trap, reg>>
dead == <<defunct, frees>>
ghost == <<hung, raced, broken>>
vars == <<run, irqs, locks, pc, sched, heap, asleep, dead, ghost>>

-----------------------------------------------------------------------------
(* rt_thread_idle_init and rt_application_init; no CPU has a thread yet. *)
Init ==
  /\ stat = [t \in AllThreads |-> IF t \in Thread \ {main} THEN "INIT" ELSE "READY"]
  /\ yield = [t \in AllThreads |-> FALSE]
  /\ oncpu = [t \in AllThreads |-> DETACHED]
  /\ queue = [b \in 0..RT_CPUS_NR |->
                LET t == IF b = Global THEN main ELSE idle[b] IN
                [table |-> [EmptyQueue.table EXCEPT ![priority[t]] = <<t>>],
                 group |-> {priority[t]}]]
  /\ current = [c \in Cpu |-> none]
  /\ flag = [c \in Cpu |-> 0] /\ ipi = [c \in Cpu |-> FALSE]
  /\ trap = [c \in Cpu |-> "no"] /\ reg = [c \in Cpu |-> "none"]
  /\ lock = Free /\ crit = none
  /\ nest = [t \in AllThreads |-> 0] /\ snest = [t \in AllThreads |-> 0]
  /\ pc = [t \in AllThreads |-> "run"] /\ sched = [t \in AllThreads |-> "no"]
  /\ value = 1 /\ waiting = <<>> /\ asleep = {} /\ defunct = <<>> /\ frees = 0
  /\ acct = {} /\ hung = FALSE /\ raced = FALSE /\ broken = FALSE

(* Mutant: only a bound thread's CPU is told. *)
KickBound(c, t) == [d \in Cpu |-> ipi[d] \/ (d # c /\ bind_cpu[t] = d)]

(* rt_hw_ipi_send of rt_schedule_insert_thread: the CPUs that may run t,     *)
(* but the one that inserts it.                                              *)
Kick(c, t) ==
  [d \in Cpu |-> ipi[d] \/ (d # c /\ bind_cpu[t] \in {d, Global})]

(* Mutant: the resume of a thread that has not left its CPU yet is dropped.  *)
ResumedLost(c, t) ==
  IF oncpu[t] # DETACHED THEN UNCHANGED <<stat, queue, ipi>>
  ELSE /\ stat' = [stat EXCEPT ![t] = "READY"]
       /\ queue' = InsertThread(queue, t) /\ ipi' = Kick(c, t)

(* Mutant: a thread that has not left its CPU yet is queued all the same. *)
ResumedQueues(c, t) ==
  /\ stat' = [stat EXCEPT ![t] = "READY"]
  /\ queue' = InsertThread(queue, t) /\ ipi' = Kick(c, t)

(* rt_thread_resume and rt_schedule_insert_thread on CPU c: a thread that    *)
(* has not left its CPU just goes on.                                        *)
Resumed(c, t) ==
  IF oncpu[t] # DETACHED
  THEN stat' = [stat EXCEPT ![t] = "RUNNING"] /\ UNCHANGED <<queue, ipi>>
  ELSE /\ stat' = [stat EXCEPT ![t] = "READY"]
       /\ queue' = InsertThread(queue, t) /\ ipi' = Kick(c, t)

(* rt_thread_suspend of the current thread; it refuses one that has gone on  *)
(* although it is suspended (broken).                                        *)
Suspended(t) ==
  IF stat[t] = "SUSPEND" THEN UNCHANGED <<stat, queue>>
  ELSE stat' = [stat EXCEPT ![t] = "SUSPEND"] /\ queue' = RemoveThread(queue, t)

-----------------------------------------------------------------------------
(* The switch, common to rt_schedule and rt_scheduler_do_irq_switch. *)

(* Does the current thread, in state s, stay?  On a tie it does, unless its  *)
(* slice is over.                                                            *)
Stays(c, s) ==
  LET t == current[c]  u == Highest(queue, c) IN
  \/ ~Ready(queue, c)
  \/ /\ s = "RUNNING"
     /\ priority[t] < priority[u] \/ (priority[t] = priority[u] /\ ~yield[t])

(* schedule_hook of cpu_usage.c, with the lock held, allocates an account    *)
(* for each of the two threads that has none: rt_malloc returns if heap_sem  *)
(* is free.                                                                  *)
HookReturns(c) == {current[c], Highest(queue, c)} \subseteq acct \/ value > 0

(* A thread that still runs goes back to the queue.  The new one finds the   *)
(* lock taken; rt_cpus_lock_status_restore frees it when the new thread was  *)
(* preempted outside of the kernel, else it frees it itself (Unlock).        *)
Switch(c, s) ==
  LET t == current[c]  u == Highest(queue, c)  back == s = "RUNNING" IN
  /\ HookReturns(c) /\ acct' = acct \cup {t, u}
  /\ queue' = RemoveThread(IF back THEN InsertThread(queue, t) ELSE queue, u)
  /\ stat' = [stat EXCEPT ![t] = IF back THEN "READY" ELSE s, ![u] = "RUNNING"]
  /\ yield' = [yield EXCEPT ![t] = @ /\ s = "SUSPEND"]
  /\ oncpu' = [oncpu EXCEPT ![t] = DETACHED, ![u] = c]
  /\ current' = [current EXCEPT ![c] = u]
  /\ ipi' = IF back THEN Kick(c, t) ELSE ipi
  /\ lock' = IF nest[u] = 0 THEN Free ELSE c

(* rt_system_scheduler_start; the second CPU is started by the main thread,  *)
(* so after the first, and takes the lock before.                            *)
Boot(c) ==
  /\ current[c] = none /\ lock = Free /\ (c # 0 => current[0] # none)
  /\ LET u == Highest(queue, c) IN
       /\ queue' = RemoveThread(queue, u) /\ stat' = [stat EXCEPT ![u] = "RUNNING"]
       /\ oncpu' = [oncpu EXCEPT ![u] = c] /\ current' = [current EXCEPT ![c] = u]
       /\ lock' = IF nest[u] = 0 THEN Free ELSE c
  /\ UNCHANGED <<yield, ipi, acct, irqs, nest, snest, crit, pc, sched, heap, asleep, dead, ghost>>

(* CPU c runs its thread, not an interrupt, and does not hold the lock.      *)
Runs(c) == current[c] # none /\ trap[c] = "no" /\ lock # c

(* rt_schedule called by a thread. *)
Schedule(c) ==
  LET t == current[c] IN
  /\ Runs(c) /\ sched[t] = "call" /\ lock = Free
  /\ IF snest[t] # 0 \/ Stays(c, stat[t])
     THEN /\ sched' = [sched EXCEPT ![t] = "no"]
          /\ broken' = (broken \/ stat[t] = "SUSPEND")
          /\ UNCHANGED <<run, locks>>
     ELSE /\ Switch(c, stat[t])
          /\ nest' = [nest EXCEPT ![t] = 1] /\ snest' = [snest EXCEPT ![t] = 1]
          /\ sched' = [sched EXCEPT ![t] = "in"]
          /\ UNCHANGED <<crit, broken>>
  /\ UNCHANGED <<irqs, pc, heap, asleep, dead, hung, raced>>

(* The end of rt_schedule in a thread that was switched out inside of it. *)
Unlock(c) ==
  LET t == current[c] IN
  /\ lock = c /\ trap[c] = "no" /\ sched[t] = "in"
  /\ lock' = Free /\ sched' = [sched EXCEPT ![t] = "no"]
  /\ nest' = [nest EXCEPT ![t] = @ - 1] /\ snest' = [snest EXCEPT ![t] = @ - 1]
  /\ UNCHANGED <<run, irqs, crit, pc, heap, asleep, dead, ghost>>

-----------------------------------------------------------------------------
(* Interrupts.  They are masked while the CPU holds _cpus_lock or spins for  *)
(* _rt_critical_lock.                                                        *)

(* trap_entry up to the handler: rt_interrupt_enter waits for _cpus_lock     *)
(* with the interrupts masked.  Entry and wait are one step with the         *)
(* handler's first: what sees a CPU wait here, the idle thread that waits    *)
(* for its _rt_critical_lock (Embraced), sees it at the trap's other waits.  *)
Trap(c) == Runs(c) /\ pc[current[c]] # "spin" /\ lock = Free

(* handle_trap, IRQ_M_SOFT: rt_schedule in an interrupt sets the flag.       *)
Ipi(c) ==
  /\ Trap(c) /\ ipi[c]
  /\ ipi' = [ipi EXCEPT ![c] = FALSE] /\ flag' = [flag EXCEPT ![c] = 1]
  /\ trap' = [trap EXCEPT ![c] = "switch"]
  /\ UNCHANGED <<stat, yield, oncpu, queue, current, acct, reg, locks, pc, sched, heap,
                 asleep, dead, ghost>>

(* rt_tick_increase when the slice ends: stat |= YIELD, a load ...           *)
TickLoad(c) ==
  /\ Trap(c)
  /\ reg' = [reg EXCEPT ![c] = stat[current[c]]]
  /\ trap' = [trap EXCEPT ![c] = "store"]
  /\ UNCHANGED <<run, flag, locks, pc, sched, heap, asleep, dead, ghost>>

(* ... and a store, then rt_thread_yield, which sets the flag. *)
TickStore(c) ==
  LET t == current[c] IN
  /\ trap[c] = "store"
  /\ stat' = [stat EXCEPT ![t] = reg[c]] /\ yield' = [yield EXCEPT ![t] = TRUE]
  /\ raced' = (raced \/ reg[c] # stat[t])
  /\ reg' = [reg EXCEPT ![c] = "none"] /\ flag' = [flag EXCEPT ![c] = 1]
  /\ trap' = [trap EXCEPT ![c] = "timers"]
  /\ UNCHANGED <<oncpu, queue, current, ipi, acct, locks, pc, sched, heap, asleep, dead,
                 hung, broken>>

(* rt_tick_increase is over: the slice ended, or it lasts and nothing but    *)
(* the count was changed, in a trap that begins here.                        *)
Ticked(c) == trap[c] = "timers" \/ Trap(c)

(* rt_timer_check when no timer is due. *)
NoTimer(c) ==
  /\ Ticked(c) /\ lock = Free /\ trap' = [trap EXCEPT ![c] = "switch"]
  /\ UNCHANGED <<run, flag, reg, locks, pc, sched, heap, asleep, dead, ghost>>

(* Else it takes the lock, which the interrupted thread counts ...           *)
Timers(c) ==
  LET t == current[c] IN
  /\ Ticked(c) /\ asleep # {} /\ lock = Free /\ lock' = c /\ trap' = [trap EXCEPT ![c] = "check"]
  /\ nest' = [nest EXCEPT ![t] = @ + 1] /\ snest' = [snest EXCEPT ![t] = @ + 1]
  /\ UNCHANGED <<run, flag, reg, crit, pc, sched, heap, asleep, dead, ghost>>

(* ... calls rt_thread_timeout for one timer after the other, which takes    *)
(* the thread off the list it waits in and sets the flag ...                 *)
Expire(c, t) ==
  /\ trap[c] = "check" /\ t \in asleep /\ asleep' = asleep \ {t}
  /\ waiting' = RemoveFirst(waiting, t)
  /\ Resumed(c, t) /\ flag' = [flag EXCEPT ![c] = 1]
  /\ UNCHANGED <<yield, oncpu, current, acct, trap, reg, locks, pc, sched, value, dead, ghost>>

(* ... and frees the lock. *)
TimersEnd(c) ==
  LET t == current[c] IN
  /\ trap[c] = "check" /\ lock' = Free /\ trap' = [trap EXCEPT ![c] = "switch"]
  /\ nest' = [nest EXCEPT ![t] = @ - 1] /\ snest' = [snest EXCEPT ![t] = @ - 1]
  /\ UNCHANGED <<run, flag, reg, crit, pc, sched, heap, asleep, dead, ghost>>

(* Mutant: the interrupted thread keeps the count of the lock that its       *)
(* successor frees.                                                          *)
IrqSwitchCounts(c) ==
  LET t == current[c] IN
  /\ trap[c] = "switch" /\ lock = Free /\ trap' = [trap EXCEPT ![c] = "no"]
  /\ IF flag[c] = 1 /\ snest[t] = 0
     THEN /\ flag' = [flag EXCEPT ![c] = 0]
          /\ IF Stays(c, stat[t]) THEN UNCHANGED <<run, locks>>
             ELSE Switch(c, stat[t]) /\ nest' = [nest EXCEPT ![t] = 1] /\ UNCHANGED <<snest, crit>>
     ELSE UNCHANGED <<run, flag, locks>>
  /\ UNCHANGED <<reg, pc, sched, heap, asleep, dead, ghost>>

(* rt_scheduler_do_irq_switch at the end of the trap; in a critical section  *)
(* the flag is kept.  A thread switched here has left the lock's counts.     *)
IrqSwitch(c) ==
  LET t == current[c] IN
  /\ trap[c] = "switch" /\ lock = Free /\ trap' = [trap EXCEPT ![c] = "no"]
  /\ IF flag[c] = 1 /\ snest[t] = 0
     THEN /\ flag' = [flag EXCEPT ![c] = 0]
          /\ IF Stays(c, stat[t]) THEN UNCHANGED <<run, locks>>
             ELSE Switch(c, stat[t]) /\ UNCHANGED <<nest, snest, crit>>
     ELSE UNCHANGED <<run, flag, locks>>
  /\ UNCHANGED <<reg, pc, sched, heap, asleep, dead, ghost>>

-----------------------------------------------------------------------------
(* What threads do.  An idle thread only reaps and frees. *)

Works(c, p) == Runs(c) /\ sched[current[c]] = "no" /\ pc[current[c]] = p
User(c) == Works(c, "run") /\ current[c] \in Thread
Calls(t) == sched' = [sched EXCEPT ![t] = "call"]
Goes(t, p) == pc' = [pc EXCEPT ![t] = p]

(* rt_sem_take(&heap_sem) in rt_malloc and rt_free.  A thread that has gone  *)
(* on while it waits is linked twice if it has to wait again: that is not    *)
(* followed.                                                                 *)
Take(c) ==
  LET t == current[c] IN
  /\ User(c) \/ Works(c, "free")
  /\ lock = Free /\ Goes(t, "heap")
  /\ IF value > 0
     THEN value' = value - 1 /\ UNCHANGED <<stat, queue, waiting, sched>>
     ELSE /\ ~Contains(waiting, t) /\ waiting' = Append(waiting, t)
          /\ Suspended(t) /\ Calls(t) /\ UNCHANGED value
  /\ UNCHANGED <<yield, oncpu, current, acct, ipi, irqs, locks, asleep, dead, ghost>>

(* Mutant: the value is increased although the semaphore is handed over. *)
ReleaseTwice(c) ==
  LET t == current[c] IN
  /\ Works(c, "heap") /\ lock = Free
  /\ frees' = IF t \in Thread THEN frees ELSE frees - 1
  /\ Goes(t, IF t \notin Thread /\ frees > 1 THEN "free" ELSE "run")
  /\ value' = value + 1
  /\ IF waiting # <<>>
     THEN /\ Resumed(c, Head(waiting)) /\ waiting' = Tail(waiting) /\ Calls(t)
          /\ asleep' = asleep \ {Head(waiting)}
     ELSE UNCHANGED <<stat, queue, ipi, waiting, sched, asleep>>
  /\ UNCHANGED <<yield, oncpu, current, acct, irqs, locks, defunct, ghost>>

(* rt_sem_release(&heap_sem): the first waiter gets it, or it is free.  The  *)
(* idle thread frees the stack of a dead thread and then its object.         *)
Release(c) ==
  LET t == current[c] IN
  /\ Works(c, "heap") /\ lock = Free
  /\ frees' = IF t \in Thread THEN frees ELSE frees - 1
  /\ Goes(t, IF t \notin Thread /\ frees > 1 THEN "free" ELSE "run")
  /\ IF waiting # <<>>
     THEN /\ Resumed(c, Head(waiting)) /\ waiting' = Tail(waiting) /\ Calls(t)
          /\ asleep' = asleep \ {Head(waiting)} /\ UNCHANGED value
     ELSE value' = value + 1 /\ UNCHANGED <<stat, queue, ipi, waiting, sched, asleep>>
  /\ UNCHANGED <<yield, oncpu, current, acct, irqs, locks, defunct, ghost>>

(* rt_thread_sleep. *)
Sleep(c) ==
  LET t == current[c] IN
  /\ User(c) /\ lock = Free
  /\ Suspended(t) /\ asleep' = asleep \cup {t} /\ Calls(t)
  /\ UNCHANGED <<yield, oncpu, current, acct, ipi, irqs, locks, pc, heap, dead, ghost>>

(* rt_thread_yield. *)
Yield(c) ==
  /\ User(c) /\ Calls(current[c])
  /\ UNCHANGED <<run, irqs, locks, pc, heap, asleep, dead, ghost>>

(* rt_thread_startup of a thread that was created. *)
Startup(c, u) ==
  /\ User(c) /\ lock = Free /\ stat[u] = "INIT"
  /\ Resumed(c, u) /\ Calls(current[c])
  /\ UNCHANGED <<yield, oncpu, current, acct, irqs, locks, pc, heap, asleep, dead, ghost>>

(* rt_thread_exit: it calls rt_schedule inside the section and never returns. *)
(* rt_schedule_remove_thread finds a running thread in no list (OnePlace),    *)
(* unless it has gone on while it waits.  An exit with no other thread to     *)
(* run, which would return, is not followed.                                  *)
Exit(c) ==
  LET t == current[c] IN
  /\ User(c) /\ lock = Free /\ ~Stays(c, "CLOSE")
  /\ Switch(c, "CLOSE")
  /\ nest' = [nest EXCEPT ![t] = 2] /\ snest' = [snest EXCEPT ![t] = 1]
  /\ sched' = [sched EXCEPT ![t] = "in"] /\ defunct' = <<t>> \o defunct
  /\ waiting' = RemoveFirst(waiting, t) /\ asleep' = asleep \ {t}
  /\ UNCHANGED <<irqs, crit, pc, value, frees, ghost>>

(* rt_enter_critical, with the interrupts masked while it waits for the lock *)
Enter(c) ==
  LET t == current[c] IN
  /\ User(c) \/ Works(c, "spin")
  /\ IF crit # none THEN pc[t] = "run" /\ Goes(t, "spin") /\ UNCHANGED <<snest, crit>>
     ELSE crit' = t /\ snest' = [snest EXCEPT ![t] = @ + 1] /\ Goes(t, "crit")
  /\ UNCHANGED <<run, irqs, lock, nest, sched, heap, asleep, dead, ghost>>

(* Mutant: rt_exit_critical returns before it frees the lock. *)
LeaveEarly(c) ==
  /\ Works(c, "crit") /\ Goes(current[c], "run")
  /\ UNCHANGED <<run, irqs, locks, sched, heap, asleep, dead, ghost>>

(* rt_exit_critical. *)
Leave(c) ==
  LET t == current[c] IN
  /\ Works(c, "crit") /\ crit' = none /\ snest' = [snest EXCEPT ![t] = @ - 1]
  /\ Goes(t, "run") /\ Calls(t)
  /\ UNCHANGED <<run, irqs, lock, nest, heap, asleep, dead, ghost>>

(* A switch whose hook finds heap_sem taken: rt_sem_take suspends the        *)
(* current thread and calls rt_schedule, which starts the same switch, and   *)
(* so the same hook, again, and so on.  The CPU keeps the lock until its     *)
(* stack is full; what comes then is not followed.                           *)
Hang(c) ==
  LET t == current[c] IN
  /\ \/ Runs(c) /\ sched[t] = "call" /\ ~Stays(c, stat[t])
     \/ trap[c] = "switch" /\ flag[c] = 1 /\ ~Stays(c, stat[t])
     \/ User(c) /\ ~Stays(c, "CLOSE")
  /\ lock = Free /\ snest[t] = 0 /\ ~HookReturns(c) /\ hung' = TRUE
  /\ UNCHANGED <<run, irqs, locks, pc, sched, heap, asleep, dead, raced, broken>>

-----------------------------------------------------------------------------
(* rt_thread_idle_excute, on the first CPU: the idle thread takes a dead     *)
(* thread off the list, holding _cpus_lock ...                               *)
Reap(c) ==
  LET t == current[c] IN
  /\ c = 0 /\ Works(c, "run") /\ t = idle[0] /\ lock = Free /\ defunct # <<>>
  /\ defunct' = Tail(defunct) /\ lock' = c /\ Goes(t, "reap")
  /\ nest' = [nest EXCEPT ![t] = 1] /\ snest' = [snest EXCEPT ![t] = 1]
  /\ UNCHANGED <<run, irqs, crit, sched, heap, asleep, frees, ghost>>

(* ... waits for _rt_critical_lock, calls clean_up_call of cpu_usage.c and   *)
(* leaves both sections.  clean_up_call frees memory: when heap_sem is not   *)
(* free rt_sem_take suspends the idle thread and rt_schedule, with the       *)
(* scheduler locked, does nothing; rt_free goes on and wakes the first       *)
(* waiter.                                                                   *)
Clean(c) ==
  LET t == current[c]  w == Append(waiting, t)  h == Head(w) IN
  /\ lock = c /\ trap[c] = "no" /\ pc[t] = "reap" /\ crit = none
  /\ IF value > 0 THEN UNCHANGED <<stat, queue, ipi, waiting, asleep>>
     ELSE /\ ~Contains(waiting, t) /\ waiting' = Tail(w) /\ asleep' = asleep \ {h}
          /\ IF oncpu[h] # DETACHED
             THEN stat' = [stat EXCEPT ![t] = "SUSPEND", ![h] = "RUNNING"] /\ UNCHANGED <<queue, ipi>>
             ELSE /\ stat' = [stat EXCEPT ![t] = "SUSPEND", ![h] = "READY"]
                  /\ queue' = InsertThread(queue, h) /\ ipi' = Kick(c, h)
  /\ broken' = (broken \/ value = 0)
  /\ lock' = Free /\ Goes(t, "free") /\ frees' = 2
  /\ nest' = [nest EXCEPT ![t] = 0] /\ snest' = [snest EXCEPT ![t] = 0]
  /\ UNCHANGED <<yield, oncpu, current, acct, irqs, crit, sched, value, defunct, hung, raced>>

-----------------------------------------------------------------------------
Kernel(c) ==
  \/ Boot(c) \/ Schedule(c) \/ Unlock(c) \/ Ipi(c) \/ TickLoad(c) \/ TickStore(c)
  \/ NoTimer(c) \/ Timers(c) \/ (\E t \in asleep : Expire(c, t)) \/ TimersEnd(c)
  \/ IrqSwitch(c) \/ Hang(c) \/ Reap(c) \/ Clean(c)

Program(c) ==
  \/ Take(c) \/ Release(c) \/ Sleep(c) \/ Yield(c) \/ Exit(c) \/ Enter(c) \/ Leave(c)
  \/ \E u \in AllThreads : Startup(c, u)

Next == ~hung /\ \E c \in Cpu : Kernel(c) \/ Program(c)
Spec == Init /\ [][Next]_vars

-----------------------------------------------------------------------------
ThreadsOK ==
  /\ stat \in [AllThreads -> {"INIT", "READY", "RUNNING", "SUSPEND", "CLOSE"}]
  /\ yield \in [AllThreads -> BOOLEAN] /\ oncpu \in [AllThreads -> 0..RT_CPUS_NR]
  /\ nest \in [AllThreads -> 0..2] /\ snest \in [AllThreads -> 0..2]
  /\ pc \in [AllThreads -> {"run", "heap", "spin", "crit", "reap", "free"}]
  /\ sched \in [AllThreads -> {"no", "call", "in"}]

CpusOK ==
  /\ current \in [Cpu -> AllThreads \cup {none}]
  /\ flag \in [Cpu -> 0..1] /\ ipi \in [Cpu -> BOOLEAN]
  /\ trap \in [Cpu -> {"no", "store", "timers", "check", "switch"}]
  /\ reg \in [Cpu -> {"none", "RUNNING", "SUSPEND"}]
  /\ lock \in 0..RT_CPUS_NR /\ crit \in AllThreads \cup {none}
  /\ raced \in BOOLEAN /\ broken \in BOOLEAN

HeapOK ==
  /\ value \in Nat /\ waiting \in Seq(AllThreads) /\ asleep \subseteq AllThreads
  /\ defunct \in Seq(AllThreads) /\ frees \in 0..2

HookOK == acct \subseteq AllThreads /\ hung \in BOOLEAN

TypeOK == ThreadsOK /\ CpusOK /\ HeapOK /\ HookOK /\ queue \in [0..RT_CPUS_NR -> Queue]

(* Variables keep their types and the lock survives the context switch: a    *)
(* CPU holds it exactly while the thread it runs counts it, and a thread's   *)
(* scheduler lock counts the lock and the critical section and nothing else. *)
LockHandedOver ==
  /\ TypeOK
  /\ \A c \in Cpu : (current[c] # none /\ lock = c) <=> (current[c] # none /\ nest[current[c]] > 0)
  /\ \A t \in AllThreads : snest[t] = (IF nest[t] > 0 THEN 1 ELSE 0) + (IF crit = t THEN 1 ELSE 0)

(* A thread is at one place: ready in one list once, or on the one CPU that  *)
(* runs it; and the bitmap says which lists are not empty.                   *)
OnePlace ==
  /\ \A t \in AllThreads : /\ stat[t] = "READY" <=> Contains(ListOf(queue, t), t)
                           /\ stat[t] = "RUNNING" => oncpu[t] # DETACHED
                           /\ \A c \in Cpu : oncpu[t] = c <=> current[c] = t
  /\ \A b \in 0..RT_CPUS_NR, p \in Prio :
       LET l == queue[b].table[p] IN
       /\ p \in queue[b].group <=> l # <<>>
       /\ \A i, j \in 1..Len(l) : /\ bind_cpu[l[i]] = b /\ priority[l[i]] = p
                                  /\ l[i] = l[j] => i = j

(* No wake-up is lost: a suspended thread waits for the heap or for its      *)
(* timer - unless the clock has written an old stat back.                    *)
NoLostResume ==
  \A t \in AllThreads :
    stat[t] = "SUSPEND" => \/ raced \/ t \in asleep
                           \/ Contains(waiting, t)

InHeap(t) == pc[t] = "heap" /\ sched[t] # "call" /\ stat[t] # "SUSPEND"

(* One thread at a time is in the heap - unless the idle thread had to wait  *)
(* for it with nothing else to run.                                          *)
HeapExclusive ==
  broken \/ raced \/ (value + Cardinality({t \in AllThreads : InHeap(t)}) <= 1)

(* CPU c is settled: no interrupt is pending or handled, and its thread is   *)
(* neither in the kernel nor in a critical section.                          *)
Settled(c) ==
  Runs(c) /\ ~ipi[c] /\ snest[current[c]] = 0 /\ sched[current[c]] = "no"

(* Preemption: no ready thread that a settled CPU could run has a better     *)
(* priority than the thread it runs.                                         *)
NoInversion ==
  \A c \in Cpu, t \in AllThreads :
    (Settled(c) /\ stat[t] = "READY" /\ bind_cpu[t] \in {c, Global})
      => broken \/ priority[current[c]] <= priority[t]

(* The idle thread waits for _rt_critical_lock with _cpus_lock held, while   *)
(* the thread that holds the other one is in a trap that waits for this one. *)
Embraced ==
  /\ crit # none /\ \E c \in Cpu : lock = c /\ pc[current[c]] = "reap"
  /\ \E d \in Cpu : current[d] = crit /\ trap[d] \in {"timers", "switch"}

(* The kernel stops in two ways and in no other, and for good: a CPU is lost *)
(* in the schedule hook, or the two spin locks are taken in opposite orders. *)
StopsOnlySo == ENABLED Next <=> ~(hung \/ Embraced)
=============================================================================
