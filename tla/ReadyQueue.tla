----------------------------- MODULE ReadyQueue -----------------------------
(***************************************************************************)
(* The ready queues of the RT-Thread scheduler, rt-thread/src/scheduler.c, *)
(* as the board builds it: RT_USING_SMP.  Queue c < RT_CPUS_NR belongs to  *)
(* CPU c and holds the threads bound to it; queue RT_CPUS_NR is the global *)
(* one.  A queue has a list of threads per priority and a bitmap of the    *)
(* priorities whose list is not empty.                                     *)
(***************************************************************************)
EXTENDS Integers, Sequences, SequencesExt

CONSTANTS
  RT_CPUS_NR,             \* number of CPUs, 2 on the board
  RT_THREAD_PRIORITY_MAX, \* number of priorities, 32; 0 is the highest
  AllThreads,             \* the threads
  bind_cpu,               \* the CPU a thread is bound to, RT_CPUS_NR for none
  priority                \* current_priority of a thread

ASSUME ReadyQueueAssumption ==
  /\ RT_CPUS_NR \in Nat \ {0} /\ RT_THREAD_PRIORITY_MAX \in Nat \ {0}
  /\ bind_cpu \in [AllThreads -> 0..RT_CPUS_NR]
  /\ priority \in [AllThreads -> 0..(RT_THREAD_PRIORITY_MAX - 1)]

Cpu == 0..(RT_CPUS_NR - 1)
Prio == 0..(RT_THREAD_PRIORITY_MAX - 1)
Global == RT_CPUS_NR

Queue == [table : [Prio -> Seq(AllThreads)], group : SUBSET Prio]
EmptyQueue == [table |-> [p \in Prio |-> <<>>], group |-> {}]

(* The list that a thread belongs to when it is ready. *)
ListOf(q, t) == q[bind_cpu[t]].table[priority[t]]

(* rt_schedule_insert_thread: the end of the list of its priority, in the    *)
(* queue of the CPU that it is bound to or in the global one.                *)
InsertThread(q, t) ==
  LET p == priority[t]  l == Append(ListOf(q, t), t) IN
  [q EXCEPT ![bind_cpu[t]] = [table |-> [@.table EXCEPT ![p] = l],
                              group |-> @.group \cup {p}]]

(* rt_schedule_remove_thread; a running thread is in no list, then only the  *)
(* bit is looked at.                                                         *)
RemoveThread(q, t) ==
  LET p == priority[t]  l == RemoveFirst(ListOf(q, t), t) IN
  [q EXCEPT ![bind_cpu[t]] = [table |-> [@.table EXCEPT ![p] = l],
                              group |-> IF l = <<>> THEN @.group \ {p} ELSE @.group]]

(* Is there a thread that CPU c may run? *)
Ready(q, c) == q[Global].group # {} \/ q[c].group # {}

(* __rt_ffs(group) - 1: the best priority of a queue; of an empty queue it   *)
(* is the largest unsigned number.                                           *)
Best(g) == IF g = {} THEN RT_THREAD_PRIORITY_MAX ELSE Min(g)

(* _get_highest_priority_thread: the queue of the CPU wins a tie. *)
Highest(q, c) ==
  LET g == Best(q[Global].group)  l == Best(q[c].group) IN
  IF g < l THEN Head(q[Global].table[g]) ELSE Head(q[c].table[l])
=============================================================================
