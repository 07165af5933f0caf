---------------------------- MODULE KernelMutex -----------------------------
(***************************************************************************)
(* The mutex of RT-Thread, rt-thread/src/ipc.c: a FIFO of waiters, direct  *)
(* hand-over and priority inheritance.  Smaller numbers are better         *)
(* priorities.  The field value of the C structure is 1 exactly when there *)
(* is no owner, so it is left out.                                         *)
(***************************************************************************)
EXTENDS Integers, Sequences, SequencesExt

CONSTANTS
  Threads,  \* the threads that use mutexes
  Mutexes,  \* the mutexes
  Base,     \* the priority a thread is created with
  none      \* no owner

ASSUME KernelMutexAssumption == Base \in [Threads -> Nat] /\ none \notin Threads

VARIABLES
  mutex, \* owner, original_priority, hold and suspend_thread of a mutex
  prio   \* current_priority of a thread

(* rt_mutex_create; without an owner original_priority is 0xff. *)
Unowned == [owner |-> none, original_priority |-> 255, hold |-> 0, wait |-> <<>>]

MutexInit == mutex = [m \in Mutexes |-> Unowned] /\ prio = Base

Waits(m, t) == Contains(mutex[m].wait, t)
Owns(m, t) == mutex[m].owner = t
OwnsSome(t) == \E m \in Mutexes : Owns(m, t)

(* Mutant: the owner keeps its priority. *)
TakeNoBoost(m, t) ==
  LET x == mutex[m]  o == x.owner IN
  /\ mutex' = [mutex EXCEPT ![m] =
       IF o = t THEN [x EXCEPT !.hold = @ + 1]
       ELSE IF o = none THEN [x EXCEPT !.owner = t, !.original_priority = prio[t], !.hold = @ + 1]
       ELSE [x EXCEPT !.wait = Append(@, t)]]
  /\ UNCHANGED prio

(* rt_mutex_take with RT_WAITING_FOREVER: a thread that has to wait lends    *)
(* the owner its priority, and owns the mutex when it is resumed.            *)
rt_mutex_take(m, t) ==
  LET x == mutex[m]  o == x.owner IN
  /\ mutex' = [mutex EXCEPT ![m] =
       IF o = t THEN [x EXCEPT !.hold = @ + 1]
       ELSE IF o = none THEN [x EXCEPT !.owner = t, !.original_priority = prio[t], !.hold = @ + 1]
       ELSE [x EXCEPT !.wait = Append(@, t)]]
  /\ prio' = IF o \notin {t, none} /\ prio[t] < prio[o] THEN [prio EXCEPT ![o] = prio[t]] ELSE prio

(* rt_mutex_release: only by the owner; the last release gives the lent      *)
(* priority back and hands the mutex to the first waiter.                    *)
rt_mutex_release(m, t) ==
  LET x == mutex[m] IN
  IF x.owner # t THEN UNCHANGED <<mutex, prio>>
  ELSE /\ mutex' = [mutex EXCEPT ![m] =
            IF x.hold > 1 THEN [x EXCEPT !.hold = @ - 1]
            ELSE IF x.wait = <<>> THEN Unowned
            ELSE [owner |-> Head(x.wait), original_priority |-> prio[Head(x.wait)],
                  hold |-> 1, wait |-> Tail(x.wait)]]
       /\ prio' = IF x.hold > 1 THEN prio ELSE [prio EXCEPT ![t] = x.original_priority]

MutexType ==
  /\ mutex \in [Mutexes -> [owner : Threads \cup {none}, original_priority : Nat,
                            hold : Nat, wait : Seq(Threads)]]
  /\ prio \in [Threads -> Nat]
=============================================================================
