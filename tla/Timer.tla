------------------------------- MODULE Timer --------------------------------
(***************************************************************************)
(* The timers of the kernel, rt-thread/src/timer.c and clock.c: a list     *)
(* sorted by the tick at which a timer expires.  Ticks are unsigned        *)
(* numbers that wrap (32 bits, 49 days at 1 kHz), and are compared by      *)
(* their difference.                                                       *)
(*                                                                         *)
(* The system runs one timer per thread, one-shot, started and stopped by  *)
(* rt_thread_sleep, rt_sem_take, rt_thread_resume ... which hold           *)
(* _cpus_lock: every operation is one step.  A timer is active exactly     *)
(* while it is in the list.  RT_TIMER_SKIP_LIST_LEVEL is 1, and the branch *)
(* of rt_timer_check that starts a periodic timer anew is not taken.       *)
(*                                                                         *)
(* The tick is read and counted without the lock.  A CPU 1 that reads it   *)
(* before it waits for the lock finds the head of the list expired or      *)
(* leaves the list alone, and a start is placed where it reads the tick:   *)
(* CPU 0 cannot look at the timers before the lock is released.            *)
(***************************************************************************)
EXTENDS Integers, Sequences, SequencesExt

CONSTANTS
  Timer,   \* the timers
  RANGE    \* 2^32, the number of ticks before the counter wraps

(* A timer that is one tick late is late by less than half of the range. *)
ASSUME TimerAssumption == RANGE \in Nat /\ RANGE >= 5

RT_TICK_MAX == RANGE - 1
Half == RT_TICK_MAX \div 2
Tick == 0..(RANGE - 1)
Delay == 0..(Half - 1)     \* RT_ASSERT(timer->init_tick < RT_TICK_MAX / 2)
Off == -RANGE

VARIABLES
  tick,    \* tick of CPU 0, what rt_tick_get returns
  due,     \* has CPU 0 counted a tick and not looked at the timers yet?
  list,    \* rt_timer_list
  timeout, \* timeout_tick of a timer
  init,    \* init_tick of a timer
  before   \* for an active timer, the active ones that were started before it

vars == <<tick, due, list, timeout, init, before>>

(* A timer's timeout_tick is 0 until it is started; the clock may stand      *)
(* anywhere in its range.                                                    *)
Init ==
  /\ tick \in Tick /\ due = FALSE /\ list = <<>>
  /\ before = [t \in Timer |-> {}]
  /\ timeout = [t \in Timer |-> 0] /\ init = [t \in Timer |-> 0]

InList(t) == Contains(list, t)

(* What before becomes when only the timers in l stay active. *)
Keep(l) == [t \in Timer |-> {u \in before[t] : Contains(l, t) /\ Contains(l, u)}]

(* Mutant: ticks are compared as they are. *)
LaterPlain(a, b) == a > b

(* The comparison of rt_timer_start: is a after b? *)
Later(a, b) == (a - b) % RANGE # 0 /\ (a - b) % RANGE < Half

(* Mutant: the deadline is compared as it is. *)
ExpiredPlain(t) == tick >= timeout[t]

(* The comparison of rt_timer_check. *)
Expired(t) == (tick - timeout[t]) % RANGE < Half

(* Mutant: the new timer goes before the ones that expire with it. *)
PlaceBefore(l, i, when) ==
  /\ \A j \in 1..i : ~Later(timeout[l[j]], when) /\ timeout[l[j]] # when
  /\ i < Len(l) => Later(timeout[l[i + 1]], when) \/ timeout[l[i + 1]] = when

(* The loop of rt_timer_start stops after i timers, before the first one     *)
(* that expires later; one that expires at the same tick stays ahead.        *)
Place(l, i, when) ==
  /\ \A j \in 1..i : ~Later(timeout[l[j]], when)
  /\ i < Len(l) => Later(timeout[l[i + 1]], when)

(* RT_TIMER_CTRL_SET_TIME and rt_timer_start, which takes an active timer    *)
(* off the list first.                                                       *)
Start(t, d) ==
  LET l == RemoveFirst(list, t)
      when == (tick + d) % RANGE
  IN /\ \E i \in 0..Len(l) : Place(l, i, when) /\ list' = InsertAt(l, i + 1, t)
     /\ timeout' = [timeout EXCEPT ![t] = when] /\ init' = [init EXCEPT ![t] = d]
     /\ before' = [Keep(l) EXCEPT ![t] = {u \in Timer : Contains(l, u)}]
     /\ UNCHANGED <<tick, due>>

(* rt_timer_stop. *)
Stop(t) ==
  /\ InList(t) /\ list' = RemoveFirst(list, t) /\ before' = Keep(list')
  /\ UNCHANGED <<tick, due, timeout, init>>

(* rt_tick_increase on CPU 0, with its interrupts masked until rt_timer_check. *)
Increase ==
  /\ ~due /\ due' = TRUE /\ tick' = (tick + 1) % RANGE
  /\ UNCHANGED <<list, timeout, init, before>>

(* rt_timer_check, after the tick of CPU 0 or of the other CPU: timers are   *)
(* taken from the head of the list as long as they have expired.             *)
Check(cpu) ==
  /\ cpu = 0 => due
  /\ due' = (due /\ cpu # 0)
  /\ \E k \in 0..Len(list) :
       /\ \A i \in 1..k : Expired(list[i])
       /\ k < Len(list) => ~Expired(list[k + 1])
       /\ list' = SubSeq(list, k + 1, Len(list))
  /\ before' = Keep(list') /\ UNCHANGED <<tick, timeout, init>>

Next ==
  \/ Increase \/ Check(0) \/ Check(1)
  \/ \E t \in Timer : Stop(t) \/ \E d \in Delay : Start(t, d)

Spec == Init /\ [][Next]_vars

-----------------------------------------------------------------------------
TypeOK ==
  /\ tick \in Tick /\ due \in BOOLEAN /\ list \in Seq(Timer) /\ timeout \in [Timer -> Tick]
  /\ init \in [Timer -> Delay] /\ before \in [Timer -> SUBSET Timer]
  /\ \A i, j \in 1..Len(list) : list[i] = list[j] => i = j

(* The ticks a timer has left; negative when it is late. *)
Remaining(t) ==
  IF ~InList(t) THEN Off
  ELSE IF Expired(t) THEN -((tick - timeout[t]) % RANGE) ELSE (timeout[t] - tick) % RANGE

(* Variables keep their types, a timer is in the list once, and the list     *)
(* stays sorted by what the timers have left, also across the wrap of the    *)
(* tick.                                                                     *)
Sorted ==
  TypeOK /\ \A i, j \in 1..Len(list) : i < j => Remaining(list[i]) <= Remaining(list[j])

(* Timers that expire at the same tick do so in the order of their start, as *)
(* the comment in rt_timer_start wants it.                                   *)
EarlyFirst ==
  \A i, j \in 1..Len(list) :
    list[i] \in before[list[j]] /\ timeout[list[i]] = timeout[list[j]] => i < j

(* The list of wrapping ticks implements the promise: a timer expires at the *)
(* tick it was started for.                                                  *)
Abstract == INSTANCE TimerPromise WITH Delays <- Delay, asked <- init,
              remain <- [t \in Timer |-> Remaining(t)]
Promise == Abstract!PSpec
=============================================================================
