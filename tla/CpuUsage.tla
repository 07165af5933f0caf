------------------------------ MODULE CpuUsage ------------------------------
(***************************************************************************)
(* The per-thread, per-core usage meter of applications/cpu_usage.c.  A    *)
(* scheduler hook stamps every thread switch with a timer; once per period *)
(* the timer interrupt, on core 0, closes the accounts of all threads and  *)
(* publishes the ticks each of them used.  The hook runs under the         *)
(* kernel's lock, so hooks do not overlap, but timer_irq takes no lock:    *)
(* the loads and stores of a hook on core 1 mix with its own.              *)
(***************************************************************************)
EXTENDS Integers, Sequences

CONSTANTS
  List,       \* the kernel's list of threads, a sequence
  Reload,     \* timer_reload_num: ticks in a period
  Word,       \* modulus of rt_uint64_t
  MaxClock,   \* bound: ticks explored
  MaxLate,    \* bound: the last tick at which a switch meets the interrupt
  Garbage     \* what uninitialised memory may hold: two values for the arrays

Cores == 0..1
Threads == {List[k] : k \in DOMAIN List}

ASSUME UsageAssumption ==
  /\ List \in Seq(Threads) /\ Len(List) > 2
  /\ \A j, k \in DOMAIN List : List[j] = List[k] => j = k
  /\ Reload \in Nat \ {0} /\ Word \in Nat /\ Reload < Word
  /\ MaxClock \in Nat /\ MaxClock < Word /\ MaxLate < MaxClock /\ MaxLate \in Nat
  /\ Garbage \subseteq (0..(Word - 1)) \X (0..(Word - 1))

VARIABLES
  clock,     \* ticks the timer has really run
  timerTick, \* timer_tick: periods counted by the interrupt
  cur,       \* cur[c]: thread running on core c
  info,      \* info[t]: 0 while user_data is NULL, else 1
  enter, leave, count, cost, \* the arrays of struct thread_usage
  percent,   \* major and minor, as one number: 100 * major + minor
  irq,       \* where timer_irq is: thread, core, statement and its tick
  hook,      \* where schedule_hook is on core 1: new thread, statement and its tick
  reg,       \* reg[c]: the sum that core c has loaded and not stored yet
  hooked,    \* hooked[c]: clock of the last switch on c (history)
  left,      \* left[t][c]: the stamps of t on c are right since t left c (history)
  exact,     \* exact[t][c]: so they were when this period began (history)
  used,      \* used[t][c]: ticks t really used on c in this period (history)
  crashed    \* a NULL pointer was followed

account == <<enter, leave, count, cost, percent>>
history == <<hooked, left, exact, used>>
vars == <<clock, timerTick, cur, info, account, irq, hook, reg, history, crashed>>

Idle == [k |-> 0]
None == [at |-> "no"]
Pending == timerTick < clock \div Reload
PerCore(S) == [Threads -> [Cores -> S]]

(* get_timer_value(): the counter runs down from the reload value and       *)
(* timer_tick is counted in software, so the two can be out of step.        *)
get_timer_value(periods) ==
  ((periods + 1) * Reload - (Reload - (clock % Reload))) % Word

(* Unsigned leave - enter, added to the count. *)
Charge(n, from, to) == (n + to - from) % Word

Init ==
  /\ clock = 0 /\ timerTick = 0
  /\ cur = [c \in Cores |-> List[c + 1]]
  /\ info = [t \in Threads |-> 0]
  /\ \E g \in Garbage :
       /\ enter = [t \in Threads |-> [c \in Cores |-> g[1]]]
       /\ leave = [t \in Threads |-> [c \in Cores |-> g[2]]]
       /\ count = leave /\ cost = enter /\ percent = enter
  /\ irq = Idle /\ hook = None /\ reg = [c \in Cores |-> 0]
  /\ hooked = [c \in Cores |-> -1]
  /\ left = [t \in Threads |-> [c \in Cores |-> FALSE]] /\ exact = left
  /\ used = [t \in Threads |-> [c \in Cores |-> 0]]
  /\ crashed = FALSE

(* The accounts A, pairs of a thread and a core, are wrong from here on. *)
Distrust(A) ==
  /\ left' = [t \in Threads |-> [c \in Cores |-> left[t][c] /\ <<t, c>> \notin A]]
  /\ exact' = [t \in Threads |-> [c \in Cores |-> exact[t][c] /\ <<t, c>> \notin A]]

(* Time passes; each core's thread uses the tick.  A thread that has had its *)
(* core for a whole period looks as if it did not run: its enter and leave   *)
(* ticks are equal.  A hook takes less than a tick.                          *)
Tick ==
  LET Keeps(c) == clock' % Reload = 0 /\ hooked[c] < (clock \div Reload) * Reload
  IN  /\ clock < MaxClock /\ ~Pending /\ irq = Idle /\ ~crashed
      /\ clock' = clock + 1
      /\ hook # None => clock' % Reload = 0
      /\ Distrust({<<cur[c], c>> : c \in {d \in Cores : Keeps(d)}})
      /\ used' = [t \in Threads |-> [c \in Cores |->
                    used[t][c] + IF cur[c] = t THEN 1 ELSE 0]]
      /\ UNCHANGED <<timerTick, cur, info, account, irq, hook, reg, hooked, crashed>>

-----------------------------------------------------------------------------
(* schedule_hook: core c switches from its thread to the thread to.  A      *)
(* thread met for the first time gets an info; its memory is not cleared.   *)
(* Two switches on a core are at least a timer tick apart.                  *)
Hook(c, to) ==
  LET from == cur[c]
      tick == get_timer_value(timerTick)
      e    == IF info[from] = 0 THEN [enter EXCEPT ![from][c] = tick] ELSE enter
  IN  /\ info' = [info EXCEPT ![from] = 1, ![to] = 1]
      /\ leave' = [leave EXCEPT ![from][c] = tick]
      /\ count' = [count EXCEPT ![from][c] = Charge(count[from][c], e[from][c], tick)]
      /\ enter' = [e EXCEPT ![to][c] = tick]

(* The whole hook.  A switch after the end of a period and before its        *)
(* interrupt is stamped a period too early.                                  *)
Switch(c, to) ==
  /\ irq = Idle /\ hook = None /\ ~crashed /\ hooked[c] < clock
  /\ clock < MaxClock /\ (Pending => clock <= MaxLate)
  /\ \A d \in Cores : cur[d] # to
  /\ Hook(c, to)
  /\ cur' = [cur EXCEPT ![c] = to] /\ hooked' = [hooked EXCEPT ![c] = clock]
  /\ IF Pending THEN Distrust({<<cur[c], c>>, <<to, c>>})
     ELSE left' = [left EXCEPT ![cur[c]][c] = TRUE] /\ UNCHANGED exact
  /\ UNCHANGED <<clock, timerTick, cost, percent, irq, hook, reg, used, crashed>>

(* rt_malloc fails for a thread without info: "No memory" is logged and the  *)
(* NULL pointer is followed all the same.                                   *)
SwitchNoMemory(c, to) ==
  /\ hook = None /\ ~crashed /\ hooked[c] < clock /\ clock < MaxClock
  /\ \A d \in Cores : cur[d] # to
  /\ info[cur[c]] = 0 \/ info[to] = 0
  /\ crashed' = TRUE
  /\ UNCHANGED <<clock, timerTick, cur, info, account, irq, hook, reg, history>>

(* The same hook on core 1 when the interrupt is served meanwhile: the       *)
(* period is over, or will be before the hook is done.                       *)
HookBegin(to) ==
  /\ hook = None /\ ~crashed /\ hooked[1] < clock /\ clock <= MaxLate
  /\ Pending \/ irq # Idle \/ (clock + 1) % Reload = 0
  /\ \A d \in Cores : cur[d] # to
  /\ hook' = [at |-> "leave", to |-> to, tick |-> get_timer_value(timerTick)]
  /\ Distrust({<<cur[1], 1>>, <<to, 1>>})
  /\ UNCHANGED <<clock, timerTick, cur, info, account, irq, reg, hooked, used, crashed>>

(* user_data is set when the first enter tick is. *)
HookFrom ==
  /\ hook.at = "leave" /\ info[cur[1]] = 0
  /\ info' = [info EXCEPT ![cur[1]] = 1]
  /\ enter' = [enter EXCEPT ![cur[1]][1] = hook.tick]
  /\ UNCHANGED <<clock, timerTick, cur, leave, count, cost, percent, irq, hook, reg, history,
                 crashed>>

HookLeave ==
  /\ hook.at = "leave" /\ info[cur[1]] = 1
  /\ leave' = [leave EXCEPT ![cur[1]][1] = hook.tick]
  /\ hook' = [hook EXCEPT !.at = "load"]
  /\ UNCHANGED <<clock, timerTick, cur, info, enter, count, cost, percent, irq, reg, history,
                 crashed>>

HookLoad ==
  LET t == cur[1]
  IN  /\ hook.at = "load" /\ hook' = [hook EXCEPT !.at = "store"]
      /\ reg' = [reg EXCEPT ![1] = Charge(count[t][1], enter[t][1], leave[t][1])]
      /\ UNCHANGED <<clock, timerTick, cur, info, account, irq, history, crashed>>

HookStore ==
  /\ hook.at = "store" /\ hook' = [hook EXCEPT !.at = "enter"]
  /\ count' = [count EXCEPT ![cur[1]][1] = reg[1]] /\ reg' = [reg EXCEPT ![1] = 0]
  /\ UNCHANGED <<clock, timerTick, cur, info, enter, leave, cost, percent, irq, history, crashed>>

HookTo ==
  /\ hook.at = "enter" /\ info[hook.to] = 0
  /\ info' = [info EXCEPT ![hook.to] = 1]
  /\ UNCHANGED <<clock, timerTick, cur, account, irq, hook, reg, history, crashed>>

HookEnter ==
  /\ hook.at = "enter" /\ info[hook.to] = 1 /\ hook' = None
  /\ enter' = [enter EXCEPT ![hook.to][1] = hook.tick]
  /\ cur' = [cur EXCEPT ![1] = hook.to] /\ hooked' = [hooked EXCEPT ![1] = clock]
  /\ UNCHANGED <<clock, timerTick, info, leave, count, cost, percent, irq, reg, left, exact, used,
                 crashed>>

schedule_hook ==
  \/ \E to \in Threads : HookBegin(to)
  \/ HookFrom \/ HookLeave \/ HookLoad \/ HookStore \/ HookTo \/ HookEnter

-----------------------------------------------------------------------------
(* timer_irq: the loop over the threads that have an info, and the cores. *)

(* The place after thread k and core i, or the end of the list. *)
After(k, i, tick) ==
  LET later == {n \in (k + 1)..Len(List) : info[List[n]] = 1}
      first == CHOOSE n \in later : \A m \in later : n <= m
  IN  IF i = 0 THEN [k |-> k, i |-> 1, at |-> "close", tick |-> tick]
      ELSE IF later = {} THEN Idle
      ELSE [k |-> first, i |-> 0, at |-> "close", tick |-> tick]

IrqEnter ==
  /\ Pending /\ irq = Idle /\ ~crashed
  /\ timerTick' = timerTick + 1
  /\ irq' = After(0, 1, get_timer_value(timerTick + 1))
  /\ UNCHANGED <<clock, cur, info, account, hook, reg, history, crashed>>

(* Mutant: a running thread is not charged up to the end of the period. *)
CloseNothing(t, i) == UNCHANGED <<enter, leave, count>>

(* A thread that is running is charged up to now. *)
Close(t, i) ==
  IF enter[t][i] > leave[t][i]
    THEN /\ leave' = [leave EXCEPT ![t][i] = irq.tick]
         /\ count' = [count EXCEPT ![t][i] = Charge(count[t][i], enter[t][i], irq.tick)]
         /\ enter' = [enter EXCEPT ![t][i] = irq.tick]
    ELSE UNCHANGED <<enter, leave, count>>

IrqClose ==
  /\ irq # Idle /\ irq.at = "close"
  /\ Close(List[irq.k], irq.i)
  /\ irq' = [irq EXCEPT !.at = "publish"]
  /\ UNCHANGED <<clock, timerTick, cur, info, cost, percent, hook, reg, history, crashed>>

(* The same, statement by statement, when the hook is at work on the account. *)
Shared == irq # Idle /\ irq.i = 1 /\ hook # None /\ List[irq.k] \in {cur[1], hook.to}
IrqGoes(at) == irq' = [irq EXCEPT !.at = at]

IrqTest ==
  LET t == List[irq.k]
  IN  /\ Shared /\ irq.at = "close"
      /\ IrqGoes(IF enter[t][1] > leave[t][1] THEN "leave" ELSE "publish")
      /\ UNCHANGED <<clock, timerTick, cur, info, account, hook, reg, history, crashed>>

IrqLeave ==
  /\ irq # Idle /\ irq.at = "leave" /\ IrqGoes("load")
  /\ leave' = [leave EXCEPT ![List[irq.k]][1] = irq.tick]
  /\ UNCHANGED <<clock, timerTick, cur, info, enter, count, cost, percent, hook, reg, history,
                 crashed>>

IrqLoad ==
  LET t == List[irq.k]
  IN  /\ irq # Idle /\ irq.at = "load" /\ IrqGoes("store")
      /\ reg' = [reg EXCEPT ![0] = Charge(count[t][1], enter[t][1], leave[t][1])]
      /\ UNCHANGED <<clock, timerTick, cur, info, account, hook, history, crashed>>

IrqStore ==
  /\ irq # Idle /\ irq.at = "store" /\ IrqGoes("enter")
  /\ count' = [count EXCEPT ![List[irq.k]][1] = reg[0]] /\ reg' = [reg EXCEPT ![0] = 0]
  /\ UNCHANGED <<clock, timerTick, cur, info, enter, leave, cost, percent, hook, history, crashed>>

IrqEntered ==
  /\ irq # Idle /\ irq.at = "enter" /\ IrqGoes("publish")
  /\ enter' = [enter EXCEPT ![List[irq.k]][1] = irq.tick]
  /\ UNCHANGED <<clock, timerTick, cur, info, leave, count, cost, percent, hook, reg, history,
                 crashed>>

(* major and minor of the share n has of a period, 0 when it is impossible. *)
Share(n) ==
  IF n <= Reload
    THEN ((n * 100) \div Reload) * 100 + (((n * 100) % Reload) * 100) \div Reload
    ELSE 0

(* cost_tick[i] = count_tick[i] *)
IrqPublish ==
  LET t == List[irq.k]
  IN  /\ irq # Idle /\ irq.at = "publish"
      /\ cost' = [cost EXCEPT ![t][irq.i] = count[t][irq.i]]
      /\ irq' = [irq EXCEPT !.at = "reset"]
      /\ UNCHANGED <<clock, timerTick, cur, info, enter, leave, count, percent,
                     hook, reg, history, crashed>>

(* count_tick[i] = 0 and the share of the cost, then on to the next core or  *)
(* thread.  The history of this account starts a new period.                *)
IrqReset ==
  LET t == List[irq.k]
  IN  /\ irq # Idle /\ irq.at = "reset"
      /\ count' = [count EXCEPT ![t][irq.i] = 0]
      /\ percent' = [percent EXCEPT ![t][irq.i] = Share(cost[t][irq.i])]
      /\ irq' = After(irq.k, irq.i, irq.tick)
      /\ used' = [used EXCEPT ![t][irq.i] = 0]
      /\ exact' = [exact EXCEPT ![t][irq.i] = left[t][irq.i]]
      /\ UNCHANGED <<clock, timerTick, cur, info, enter, leave, cost, hook, reg, hooked, left,
                     crashed>>

timer_irq ==
  \/ IrqEnter \/ IrqClose \/ IrqPublish \/ IrqReset
  \/ IrqTest \/ IrqLeave \/ IrqLoad \/ IrqStore \/ IrqEntered

Next ==
  \/ Tick
  \/ \E c \in Cores, to \in Threads : Switch(c, to)
  \/ \E c \in Cores, to \in Threads : SwitchNoMemory(c, to)
  \/ schedule_hook \/ timer_irq

Spec == Init /\ [][Next]_vars

-----------------------------------------------------------------------------
TypeOK ==
  /\ clock \in 0..MaxClock /\ timerTick \in 0..(clock \div Reload)
  /\ info \in [Threads -> {0, 1}]
  /\ {enter, leave, count, cost} \subseteq PerCore(0..(Word - 1))
  /\ reg \in [Cores -> 0..(Word - 1)]

(* What timer_irq publishes is what the thread used of the period, and no    *)
(* more than a period: a wrong account is right again one period after its   *)
(* thread has left the core.  It goes wrong when a switch comes between the  *)
(* end of a period and the end of its interrupt or is met by the interrupt,  *)
(* and when the thread keeps its core for a whole period; the accounts of    *)
(* other threads and cores do not suffer.  And variables keep their types.   *)
UsageExact ==
  /\ TypeOK
  /\ irq # Idle /\ irq.at = "reset" =>
       LET t == List[irq.k]
       IN  exact[t][irq.i] => cost[t][irq.i] = used[t][irq.i] /\ cost[t][irq.i] <= Reload
=============================================================================
