--------------------------- MODULE CpuUsageProofs ---------------------------
(***************************************************************************)
(* Proofs about the usage meter, for any list of threads and any length of *)
(* the period: an account that no switch in the shadow of the interrupt    *)
(* has touched, and whose thread does not keep its core for a period, says *)
(* what the thread really used; and one that was touched is right again    *)
(* one period after its thread has left the core.                          *)
(***************************************************************************)
EXTENDS CpuUsage, NaturalsInduction, WellFoundedInduction, TLAPS

-----------------------------------------------------------------------------
(* Where the clock, the periods and the interrupt are. *)
Clocked ==
  /\ clock \in Nat /\ clock <= MaxClock /\ timerTick \in Nat
  /\ \/ timerTick = clock \div Reload
     \/ timerTick + 1 = clock \div Reload /\ clock % Reload = 0 /\ irq.k = 0
  /\ irq.k # 0 => clock % Reload = 0

Inner == {"leave", "load", "store", "enter"}
Place == [k : 1..Len(List), i : Cores, at : {"close", "publish", "reset"} \cup Inner, tick : Nat]

(* timer_irq is at work on a thread's account; statement by statement only   *)
(* on an account of core 1 that is distrusted.                               *)
Served ==
  \/ irq = Idle
  \/ /\ irq \in Place /\ irq.tick = clock
     /\ irq.at \in Inner => irq.i = 1 /\ ~left[List[irq.k]][1]

(* So is schedule_hook on core 1. *)
Step == [at : Inner, to : Threads, tick : 0..(Word - 1)]

Hooking ==
  /\ reg \in [Cores -> 0..(Word - 1)]
  /\ \/ hook = None
     \/ /\ hook \in Step /\ hook.tick <= clock
        /\ \A c \in Cores : cur[c] # hook.to
        /\ ~left[cur[1]][1] /\ ~left[hook.to][1]

Running ==
  /\ cur \in [Cores -> Threads] /\ cur[0] # cur[1]
  /\ hooked \in [Cores -> Int]
  /\ \A c \in Cores : hooked[c] <= clock

Accounts ==
  /\ info \in [Threads -> {0, 1}]
  /\ enter \in PerCore(0..(Word - 1)) /\ leave \in PerCore(0..(Word - 1))
  /\ count \in PerCore(0..(Word - 1)) /\ cost \in PerCore(0..(Word - 1))

Histories ==
  /\ left \in PerCore(BOOLEAN) /\ exact \in PerCore(BOOLEAN) /\ used \in PerCore(Nat)
  /\ \A t \in Threads, c \in Cores :
       /\ used[t][c] <= clock
       /\ exact[t][c] => left[t][c]
       /\ left[t][c] => info[t] = 1

(* The account of the n-th thread on core c is still to be closed by the     *)
(* interrupt that is being served; it is still to be reset.                  *)
Fresh(n, c) ==
  irq.k # 0 /\ (n > irq.k \/ (n = irq.k /\ (c > irq.i \/ (c = irq.i /\ irq.at = "close"))))
Late(n, c) == irq.k # 0 /\ (n > irq.k \/ (n = irq.k /\ c >= irq.i))

(* The clock of the last interrupt that closed, or has reset, the account. *)
Overdue == timerTick < clock \div Reload
Last(late) == IF Overdue \/ late THEN clock - Reload ELSE clock - (clock % Reload)
Closed(n, c) == Last(Fresh(n, c))
Begun(n, c) == Last(Late(n, c))

(* The stamps: a thread that runs was entered when its core was last         *)
(* switched, or closed since then, and has not had the core for the period   *)
(* that is to be closed; one that was switched out left no later than that.  *)
Stamped(n, c) ==
  LET t == List[n]
      e == enter[t][c]
      l == leave[t][c]
  IN  /\ cur[c] # t => e <= l /\ l <= hooked[c]
      /\ cur[c] = t => \/ e = hooked[c] /\ l < e
                       \/ l = e /\ e > hooked[c] /\ e <= Closed(n, c)
      /\ cur[c] = t /\ (Overdue \/ Fresh(n, c)) =>
           clock - Reload <= hooked[c] /\ hooked[c] < clock

(* The count, with what the running thread has not been charged yet, is what *)
(* was used since the last reset.                                            *)
Counted(n, c) ==
  LET t == List[n] IN
  /\ used[t][c] = count[t][c] + IF cur[c] = t THEN clock - enter[t][c] ELSE 0
  /\ used[t][c] <= clock - Begun(n, c)

Account(n, c) ==
  LET t == List[n] IN
  /\ cur[c] = t /\ info[t] = 1 => enter[t][c] <= clock
  /\ left[t][c] => Stamped(n, c)
  /\ exact[t][c] => Counted(n, c)

(* The account that the interrupt is dealing with. *)
AtHand ==
  irq.k # 0 =>
    LET t == List[irq.k]
    IN  /\ irq.at \in {"publish", "reset"} /\ left[t][irq.i] /\ cur[irq.i] = t =>
             enter[t][irq.i] = clock
        /\ irq.at = "reset" /\ exact[t][irq.i] => cost[t][irq.i] = used[t][irq.i]

Sound == \A n \in 1..Len(List), c \in Cores : Account(n, c)

Base == Clocked /\ Served /\ Hooking /\ Running /\ Accounts /\ Histories
Inv == Base /\ Sound /\ AtHand
-----------------------------------------------------------------------------
(* Arithmetic. *)

LEMMA ConstantsAre ==
  /\ Reload \in Nat /\ Reload > 0 /\ Word \in Nat /\ Reload < Word /\ Word > 0
  /\ MaxClock \in Nat /\ MaxClock < Word
BY UsageAssumption DEF UsageAssumption

LEMMA ListIs ==
  /\ Len(List) \in Nat /\ Len(List) > 2
  /\ \A n \in 1..Len(List) : List[n] \in Threads
  /\ \A j, k \in 1..Len(List) : List[j] = List[k] => j = k
<1>1. List \in Seq(Threads) /\ DOMAIN List = 1..Len(List) /\ Len(List) \in Nat
  BY UsageAssumption DEF UsageAssumption
<1>2. QED
  BY <1>1, UsageAssumption DEF UsageAssumption

LEMMA Remainder ==
  ASSUME NEW x \in Int, NEW n \in Nat, n > 0
  PROVE  x % n \in 0..(n - 1) /\ (0 <= x /\ x < n => x % n = x)
OBVIOUS

LEMMA Quotient ==
  ASSUME NEW x \in Nat, NEW n \in Nat, n > 0
  PROVE  /\ x \div n \in Nat /\ x % n \in Nat /\ x % n < n
         /\ x = (x \div n) * n + (x % n)
OBVIOUS

LEMMA QuotientUnique ==
  ASSUME NEW n \in Nat, n > 0, NEW q \in Nat, NEW r \in Nat, r < n
  PROVE  (q * n + r) \div n = q /\ (q * n + r) % n = r
OBVIOUS

(* A tick later. *)
LEMMA NextTick ==
  ASSUME NEW x \in Nat
  PROVE  \/ (x + 1) \div Reload = x \div Reload /\ (x + 1) % Reload = (x % Reload) + 1
         \/ /\ (x + 1) \div Reload = x \div Reload + 1
            /\ (x + 1) % Reload = 0 /\ x % Reload = Reload - 1
<1> DEFINE q == x \div Reload
           r == x % Reload
<1>1. q \in Nat /\ r \in Nat /\ r < Reload /\ x = q * Reload + r
  BY ConstantsAre, Quotient
<1> HIDE DEF q, r
<1>2. CASE r + 1 < Reload
  <2>1. (q * Reload + (r + 1)) \div Reload = q /\ (q * Reload + (r + 1)) % Reload = r + 1
    BY <1>1, <1>2, ConstantsAre, QuotientUnique
  <2>2. x + 1 = q * Reload + (r + 1)
    BY <1>1, ConstantsAre
  <2>3. QED
    BY <2>1, <2>2 DEF q, r
<1>3. CASE r + 1 = Reload
  <2>1. ((q + 1) * Reload + 0) \div Reload = q + 1 /\ ((q + 1) * Reload + 0) % Reload = 0
    BY <1>1, ConstantsAre, QuotientUnique
  <2>2. x + 1 = (q + 1) * Reload + 0
    BY <1>1, <1>3, ConstantsAre
  <2>3. r = Reload - 1
    BY <1>1, <1>3, ConstantsAre
  <2>4. QED
    BY <2>1, <2>2, <2>3 DEF q, r
<1>4. QED
  BY <1>1, <1>2, <1>3, ConstantsAre

(* The value the hook and the interrupt read, in step with the interrupt. *)
LEMMA TimerValue ==
  ASSUME clock \in Nat, clock <= MaxClock
  PROVE  /\ \A p \in Nat : get_timer_value(p) \in 0..(Word - 1)
         /\ get_timer_value(clock \div Reload) = clock
         /\ \A p \in Nat : p + 1 = clock \div Reload /\ clock % Reload = 0
                            => get_timer_value(p) = clock - Reload
<1> DEFINE q == clock \div Reload
           r == clock % Reload
<1>1. q \in Nat /\ r \in Nat /\ r < Reload /\ clock = q * Reload + r
  BY ConstantsAre, Quotient
<1>2. ASSUME NEW p \in Nat PROVE get_timer_value(p) \in 0..(Word - 1)
  <2>1. (p + 1) * Reload - (Reload - r) \in Int
    BY <1>1, ConstantsAre
  <2>2. QED
    BY <2>1, Remainder, ConstantsAre DEF get_timer_value
<1>3. get_timer_value(q) = clock
  <2> HIDE DEF q, r
  <2>1. (q + 1) * Reload - (Reload - r) = clock
    BY <1>1, ConstantsAre
  <2>2. clock % Word = clock
    BY Remainder, ConstantsAre
  <2>3. QED
    BY <2>1, <2>2 DEF get_timer_value, r
<1>4. ASSUME NEW p \in Nat, p + 1 = q, r = 0 PROVE get_timer_value(p) = clock - Reload
  <2> HIDE DEF q, r
  <2>1. (p + 1) * Reload - (Reload - r) = clock - Reload
    BY <1>1, <1>4, ConstantsAre
  <2>2. clock - Reload = p * Reload /\ p * Reload >= 0
    BY <1>1, <1>4, ConstantsAre
  <2>3. (clock - Reload) % Word = clock - Reload
    BY <2>2, Remainder, ConstantsAre
  <2>4. QED
    BY <2>1, <2>3 DEF get_timer_value, r
<1>5. QED
  BY <1>2, <1>3, <1>4

-----------------------------------------------------------------------------
(* Accounts and places. *)

LEMMA LeastOf ==
  ASSUME NEW S, S \subseteq Nat, S # {}
  PROVE  LET x == CHOOSE n \in S : \A m \in S : n <= m IN x \in S /\ \A m \in S : x <= m
<1>1. PICK x \in S : \A y \in S : ~(<<y, x>> \in OpToRel(<, Nat))
  BY NatLessThanWellFounded, WFMin
<1>2. ASSUME NEW y \in S PROVE x <= y
  <2>1. x \in Nat /\ y \in Nat
    OBVIOUS
  <2>2. ~(y < x)
    BY <1>1, <2>1, Zenon DEF OpToRel
  <2>3. QED
    BY <2>1, <2>2
<1>3. QED
  BY <1>2

(* The next place of the loop is a later one, and the threads that it passes *)
(* over have no account.                                                     *)
LEMMA AfterIs ==
  ASSUME NEW k \in 0..Len(List), NEW i \in Cores, NEW tick \in Nat, k = 0 => i = 1
  PROVE  LET a == After(k, i, tick) IN
         \/ a = Idle /\ i = 1 /\ \A n \in (k + 1)..Len(List) : info[List[n]] # 1
         \/ /\ a \in Place /\ a.tick = tick /\ a.at = "close"
            /\ \/ a.k = k /\ i = 0 /\ a.i = 1
               \/ /\ a.k > k /\ i = 1 /\ a.i = 0
                  /\ \A n \in (k + 1)..Len(List) : n < a.k => info[List[n]] # 1
<1> DEFINE later == {n \in (k + 1)..Len(List) : info[List[n]] = 1}
           first == CHOOSE n \in later : \A m \in later : n <= m
<1>1. CASE i = 0
  <2>1. After(k, i, tick) = [k |-> k, i |-> 1, at |-> "close", tick |-> tick]
    BY <1>1 DEF After
  <2>2. k \in 1..Len(List)
    BY <1>1, ListIs
  <2>3. QED
    BY <1>1, <2>1, <2>2 DEF Place, Cores
<1>2. CASE i # 0 /\ later = {}
  <2>1. After(k, i, tick) = Idle
    BY <1>2 DEF After
  <2>2. i = 1
    BY <1>2 DEF Cores
  <2>3. QED
    BY <1>2, <2>1, <2>2
<1>3. CASE i # 0 /\ later # {}
  <2>1. After(k, i, tick) = [k |-> first, i |-> 0, at |-> "close", tick |-> tick]
    BY <1>3 DEF After
  <2>2. first \in later /\ \A m \in later : first <= m
    <3>1. later \subseteq Nat
      BY ListIs
    <3> HIDE DEF later
    <3>2. QED
      BY <1>3, <3>1, LeastOf
  <2>3. first \in 1..Len(List) /\ first > k /\ i = 1
    <3>1. first \in (k + 1)..Len(List)
      BY <2>2
    <3>2. i = 1
      BY <1>3 DEF Cores
    <3> HIDE DEF first
    <3>3. QED
      BY <3>1, <3>2, ListIs
  <2>4. \A n \in (k + 1)..Len(List) : n < first => info[List[n]] # 1
    <3>1. ASSUME NEW n \in (k + 1)..Len(List), n < first PROVE info[List[n]] # 1
      <4>1. ~(first <= n)
        BY <2>3, <3>1, ListIs
      <4>2. n \notin later
        BY <2>2, <4>1
      <4>3. QED
        BY <4>2
    <3>2. QED
      BY <3>1
  <2> HIDE DEF first, later
  <2>5. QED
    BY <2>1, <2>3, <2>4 DEF Place, Cores
<1>4. QED
  BY <1>1, <1>2, <1>3

LEMMA PlaceIs ==
  ASSUME Served
  PROVE  /\ irq = Idle <=> irq.k = 0
         /\ irq.k \in 0..Len(List)
         /\ irq.k # 0 => /\ irq \in Place /\ irq.tick = clock
                         /\ irq.k \in 1..Len(List) /\ irq.i \in Cores /\ List[irq.k] \in Threads
                         /\ irq.at \in {"close", "publish", "reset"} \cup Inner
BY ListIs DEF Served, Place, Idle

LEMMA Ranges ==
  ASSUME Clocked, Running, Accounts, Histories, NEW t \in Threads, NEW c \in Cores
  PROVE  /\ enter[t][c] \in Nat /\ enter[t][c] < Word /\ leave[t][c] \in Nat /\ leave[t][c] < Word
         /\ count[t][c] \in Nat /\ count[t][c] < Word /\ cost[t][c] \in Nat
         /\ hooked[c] \in Int /\ hooked[c] <= clock /\ cur[c] \in Threads
         /\ used[t][c] \in Nat /\ used[t][c] <= clock /\ used[t][c] < Word
         /\ clock \in Nat /\ clock < Word /\ clock % Reload \in Nat /\ clock % Reload < Reload
<1>1. /\ enter[t][c] \in 0..(Word - 1) /\ leave[t][c] \in 0..(Word - 1)
      /\ count[t][c] \in 0..(Word - 1) /\ cost[t][c] \in 0..(Word - 1)
  BY DEF Accounts, PerCore
<1>2. hooked[c] \in Int /\ hooked[c] <= clock /\ cur[c] \in Threads
  BY DEF Running
<1>3. used[t][c] \in Nat /\ used[t][c] <= clock
  BY DEF Histories, PerCore
<1>4. clock \in Nat /\ clock < Word
  BY ConstantsAre DEF Clocked
<1>5. clock % Reload \in Nat /\ clock % Reload < Reload
  BY <1>4, Quotient, ConstantsAre
<1>6. QED
  BY <1>1, <1>2, <1>3, <1>4, <1>5, ConstantsAre

(* A sum of words is a word; one that does not overflow is exact. *)
LEMMA ChargeIs ==
  ASSUME NEW n \in Nat, NEW from \in Nat, NEW to \in Nat
  PROVE  /\ Charge(n, from, to) \in 0..(Word - 1)
         /\ \A u \in Nat : u < Word /\ u = n + (to - from) => Charge(n, from, to) = u
<1>1. n + to - from \in Int
  OBVIOUS
<1>2. Charge(n, from, to) \in 0..(Word - 1)
  BY <1>1, Remainder, ConstantsAre DEF Charge
<1>3. ASSUME NEW u \in Nat, u < Word, u = n + (to - from) PROVE Charge(n, from, to) = u
  <2>1. n + to - from = u
    BY <1>3
  <2>2. u % Word = u
    BY <1>3, Remainder, ConstantsAre
  <2>3. QED
    BY <2>1, <2>2 DEF Charge
<1>4. QED
  BY <1>2, <1>3

LEMMA DistrustIs ==
  ASSUME NEW A, Histories, Distrust(A)
  PROVE  /\ left' \in PerCore(BOOLEAN) /\ exact' \in PerCore(BOOLEAN)
         /\ \A t \in Threads, c \in Cores :
              /\ left'[t][c] => left[t][c] /\ <<t, c>> \notin A
              /\ exact'[t][c] => exact[t][c] /\ left'[t][c]
<1>1. left' \in PerCore(BOOLEAN) /\ exact' \in PerCore(BOOLEAN)
  BY Zenon DEF Distrust, PerCore
<1>2. ASSUME NEW t \in Threads, NEW c \in Cores
      PROVE  /\ left'[t][c] = (left[t][c] /\ <<t, c>> \notin A)
             /\ exact'[t][c] = (exact[t][c] /\ <<t, c>> \notin A)
  BY Zenon DEF Distrust
<1>3. ASSUME NEW t \in Threads, NEW c \in Cores
      PROVE  /\ left'[t][c] => left[t][c] /\ <<t, c>> \notin A
             /\ exact'[t][c] => exact[t][c] /\ left'[t][c]
  <2>1. exact[t][c] => left[t][c]
    BY DEF Histories
  <2>2. QED
    BY <1>2, <2>1, Zenon
<1>4. QED
  BY <1>1, <1>3

(* The last interrupt. *)
LEMMA LastIs ==
  ASSUME Clocked
  PROVE  /\ \A b : Last(b) \in Int /\ Last(b) <= clock /\ clock - Reload <= Last(b)
         /\ \A b : b \/ Overdue => Last(b) = clock - Reload
         /\ \A b : ~b /\ irq.k # 0 => Last(b) = clock
         /\ irq.k # 0 => ~Overdue
<1>1. clock \in Nat /\ clock % Reload \in Nat /\ clock % Reload < Reload /\ clock \div Reload \in Nat
  BY Quotient, ConstantsAre DEF Clocked
<1>2. irq.k # 0 => ~Overdue /\ clock % Reload = 0
  BY <1>1 DEF Clocked, Overdue
<1>3. ASSUME NEW b
      PROVE  /\ Last(b) \in Int /\ Last(b) <= clock /\ clock - Reload <= Last(b)
             /\ b \/ Overdue => Last(b) = clock - Reload
             /\ ~b /\ irq.k # 0 => Last(b) = clock
  <2>1. CASE b \/ Overdue
    <3>1. Last(b) = clock - Reload
      BY <2>1 DEF Last
    <3>2. QED
      BY <1>1, <1>2, <2>1, <3>1, ConstantsAre
  <2>2. CASE ~(b \/ Overdue)
    <3>1. Last(b) = clock - (clock % Reload)
      BY <2>2 DEF Last
    <3>2. QED
      BY <1>1, <1>2, <2>2, <3>1, ConstantsAre
  <2>3. QED
    BY <2>1, <2>2
<1>4. QED
  BY <1>2, <1>3

(* An account that a step does not touch. *)
LEMMA SameAccount ==
  ASSUME NEW n \in 1..Len(List), NEW c \in Cores, Account(n, c),
         Clocked, Running, Accounts, Histories,
         UNCHANGED <<clock, cur[c], hooked[c]>>,
         UNCHANGED <<enter[List[n]][c], leave[List[n]][c], count[List[n]][c], used[List[n]][c]>>,
         cur[c] = List[n] => info'[List[n]] = info[List[n]],
         left'[List[n]][c] => left[List[n]][c],
         exact'[List[n]][c] => exact[List[n]][c],
         Closed(n, c) \in Int, Closed(n, c)' \in Int, Closed(n, c) <= Closed(n, c)',
         (Overdue \/ Fresh(n, c))' => Overdue \/ Fresh(n, c),
         exact'[List[n]][c] => Begun(n, c)' = Begun(n, c)
  PROVE  Account(n, c)'
<1> DEFINE t == List[n]
<1>1. t \in Threads
  BY ListIs
<1>2. enter[t][c] \in Nat
  BY <1>1, Ranges
<1>3. enter[t][c] <= Closed(n, c) => enter[t][c] <= Closed(n, c)'
  BY <1>2
<1>4. cur'[c] = t /\ info'[t] = 1 => enter'[t][c] <= clock'
  BY DEF Account
<1>5. left'[t][c] => Stamped(n, c)'
  <2>1. left'[t][c] => Stamped(n, c)
    BY DEF Account
  <2> HIDE DEF Closed, Fresh, Overdue
  <2>2. QED
    BY <1>3, <2>1 DEF Stamped
<1>6. exact'[t][c] => Counted(n, c)'
  <2>1. exact'[t][c] => Counted(n, c)
    BY DEF Account
  <2>2. QED
    BY <2>1 DEF Counted
<1>7. QED
  BY <1>4, <1>5, <1>6 DEF Account
-----------------------------------------------------------------------------
(* Steps that spoil nothing but an account that is distrusted. *)

(* Every account but the one of h on core 1 is left alone. *)
Apart(h) ==
  \A t \in Threads, c \in Cores : ~(t = h /\ c = 1) =>
    /\ UNCHANGED <<enter[t][c], leave[t][c], count[t][c]>>
    /\ cur[c] = t => info'[t] = info[t]

(* The hook or the interrupt stores into an account that is distrusted. *)
LEMMA Aside ==
  ASSUME Inv, NEW h \in Threads, ~left[h][1],
         UNCHANGED <<clock, cur, hooked, timerTick, left, exact, used, cost>>,
         irq'.k = irq.k, irq'.i = irq.i,
         irq'.at = irq.at \/ (irq.k # 0 /\ List[irq.k] = h /\ irq.i = 1),
         Apart(h),
         cur[1] = h /\ info'[h] = 1 => enter'[h][1] <= clock
  PROVE  Sound' /\ AtHand'
<1>1. Clocked /\ Served /\ Running /\ Accounts /\ Histories /\ Sound /\ AtHand
  BY DEF Inv, Base
<1>2. ~exact[h][1]
  BY <1>1 DEF Histories, Cores
<1>3. ASSUME NEW n \in 1..Len(List), NEW c \in Cores PROVE Account(n, c)'
  <2> DEFINE t == List[n]
  <2>1. Account(n, c) /\ t \in Threads
    BY <1>1, ListIs DEF Sound
  <2>2. Late(n, c)' <=> Late(n, c)
    BY DEF Late
  <2>3. Overdue' <=> Overdue
    BY DEF Overdue
  <2>4. CASE t = h /\ c = 1
    <3>1. ~left'[t][c] /\ ~exact'[t][c]
      BY <1>2, <2>4
    <3>2. cur'[c] = t /\ info'[t] = 1 => enter'[t][c] <= clock'
      BY <2>4
    <3>3. QED
      BY <3>1, <3>2 DEF Account
  <2>5. CASE ~(t = h /\ c = 1)
    <3>1. Fresh(n, c)' <=> Fresh(n, c)
      <4>1. CASE irq'.at = irq.at
        BY <4>1 DEF Fresh
      <4>2. CASE irq.k # 0 /\ List[irq.k] = h /\ irq.i = 1
        <5>1. irq.k \in 1..Len(List) /\ irq.i \in Cores
          BY <1>1, <4>2, PlaceIs
        <5>2. ~(n = irq.k /\ c = irq.i)
          BY <2>5, <4>2, <5>1
        <5>3. QED
          BY <5>2 DEF Fresh
      <4>3. QED
        BY <4>1, <4>2
    <3>2. Closed(n, c)' = Closed(n, c) /\ Begun(n, c)' = Begun(n, c)
      BY <2>2, <2>3, <3>1 DEF Closed, Begun, Last
    <3>3. Closed(n, c) \in Int /\ Closed(n, c) <= Closed(n, c)
      <4>1. Closed(n, c) \in Int
        BY <1>1, LastIs DEF Closed
      <4>2. QED
        BY <4>1
    <3>4. UNCHANGED <<enter[t][c], leave[t][c], count[t][c]>> /\ (cur[c] = t => info'[t] = info[t])
      BY <2>1, <2>5 DEF Apart
    <3>5. QED
      BY <1>1, <2>1, <2>3, <3>1, <3>2, <3>3, <3>4, SameAccount
  <2>6. QED
    BY <2>4, <2>5
<1>4. ASSUME irq.k # 0 PROVE AtHand'
  <2> DEFINE t == List[irq.k]
             i == irq.i
  <2>1. t \in Threads /\ i \in Cores
    BY <1>1, <1>4, PlaceIs
  <2>2. CASE t = h /\ i = 1
    BY <1>2, <2>2 DEF AtHand
  <2>3. CASE ~(t = h /\ i = 1)
    <3>1. irq'.at = irq.at /\ enter'[t][i] = enter[t][i]
      BY <2>1, <2>3 DEF Apart
    <3>2. QED
      BY <1>1, <3>1 DEF AtHand
  <2>4. QED
    BY <2>2, <2>3
<1>5. irq.k = 0 => AtHand'
  BY DEF AtHand
<1>6. QED
  BY <1>3, <1>4, <1>5 DEF Sound

(* Core c goes from its thread to another: other accounts are not touched. *)
Spared(c, to) ==
  \A t \in Threads, d \in Cores :
    /\ left'[t][d] => left[t][d]
    /\ exact'[t][d] => exact[t][d] /\ left'[t][d]
    /\ ~(t \in {cur[c], to} /\ d = c) => UNCHANGED <<enter[t][d], leave[t][d], count[t][d]>>
    /\ d # c /\ cur[d] = t => info'[t] = info[t]

(* The accounts of both are distrusted. *)
LEMMA Turn ==
  ASSUME Inv, NEW c \in Cores, NEW to \in Threads,
         \A d \in Cores : cur[d] # to,
         UNCHANGED <<clock, timerTick, irq, used, cost>>,
         cur' = [cur EXCEPT ![c] = to], hooked' = [hooked EXCEPT ![c] = clock],
         ~left'[cur[c]][c], ~left'[to][c], enter'[to][c] <= clock,
         Spared(c, to)
  PROVE  Sound' /\ AtHand'
<1>1. Clocked /\ Served /\ Running /\ Accounts /\ Histories /\ Sound /\ AtHand
  BY DEF Inv, Base
<1>2. \A d \in Cores : /\ cur'[d] = IF d = c THEN to ELSE cur[d]
                       /\ hooked'[d] = IF d = c THEN clock ELSE hooked[d]
  BY <1>1 DEF Running
<1>3. cur[c] \in Threads /\ cur[c] # to
  BY <1>1 DEF Running
<1>4. ASSUME NEW n \in 1..Len(List), NEW d \in Cores PROVE Account(n, d)'
  <2> DEFINE t == List[n]
  <2>1. Account(n, d) /\ t \in Threads
    BY <1>1, ListIs DEF Sound
  <2>2. /\ Fresh(n, d)' <=> Fresh(n, d)
        /\ Late(n, d)' <=> Late(n, d)
        /\ Overdue' <=> Overdue
    BY DEF Fresh, Late, Overdue
  <2>3. Closed(n, d)' = Closed(n, d) /\ Begun(n, d)' = Begun(n, d)
    BY <2>2 DEF Closed, Begun, Last
  <2>4. Closed(n, d) \in Int /\ Closed(n, d) <= Closed(n, d)
    <3>1. Closed(n, d) \in Int
      BY <1>1, LastIs DEF Closed
    <3>2. QED
      BY <3>1
  <2>5. CASE d # c
    <3>1. /\ UNCHANGED <<enter[t][d], leave[t][d], count[t][d]>>
          /\ cur[d] = t => info'[t] = info[t]
          /\ cur'[d] = cur[d] /\ hooked'[d] = hooked[d]
      BY <1>2, <2>1, <2>5 DEF Spared
    <3>2. (left'[t][d] => left[t][d]) /\ (exact'[t][d] => exact[t][d]) /\ used'[t][d] = used[t][d]
      BY <2>1 DEF Spared
    <3>3. QED
      BY <1>1, <2>1, <2>2, <2>3, <2>4, <3>1, <3>2, SameAccount
  <2>6. CASE d = c /\ t \in {cur[c], to}
    <3>1. ~left'[t][d] /\ ~exact'[t][d]
      BY <1>3, <2>6 DEF Spared
    <3>2. cur'[d] = t => enter'[t][d] <= clock'
      BY <1>2, <1>3, <2>6
    <3>3. QED
      BY <3>1, <3>2 DEF Account
  <2>7. CASE d = c /\ t \notin {cur[c], to}
    <3>1. cur[d] # t /\ cur'[d] # t /\ hooked'[d] = clock
      BY <1>2, <2>7
    <3>2. /\ UNCHANGED <<enter[t][d], leave[t][d], count[t][d]>> /\ used'[t][d] = used[t][d]
          /\ left'[t][d] => left[t][d]
          /\ exact'[t][d] => exact[t][d]
      BY <2>1, <2>7 DEF Spared
    <3>3. left'[t][d] => Stamped(n, d)'
      <4>1. left'[t][d] => enter[t][d] <= leave[t][d] /\ leave[t][d] <= hooked[d]
        BY <2>1, <3>1, <3>2 DEF Account, Stamped
      <4>2. leave[t][d] <= hooked[d] => leave[t][d] <= clock
        BY <1>1, <2>1, Ranges
      <4>3. QED
        BY <3>1, <3>2, <4>1, <4>2 DEF Stamped
    <3>4. exact'[t][d] => Counted(n, d)'
      <4>1. exact'[t][d] => Counted(n, d)
        BY <2>1, <3>2 DEF Account
      <4>2. QED
        BY <2>3, <3>1, <3>2, <4>1 DEF Counted
    <3>5. QED
      BY <3>1, <3>3, <3>4 DEF Account
  <2>8. QED
    BY <2>5, <2>6, <2>7
<1>5. ASSUME irq.k # 0 PROVE AtHand'
  <2> DEFINE t == List[irq.k]
             i == irq.i
  <2>1. t \in Threads /\ i \in Cores
    BY <1>1, <1>5, PlaceIs
  <2>2. irq.at = "reset" /\ exact'[t][i] => cost'[t][i] = used'[t][i]
    BY <1>1, <1>5, <2>1 DEF AtHand, Spared
  <2>3. irq.at \in {"publish", "reset"} /\ left'[t][i] /\ cur'[i] = t => enter'[t][i] = clock
    <3>1. CASE i = c
      <4>1. left'[t][i] => cur'[i] # t
        BY <1>2, <2>1, <3>1
      <4>2. QED
        BY <4>1
    <3>2. CASE i # c
      <4>1. /\ cur'[i] = cur[i] /\ enter'[t][i] = enter[t][i]
            /\ left'[t][i] => left[t][i]
        BY <1>2, <2>1, <3>2 DEF Spared
      <4>2. QED
        BY <1>1, <1>5, <4>1 DEF AtHand
    <3>3. QED
      BY <3>1, <3>2
  <2>4. QED
    BY <2>2, <2>3 DEF AtHand
<1>6. irq.k = 0 => AtHand'
  BY DEF AtHand
<1>7. QED
  BY <1>4, <1>5, <1>6 DEF Sound

(* What is known of the accounts that the hook is at work on. *)
LEMMA AtWork ==
  ASSUME Inv, hook # None
  PROVE  /\ hook \in Step /\ hook.to \in Threads /\ hook.tick \in 0..(Word - 1)
         /\ hook.tick \in Nat /\ hook.tick <= clock
         /\ cur[1] \in Threads /\ cur[1] # hook.to /\ cur[0] # hook.to /\ cur[0] # cur[1]
         /\ ~left[cur[1]][1] /\ ~left[hook.to][1] /\ 1 \in Cores
         /\ info[cur[1]] = 1 => enter[cur[1]][1] <= clock
<1>1. Hooking /\ Running /\ Sound /\ 1 \in Cores /\ 0 \in Cores
  BY DEF Inv, Base, Cores
<1>2. hook \in Step /\ hook.to \in Threads /\ hook.tick \in 0..(Word - 1) /\ hook.tick \in Nat
  BY <1>1, ConstantsAre DEF Hooking, Step
<1>3. cur[1] \in Threads
  BY <1>1 DEF Running
<1>4. PICK n \in 1..Len(List) : cur[1] = List[n]
  BY <1>3, UsageAssumption DEF UsageAssumption, Threads
<1>5. Account(n, 1)
  BY <1>1 DEF Sound
<1>6. info[cur[1]] = 1 => enter[cur[1]][1] <= clock
  BY <1>4, <1>5 DEF Account
<1>7. QED
  BY <1>1, <1>2, <1>3, <1>6 DEF Hooking, Running
-----------------------------------------------------------------------------
(* The invariant holds at first and after every step. *)

LEMMA InitInv == Init => Inv
<1> SUFFICES ASSUME Init PROVE Inv
  OBVIOUS
<1>1. Clocked
  <2>1. (0 * Reload + 0) \div Reload = 0 /\ (0 * Reload + 0) % Reload = 0
    BY ConstantsAre, QuotientUnique
  <2>2. 0 \div Reload = 0 /\ 0 % Reload = 0
    BY <2>1, ConstantsAre
  <2>3. QED
    BY <2>2, ConstantsAre DEF Init, Clocked, Idle
<1>2. Served /\ irq.k = 0
  BY DEF Init, Served, Idle
<1>3. Running
  BY ListIs DEF Init, Running, Cores
<1>4. Accounts
  <2>1. PICK g \in Garbage :
          /\ enter = [t \in Threads |-> [c \in Cores |-> g[1]]]
          /\ leave = [t \in Threads |-> [c \in Cores |-> g[2]]]
          /\ count = leave /\ cost = enter /\ percent = enter
    BY DEF Init
  <2>2. g[1] \in 0..(Word - 1) /\ g[2] \in 0..(Word - 1)
    BY UsageAssumption DEF UsageAssumption
  <2>3. enter \in PerCore(0..(Word - 1)) /\ leave \in PerCore(0..(Word - 1))
    BY <2>1, <2>2 DEF PerCore
  <2>4. info \in [Threads -> {0, 1}]
    BY DEF Init
  <2>5. QED
    BY <2>1, <2>3, <2>4 DEF Accounts
<1>5. Histories
  BY DEF Init, Histories, PerCore
<1>6. Hooking
  BY ConstantsAre DEF Init, Hooking
<1>7. Sound
  <2>1. \A n \in 1..Len(List), c \in Cores :
          info[List[n]] = 0 /\ ~left[List[n]][c] /\ ~exact[List[n]][c]
    BY ListIs DEF Init
  <2>2. QED
    BY <2>1 DEF Sound, Account
<1>8. AtHand
  BY <1>2 DEF AtHand
<1>9. QED
  BY <1>1, <1>2, <1>3, <1>4, <1>5, <1>6, <1>7, <1>8 DEF Inv, Base

LEMMA TickInv ==
  ASSUME Inv, Tick
  PROVE  Inv'
<1>1. Clocked /\ Served /\ Hooking /\ Running /\ Accounts /\ Histories /\ Sound
  BY DEF Inv, Base
<1>2. /\ clock' = clock + 1 /\ clock < MaxClock /\ clock \in Nat
      /\ irq = Idle /\ irq.k = 0 /\ irq' = irq /\ timerTick' = timerTick
      /\ timerTick = clock \div Reload
  BY <1>1, PlaceIs, ConstantsAre DEF Tick, Pending, Clocked
<1>3. /\ clock \div Reload \in Nat /\ clock % Reload \in Nat /\ clock % Reload < Reload
      /\ clock = (clock \div Reload) * Reload + (clock % Reload)
  BY <1>2, ConstantsAre, Quotient
<1>4. \/ clock' \div Reload = clock \div Reload /\ clock' % Reload = (clock % Reload) + 1
      \/ /\ clock' \div Reload = clock \div Reload + 1
         /\ clock' % Reload = 0 /\ clock % Reload = Reload - 1
  BY <1>2, NextTick
<1> DEFINE Keeps(c) == clock' % Reload = 0 /\ hooked[c] < (clock \div Reload) * Reload
           A == {<<cur[c], c>> : c \in {d \in Cores : Keeps(d)}}
<1>5. Distrust(A)
  BY DEF Tick
<1>6. /\ left' \in PerCore(BOOLEAN) /\ exact' \in PerCore(BOOLEAN)
      /\ \A t \in Threads, c \in Cores :
           /\ left'[t][c] => left[t][c] /\ <<t, c>> \notin A
           /\ exact'[t][c] => exact[t][c] /\ left'[t][c]
  <2> HIDE DEF A
  <2>1. QED
    BY <1>1, <1>5, DistrustIs
<1>7. Clocked'
  BY <1>1, <1>2, <1>3, <1>4, ConstantsAre DEF Clocked
<1>8. Served' /\ irq'.k = 0
  BY <1>2 DEF Served
<1>9. Running'
  BY <1>1, <1>2 DEF Running, Tick
<1>10. Accounts'
  BY <1>1 DEF Accounts, Tick, account
<1>11. Hooking'
  <2>1. UNCHANGED <<reg, hook, cur>>
    BY DEF Tick
  <2>2. CASE hook = None
    BY <1>1, <2>1, <2>2 DEF Hooking
  <2>3. CASE hook # None
    <3>1. /\ hook \in Step /\ hook.tick <= clock /\ hook.tick \in Nat /\ hook.to \in Threads
          /\ ~left[cur[1]][1] /\ ~left[hook.to][1] /\ cur[1] \in Threads
      BY <1>1, <2>3, ConstantsAre DEF Hooking, Step, Running, Cores
    <3>2. ~left'[cur[1]][1] /\ ~left'[hook.to][1]
      BY <1>6, <3>1 DEF Cores
    <3>3. hook.tick <= clock'
      BY <1>2, <3>1
    <3>4. QED
      BY <1>1, <2>1, <2>3, <3>1, <3>2, <3>3 DEF Hooking
  <2>4. QED
    BY <2>2, <2>3
<1>12. \A t \in Threads, c \in Cores : used'[t][c] = used[t][c] + (IF cur[c] = t THEN 1 ELSE 0)
  BY DEF Tick
<1>13. Histories'
  <2>1. used' \in PerCore(Nat)
    <3>1. \A t \in Threads, c \in Cores : used[t][c] + (IF cur[c] = t THEN 1 ELSE 0) \in Nat
      BY <1>1 DEF Histories, PerCore
    <3>2. QED
      BY <3>1 DEF Tick, PerCore
  <2>2. \A t \in Threads, c \in Cores : used'[t][c] <= clock'
    BY <1>1, <1>2, <1>12 DEF Histories, PerCore
  <2>3. info' = info
    BY DEF Tick
  <2>4. \A t \in Threads, c \in Cores : (exact'[t][c] => left'[t][c]) /\ (left'[t][c] => info'[t] = 1)
    BY <1>1, <1>6, <2>3 DEF Histories
  <2>5. QED
    BY <1>6, <2>1, <2>2, <2>4 DEF Histories
<1>14. ASSUME NEW n \in 1..Len(List), NEW c \in Cores PROVE Account(n, c)'
  <2> DEFINE t == List[n]
  <2>1. t \in Threads /\ Account(n, c)
    BY <1>1, ListIs DEF Sound
  <2>2. UNCHANGED <<cur, info, enter, leave, count, hooked>>
    BY DEF Tick, account
  <2>3. /\ enter[t][c] \in Nat /\ count[t][c] \in Nat /\ hooked[c] \in Int /\ hooked[c] <= clock
        /\ used[t][c] \in Nat
    BY <1>1, <2>1, Ranges
  <2>4. ~Fresh(n, c) /\ ~Fresh(n, c)' /\ ~Late(n, c) /\ ~Late(n, c)' /\ ~Overdue
    BY <1>2, <1>3, <1>8 DEF Fresh, Late, Overdue
  <2>5. /\ Overdue' => clock' % Reload = 0 /\ clock % Reload = Reload - 1
        /\ ~Overdue' => clock' % Reload = (clock % Reload) + 1
    BY <1>2, <1>3, <1>4, ConstantsAre DEF Overdue
  <2>6. Closed(n, c)' = Closed(n, c) /\ Begun(n, c)' = Begun(n, c) /\ Begun(n, c) \in Int
    <3>1. Closed(n, c) = clock - (clock % Reload) /\ Begun(n, c) = clock - (clock % Reload)
      BY <2>4 DEF Closed, Begun, Last
    <3>2. CASE Overdue'
      <4>1. Closed(n, c)' = clock' - Reload /\ Begun(n, c)' = clock' - Reload
        BY <3>2 DEF Closed, Begun, Last
      <4>2. QED
        BY <1>2, <1>3, <2>5, <3>1, <3>2, <4>1, ConstantsAre
    <3>3. CASE ~Overdue'
      <4>1. Closed(n, c)' = clock' - (clock' % Reload) /\ Begun(n, c)' = clock' - (clock' % Reload)
        BY <2>4, <3>3 DEF Closed, Begun, Last
      <4>2. QED
        BY <1>2, <1>3, <2>5, <3>1, <3>3, <4>1, ConstantsAre
    <3>4. QED
      BY <3>2, <3>3
  <2>7. cur[c] = t /\ info[t] = 1 => enter[t][c] <= clock'
    <3>1. cur[c] = t /\ info[t] = 1 => enter[t][c] <= clock
      BY <2>1 DEF Account
    <3>2. QED
      BY <1>2, <2>3, <3>1
  <2>8. ASSUME left'[t][c] PROVE Stamped(n, c)'
    <3>1. left[t][c] /\ <<t, c>> \notin A /\ Stamped(n, c)
      BY <1>6, <2>1, <2>8 DEF Account
    <3>2. ASSUME cur[c] = t, Overdue'
          PROVE  clock' - Reload <= hooked[c] /\ hooked[c] < clock'
      <4>1. ~Keeps(c)
        BY <3>1, <3>2
      <4>2. clock' % Reload = 0 /\ clock % Reload = Reload - 1
        BY <2>5, <3>2
      <4>3. ~(hooked[c] < (clock \div Reload) * Reload)
        BY <4>1, <4>2
      <4>4. (clock \div Reload) * Reload = clock' - Reload
        BY <1>2, <1>3, <4>2, ConstantsAre
      <4>5. QED
        BY <1>2, <2>3, <4>3, <4>4, ConstantsAre
    <3>3. QED
      BY <2>2, <2>4, <2>6, <3>1, <3>2 DEF Stamped
  <2>9. ASSUME exact'[t][c] PROVE Counted(n, c)'
    <3>1. exact[t][c] /\ Counted(n, c)
      BY <1>6, <2>1, <2>9 DEF Account
    <3>2. /\ used[t][c] = count[t][c] + IF cur[c] = t THEN clock - enter[t][c] ELSE 0
          /\ used[t][c] <= clock - Begun(n, c)
      BY <3>1 DEF Counted
    <3>3. used'[t][c] = used[t][c] + IF cur[c] = t THEN 1 ELSE 0
      BY <1>12, <2>1
    <3> HIDE DEF t
    <3>4. used'[t][c] <= clock' - Begun(n, c)
      BY <1>2, <2>3, <2>6, <3>2, <3>3
    <3>5. used'[t][c] = count[t][c] + IF cur[c] = t THEN clock' - enter[t][c] ELSE 0
      <4>1. CASE cur[c] = t
        BY <1>2, <2>3, <3>2, <3>3, <4>1
      <4>2. CASE cur[c] # t
        BY <1>2, <2>3, <3>2, <3>3, <4>2
      <4>3. QED
        BY <4>1, <4>2
    <3>6. QED
      BY <2>2, <2>6, <3>4, <3>5 DEF Counted, t
  <2>10. QED
    BY <2>2, <2>7, <2>8, <2>9 DEF Account
<1>15. AtHand'
  BY <1>8 DEF AtHand
<1>16. QED
  BY <1>7, <1>8, <1>9, <1>10, <1>11, <1>13, <1>14, <1>15 DEF Inv, Base, Sound
(* A switch: the thread that goes is charged, the one that comes entered. *)
LEMMA HookEffect ==
  ASSUME NEW c \in Cores, NEW to \in Threads, Clocked, Running, Accounts,
         to # cur[c], Hook(c, to)
  PROVE  LET from == cur[c]
             tick == get_timer_value(timerTick)
             e    == IF info[from] = 0 THEN tick ELSE enter[from][c]
         IN  /\ info' \in [Threads -> {0, 1}]
             /\ \A t \in Threads : info'[t] = IF t \in {from, to} THEN 1 ELSE info[t]
             /\ enter' \in PerCore(0..(Word - 1)) /\ leave' \in PerCore(0..(Word - 1))
             /\ count' \in PerCore(0..(Word - 1))
             /\ \A t \in Threads, d \in Cores :
                  /\ enter'[t][d] = IF t = to /\ d = c THEN tick
                                    ELSE IF t = from /\ d = c THEN e ELSE enter[t][d]
                  /\ leave'[t][d] = IF t = from /\ d = c THEN tick ELSE leave[t][d]
                  /\ count'[t][d] = IF t = from /\ d = c THEN Charge(count[from][c], e, tick)
                                    ELSE count[t][d]
<1> DEFINE from == cur[c]
           tick == get_timer_value(timerTick)
           ent == IF info[from] = 0 THEN [enter EXCEPT ![from][c] = tick] ELSE enter
           e == IF info[from] = 0 THEN tick ELSE enter[from][c]
           W == 0..(Word - 1)
<1>1. from \in Threads /\ from # to /\ tick \in W
  BY TimerValue DEF Running, Clocked
<1>2. enter \in PerCore(W) /\ leave \in PerCore(W) /\ count \in PerCore(W) /\ info \in [Threads -> {0, 1}]
  BY DEF Accounts
<1>3. /\ info' = [info EXCEPT ![from] = 1, ![to] = 1]
      /\ leave' = [leave EXCEPT ![from][c] = tick]
      /\ count' = [count EXCEPT ![from][c] = Charge(count[from][c], ent[from][c], tick)]
      /\ enter' = [ent EXCEPT ![to][c] = tick]
  BY DEF Hook
<1> HIDE DEF from, tick
<1>4. /\ ent \in PerCore(W)
      /\ \A t \in Threads, d \in Cores :
           ent[t][d] = IF t = from /\ d = c THEN e ELSE enter[t][d]
  <2>1. CASE info[from] = 0
    BY <1>1, <1>2, <2>1 DEF PerCore
  <2>2. CASE info[from] # 0
    BY <1>1, <1>2, <2>2
  <2>3. QED
    BY <2>1, <2>2
<1>5. e \in W /\ ent[from][c] = e /\ count[from][c] \in W
  BY <1>1, <1>2, <1>4 DEF PerCore
<1> HIDE DEF ent, e
<1>6. Charge(count[from][c], e, tick) \in W
  <2>1. count[from][c] \in Nat /\ e \in Nat /\ tick \in Nat
    BY <1>1, <1>5, ConstantsAre
  <2>2. QED
    BY <2>1, ChargeIs
<1> HIDE DEF W
<1>7. /\ leave' \in PerCore(W)
      /\ \A t \in Threads, d \in Cores :
           leave'[t][d] = IF t = from /\ d = c THEN tick ELSE leave[t][d]
  BY <1>1, <1>2, <1>3 DEF PerCore
<1>8. /\ count' \in PerCore(W)
      /\ \A t \in Threads, d \in Cores :
           count'[t][d] = IF t = from /\ d = c THEN Charge(count[from][c], e, tick) ELSE count[t][d]
  BY <1>1, <1>2, <1>3, <1>5, <1>6 DEF PerCore
<1>9. /\ enter' \in PerCore(W)
      /\ \A t \in Threads, d \in Cores :
           enter'[t][d] = IF t = to /\ d = c THEN tick ELSE ent[t][d]
  BY <1>1, <1>3, <1>4 DEF PerCore
<1>10. /\ info' \in [Threads -> {0, 1}]
       /\ \A t \in Threads : info'[t] = IF t \in {from, to} THEN 1 ELSE info[t]
  BY <1>1, <1>2, <1>3
<1>11. QED
  BY <1>4, <1>7, <1>8, <1>9, <1>10 DEF from, tick, e, W

LEMMA SwitchInv ==
  ASSUME Inv, NEW c \in Cores, NEW to \in Threads, Switch(c, to)
  PROVE  Inv'
<1> DEFINE from == cur[c]
<1>1. Clocked /\ Served /\ Hooking /\ Running /\ Accounts /\ Histories /\ Sound
  BY DEF Inv, Base
<1>2. /\ UNCHANGED <<clock, timerTick, cost, irq, hook, reg, used>>
      /\ irq = Idle /\ irq.k = 0 /\ hook = None
      /\ \A d \in Cores : cur[d] # to
      /\ hooked[c] < clock
      /\ cur' = [cur EXCEPT ![c] = to]
      /\ hooked' = [hooked EXCEPT ![c] = clock]
      /\ Hook(c, to)
  BY DEF Switch, Idle
<1>3. from \in Threads /\ from # to /\ to # cur[c] /\ clock \in Nat /\ timerTick \in Nat
  BY <1>1, <1>2 DEF Running, Clocked
<1>4. \A d \in Cores : d # c => cur[d] # from
  BY <1>1 DEF Running, Cores
<1>5. Clocked' /\ Served' /\ Hooking'
  BY <1>1, <1>2 DEF Clocked, Served, Hooking
<1>6. Running'
  <2>1. cur' \in [Cores -> Threads] /\ cur'[0] # cur'[1]
    BY <1>1, <1>2 DEF Running, Cores
  <2>2. hooked' \in [Cores -> Int] /\ \A d \in Cores : hooked'[d] <= clock
    BY <1>1, <1>2, <1>3 DEF Running
  <2>3. QED
    BY <1>2, <2>1, <2>2 DEF Running
<1> DEFINE tick == get_timer_value(timerTick)
           e == IF info[from] = 0 THEN tick ELSE enter[from][c]
<1>7. /\ info' \in [Threads -> {0, 1}]
      /\ \A t \in Threads : info'[t] = IF t \in {from, to} THEN 1 ELSE info[t]
      /\ enter' \in PerCore(0..(Word - 1)) /\ leave' \in PerCore(0..(Word - 1))
      /\ count' \in PerCore(0..(Word - 1))
      /\ \A t \in Threads, d \in Cores :
           /\ enter'[t][d] = IF t = to /\ d = c THEN tick
                             ELSE IF t = from /\ d = c THEN e ELSE enter[t][d]
           /\ leave'[t][d] = IF t = from /\ d = c THEN tick ELSE leave[t][d]
           /\ count'[t][d] = IF t = from /\ d = c THEN Charge(count[from][c], e, tick)
                             ELSE count[t][d]
  BY <1>1, <1>2, <1>3, HookEffect
<1>8. Accounts'
  BY <1>1, <1>2, <1>7 DEF Accounts
<1>9. CASE Pending
  <2>1. Distrust({<<from, c>>, <<to, c>>})
    BY <1>9 DEF Switch
  <2>2. /\ left' \in PerCore(BOOLEAN) /\ exact' \in PerCore(BOOLEAN)
        /\ \A t \in Threads, d \in Cores :
             /\ left'[t][d] => left[t][d] /\ <<t, d>> \notin {<<from, c>>, <<to, c>>}
             /\ exact'[t][d] => exact[t][d] /\ left'[t][d]
    BY <1>1, <2>1, DistrustIs
  <2>3. ~left'[from][c] /\ ~left'[to][c]
    BY <1>3, <2>2
  <2>4. Histories'
    <3>1. \A t \in Threads, d \in Cores : (exact'[t][d] => left'[t][d]) /\ (left'[t][d] => info'[t] = 1)
      BY <1>1, <1>7, <2>2 DEF Histories
    <3>2. QED
      BY <1>1, <1>2, <2>2, <3>1 DEF Histories
  <2>5. enter'[to][c] <= clock
    <3>1. timerTick + 1 = clock \div Reload /\ clock % Reload = 0
      BY <1>1, <1>3, <1>9, Quotient, ConstantsAre DEF Clocked, Pending
    <3>2. tick = clock - Reload
      BY <1>1, <1>3, <3>1, TimerValue DEF Clocked
    <3>3. enter'[to][c] = tick
      BY <1>7
    <3>4. QED
      BY <1>3, <3>2, <3>3, ConstantsAre
  <2>6. Sound' /\ AtHand'
    <3>1. \A t \in Threads, d \in Cores :
             /\ ~(t \in {from, to} /\ d = c) => UNCHANGED <<enter[t][d], leave[t][d], count[t][d]>>
             /\ d # c /\ cur[d] = t => info'[t] = info[t]
      BY <1>2, <1>4, <1>7
    <3> HIDE DEF tick, e
    <3>2. Spared(c, to)
      <4>1. ASSUME NEW t \in Threads, NEW d \in Cores
            PROVE  /\ left'[t][d] => left[t][d]
                   /\ exact'[t][d] => exact[t][d] /\ left'[t][d]
        BY <2>2
      <4>2. QED
        BY <3>1, <4>1 DEF Spared
    <3>3. ~left'[cur[c]][c] /\ ~left'[to][c]
      BY <2>3
    <3>4. /\ UNCHANGED <<clock, timerTick, irq, used, cost>>
          /\ cur' = [cur EXCEPT ![c] = to] /\ hooked' = [hooked EXCEPT ![c] = clock]
          /\ \A d \in Cores : cur[d] # to
      BY <1>2
    <3> HIDE DEF from
    <3>5. QED
      BY <2>5, <3>2, <3>3, <3>4, Turn
  <2>7. QED
    BY <1>5, <1>6, <1>8, <2>4, <2>6 DEF Inv, Base
<1>10. CASE ~Pending
  <2>1. left' = [left EXCEPT ![from][c] = TRUE] /\ exact' = exact
    BY <1>10 DEF Switch
  <2>2. timerTick = clock \div Reload
    BY <1>1, <1>3, <1>10, ConstantsAre, Quotient DEF Pending, Clocked
  <2>3. tick = clock
    BY <1>1, <2>2, TimerValue DEF Clocked
  <2>4. /\ left' \in PerCore(BOOLEAN)
        /\ \A t \in Threads, d \in Cores :
             left'[t][d] = IF t = from /\ d = c THEN TRUE ELSE left[t][d]
    <3>1. left \in PerCore(BOOLEAN) /\ TRUE \in BOOLEAN
      BY <1>1 DEF Histories
    <3>2. QED
      BY <1>3, <2>1, <3>1 DEF PerCore
  <2>5. Histories'
    <3>1. ASSUME NEW t \in Threads, NEW d \in Cores
          PROVE  (exact[t][d] => left'[t][d]) /\ (left'[t][d] => info'[t] = 1)
      <4>1. left'[t][d] = IF t = from /\ d = c THEN TRUE ELSE left[t][d]
        BY <2>4
      <4>2. info'[t] = IF t \in {from, to} THEN 1 ELSE info[t]
        BY <1>7
      <4>3. (exact[t][d] => left[t][d]) /\ (left[t][d] => info[t] = 1)
        BY <1>1 DEF Histories
      <4>4. QED
        BY <4>1, <4>2, <4>3
    <3>2. QED
      BY <1>1, <1>2, <2>1, <2>4, <3>1 DEF Histories
  <2>6. ASSUME NEW n \in 1..Len(List), NEW d \in Cores PROVE Account(n, d)'
    <3> DEFINE t == List[n]
    <3>1. t \in Threads /\ Account(n, d)
      BY <1>1, ListIs DEF Sound
    <3>2. ~Fresh(n, d) /\ ~Fresh(n, d)' /\ ~Late(n, d) /\ ~Late(n, d)' /\ ~Overdue /\ ~Overdue'
      <4>1. ~Overdue
        BY <1>10 DEF Overdue, Pending
      <4>2. QED
        BY <1>2, <4>1 DEF Fresh, Late, Overdue
    <3>3. Closed(n, d)' = Closed(n, d) /\ Begun(n, d)' = Begun(n, d) /\ Closed(n, d) \in Int
      <4>1. Closed(n, d)' = Closed(n, d) /\ Begun(n, d)' = Begun(n, d)
        BY <1>2, <3>2 DEF Closed, Begun, Last
      <4>2. Closed(n, d) \in Int
        BY <1>1, LastIs DEF Closed
      <4>3. QED
        BY <4>1, <4>2
    <3>4. /\ enter[t][d] \in Nat /\ leave[t][d] \in Nat /\ count[t][d] \in Nat
          /\ hooked[d] \in Int /\ hooked[d] <= clock /\ used[t][d] \in Nat /\ used[t][d] < Word
      BY <1>1, <3>1, Ranges
    <3>5. /\ cur'[d] = IF d = c THEN to ELSE cur[d]
          /\ hooked'[d] = IF d = c THEN clock ELSE hooked[d]
      BY <1>1, <1>2 DEF Running
    <3>6. CASE d # c
      <4>1. /\ UNCHANGED <<cur[d], hooked[d], enter[t][d], leave[t][d], count[t][d], used[t][d]>>
            /\ cur[d] = t => info'[t] = info[t]
            /\ left'[t][d] = left[t][d] /\ exact'[t][d] = exact[t][d]
        BY <1>2, <1>4, <1>7, <2>1, <2>4, <3>1, <3>5, <3>6
      <4>2. Closed(n, d) <= Closed(n, d)'
        BY <3>3
      <4>3. QED
        BY <1>1, <1>2, <3>1, <3>2, <3>3, <4>1, <4>2, SameAccount
    <3>7. CASE d = c /\ t = from
      <4>1. /\ cur'[d] # t /\ hooked'[d] = clock /\ cur[d] = t
            /\ enter'[t][d] = e /\ leave'[t][d] = clock
            /\ count'[t][d] = Charge(count[t][d], e, clock)
        BY <1>3, <1>7, <2>3, <3>1, <3>5, <3>7
      <4>2. e \in Nat /\ e <= clock /\ (info[t] = 1 => e = enter[t][d])
        <5>1. info[t] = 1 => enter[t][d] <= clock
          BY <3>1, <4>1 DEF Account
        <5>2. info[t] \in {0, 1}
          BY <1>1, <3>1 DEF Accounts
        <5>3. QED
          BY <1>3, <2>3, <3>4, <3>7, <5>1, <5>2
      <4>3. Stamped(n, d)'
        <5> HIDE DEF e
        <5>1. e <= clock /\ clock <= clock
          BY <1>3, <4>2
        <5>2. QED
          BY <4>1, <5>1 DEF Stamped
      <4>4. ASSUME exact[t][d] PROVE Counted(n, d)'
        <5>1. info[t] = 1 /\ Counted(n, d)
          BY <1>1, <3>1, <4>4 DEF Histories, Account
        <5>2. used[t][d] = count[t][d] + (clock - e) /\ used[t][d] <= clock - Begun(n, d)
          BY <4>1, <4>2, <5>1 DEF Counted
        <5> HIDE DEF e, t
        <5>3. Charge(count[t][d], e, clock) = used[t][d]
          <6>1. \A u \in Nat : u < Word /\ u = count[t][d] + (clock - e)
                                => Charge(count[t][d], e, clock) = u
            BY <1>3, <3>4, <4>2, ChargeIs
          <6>2. QED
            BY <3>4, <5>2, <6>1, Zenon
        <5>4. count'[t][d] = used[t][d] /\ used[t][d] + 0 = used[t][d] /\ cur'[d] # t
          BY <3>4, <4>1, <5>3
        <5>5. QED
          BY <1>2, <3>3, <5>2, <5>4 DEF Counted, t
      <4>5. QED
        BY <2>1, <4>1, <4>3, <4>4 DEF Account
    <3>8. CASE d = c /\ t = to
      <4>1. /\ cur'[d] = t /\ hooked'[d] = clock /\ cur[d] # t
            /\ enter'[t][d] = clock /\ leave'[t][d] = leave[t][d]
            /\ count'[t][d] = count[t][d] /\ left'[t][d] = left[t][d]
        <5>1. enter'[t][d] = clock /\ leave'[t][d] = leave[t][d] /\ count'[t][d] = count[t][d]
          BY <1>3, <1>7, <2>3, <3>1, <3>8
        <5>2. left'[t][d] = left[t][d]
          BY <1>3, <2>4, <3>1, <3>8
        <5>3. QED
          BY <1>2, <3>5, <3>8, <5>1, <5>2
      <4>2. left[t][d] => Stamped(n, d)'
        <5>1. left[t][d] => leave[t][d] <= hooked[d]
          BY <3>1, <4>1 DEF Account, Stamped
        <5>2. left[t][d] => leave[t][d] < clock
          BY <1>2, <1>3, <3>4, <3>8, <5>1
        <5>3. QED
          BY <3>2, <4>1, <5>2 DEF Stamped
      <4>3. exact[t][d] => Counted(n, d)'
        <5>1. exact[t][d] => used[t][d] = count[t][d] + 0 /\ used[t][d] <= clock - Begun(n, d)
          BY <3>1, <4>1 DEF Account, Counted
        <5>2. clock - clock = 0
          BY <1>3
        <5>3. QED
          BY <1>2, <3>3, <4>1, <5>1, <5>2 DEF Counted
      <4>4. clock <= clock
        BY <1>3
      <4>5. QED
        BY <1>2, <2>1, <4>1, <4>2, <4>3, <4>4 DEF Account
    <3>9. CASE d = c /\ t # to /\ t # from
      <4>1. /\ cur'[d] # t /\ cur[d] # t /\ hooked'[d] = clock
            /\ UNCHANGED <<enter[t][d], leave[t][d], count[t][d], left[t][d]>>
        BY <1>3, <1>7, <2>4, <3>1, <3>5, <3>9, ZenonT(40)
      <4>2. left[t][d] => Stamped(n, d)'
        <5>1. left[t][d] => enter[t][d] <= leave[t][d] /\ leave[t][d] <= hooked[d]
          BY <3>1, <4>1 DEF Account, Stamped
        <5>2. leave[t][d] <= hooked[d] => leave[t][d] <= clock
          BY <1>3, <3>4
        <5>3. QED
          BY <4>1, <5>1, <5>2 DEF Stamped
      <4>3. exact[t][d] => Counted(n, d)'
        <5>1. exact[t][d] => Counted(n, d)
          BY <3>1 DEF Account
        <5>2. QED
          BY <1>2, <3>3, <4>1, <5>1 DEF Counted
      <4>4. QED
        BY <2>1, <4>1, <4>2, <4>3 DEF Account
    <3>10. QED
      BY <3>6, <3>7, <3>8, <3>9
  <2>7. AtHand'
    BY <1>2 DEF AtHand
  <2>8. QED
    BY <1>5, <1>6, <1>8, <2>5, <2>6, <2>7 DEF Inv, Base, Sound
<1>11. QED
  BY <1>9, <1>10

-----------------------------------------------------------------------------
(* The hook that the interrupt meets. *)

LEMMA HookBeginInv ==
  ASSUME Inv, NEW to \in Threads, HookBegin(to)
  PROVE  Inv'
<1>1. Clocked /\ Served /\ Hooking /\ Running /\ Accounts /\ Histories /\ Sound /\ AtHand
  BY DEF Inv, Base
<1>2. /\ UNCHANGED <<clock, timerTick, cur, info, irq, reg, hooked, used>>
      /\ UNCHANGED <<enter, leave, count, cost>>
      /\ \A d \in Cores : cur[d] # to
      /\ hook' = [at |-> "leave", to |-> to, tick |-> get_timer_value(timerTick)]
      /\ Distrust({<<cur[1], 1>>, <<to, 1>>})
  BY DEF HookBegin, account
<1>3. /\ left' \in PerCore(BOOLEAN) /\ exact' \in PerCore(BOOLEAN)
      /\ \A t \in Threads, d \in Cores :
           /\ left'[t][d] => left[t][d] /\ <<t, d>> \notin {<<cur[1], 1>>, <<to, 1>>}
           /\ exact'[t][d] => exact[t][d] /\ left'[t][d]
  BY <1>1, <1>2, DistrustIs
<1>4. cur[1] \in Threads /\ 1 \in Cores /\ clock \in Nat /\ timerTick \in Nat
  BY <1>1 DEF Running, Cores, Clocked
<1>5. ~left'[cur[1]][1] /\ ~left'[to][1]
  BY <1>3, <1>4
<1>6. get_timer_value(timerTick) \in 0..(Word - 1) /\ get_timer_value(timerTick) <= clock
  <2>1. get_timer_value(timerTick) \in 0..(Word - 1)
    BY <1>1, <1>4, TimerValue DEF Clocked
  <2>2. get_timer_value(timerTick) \in {clock, clock - Reload}
    BY <1>1, <1>4, TimerValue DEF Clocked
  <2>3. QED
    BY <1>4, <2>1, <2>2, ConstantsAre
<1>7. Hooking'
  <2>1. hook' \in Step /\ hook'.tick <= clock' /\ hook'.to = to
    BY <1>2, <1>6 DEF Step, Inner
  <2>2. QED
    BY <1>1, <1>2, <1>5, <2>1 DEF Hooking
<1>8. Clocked' /\ Running' /\ Accounts'
  BY <1>1, <1>2 DEF Clocked, Running, Accounts
<1>9. Histories'
  <2>1. \A t \in Threads, d \in Cores : (exact'[t][d] => left'[t][d]) /\ (left'[t][d] => info'[t] = 1)
    BY <1>1, <1>2, <1>3 DEF Histories
  <2>2. QED
    BY <1>1, <1>2, <1>3, <2>1 DEF Histories
<1>10. Served'
  <2>1. ASSUME irq # Idle, irq.at \in Inner PROVE irq.i = 1 /\ ~left'[List[irq.k]][1]
    <3>1. irq.i = 1 /\ ~left[List[irq.k]][1] /\ List[irq.k] \in Threads
      BY <1>1, <2>1, PlaceIs DEF Served
    <3>2. QED
      BY <1>3, <1>4, <3>1
  <2>2. QED
    BY <1>1, <1>2, <2>1 DEF Served
<1>11. ASSUME NEW n \in 1..Len(List), NEW c \in Cores PROVE Account(n, c)'
  <2>1. Account(n, c) /\ List[n] \in Threads
    BY <1>1, ListIs DEF Sound
  <2>2. /\ Fresh(n, c)' <=> Fresh(n, c)
        /\ Overdue' <=> Overdue
        /\ Closed(n, c)' = Closed(n, c) /\ Begun(n, c)' = Begun(n, c)
    BY <1>2 DEF Fresh, Late, Overdue, Closed, Begun, Last
  <2>3. Closed(n, c) \in Int /\ Closed(n, c) <= Closed(n, c)
    <3>1. Closed(n, c) \in Int
      BY <1>1, LastIs DEF Closed
    <3>2. QED
      BY <3>1
  <2>4. (left'[List[n]][c] => left[List[n]][c]) /\ (exact'[List[n]][c] => exact[List[n]][c])
    BY <1>3, <2>1
  <2>5. QED
    BY <1>1, <1>2, <2>1, <2>2, <2>3, <2>4, SameAccount
<1>12. AtHand'
  <2>1. irq.k # 0 => List[irq.k] \in Threads /\ irq.i \in Cores
    BY <1>1, PlaceIs
  <2>2. irq.k # 0 => /\ left'[List[irq.k]][irq.i] => left[List[irq.k]][irq.i]
                     /\ exact'[List[irq.k]][irq.i] => exact[List[irq.k]][irq.i]
    BY <1>3, <2>1
  <2>3. QED
    BY <1>1, <1>2, <2>2 DEF AtHand
<1>13. QED
  BY <1>7, <1>8, <1>9, <1>10, <1>11, <1>12 DEF Inv, Base, Sound

(* A step of the hook before the last. *)
LEMMA HookStep ==
  ASSUME Inv, hook # None, NEW h \in Threads, ~left[h][1],
         UNCHANGED <<clock, timerTick, cur, cost, irq, hooked, left, exact, used>>,
         hook' \in Step, hook'.to = hook.to, hook'.tick = hook.tick,
         reg' \in [Cores -> 0..(Word - 1)], Accounts', Apart(h),
         \A t \in Threads : info[t] = 1 => info'[t] = 1,
         cur[1] = h /\ info'[h] = 1 => enter'[h][1] <= clock
  PROVE  Inv'
<1>1. Clocked /\ Served /\ Hooking /\ Running /\ Accounts /\ Histories
  BY DEF Inv, Base
<1>2. Clocked' /\ Served' /\ Running'
  BY <1>1 DEF Clocked, Served, Running
<1>3. Hooking'
  BY <1>1, AtWork DEF Hooking
<1>4. Histories'
  <2>1. \A t \in Threads, c \in Cores : left[t][c] => info'[t] = 1
    BY <1>1 DEF Histories
  <2>2. QED
    BY <1>1, <2>1 DEF Histories
<1>5. Sound' /\ AtHand'
  BY Aside
<1>6. QED
  BY <1>2, <1>3, <1>4, <1>5 DEF Inv, Base

LEMMA HookMovesInv ==
  ASSUME Inv, HookFrom \/ HookLeave \/ HookLoad \/ HookStore \/ HookTo
  PROVE  Inv'
<1> DEFINE from == cur[1]
           to == hook.to
           W == 0..(Word - 1)
<1>1. Accounts /\ Hooking
  BY DEF Inv, Base
<1>2. hook # None
  BY DEF None, HookFrom, HookLeave, HookLoad, HookStore, HookTo
<1>3. /\ hook \in Step /\ to \in Threads /\ hook.tick \in W /\ hook.tick \in Nat
      /\ hook.tick <= clock /\ from \in Threads /\ from # to /\ cur[0] # to /\ cur[0] # from
      /\ ~left[from][1] /\ ~left[to][1] /\ 1 \in Cores
      /\ info[from] = 1 => enter[from][1] <= clock
  BY <1>2, AtWork
<1>4. /\ enter \in PerCore(W) /\ leave \in PerCore(W) /\ count \in PerCore(W) /\ cost \in PerCore(W)
      /\ info \in [Threads -> {0, 1}] /\ reg \in [Cores -> W]
  BY <1>1 DEF Accounts, Hooking
<1>5. \A h \in Threads, c \in Cores : cur[c] = h => ~(h = from /\ c = 0) /\ h # to
  BY <1>3 DEF Cores
<1>6. CASE HookFrom
  <2>1. /\ UNCHANGED <<clock, timerTick, cur, leave, count, cost, irq, hook, reg, hooked, left, exact,
                       used>>
        /\ info' = [info EXCEPT ![from] = 1] /\ enter' = [enter EXCEPT ![from][1] = hook.tick]
    BY <1>6 DEF HookFrom, history
  <2>2. /\ enter' \in PerCore(W) /\ enter'[from][1] = hook.tick
        /\ \A t \in Threads, c \in Cores : ~(t = from /\ c = 1) => enter'[t][c] = enter[t][c]
    <3> HIDE DEF W, from
    <3>1. QED
      BY <1>3, <1>4, <2>1 DEF PerCore
  <2>3. /\ info' \in [Threads -> {0, 1}] /\ \A t \in Threads : info[t] = 1 => info'[t] = 1
        /\ \A t \in Threads : t # from => info'[t] = info[t]
    BY <1>3, <1>4, <2>1
  <2>4. Apart(from)
    BY <1>5, <2>1, <2>2, <2>3 DEF Apart, Cores
  <2>5. Accounts'
    BY <1>4, <2>1, <2>2, <2>3 DEF Accounts
  <2> HIDE DEF W
  <2>6. QED
    BY <1>2, <1>3, <1>4, <2>1, <2>2, <2>3, <2>4, <2>5, HookStep DEF W
<1>7. CASE HookLeave
  <2>1. /\ UNCHANGED <<clock, timerTick, cur, info, enter, count, cost, irq, reg, hooked, left, exact,
                       used>>
        /\ leave' = [leave EXCEPT ![from][1] = hook.tick] /\ hook' = [hook EXCEPT !.at = "load"]
    BY <1>7 DEF HookLeave, history
  <2>2. /\ leave' \in PerCore(W)
        /\ \A t \in Threads, c \in Cores : ~(t = from /\ c = 1) => leave'[t][c] = leave[t][c]
    <3> HIDE DEF W, from
    <3>1. QED
      BY <1>3, <1>4, <2>1 DEF PerCore
  <2>3. hook' \in Step /\ hook'.to = hook.to /\ hook'.tick = hook.tick
    BY <1>3, <2>1 DEF Step, Inner
  <2>4. Apart(from)
    BY <2>1, <2>2 DEF Apart
  <2>5. Accounts'
    BY <1>4, <2>1, <2>2 DEF Accounts
  <2> HIDE DEF W
  <2>6. QED
    BY <1>2, <1>3, <1>4, <2>1, <2>3, <2>4, <2>5, HookStep DEF W
<1>8. CASE HookLoad
  <2>1. /\ UNCHANGED <<clock, timerTick, cur, info, enter, leave, count, cost, irq, hooked, left, exact,
                       used>>
        /\ hook' = [hook EXCEPT !.at = "store"]
        /\ reg' = [reg EXCEPT ![1] = Charge(count[from][1], enter[from][1], leave[from][1])]
    BY <1>8 DEF HookLoad, history, account
  <2>2. reg' \in [Cores -> W]
    <3>1. count[from][1] \in Nat /\ enter[from][1] \in Nat /\ leave[from][1] \in Nat
      BY <1>3, <1>4, ConstantsAre DEF PerCore
    <3>2. Charge(count[from][1], enter[from][1], leave[from][1]) \in W
      BY <3>1, ChargeIs
    <3>3. QED
      BY <1>4, <2>1, <3>2
  <2>3. hook' \in Step /\ hook'.to = hook.to /\ hook'.tick = hook.tick
    BY <1>3, <2>1 DEF Step, Inner
  <2>4. Apart(from)
    BY <2>1 DEF Apart
  <2>5. Accounts'
    BY <1>4, <2>1 DEF Accounts
  <2> HIDE DEF W
  <2>6. QED
    BY <1>2, <1>3, <2>1, <2>2, <2>3, <2>4, <2>5, HookStep DEF W
<1>9. CASE HookStore
  <2>1. /\ UNCHANGED <<clock, timerTick, cur, info, enter, leave, cost, irq, hooked, left, exact, used>>
        /\ hook' = [hook EXCEPT !.at = "enter"]
        /\ count' = [count EXCEPT ![from][1] = reg[1]] /\ reg' = [reg EXCEPT ![1] = 0]
    BY <1>9 DEF HookStore, history
  <2>2. reg' \in [Cores -> W] /\ reg[1] \in W
    <3>1. 0 \in W
      BY ConstantsAre
    <3> HIDE DEF W
    <3>2. QED
      BY <1>3, <1>4, <2>1, <3>1
  <2>3. /\ count' \in PerCore(W)
        /\ \A t \in Threads, c \in Cores : ~(t = from /\ c = 1) => count'[t][c] = count[t][c]
    <3> HIDE DEF W, from
    <3>1. QED
      BY <1>3, <1>4, <2>1, <2>2 DEF PerCore
  <2>4. hook' \in Step /\ hook'.to = hook.to /\ hook'.tick = hook.tick
    BY <1>3, <2>1 DEF Step, Inner
  <2>5. Apart(from)
    BY <2>1, <2>3 DEF Apart
  <2>6. Accounts'
    BY <1>4, <2>1, <2>3 DEF Accounts
  <2> HIDE DEF W
  <2>7. QED
    BY <1>2, <1>3, <2>1, <2>2, <2>4, <2>5, <2>6, HookStep DEF W
<1>10. CASE HookTo
  <2>1. /\ UNCHANGED <<clock, timerTick, cur, enter, leave, count, cost, irq, hook, reg, hooked, left,
                       exact, used>>
        /\ info' = [info EXCEPT ![to] = 1]
    BY <1>10 DEF HookTo, history, account
  <2>2. /\ info' \in [Threads -> {0, 1}] /\ \A t \in Threads : info[t] = 1 => info'[t] = 1
        /\ \A t \in Threads : t # to => info'[t] = info[t]
    BY <1>3, <1>4, <2>1
  <2>3. Apart(to)
    BY <1>5, <2>1, <2>2 DEF Apart
  <2>4. Accounts'
    BY <1>4, <2>1, <2>2 DEF Accounts
  <2> HIDE DEF W
  <2>5. QED
    BY <1>2, <1>3, <1>4, <2>1, <2>2, <2>3, <2>4, HookStep DEF W
<1>11. QED
  BY <1>6, <1>7, <1>8, <1>9, <1>10

LEMMA HookEnterInv ==
  ASSUME Inv, HookEnter
  PROVE  Inv'
<1> DEFINE from == cur[1]
           to == hook.to
<1>1. Clocked /\ Served /\ Hooking /\ Running /\ Accounts /\ Histories
  BY DEF Inv, Base
<1>2. hook # None
  BY DEF None, HookEnter
<1>3. /\ to \in Threads /\ hook.tick \in 0..(Word - 1) /\ hook.tick <= clock
      /\ from \in Threads /\ from # to /\ cur[0] # to /\ ~left[from][1] /\ ~left[to][1] /\ 1 \in Cores
  BY <1>2, AtWork
<1>4. /\ UNCHANGED <<clock, timerTick, info, leave, count, cost, irq, reg, left, exact, used>>
      /\ hook' = None /\ enter' = [enter EXCEPT ![to][1] = hook.tick]
      /\ cur' = [cur EXCEPT ![1] = to] /\ hooked' = [hooked EXCEPT ![1] = clock]
  BY DEF HookEnter
<1>5. /\ enter' \in PerCore(0..(Word - 1)) /\ enter'[to][1] = hook.tick
      /\ \A t \in Threads, c \in Cores : ~(t = to /\ c = 1) => enter'[t][c] = enter[t][c]
  <2>1. enter \in PerCore(0..(Word - 1))
    BY <1>1 DEF Accounts
  <2> HIDE DEF to
  <2>2. QED
    BY <1>3, <1>4, <2>1 DEF PerCore
<1>6. Clocked' /\ Served' /\ Hooking'
  BY <1>1, <1>4 DEF Clocked, Served, Hooking
<1>7. Running'
  <2>1. cur' \in [Cores -> Threads] /\ cur'[0] # cur'[1]
    BY <1>1, <1>3, <1>4 DEF Running, Cores
  <2>2. hooked' \in [Cores -> Int] /\ \A d \in Cores : hooked'[d] <= clock
    <3>1. clock \in Int /\ clock <= clock
      BY <1>1 DEF Clocked
    <3>2. hooked \in [Cores -> Int] /\ \A d \in Cores : hooked[d] <= clock
      BY <1>1 DEF Running
    <3>3. QED
      BY <1>4, <3>1, <3>2
  <2>3. QED
    BY <1>4, <2>1, <2>2 DEF Running
<1>8. Accounts'
  BY <1>1, <1>4, <1>5 DEF Accounts
<1>9. Histories'
  BY <1>1, <1>4 DEF Histories
<1>10. Sound' /\ AtHand'
  <2>1. \A t \in Threads, d \in Cores : exact[t][d] => left[t][d]
    BY <1>1 DEF Histories
  <2>2. Spared(1, to)
    BY <1>4, <1>5, <2>1 DEF Spared
  <2>3. \A d \in Cores : cur[d] # to
    BY <1>3 DEF Cores
  <2>4. ~left'[cur[1]][1] /\ ~left'[to][1] /\ enter'[to][1] <= clock
    BY <1>3, <1>4, <1>5
  <2> HIDE DEF to
  <2>5. QED
    BY <1>3, <1>4, <2>2, <2>3, <2>4, Turn
<1>11. QED
  BY <1>6, <1>7, <1>8, <1>9, <1>10 DEF Inv, Base

-----------------------------------------------------------------------------
(* The interrupt. *)

LEMMA IrqEnterInv ==
  ASSUME Inv, IrqEnter
  PROVE  Inv'
<1>1. Clocked /\ Served /\ Hooking /\ Running /\ Accounts /\ Histories /\ Sound
  BY DEF Inv, Base
<1>2. /\ UNCHANGED <<clock, cur, info, enter, leave, count, cost, hook, reg>>
      /\ UNCHANGED <<hooked, left, exact, used>>
      /\ irq = Idle /\ timerTick' = timerTick + 1 /\ timerTick < clock \div Reload
      /\ irq' = After(0, 1, get_timer_value(timerTick + 1))
  BY DEF IrqEnter, Pending, account, history
<1>3. clock \in Nat /\ clock \div Reload \in Nat /\ irq.k = 0
  BY <1>1, <1>2, Quotient, ConstantsAre DEF Clocked, Idle
<1>4. timerTick + 1 = clock \div Reload /\ clock % Reload = 0 /\ timerTick \in Nat
  BY <1>1, <1>2, <1>3 DEF Clocked
<1>5. irq' = After(0, 1, clock)
  BY <1>1, <1>2, <1>4, TimerValue DEF Clocked
<1>6. \/ irq' = Idle /\ irq'.k = 0 /\ \A n \in 1..Len(List) : info[List[n]] # 1
      \/ /\ irq' \in Place /\ irq'.tick = clock /\ irq'.at = "close" /\ irq'.k > 0 /\ irq'.i = 0
         /\ \A n \in 1..Len(List) : n < irq'.k => info[List[n]] # 1
  <2>1. 0 \in 0..Len(List) /\ 1 \in Cores /\ 0 + 1 = 1
    BY ListIs DEF Cores
  <2>2. \/ irq' = Idle /\ \A n \in (0 + 1)..Len(List) : info[List[n]] # 1
        \/ /\ irq' \in Place /\ irq'.tick = clock /\ irq'.at = "close" /\ irq'.k > 0 /\ irq'.i = 0
           /\ \A n \in (0 + 1)..Len(List) : n < irq'.k => info[List[n]] # 1
    BY <1>3, <1>5, <2>1, AfterIs
  <2>3. QED
    BY <2>1, <2>2 DEF Idle
<1>7. Clocked'
  BY <1>1, <1>2, <1>4 DEF Clocked
<1>8. Served'
  BY <1>2, <1>6 DEF Served, Inner
<1>9. Running' /\ Accounts' /\ Hooking'
  BY <1>1, <1>2 DEF Running, Accounts, Hooking
<1>10. Histories'
  BY <1>1, <1>2 DEF Histories
<1>11. ASSUME NEW n \in 1..Len(List), NEW c \in Cores PROVE Account(n, c)'
  <2> DEFINE t == List[n]
  <2>1. Account(n, c) /\ t \in Threads
    BY <1>1, ListIs DEF Sound
  <2>2. Overdue
    BY <1>2 DEF Overdue
  <2>3. Closed(n, c) = clock - Reload /\ Closed(n, c) \in Int /\ Begun(n, c) = clock - Reload
    BY <1>1, <2>2, LastIs DEF Closed, Begun
  <2>4. ~Overdue'
    BY <1>2, <1>3, <1>4 DEF Overdue
  <2>5. Closed(n, c)' \in Int /\ clock - Reload <= Closed(n, c)'
    <3>1. Closed(n, c)' \in {clock - Reload, clock - 0}
      BY <1>2, <1>4 DEF Closed, Last
    <3>2. QED
      BY <1>3, <3>1, ConstantsAre
  <2>6. ASSUME exact'[t][c] PROVE Begun(n, c)' = Begun(n, c)
    <3>1. info[t] = 1
      BY <1>1, <1>2, <2>1, <2>6 DEF Histories
    <3>2. irq'.k \in Nat /\ irq'.k # 0 /\ irq'.i = 0 /\ ~(n < irq'.k)
      BY <1>6, <3>1, ListIs DEF Place
    <3>3. Late(n, c)'
      BY <3>2, ListIs DEF Late, Cores
    <3>4. QED
      BY <1>2, <2>3, <3>3 DEF Begun, Last
  <2>7. QED
    BY <1>1, <1>2, <2>1, <2>2, <2>3, <2>5, <2>6, SameAccount
<1>12. AtHand'
  BY <1>6 DEF AtHand, Idle
<1>13. QED
  BY <1>7, <1>8, <1>9, <1>10, <1>11, <1>12 DEF Inv, Base, Sound

(* The place moves on within the loop. *)
LEMMA FreshGoes ==
  ASSUME Clocked, Served, irq.k # 0, UNCHANGED <<clock, timerTick>>,
         NEW n \in 1..Len(List), NEW c \in Cores,
         Fresh(n, c)' => Fresh(n, c)
  PROVE  /\ Closed(n, c) \in Int /\ Closed(n, c)' \in Int /\ Closed(n, c) <= Closed(n, c)'
         /\ ~Overdue /\ ~Overdue'
<1>1. clock \in Nat /\ clock % Reload = 0 /\ clock \div Reload \in Nat
  BY Quotient, ConstantsAre DEF Clocked
<1>2. ~Overdue /\ ~Overdue'
  BY <1>1 DEF Clocked, Overdue
<1>3. Closed(n, c) = IF Fresh(n, c) THEN clock - Reload ELSE clock - 0
  BY <1>1, <1>2 DEF Closed, Last
<1>4. Closed(n, c)' = IF Fresh(n, c)' THEN clock - Reload ELSE clock - 0
  BY <1>1, <1>2 DEF Closed, Last
<1>5. QED
  BY <1>1, <1>2, <1>3, <1>4, ConstantsAre

LEMMA CloseInv ==
  ASSUME Inv, IrqClose
  PROVE  Inv'
<1> DEFINE k == irq.k
           i == irq.i
           h == List[k]
<1>1. Clocked /\ Served /\ Hooking /\ Running /\ Accounts /\ Histories /\ Sound
  BY DEF Inv, Base
<1>2. /\ UNCHANGED <<clock, timerTick, cur, info, cost, hook, reg>>
      /\ UNCHANGED <<hooked, left, exact, used>>
      /\ irq # Idle /\ irq.at = "close" /\ irq' = [irq EXCEPT !.at = "publish"]
      /\ Close(h, i)
  BY DEF IrqClose, history
<1>3. /\ k \in 1..Len(List) /\ i \in Cores /\ h \in Threads /\ irq \in Place
      /\ irq.tick = clock /\ k # 0 /\ irq.k # 0
  BY <1>1, <1>2, PlaceIs
<1>4. /\ irq' \in Place /\ irq'.tick = clock /\ irq'.k = k /\ irq'.i = i /\ irq'.at = "publish"
  BY <1>2, <1>3 DEF Place
<1>5. clock \in Nat /\ clock < Word
  BY <1>1, ConstantsAre DEF Clocked
<1> DEFINE charged == enter[h][i] > leave[h][i]
           sum == Charge(count[h][i], enter[h][i], clock)
<1>6. /\ enter' \in PerCore(0..(Word - 1)) /\ leave' \in PerCore(0..(Word - 1))
      /\ count' \in PerCore(0..(Word - 1))
      /\ \A t \in Threads, c \in Cores :
           IF t = h /\ c = i /\ charged
             THEN enter'[t][c] = clock /\ leave'[t][c] = clock /\ count'[t][c] = sum
             ELSE UNCHANGED <<enter[t][c], leave[t][c], count[t][c]>>
  <2>1. /\ enter \in PerCore(0..(Word - 1)) /\ leave \in PerCore(0..(Word - 1))
        /\ count \in PerCore(0..(Word - 1))
    BY <1>1 DEF Accounts
  <2>2. CASE ~charged
    BY <1>2, <2>1, <2>2 DEF Close
  <2>3. CASE charged
    <3>1. clock \in 0..(Word - 1)
      BY <1>5, ConstantsAre
    <3>2. sum \in 0..(Word - 1)
      BY <1>1, <1>3, <1>5, Ranges, ChargeIs
    <3>3. /\ leave' = [leave EXCEPT ![h][i] = clock]
          /\ count' = [count EXCEPT ![h][i] = sum]
          /\ enter' = [enter EXCEPT ![h][i] = clock]
      BY <1>2, <1>3, <2>3 DEF Close
    <3> HIDE DEF sum, h, i, charged
    <3>4. QED
      BY <1>3, <2>1, <2>3, <3>1, <3>2, <3>3 DEF PerCore
  <2>4. QED
    BY <2>2, <2>3
<1>7. Clocked' /\ Served' /\ Hooking'
  BY <1>1, <1>2, <1>3, <1>4 DEF Clocked, Served, Hooking, Inner
<1>8. Running' /\ Accounts'
  BY <1>1, <1>2, <1>6 DEF Running, Accounts
<1>9. Histories'
  BY <1>1, <1>2 DEF Histories
<1>10. /\ enter[h][i] \in Nat /\ leave[h][i] \in Nat /\ count[h][i] \in Nat /\ hooked[i] \in Int
       /\ used[h][i] \in Nat /\ used[h][i] < Word
  BY <1>1, <1>3, Ranges
<1>11. Account(k, i)
  BY <1>1, <1>3 DEF Sound
<1>12. Fresh(k, i) /\ Closed(k, i) = clock - Reload
  <2>1. Fresh(k, i)
    BY <1>2, <1>3 DEF Fresh
  <2>2. QED
    BY <1>1, <2>1, LastIs DEF Closed
<1>13. ASSUME left[h][i]
       PROVE  (charged <=> cur[i] = h) /\ (cur[i] = h => hooked[i] < clock)
  <2>1. /\ cur[i] # h => enter[h][i] <= leave[h][i] /\ leave[h][i] <= hooked[i]
        /\ cur[i] = h => \/ enter[h][i] = hooked[i] /\ leave[h][i] < enter[h][i]
                         \/ /\ leave[h][i] = enter[h][i] /\ enter[h][i] > hooked[i]
                            /\ enter[h][i] <= clock - Reload
        /\ cur[i] = h => clock - Reload <= hooked[i] /\ hooked[i] < clock
    BY <1>11, <1>12, <1>13 DEF Account, Stamped
  <2>2. QED
    BY <1>5, <1>10, <2>1, ConstantsAre
<1>14. AtHand'
  <2>1. left[h][i] /\ cur[i] = h => enter'[h][i] = clock
    BY <1>3, <1>6, <1>13
  <2>2. QED
    BY <1>2, <1>4, <2>1 DEF AtHand
<1>15. ASSUME NEW n \in 1..Len(List), NEW c \in Cores PROVE Account(n, c)'
  <2> DEFINE t == List[n]
  <2>1. Account(n, c) /\ t \in Threads
    BY <1>1, ListIs DEF Sound
  <2>2. /\ Fresh(n, c)' => Fresh(n, c)
        /\ n = k /\ c = i => ~Fresh(n, c)'
        /\ Late(n, c)' <=> Late(n, c)
    BY <1>2, <1>3, <1>4 DEF Fresh, Late, Cores
  <2>3. /\ Closed(n, c) \in Int /\ Closed(n, c)' \in Int /\ Closed(n, c) <= Closed(n, c)'
        /\ ~Overdue /\ ~Overdue'
    BY <1>1, <1>2, <1>3, <2>2, FreshGoes
  <2>4. Begun(n, c)' = Begun(n, c)
    BY <1>2, <2>2, <2>3 DEF Begun, Last
  <2>5. CASE ~(n = k /\ c = i /\ charged)
    <3>1. ~(t = h /\ c = i /\ charged)
      BY <1>3, <2>5, ListIs
    <3>2. UNCHANGED <<enter[t][c], leave[t][c], count[t][c]>>
      BY <1>6, <2>1, <3>1
    <3>3. QED
      BY <1>1, <1>2, <2>1, <2>2, <2>3, <2>4, <3>2, SameAccount
  <2>6. CASE n = k /\ c = i /\ charged
    <3>1. /\ enter'[t][c] = clock /\ leave'[t][c] = clock /\ count'[t][c] = sum
          /\ t = h /\ c = i
      BY <1>3, <1>6, <2>6
    <3>2. Closed(n, c)' = clock
      <4>1. irq'.k # 0 /\ ~Fresh(n, c)'
        BY <1>3, <1>4, <2>2, <2>6
      <4>2. clock' % Reload = 0 /\ clock - 0 = clock
        BY <1>1, <1>2, <1>3, <1>5 DEF Clocked
      <4>3. QED
        BY <1>2, <2>3, <4>1, <4>2 DEF Closed, Last
    <3>3. ASSUME left[t][c] PROVE Stamped(n, c)'
      <4>1. cur[c] = t /\ hooked[c] < clock
        BY <1>13, <2>6, <3>1, <3>3
      <4>2. clock > hooked[c] /\ clock <= clock
        BY <1>5, <1>10, <3>1, <4>1
      <4>3. QED
        BY <1>2, <2>2, <2>3, <2>6, <3>1, <3>2, <4>1, <4>2 DEF Stamped
    <3>4. ASSUME exact[t][c] PROVE Counted(n, c)'
      <4>1. left[t][c]
        BY <1>1, <2>1, <3>4 DEF Histories
      <4>2. cur[c] = t
        BY <1>13, <2>6, <3>1, <4>1
      <4>3. used[t][c] = count[t][c] + (clock - enter[t][c]) /\ used[t][c] <= clock - Begun(n, c)
        BY <2>1, <3>4, <4>2 DEF Account, Counted
      <4> HIDE DEF t, h, i, k, charged
      <4>4. sum = used[t][c]
        <5>1. \A u \in Nat : u < Word /\ u = count[t][c] + (clock - enter[t][c])
                               => Charge(count[t][c], enter[t][c], clock) = u
          <6>1. count[t][c] \in Nat /\ enter[t][c] \in Nat
            BY <1>10, <3>1
          <6> HIDE DEF sum
          <6>2. \A n1, f1, u \in Nat : u < Word /\ u = n1 + (clock - f1) => Charge(n1, f1, clock) = u
            BY <1>5, ChargeIs, Zenon
          <6>3. QED
            BY <6>1, <6>2, Zenon
        <5>2. sum = Charge(count[t][c], enter[t][c], clock)
          BY <3>1
        <5>3. used[t][c] \in Nat /\ used[t][c] < Word
          BY <1>10, <3>1
        <5> HIDE DEF sum
        <5>4. QED
          BY <4>3, <5>1, <5>2, <5>3, Zenon
      <4>5. used[t][c] = used[t][c] + (clock - clock)
        BY <1>5, <1>10, <3>1
      <4> HIDE DEF sum
      <4>6. QED
        BY <1>2, <2>4, <3>1, <4>2, <4>3, <4>4, <4>5 DEF Counted, t
    <3>5. clock <= clock
      BY <1>5
    <3>6. QED
      BY <1>2, <3>1, <3>3, <3>4, <3>5 DEF Account
  <2>7. QED
    BY <2>5, <2>6
<1>16. QED
  BY <1>7, <1>8, <1>9, <1>14, <1>15 DEF Inv, Base, Sound

(* A step of the close of an account that the hook is at work on. *)
LEMMA IrqStep ==
  ASSUME Inv, irq # Idle, irq.i = 1, ~left[List[irq.k]][1],
         UNCHANGED <<clock, timerTick, cur, info, cost, hook, hooked, left, exact, used>>,
         NEW at \in Inner \cup {"publish"}, IrqGoes(at),
         reg' \in [Cores -> 0..(Word - 1)], Accounts', Apart(List[irq.k]),
         enter' = enter \/ enter'[List[irq.k]][1] = clock
  PROVE  Inv'
<1> DEFINE h == List[irq.k]
<1>1. Clocked /\ Served /\ Hooking /\ Running /\ Accounts /\ Histories /\ Sound
  BY DEF Inv, Base
<1>2. irq.k \in 1..Len(List) /\ irq.k # 0 /\ h \in Threads /\ irq \in Place /\ irq.tick = clock
  BY <1>1, PlaceIs
<1>3. /\ irq' \in Place /\ irq'.tick = clock /\ irq'.k = irq.k /\ irq'.i = irq.i /\ irq'.at = at
  BY <1>2 DEF IrqGoes, Place
<1>4. Clocked' /\ Served' /\ Hooking'
  BY <1>1, <1>2, <1>3 DEF Clocked, Served, Hooking
<1>5. Running' /\ Histories'
  BY <1>1 DEF Running, Histories
<1>6. cur[1] = h /\ info'[h] = 1 => enter'[h][1] <= clock
  <2>1. Account(irq.k, 1)
    BY <1>1, <1>2 DEF Sound, Cores
  <2>2. cur[1] = h /\ info[h] = 1 => enter[h][1] <= clock
    BY <2>1 DEF Account
  <2>3. clock <= clock
    BY <1>1 DEF Clocked
  <2>4. QED
    BY <2>2, <2>3
<1>7. Sound' /\ AtHand'
  <2> HIDE DEF h
  <2>1. List[irq.k] = h
    BY DEF h
  <2>2. ~left[h][1] /\ Apart(h)
    BY <2>1
  <2>3. irq'.k = irq.k /\ irq'.i = irq.i /\ irq.k # 0 /\ irq.i = 1
    BY <1>2, <1>3
  <2>4. UNCHANGED <<clock, cur, hooked, timerTick, left, exact, used, cost>>
    OBVIOUS
  <2>5. QED
    BY <1>2, <1>6, <2>1, <2>2, <2>3, <2>4, Aside
<1>8. QED
  BY <1>4, <1>5, <1>7 DEF Inv, Base

LEMMA IrqMovesInv ==
  ASSUME Inv, IrqTest \/ IrqLeave \/ IrqLoad \/ IrqStore \/ IrqEntered
  PROVE  Inv'
<1> DEFINE h == List[irq.k]
           W == 0..(Word - 1)
<1>1. Clocked /\ Served /\ Accounts /\ Hooking
  BY DEF Inv, Base
<1>2. irq # Idle
  BY DEF IrqTest, IrqLeave, IrqLoad, IrqStore, IrqEntered, Shared
<1>3. /\ h \in Threads /\ irq.tick = clock /\ irq.k # 0
      /\ irq.at \in Inner => irq.i = 1 /\ ~left[h][1]
  BY <1>1, <1>2, PlaceIs DEF Served
<1>4. irq.i = 1 /\ ~left[h][1]
  <2>1. CASE IrqTest
    <3>1. irq.i = 1 /\ hook # None /\ h \in {cur[1], hook.to}
      BY <2>1 DEF IrqTest, Shared
    <3>2. QED
      BY <3>1, AtWork
  <2>2. CASE ~IrqTest
    <3>1. irq.at \in Inner
      BY <2>2 DEF IrqLeave, IrqLoad, IrqStore, IrqEntered, Inner
    <3>2. QED
      BY <1>3, <3>1
  <2>3. QED
    BY <2>1, <2>2
<1>5. /\ enter \in PerCore(W) /\ leave \in PerCore(W) /\ count \in PerCore(W) /\ cost \in PerCore(W)
      /\ info \in [Threads -> {0, 1}] /\ reg \in [Cores -> W]
  BY <1>1 DEF Accounts, Hooking
<1>6. clock \in W /\ 0 \in W /\ 1 \in Cores /\ 0 \in Cores
  BY <1>1, ConstantsAre DEF Clocked, Cores
<1>7. CASE IrqTest
  <2>1. /\ UNCHANGED <<clock, timerTick, cur, info, enter, leave, count, cost, hook, reg>>
        /\ UNCHANGED <<hooked, left, exact, used>>
        /\ IrqGoes(IF enter[h][1] > leave[h][1] THEN "leave" ELSE "publish")
    BY <1>7 DEF IrqTest, account, history
  <2>2. PICK at \in Inner \cup {"publish"} : IrqGoes(at)
    BY <2>1 DEF Inner
  <2>3. Apart(h)
    BY <2>1 DEF Apart
  <2>4. Accounts'
    BY <1>5, <2>1 DEF Accounts
  <2>5. QED
    BY <1>2, <1>4, <1>5, <2>1, <2>2, <2>3, <2>4, IrqStep
<1>8. CASE IrqLeave
  <2>1. /\ UNCHANGED <<clock, timerTick, cur, info, enter, count, cost, hook, reg>>
        /\ UNCHANGED <<hooked, left, exact, used>>
        /\ IrqGoes("load") /\ leave' = [leave EXCEPT ![h][1] = clock]
    BY <1>3, <1>8 DEF IrqLeave, history
  <2>2. /\ leave' \in PerCore(W)
        /\ \A t \in Threads, c \in Cores : ~(t = h /\ c = 1) => leave'[t][c] = leave[t][c]
    <3> HIDE DEF W, h
    <3>1. QED
      BY <1>3, <1>5, <1>6, <2>1 DEF PerCore
  <2>3. Apart(h)
    BY <2>1, <2>2 DEF Apart
  <2>4. Accounts' /\ "load" \in Inner
    BY <1>5, <2>1, <2>2 DEF Accounts, Inner
  <2>5. QED
    BY <1>2, <1>4, <1>5, <2>1, <2>3, <2>4, IrqStep
<1>9. CASE IrqLoad
  <2>1. /\ UNCHANGED <<clock, timerTick, cur, info, enter, leave, count, cost, hook>>
        /\ UNCHANGED <<hooked, left, exact, used>>
        /\ IrqGoes("store")
        /\ reg' = [reg EXCEPT ![0] = Charge(count[h][1], enter[h][1], leave[h][1])]
    BY <1>9 DEF IrqLoad, account, history
  <2>2. reg' \in [Cores -> W]
    <3>1. count[h][1] \in Nat /\ enter[h][1] \in Nat /\ leave[h][1] \in Nat
      BY <1>3, <1>5, <1>6, ConstantsAre DEF PerCore
    <3>2. Charge(count[h][1], enter[h][1], leave[h][1]) \in W
      BY <3>1, ChargeIs
    <3>3. QED
      BY <1>5, <2>1, <3>2
  <2>3. Apart(h)
    BY <2>1 DEF Apart
  <2>4. Accounts' /\ "store" \in Inner
    BY <1>5, <2>1 DEF Accounts, Inner
  <2>5. QED
    BY <1>2, <1>4, <2>1, <2>2, <2>3, <2>4, IrqStep
<1>10. CASE IrqStore
  <2>1. /\ UNCHANGED <<clock, timerTick, cur, info, enter, leave, cost, hook>>
        /\ UNCHANGED <<hooked, left, exact, used>>
        /\ IrqGoes("enter") /\ count' = [count EXCEPT ![h][1] = reg[0]]
        /\ reg' = [reg EXCEPT ![0] = 0]
    BY <1>10 DEF IrqStore, history
  <2>2. reg' \in [Cores -> W] /\ reg[0] \in W
    <3> HIDE DEF W
    <3>1. QED
      BY <1>5, <1>6, <2>1
  <2>3. /\ count' \in PerCore(W)
        /\ \A t \in Threads, c \in Cores : ~(t = h /\ c = 1) => count'[t][c] = count[t][c]
    <3> HIDE DEF W, h
    <3>1. QED
      BY <1>3, <1>5, <1>6, <2>1, <2>2 DEF PerCore
  <2>4. Apart(h)
    BY <2>1, <2>3 DEF Apart
  <2>5. Accounts' /\ "enter" \in Inner
    BY <1>5, <2>1, <2>3 DEF Accounts, Inner
  <2>6. QED
    BY <1>2, <1>4, <2>1, <2>2, <2>4, <2>5, IrqStep
<1>11. CASE IrqEntered
  <2>1. /\ UNCHANGED <<clock, timerTick, cur, info, leave, count, cost, hook, reg>>
        /\ UNCHANGED <<hooked, left, exact, used>>
        /\ IrqGoes("publish") /\ enter' = [enter EXCEPT ![h][1] = clock]
    BY <1>3, <1>11 DEF IrqEntered, history
  <2>2. /\ enter' \in PerCore(W) /\ enter'[h][1] = clock
        /\ \A t \in Threads, c \in Cores : ~(t = h /\ c = 1) => enter'[t][c] = enter[t][c]
    <3> HIDE DEF W, h
    <3>1. QED
      BY <1>3, <1>5, <1>6, <2>1 DEF PerCore
  <2>3. Apart(h)
    BY <2>1, <2>2 DEF Apart
  <2>4. Accounts'
    BY <1>5, <2>1, <2>2 DEF Accounts
  <2>5. QED
    BY <1>2, <1>4, <1>5, <2>1, <2>2, <2>3, <2>4, IrqStep
<1>12. QED
  BY <1>7, <1>8, <1>9, <1>10, <1>11

(* The cost is published. *)
LEMMA PublishInv ==
  ASSUME Inv, IrqPublish
  PROVE  Inv'
<1> DEFINE k == irq.k
           i == irq.i
           h == List[k]
<1>1. Clocked /\ Served /\ Hooking /\ Running /\ Accounts /\ Histories /\ Sound /\ AtHand
  BY DEF Inv, Base
<1>2. /\ UNCHANGED <<clock, timerTick, cur, info, enter, leave, count, hook, reg>>
      /\ UNCHANGED <<hooked, left, exact, used>>
      /\ irq # Idle /\ irq.at = "publish" /\ irq' = [irq EXCEPT !.at = "reset"]
      /\ cost' = [cost EXCEPT ![h][i] = count[h][i]]
  BY DEF IrqPublish, history
<1>3. /\ k \in 1..Len(List) /\ i \in Cores /\ h \in Threads /\ irq \in Place
      /\ irq.tick = clock /\ irq.k # 0
  BY <1>1, <1>2, PlaceIs
<1>4. /\ irq' \in Place /\ irq'.tick = clock /\ irq'.k = k /\ irq'.i = i /\ irq'.at = "reset"
  BY <1>2, <1>3 DEF Place
<1>5. cost' \in PerCore(0..(Word - 1)) /\ cost'[h][i] = count[h][i]
  <2>1. count[h][i] \in 0..(Word - 1) /\ cost \in PerCore(0..(Word - 1))
    BY <1>1, <1>3 DEF Accounts, PerCore
  <2> HIDE DEF h, i
  <2>2. QED
    BY <1>2, <1>3, <2>1 DEF PerCore
<1>6. Clocked' /\ Served' /\ Hooking'
  BY <1>1, <1>2, <1>3, <1>4 DEF Clocked, Served, Hooking, Inner
<1>7. Running' /\ Accounts'
  BY <1>1, <1>2, <1>5 DEF Running, Accounts
<1>8. Histories'
  BY <1>1, <1>2 DEF Histories
<1>9. left[h][i] /\ cur[i] = h => enter[h][i] = clock
  BY <1>1, <1>2, <1>3 DEF AtHand
<1>10. ASSUME exact[h][i] PROVE count[h][i] = used[h][i]
  <2>1. left[h][i] /\ Counted(k, i)
    BY <1>1, <1>3, <1>10 DEF Histories, Sound, Account
  <2>2. used[h][i] = count[h][i] + IF cur[i] = h THEN clock - enter[h][i] ELSE 0
    BY <2>1 DEF Counted
  <2>3. clock \in Nat /\ count[h][i] \in Nat
    BY <1>1, <1>3, Ranges
  <2>4. CASE cur[i] = h
    <3>1. used[h][i] = count[h][i] + (clock - clock)
      BY <1>9, <2>1, <2>2, <2>4
    <3>2. QED
      BY <2>3, <3>1
  <2>5. QED
    BY <2>2, <2>3, <2>4
<1>11. AtHand'
  BY <1>2, <1>4, <1>5, <1>9, <1>10 DEF AtHand
<1>12. ASSUME NEW n \in 1..Len(List), NEW c \in Cores PROVE Account(n, c)'
  <2>1. Account(n, c)
    BY <1>1 DEF Sound
  <2>2. (Fresh(n, c)' => Fresh(n, c)) /\ (Late(n, c)' <=> Late(n, c))
    BY <1>2, <1>3, <1>4 DEF Fresh, Late
  <2>3. /\ Closed(n, c) \in Int /\ Closed(n, c)' \in Int /\ Closed(n, c) <= Closed(n, c)'
        /\ ~Overdue /\ ~Overdue'
    BY <1>1, <1>2, <1>3, <2>2, FreshGoes
  <2>4. Begun(n, c)' = Begun(n, c)
    BY <1>2, <2>2, <2>3 DEF Begun, Last
  <2>5. QED
    BY <1>1, <1>2, <2>1, <2>2, <2>3, <2>4, SameAccount
<1>13. QED
  BY <1>6, <1>7, <1>8, <1>11, <1>12 DEF Inv, Base, Sound

(* The account starts a new period. *)
LEMMA ResetInv ==
  ASSUME Inv, IrqReset
  PROVE  Inv'
<1> DEFINE k == irq.k
           i == irq.i
           h == List[k]
<1>1. Clocked /\ Served /\ Hooking /\ Running /\ Accounts /\ Histories /\ Sound /\ AtHand
  BY DEF Inv, Base
<1>2. /\ UNCHANGED <<clock, timerTick, cur, info, enter, leave, cost, hook, reg>>
      /\ UNCHANGED <<hooked, left>>
      /\ irq # Idle /\ irq.at = "reset" /\ irq' = After(k, i, irq.tick)
      /\ count' = [count EXCEPT ![h][i] = 0]
      /\ used' = [used EXCEPT ![h][i] = 0]
      /\ exact' = [exact EXCEPT ![h][i] = left[h][i]]
  BY DEF IrqReset
<1>3. /\ k \in 1..Len(List) /\ k \in 0..Len(List) /\ i \in Cores /\ h \in Threads /\ irq \in Place
      /\ irq.tick = clock /\ k # 0 /\ irq.k # 0 /\ clock \in Nat
  BY <1>1, <1>2, PlaceIs DEF Clocked
<1>4. \/ irq' = Idle /\ irq'.k = 0 /\ i = 1 /\ \A n \in (k + 1)..Len(List) : info[List[n]] # 1
      \/ /\ irq' \in Place /\ irq'.tick = clock /\ irq'.at = "close"
         /\ \/ irq'.k = k /\ i = 0 /\ irq'.i = 1
            \/ /\ irq'.k > k /\ i = 1 /\ irq'.i = 0
               /\ \A n \in (k + 1)..Len(List) : n < irq'.k => info[List[n]] # 1
  BY <1>2, <1>3, AfterIs DEF Idle
<1>5. /\ count' \in PerCore(0..(Word - 1)) /\ used' \in PerCore(Nat) /\ exact' \in PerCore(BOOLEAN)
      /\ \A t \in Threads, c \in Cores :
           IF t = h /\ c = i
             THEN count'[t][c] = 0 /\ used'[t][c] = 0 /\ exact'[t][c] = left[t][c]
             ELSE UNCHANGED <<count[t][c], used[t][c], exact[t][c]>>
  <2>1. /\ count \in PerCore(0..(Word - 1)) /\ used \in PerCore(Nat)
        /\ exact \in PerCore(BOOLEAN) /\ left[h][i] \in BOOLEAN /\ 0 \in 0..(Word - 1)
    <3>1. left \in PerCore(BOOLEAN)
      BY <1>1 DEF Histories
    <3>2. left[h][i] \in BOOLEAN
      BY <1>3, <3>1 DEF PerCore
    <3>3. QED
      BY <1>1, <3>2, ConstantsAre DEF Accounts, Histories
  <2> HIDE DEF h, i
  <2>2. /\ count' \in PerCore(0..(Word - 1))
        /\ \A t \in Threads, c \in Cores : count'[t][c] = IF t = h /\ c = i THEN 0 ELSE count[t][c]
    BY <1>2, <1>3, <2>1 DEF PerCore
  <2>3. /\ used' \in PerCore(Nat)
        /\ \A t \in Threads, c \in Cores : used'[t][c] = IF t = h /\ c = i THEN 0 ELSE used[t][c]
    BY <1>2, <1>3, <2>1 DEF PerCore
  <2>4. /\ exact' \in PerCore(BOOLEAN)
        /\ \A t \in Threads, c \in Cores :
             exact'[t][c] = IF t = h /\ c = i THEN left[h][i] ELSE exact[t][c]
    BY <1>2, <1>3, <2>1 DEF PerCore
  <2>5. QED
    BY <2>2, <2>3, <2>4
<1>6. Clocked' /\ Served' /\ Hooking'
  BY <1>1, <1>2, <1>3, <1>4 DEF Clocked, Served, Hooking, Inner
<1>7. Running' /\ Accounts'
  BY <1>1, <1>2, <1>5 DEF Running, Accounts
<1>8. Histories'
  <2>1. ASSUME NEW t \in Threads, NEW c \in Cores
        PROVE  used'[t][c] <= clock /\ (exact'[t][c] => left[t][c]) /\ (left[t][c] => info[t] = 1)
    BY <1>1, <1>3, <1>5 DEF Histories
  <2>2. QED
    BY <1>1, <1>2, <1>5, <2>1, ZenonT(40) DEF Histories
<1>9. AtHand'
  BY <1>4 DEF AtHand
<1>10. ASSUME NEW n \in 1..Len(List), NEW c \in Cores PROVE Account(n, c)'
  <2> DEFINE t == List[n]
  <2>1. Account(n, c) /\ t \in Threads
    BY <1>1, ListIs DEF Sound
  <2>2. Fresh(n, c)' => Fresh(n, c)
    BY <1>2, <1>3, <1>4, ListIs DEF Fresh, Place, Cores
  <2>3. /\ Closed(n, c) \in Int /\ Closed(n, c)' \in Int /\ Closed(n, c) <= Closed(n, c)'
        /\ ~Overdue /\ ~Overdue'
    BY <1>1, <1>2, <1>3, <2>2, FreshGoes
  <2>4. CASE ~(n = k /\ c = i)
    <3>1. ~(t = h /\ c = i)
      BY <1>3, <2>4, ListIs
    <3>2. UNCHANGED <<count[t][c], used[t][c], exact[t][c]>>
      BY <1>5, <2>1, <3>1
    <3>3. ASSUME exact'[t][c] PROVE Begun(n, c)' = Begun(n, c)
      <4>1. info[t] = 1
        BY <1>1, <2>1, <3>2, <3>3 DEF Histories
      <4>2. Late(n, c)' <=> Late(n, c)
        BY <1>3, <1>4, <2>4, <4>1, ListIs DEF Late, Place, Cores
      <4>3. QED
        BY <1>2, <2>3, <4>2 DEF Begun, Last
    <3>4. QED
      BY <1>1, <1>2, <2>1, <2>2, <2>3, <3>2, <3>3, SameAccount
  <2>5. CASE n = k /\ c = i
    <3>1. t = h /\ c = i
      BY <2>5
    <3>2. left[t][c] /\ cur[c] = t => enter[t][c] = clock
      BY <1>1, <1>2, <1>3, <3>1 DEF AtHand
    <3>3. count'[t][c] = 0 /\ used'[t][c] = 0 /\ exact'[t][c] = left[t][c]
      BY <1>5, <2>1, <3>1
    <3>4. enter[t][c] <= Closed(n, c) => enter[t][c] <= Closed(n, c)'
      BY <1>1, <2>1, <2>3, Ranges
    <3>5. left[t][c] => Stamped(n, c)'
      <4>1. left[t][c] => Stamped(n, c)
        BY <2>1 DEF Account
      <4>2. QED
        BY <1>2, <2>2, <2>3, <3>4, <4>1 DEF Stamped
    <3>6. ASSUME exact'[t][c] PROVE Counted(n, c)'
      <4>1. 0 <= clock - Begun(n, c)'
        <5>1. Clocked'
          BY <1>6
        <5>2. Begun(n, c)' \in Int /\ Begun(n, c)' <= clock'
          <6>1. Begun(n, c)' \in {clock - Reload, clock - (clock % Reload)}
            BY <1>2 DEF Begun, Last
          <6>2. clock % Reload = 0
            BY <1>1, <1>3 DEF Clocked
          <6>3. QED
            BY <1>2, <1>3, <6>1, <6>2, ConstantsAre
        <5>3. QED
          BY <1>2, <1>3, <5>2
      <4>2. cur[c] = t => clock - enter[t][c] = 0
        BY <1>3, <3>2, <3>3, <3>6
      <4> HIDE DEF t
      <4>3. used'[t][c] = count'[t][c] + IF cur'[c] = t THEN clock' - enter'[t][c] ELSE 0
        BY <1>2, <3>3, <4>2
      <4>4. QED
        BY <1>2, <3>3, <4>1, <4>3 DEF Counted, t
    <3>7. cur[c] = t /\ info[t] = 1 => enter[t][c] <= clock
      BY <2>1 DEF Account
    <3>8. QED
      BY <1>2, <3>5, <3>6, <3>7 DEF Account
  <2>6. QED
    BY <2>4, <2>5
<1>11. QED
  BY <1>6, <1>7, <1>8, <1>9, <1>10 DEF Inv, Base, Sound

(* A step that touches neither the accounts nor the interrupt. *)
LEMMA OtherInv ==
  ASSUME Inv, UNCHANGED <<clock, timerTick, cur, info, enter, leave, count, cost, irq, hook, reg>>,
         UNCHANGED <<hooked, left, exact, used>>
  PROVE  Inv'
<1>1. Clocked /\ Served /\ Hooking /\ Running /\ Accounts /\ Histories /\ Sound /\ AtHand
  BY DEF Inv, Base
<1>2. Clocked' /\ Served' /\ Hooking' /\ Running'
  BY <1>1 DEF Clocked, Served, Hooking, Running
<1>3. Accounts' /\ Histories'
  BY <1>1 DEF Accounts, Histories
<1>4. Sound' /\ AtHand'
  BY <1>1 DEF Sound, AtHand, Account, Stamped, Counted, Closed, Begun, Last, Overdue, Fresh, Late
<1>5. QED
  BY <1>2, <1>3, <1>4 DEF Inv, Base

LEMMA NextInv ==
  ASSUME Inv, [Next]_vars
  PROVE  Inv'
<1>1. ASSUME NEW c \in Cores, NEW to \in Threads, SwitchNoMemory(c, to) PROVE Inv'
  BY <1>1, OtherInv DEF SwitchNoMemory, account, history
<1>2. CASE UNCHANGED vars
  BY <1>2, OtherInv DEF vars, account, history
<1>3. CASE schedule_hook
  BY <1>3, HookBeginInv, HookMovesInv, HookEnterInv DEF schedule_hook
<1>4. CASE timer_irq
  BY <1>4, IrqEnterInv, CloseInv, IrqMovesInv, PublishInv, ResetInv DEF timer_irq
<1>5. QED
  BY <1>1, <1>2, <1>3, <1>4, TickInv, SwitchInv DEF Next

LEMMA UsageInv == Spec => []Inv
BY InitInv, NextInv, PTL DEF Spec

-----------------------------------------------------------------------------
(* For any number of threads and any period, and although timer_irq takes no *)
(* lock against a hook on core 1: the cost that timer_irq publishes for an   *)
(* account is what the thread used on that core in the period, and at most   *)
(* the period, if the account was right when the period began and was not    *)
(* spoilt since.  Only a switch in the shadow of the interrupt and a thread  *)
(* that keeps its core for a period spoil one, and only their own; it is     *)
(* right again one period after its thread has left the core.                *)
THEOREM UsageIsExact == Spec => []UsageExact
<1>1. Inv => UsageExact
  <2> SUFFICES ASSUME Inv PROVE UsageExact
    OBVIOUS
  <2>1. Clocked /\ Served /\ Hooking /\ Running /\ Accounts /\ Histories /\ Sound /\ AtHand
    BY DEF Inv, Base
  <2>2. TypeOK
    <3>1. clock \in 0..MaxClock /\ clock \div Reload \in Nat
      BY <2>1, Quotient, ConstantsAre DEF Clocked
    <3>2. timerTick \in 0..(clock \div Reload)
      BY <2>1, <3>1 DEF Clocked
    <3>3. QED
      BY <2>1, <3>1, <3>2 DEF TypeOK, Accounts, Hooking
  <2>3. ASSUME irq # Idle, irq.at = "reset", exact[List[irq.k]][irq.i]
        PROVE  LET t == List[irq.k]
               IN  cost[t][irq.i] = used[t][irq.i] /\ cost[t][irq.i] <= Reload
    <3> DEFINE t == List[irq.k]
               i == irq.i
    <3>1. irq.k # 0 /\ irq.k \in 1..Len(List) /\ i \in Cores /\ t \in Threads
      BY <2>1, <2>3, PlaceIs
    <3>2. cost[t][i] = used[t][i]
      BY <2>1, <2>3, <3>1 DEF AtHand
    <3>3. used[t][i] <= clock - Begun(irq.k, i)
      BY <2>1, <2>3, <3>1 DEF Sound, Account, Counted
    <3>4. Begun(irq.k, i) = clock - Reload
      <4>1. Late(irq.k, i)
        BY <3>1 DEF Late, Cores
      <4>2. QED
        BY <2>1, <4>1, LastIs DEF Begun
    <3>5. used[t][i] \in Nat /\ clock \in Nat
      BY <2>1, <3>1, Ranges
    <3>6. used[t][i] <= Reload
      BY <3>3, <3>4, <3>5, ConstantsAre
    <3>7. QED
      BY <3>2, <3>6
  <2>4. QED
    BY <2>2, <2>3 DEF UsageExact
<1>2. QED
  BY <1>1, UsageInv, PTL
=============================================================================
