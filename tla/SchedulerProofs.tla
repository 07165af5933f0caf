-------------------------- MODULE SchedulerProofs ---------------------------
(***************************************************************************)
(* The SMP scheduler for any number of CPUs, threads and priorities.  The  *)
(* ready queues are used through three facts only: what is in them after   *)
(* an insertion, what is in them after a removal, and that the thread that *)
(* _get_highest_priority_thread returns is in one of them and is the best. *)
(***************************************************************************)
EXTENDS Scheduler, SequenceTheorems, FiniteSetTheorems, NaturalsInduction,
        WellFoundedInduction, TLAPS

(* No element is in a sequence twice. *)
Distinct(s) == \A i, j \in 1..Len(s) : s[i] = s[j] => i = j

(* Thread t is ready and in its list. *)
Queued(q, t) == Contains(ListOf(q, t), t)

(* The lists of a queue hold threads of their CPU and priority, each once,   *)
(* and the bitmap says which of them are not empty.                          *)
Sound(q) ==
  /\ q \in [0..RT_CPUS_NR -> Queue]
  /\ \A b \in 0..RT_CPUS_NR, p \in Prio :
       LET l == q[b].table[p] IN
       /\ p \in q[b].group <=> l # <<>>
       /\ \A i \in 1..Len(l) : bind_cpu[l[i]] = b /\ priority[l[i]] = p
       /\ Distinct(l)

(* What a thread may be while it is queued, running or neither. *)
Places ==
  /\ \A t \in AllThreads : /\ stat[t] = "READY" <=> Queued(queue, t)
                           /\ stat[t] = "RUNNING" => oncpu[t] # DETACHED
                           /\ oncpu[t] # DETACHED => stat[t] \in {"RUNNING", "SUSPEND"}
                           /\ \A c \in Cpu : oncpu[t] = c <=> current[c] = t
  /\ \A c \in Cpu : /\ current[c] = none => trap[c] = "no" /\ stat[idle[c]] = "READY"
                    /\ trap[c] = "store" => /\ reg[c] # "none"
                                            /\ stat[current[c]] = "SUSPEND" => reg[c] = "SUSPEND"

(* A thread that waits for the heap or for its timer is suspended; the list  *)
(* of heap_sem holds a thread once.                                          *)
Waits ==
  /\ \A t \in AllThreads : Contains(waiting, t) \/ t \in asleep => stat[t] = "SUSPEND"
  /\ Distinct(waiting)

(* Who holds the two spin locks, and how often threads count them. *)
Locked ==
  /\ \A c \in Cpu : /\ current[c] # none => (lock = c <=> nest[current[c]] > 0)
                    /\ lock = c => current[c] # none
                    /\ trap[c] = "check" => /\ lock = c /\ nest[current[c]] = 1
                                            /\ sched[current[c]] # "in"
  /\ \A t \in AllThreads :
       /\ snest[t] = (IF nest[t] > 0 THEN 1 ELSE 0) + (IF crit = t THEN 1 ELSE 0)
       /\ crit = t <=> pc[t] = "crit"
       /\ sched[t] = "in" /\ stat[t] # "CLOSE" => nest[t] = 1
       /\ pc[t] = "reap" => sched[t] = "no"

(* Until the clock has written an old stat back or a suspended thread has    *)
(* gone on ...                                                               *)
Calm == ~raced /\ ~broken

(* ... a suspended thread leaves its CPU before it does anything else ...    *)
Parked ==
  \A t \in AllThreads : /\ stat[t] = "SUSPEND" /\ oncpu[t] # DETACHED => sched[t] = "call"
                        /\ t \in asleep => pc[t] = "run"
                        /\ Contains(waiting, t) => pc[t] = "heap"

(* ... and heap_sem counts the one owner of the heap.                        *)
Owner(t) == pc[t] = "heap" /\ ~Contains(waiting, t)

OneOwner ==
  /\ waiting # <<>> => value = 0
  /\ \/ value = 1 /\ \A t \in AllThreads : ~Owner(t)
     \/ value = 0 /\ \E o \in AllThreads : \A t \in AllThreads : Owner(t) <=> t = o

Owned == Calm => Parked /\ OneOwner

(* A ready thread that CPU c may run is no better than the one it runs, or c *)
(* will look: it has an interrupt pending, handles one that has set the      *)
(* flag, is about to call rt_schedule or is in a critical section.           *)
Looks(c) ==
  \/ ipi[c] \/ sched[current[c]] = "call" \/ (trap[c] # "no" /\ flag[c] = 1)
  \/ crit = current[c]

Prompt(c) ==
  current[c] # none =>
    \/ Looks(c)
    \/ \A t \in AllThreads : stat[t] = "READY" /\ bind_cpu[t] \in {c, Global}
                               => priority[current[c]] <= priority[t]

Preempts == broken \/ \A c \in Cpu : Prompt(c)

(* Only the first idle thread frees, and only while there is something left. *)
Frees ==
  \A t \in AllThreads \ Thread :
    /\ pc[t] \in {"run", "reap", "free", "heap"}
    /\ pc[t] \in {"free", "heap"} => t = idle[0] /\ frees > 0
    /\ pc[t] = "reap" => t = idle[0]

(* What every step needs, and the whole. *)
Base ==
  ThreadsOK /\ CpusOK /\ HeapOK /\ Sound(queue) /\ Places /\ Waits /\ Locked

Inv == Base /\ HookOK /\ Frees /\ NoLostResume /\ Owned /\ Preempts

-----------------------------------------------------------------------------
(* Sequences: what they contain after one element is added or taken off. *)
LEMMA MinOfNats ==
  ASSUME NEW S, S \subseteq Nat, S # {}
  PROVE  Min(S) \in S /\ \A y \in S : Min(S) <= y
<1>1. PICK x \in S : \A y \in S : ~(<<y, x>> \in OpToRel(<, Nat))
  BY NatLessThanWellFounded, WFMin
<1>2. ASSUME NEW y \in S PROVE x <= y
  <2>1. x \in Nat /\ y \in Nat
    OBVIOUS
  <2>2. ~(y < x)
    BY <1>1, <2>1, Zenon DEF OpToRel
  <2>3. QED
    BY <2>1, <2>2
<1>3. QED
  BY <1>2 DEF Min

LEMMA EmptyHasNone ==
  ASSUME NEW S
  PROVE  /\ \A u : ~Contains(<<>>, u)
         /\ Distinct(<<>>)
         /\ \A s \in Seq(S) : s # <<>> => Contains(s, Head(s)) /\ Head(s) \in S
BY DEF Contains, Distinct

LEMMA AppendAdds ==
  ASSUME NEW S, NEW s \in Seq(S), NEW e \in S
  PROVE  /\ Append(s, e) \in Seq(S) /\ Append(s, e) # <<>>
         /\ \A u : Contains(Append(s, e), u) <=> Contains(s, u) \/ u = e
         /\ Distinct(s) /\ ~Contains(s, e) => Distinct(Append(s, e))
         /\ Head(Append(s, e)) = IF s = <<>> THEN e ELSE Head(s)
<1>1. /\ Append(s, e) \in Seq(S) /\ Append(s, e) # <<>> /\ Len(Append(s, e)) = Len(s) + 1
      /\ \A i \in 1..Len(s) : Append(s, e)[i] = s[i]
      /\ Append(s, e)[Len(s) + 1] = e
  BY AppendProperties
<1>2. \A u : Contains(Append(s, e), u) <=> Contains(s, u) \/ u = e
  BY <1>1 DEF Contains
<1>3. ASSUME Distinct(s), ~Contains(s, e) PROVE Distinct(Append(s, e))
  BY <1>1, <1>3 DEF Contains, Distinct
<1>4. QED
  BY <1>1, <1>2, <1>3, HeadTailAppend

LEMMA TailDrops ==
  ASSUME NEW S, NEW s \in Seq(S), s # <<>>, Distinct(s)
  PROVE  /\ Tail(s) \in Seq(S) /\ Distinct(Tail(s))
         /\ \A u : Contains(Tail(s), u) <=> Contains(s, u) /\ u # Head(s)
<1>1. /\ Tail(s) \in Seq(S) /\ Len(Tail(s)) = Len(s) - 1 /\ Len(s) \in Nat /\ Len(s) > 0
      /\ \A i \in 1..Len(Tail(s)) : Tail(s)[i] = s[i + 1]
      /\ Head(s) = s[1]
  BY HeadTailProperties, EmptySeq, LenProperties
<1>2. Distinct(Tail(s))
  BY <1>1 DEF Distinct
<1>3. ASSUME NEW u, Contains(Tail(s), u) PROVE Contains(s, u) /\ u # Head(s)
  BY <1>1, <1>3 DEF Contains, Distinct
<1>4. ASSUME NEW u, Contains(s, u), u # Head(s) PROVE Contains(Tail(s), u)
  <2>1. PICK i \in 1..Len(s) : s[i] = u
    BY <1>4 DEF Contains
  <2>2. i - 1 \in 1..Len(Tail(s)) /\ Tail(s)[i - 1] = u
    BY <1>1, <1>4, <2>1
  <2>3. QED
    BY <2>2 DEF Contains
<1>5. QED
  BY <1>1, <1>2, <1>3, <1>4

LEMMA RemoveFirstDrops ==
  ASSUME NEW S, NEW s \in Seq(S), Distinct(s), NEW e
  PROVE  /\ RemoveFirst(s, e) \in Seq(S) /\ Distinct(RemoveFirst(s, e))
         /\ \A u : Contains(RemoveFirst(s, e), u) <=> Contains(s, u) /\ u # e
<1>1. CASE ~ \E i \in 1..Len(s) : s[i] = e
  <2>1. RemoveFirst(s, e) = s
    BY <1>1 DEF RemoveFirst
  <2>2. QED
    BY <1>1, <2>1 DEF Contains
<1>2. CASE \E i \in 1..Len(s) : s[i] = e
  <2> DEFINE I == {i \in 1..Len(s) : s[i] = e}
  <2>1. PICK k \in 1..Len(s) : s[k] = e
    BY <1>2
  <2>2. Len(s) \in Nat /\ k \in Nat /\ k > 0 /\ k <= Len(s) /\ \A i \in 1..Len(s) : s[i] \in S
    BY LenProperties, ElementOfSeq
  <2>3. I = {k}
    BY <2>1 DEF Distinct
  <2>4. Min({k}) = k
    BY <2>2 DEF Min
  <2>5. RemoveFirst(s, e) = RemoveAt(s, k)
    BY <1>2, <2>3, <2>4 DEF RemoveFirst, SelectInSeq
  <2> DEFINE a == SubSeq(s, 1, k - 1)  b == SubSeq(s, k + 1, Len(s))  r == a \o b
  <2>6. a \in Seq(S) /\ Len(a) = k - 1 /\ \A i \in 1..(k - 1) : a[i] = s[i]
    <3>1. \A i \in 1..(k - 1) : s[i] \in S
      BY <2>2
    <3>2. 1 \in Int /\ k - 1 \in Int
      BY <2>2
    <3>3. QED
      BY <2>2, <3>1, <3>2, SubSeqProperties
  <2>7. b \in Seq(S) /\ Len(b) = Len(s) - k /\ \A i \in 1..(Len(s) - k) : b[i] = s[k + i]
    <3>1. \A i \in (k + 1)..Len(s) : s[i] \in S
      BY <2>2
    <3>2. k + 1 \in Int /\ Len(s) \in Int
      BY <2>2
    <3>3. /\ b \in Seq(S) /\ Len(b) = IF k + 1 <= Len(s) THEN Len(s) - (k + 1) + 1 ELSE 0
          /\ \A i \in 1..(Len(s) - (k + 1) + 1) : b[i] = s[(k + 1) + i - 1]
      BY <3>1, <3>2, SubSeqProperties
    <3>4. QED
      BY <2>2, <3>3
  <2> HIDE DEF a, b
  <2>8. r \in Seq(S) /\ Len(r) = Len(s) - 1
    <3>1. a \o b \in Seq(S) /\ Len(a \o b) = Len(a) + Len(b)
      BY <2>6, <2>7, ConcatProperties
    <3>2. QED
      BY <2>2, <2>6, <2>7, <3>1
  <2>9. \A i \in 1..(Len(s) - 1) : r[i] = IF i < k THEN s[i] ELSE s[i + 1]
    <3> SUFFICES ASSUME NEW i \in 1..(Len(s) - 1) PROVE r[i] = IF i < k THEN s[i] ELSE s[i + 1]
      OBVIOUS
    <3>1. r[i] = IF i <= Len(a) THEN a[i] ELSE b[i - Len(a)]
      BY <2>2, <2>6, <2>7, ConcatProperties
    <3>2. CASE i < k
      BY <2>2, <2>6, <3>1, <3>2
    <3>3. CASE ~(i < k)
      <4>1. i - (k - 1) \in 1..(Len(s) - k)
        BY <2>2, <3>3
      <4>2. b[i - (k - 1)] = s[i + 1]
        <5>1. b[i - (k - 1)] = s[k + (i - (k - 1))]
          BY <2>7, <4>1
        <5>2. k + (i - (k - 1)) = i + 1
          BY <2>2
        <5>3. QED
          BY <5>1, <5>2
      <4>3. QED
        BY <2>2, <2>6, <3>1, <3>3, <4>2
    <3>4. QED
      BY <3>2, <3>3
  <2> HIDE DEF r
  <2>10. Distinct(r)
    BY <2>2, <2>8, <2>9, SMTT(30) DEF Distinct
  <2>11. ASSUME NEW u, Contains(r, u) PROVE Contains(s, u) /\ u # e
    <3>1. PICK i \in 1..Len(r) : r[i] = u
      BY <2>11 DEF Contains
    <3>2. PICK j \in 1..Len(s) : s[j] = u /\ j # k
      BY <2>2, <2>8, <2>9, <3>1, SMTT(30)
    <3>3. QED
      BY <2>1, <3>2 DEF Contains, Distinct
  <2>12. ASSUME NEW u, Contains(s, u), u # e PROVE Contains(r, u)
    <3>1. PICK j \in 1..Len(s) : s[j] = u
      BY <2>12 DEF Contains
    <3>2. CASE j < k
      BY <2>2, <2>8, <2>9, <3>1, <3>2 DEF Contains
    <3>3. CASE j > k
      <4>1. j - 1 \in 1..Len(r) /\ r[j - 1] = u
        BY <2>2, <2>8, <2>9, <3>1, <3>3
      <4>2. QED
        BY <4>1 DEF Contains
    <3>4. j # k
      BY <2>1, <2>12, <3>1
    <3>5. QED
      BY <2>2, <3>1, <3>2, <3>3, <3>4
  <2>13. RemoveFirst(s, e) = r
    BY <2>5 DEF RemoveAt, r, a, b
  <2>14. QED
    BY <2>8, <2>10, <2>11, <2>12, <2>13
<1>3. QED
  BY <1>1, <1>2

LEMMA RemoveFirstEmpty ==
  ASSUME NEW e
  PROVE  RemoveFirst(<<>>, e) = <<>>
<1>1. ~ \E i \in 1..Len(<<>>) : <<>>[i] = e
  OBVIOUS
<1>2. QED
  BY <1>1 DEF RemoveFirst

-----------------------------------------------------------------------------
(* The ready queues. *)
LEMMA Bound ==
  ASSUME NEW t \in AllThreads
  PROVE  bind_cpu[t] \in 0..RT_CPUS_NR /\ priority[t] \in Prio
BY ReadyQueueAssumption DEF Prio

LEMMA QueueParts ==
  ASSUME NEW q, Sound(q), NEW b \in 0..RT_CPUS_NR
  PROVE  /\ q[b] = [table |-> q[b].table, group |-> q[b].group]
         /\ q[b].table \in [Prio -> Seq(AllThreads)] /\ q[b].group \subseteq Prio
BY DEF Sound, Queue

LEMMA ListFacts ==
  ASSUME NEW q, Sound(q), NEW b \in 0..RT_CPUS_NR, NEW p \in Prio
  PROVE  /\ q[b].table[p] \in Seq(AllThreads) /\ Distinct(q[b].table[p])
         /\ p \in q[b].group <=> q[b].table[p] # <<>>
         /\ \A u : Contains(q[b].table[p], u) => bind_cpu[u] = b /\ priority[u] = p
<1>1. q[b].table[p] \in Seq(AllThreads)
  <2>1. q[b].table \in [Prio -> Seq(AllThreads)]
    BY QueueParts
  <2>2. QED
    BY <2>1
<1>2. /\ Distinct(q[b].table[p])
      /\ p \in q[b].group <=> q[b].table[p] # <<>>
      /\ \A i \in 1..Len(q[b].table[p]) : /\ bind_cpu[q[b].table[p][i]] = b
                                          /\ priority[q[b].table[p][i]] = p
  BY DEF Sound
<1>3. ASSUME NEW u, Contains(q[b].table[p], u) PROVE bind_cpu[u] = b /\ priority[u] = p
  <2>1. PICK i \in 1..Len(q[b].table[p]) : q[b].table[p][i] = u
    BY <1>3 DEF Contains
  <2>2. QED
    BY <1>2, <2>1
<1>4. QED
  BY <1>1, <1>2, <1>3

(* rt_schedule_insert_thread adds just its thread. *)
LEMMA InsertAdds ==
  ASSUME NEW q, Sound(q), NEW t \in AllThreads, ~Queued(q, t)
  PROVE  /\ Sound(InsertThread(q, t))
         /\ \A u \in AllThreads : Queued(InsertThread(q, t), u) <=> Queued(q, u) \/ u = t
<1> DEFINE B == bind_cpu[t]  P == priority[t]  r == InsertThread(q, t)  l == ListOf(q, t)
<1>1. B \in 0..RT_CPUS_NR /\ P \in Prio
  BY Bound
<1>2. l \in Seq(AllThreads) /\ Distinct(l) /\ ~Contains(l, t)
  BY <1>1, ListFacts DEF ListOf, Queued
<1>3. /\ Append(l, t) \in Seq(AllThreads) /\ Append(l, t) # <<>> /\ Distinct(Append(l, t))
      /\ \A u : Contains(Append(l, t), u) <=> Contains(l, u) \/ u = t
  BY <1>2, AppendAdds
<1>4. r = [q EXCEPT ![B] = [table |-> [q[B].table EXCEPT ![P] = Append(l, t)],
                            group |-> q[B].group \cup {P}]]
  BY DEF InsertThread
<1>5. /\ r[B].table = [q[B].table EXCEPT ![P] = Append(l, t)]
      /\ r[B].group = q[B].group \cup {P}
      /\ \A b \in 0..RT_CPUS_NR : b # B => r[b] = q[b]
  <2> DEFINE e == [table |-> [q[B].table EXCEPT ![P] = Append(l, t)], group |-> q[B].group \cup {P}]
  <2>1. q \in [0..RT_CPUS_NR -> Queue]
    BY DEF Sound
  <2>2. e.table = [q[B].table EXCEPT ![P] = Append(l, t)] /\ e.group = q[B].group \cup {P}
    OBVIOUS
  <2>3. r = [q EXCEPT ![B] = e]
    BY <1>4
  <2> HIDE DEF e, r, l, B, P
  <2>4. r[B] = e /\ \A b \in 0..RT_CPUS_NR : b # B => r[b] = q[b]
    BY <1>1, <2>1, <2>3
  <2>5. QED
    BY <2>2, <2>4
<1>6. r \in [0..RT_CPUS_NR -> Queue]
  <2>1. [table |-> [q[B].table EXCEPT ![P] = Append(l, t)], group |-> q[B].group \cup {P}] \in Queue
    BY <1>1, <1>3, QueueParts DEF Queue
  <2>2. QED
    BY <1>4, <2>1 DEF Sound
<1>7. \A b \in 0..RT_CPUS_NR, p \in Prio :
         /\ r[b].table[p] = IF b = B /\ p = P THEN Append(l, t) ELSE q[b].table[p]
         /\ p \in r[b].group <=> p \in q[b].group \/ (b = B /\ p = P)
  <2> SUFFICES ASSUME NEW b \in 0..RT_CPUS_NR, NEW p \in Prio
               PROVE  /\ r[b].table[p] = IF b = B /\ p = P THEN Append(l, t) ELSE q[b].table[p]
                      /\ p \in r[b].group <=> p \in q[b].group \/ (b = B /\ p = P)
    OBVIOUS
  <2> HIDE DEF r, l
  <2>1. q[b].table \in [Prio -> Seq(AllThreads)]
    BY QueueParts
  <2>2. QED
    BY <1>1, <1>5, <2>1
<1> HIDE DEF r, l
<1>8. Sound(r)
  <2> SUFFICES ASSUME NEW b \in 0..RT_CPUS_NR, NEW p \in Prio
               PROVE  /\ p \in r[b].group <=> r[b].table[p] # <<>>
                      /\ \A i \in 1..Len(r[b].table[p]) : /\ bind_cpu[r[b].table[p][i]] = b
                                                          /\ priority[r[b].table[p][i]] = p
                      /\ Distinct(r[b].table[p])
    BY <1>6 DEF Sound
  <2>1. CASE b = B /\ p = P
    <3>1. r[b].table[p] = Append(l, t) /\ p \in r[b].group
      BY <1>7, <2>1
    <3>2. ASSUME NEW i \in 1..Len(Append(l, t))
          PROVE  bind_cpu[Append(l, t)[i]] = b /\ priority[Append(l, t)[i]] = p
      <4>1. Contains(Append(l, t), Append(l, t)[i])
        BY DEF Contains
      <4>2. CASE Append(l, t)[i] = t
        BY <2>1, <4>2
      <4>3. CASE Contains(l, Append(l, t)[i])
        <5>1. l = q[b].table[p]
          BY <2>1 DEF ListOf, l
        <5>2. \A u : Contains(q[b].table[p], u) => bind_cpu[u] = b /\ priority[u] = p
          BY ListFacts
        <5>3. QED
          BY <4>3, <5>1, <5>2
      <4>4. QED
        BY <1>3, <4>1, <4>2, <4>3
    <3>3. QED
      BY <1>3, <3>1, <3>2
  <2>2. CASE ~(b = B /\ p = P)
    BY <1>7, <2>2 DEF Sound
  <2>3. QED
    BY <2>1, <2>2
<1>9. \A u \in AllThreads : Queued(r, u) <=> Queued(q, u) \/ u = t
  <2> SUFFICES ASSUME NEW u \in AllThreads PROVE Queued(r, u) <=> Queued(q, u) \/ u = t
    OBVIOUS
  <2>1. bind_cpu[u] \in 0..RT_CPUS_NR /\ priority[u] \in Prio
    BY Bound
  <2>2. CASE bind_cpu[u] = B /\ priority[u] = P
    <3>1. ListOf(r, u) = Append(l, t) /\ ListOf(q, u) = l
      BY <1>7, <2>1, <2>2 DEF ListOf, l
    <3>2. QED
      BY <1>3, <3>1 DEF Queued
  <2>3. CASE ~(bind_cpu[u] = B /\ priority[u] = P)
    <3>1. ListOf(r, u) = ListOf(q, u) /\ u # t
      BY <1>7, <2>1, <2>3 DEF ListOf
    <3>2. QED
      BY <3>1 DEF Queued
  <2>4. QED
    BY <2>2, <2>3
<1>10. QED
  BY <1>8, <1>9 DEF r

(* rt_schedule_remove_thread takes off just its thread. *)
LEMMA RemoveDrops ==
  ASSUME NEW q, Sound(q), NEW t \in AllThreads
  PROVE  /\ Sound(RemoveThread(q, t))
         /\ \A u \in AllThreads : Queued(RemoveThread(q, t), u) <=> Queued(q, u) /\ u # t
<1> DEFINE B == bind_cpu[t]  P == priority[t]  r == RemoveThread(q, t)
           l == ListOf(q, t)  m == RemoveFirst(l, t)
<1>1. B \in 0..RT_CPUS_NR /\ P \in Prio
  BY Bound
<1>2. l \in Seq(AllThreads) /\ Distinct(l)
  BY <1>1, ListFacts DEF ListOf
<1>3. /\ m \in Seq(AllThreads) /\ Distinct(m)
      /\ \A u : Contains(m, u) <=> Contains(l, u) /\ u # t
  BY <1>2, RemoveFirstDrops
<1>4. r = [q EXCEPT ![B] = [table |-> [q[B].table EXCEPT ![P] = m],
                            group |-> IF m = <<>> THEN q[B].group \ {P} ELSE q[B].group]]
  BY DEF RemoveThread
<1> HIDE DEF l, m
<1>5. /\ r[B].table = [q[B].table EXCEPT ![P] = m]
      /\ r[B].group = IF m = <<>> THEN q[B].group \ {P} ELSE q[B].group
      /\ \A b \in 0..RT_CPUS_NR : b # B => r[b] = q[b]
  <2> DEFINE R == [table |-> [q[B].table EXCEPT ![P] = m],
                   group |-> IF m = <<>> THEN q[B].group \ {P} ELSE q[B].group]
  <2>1. /\ R.table = [q[B].table EXCEPT ![P] = m]
        /\ R.group = IF m = <<>> THEN q[B].group \ {P} ELSE q[B].group
    OBVIOUS
  <2> HIDE DEF R
  <2>2. r = [q EXCEPT ![B] = R]
    BY <1>4 DEF R
  <2> HIDE DEF r
  <2>3. r[B] = R /\ \A b \in 0..RT_CPUS_NR : b # B => r[b] = q[b]
    BY <1>1, <2>2 DEF Sound
  <2>4. QED
    BY <2>1, <2>3
<1>6. r \in [0..RT_CPUS_NR -> Queue]
  <2>1. [table |-> [q[B].table EXCEPT ![P] = m],
         group |-> IF m = <<>> THEN q[B].group \ {P} ELSE q[B].group] \in Queue
    BY <1>1, <1>3, QueueParts DEF Queue
  <2>2. QED
    BY <1>4, <2>1 DEF Sound
<1>7. \A b \in 0..RT_CPUS_NR, p \in Prio :
         /\ r[b].table[p] = IF b = B /\ p = P THEN m ELSE q[b].table[p]
         /\ p \in r[b].group <=> p \in q[b].group /\ ~(b = B /\ p = P /\ m = <<>>)
  <2> SUFFICES ASSUME NEW b \in 0..RT_CPUS_NR, NEW p \in Prio
               PROVE  /\ r[b].table[p] = IF b = B /\ p = P THEN m ELSE q[b].table[p]
                      /\ p \in r[b].group <=> p \in q[b].group /\ ~(b = B /\ p = P /\ m = <<>>)
    OBVIOUS
  <2> HIDE DEF r
  <2>1. q[b].table \in [Prio -> Seq(AllThreads)]
    BY QueueParts
  <2>2. QED
    BY <1>1, <1>5, <2>1
<1> HIDE DEF r
<1>8. m # <<>> => P \in q[B].group
  <2> SUFFICES ASSUME m # <<>> PROVE P \in q[B].group
    OBVIOUS
  <2>1. Contains(l, Head(m))
    BY <1>3, EmptyHasNone
  <2>2. l # <<>>
    BY <2>1, EmptyHasNone
  <2>3. QED
    BY <1>1, <2>2 DEF Sound, ListOf, l
<1>9. Sound(r)
  <2> SUFFICES ASSUME NEW b \in 0..RT_CPUS_NR, NEW p \in Prio
               PROVE  /\ p \in r[b].group <=> r[b].table[p] # <<>>
                      /\ \A i \in 1..Len(r[b].table[p]) : /\ bind_cpu[r[b].table[p][i]] = b
                                                          /\ priority[r[b].table[p][i]] = p
                      /\ Distinct(r[b].table[p])
    BY <1>6 DEF Sound
  <2>1. CASE b = B /\ p = P
    <3>1. r[b].table[p] = m
      BY <1>7, <2>1
    <3>2. p \in r[b].group <=> m # <<>>
      BY <1>7, <1>8, <2>1
    <3>3. ASSUME NEW i \in 1..Len(m) PROVE bind_cpu[m[i]] = b /\ priority[m[i]] = p
      <4>1. Contains(l, m[i])
        BY <1>3 DEF Contains
      <4>2. QED
        BY <1>1, <2>1, <4>1, ListFacts DEF ListOf, l
    <3>4. QED
      BY <1>3, <3>1, <3>2, <3>3
  <2>2. CASE ~(b = B /\ p = P)
    BY <1>7, <2>2 DEF Sound
  <2>3. QED
    BY <2>1, <2>2
<1>10. \A u \in AllThreads : Queued(r, u) <=> Queued(q, u) /\ u # t
  <2> SUFFICES ASSUME NEW u \in AllThreads PROVE Queued(r, u) <=> Queued(q, u) /\ u # t
    OBVIOUS
  <2>1. bind_cpu[u] \in 0..RT_CPUS_NR /\ priority[u] \in Prio
    BY Bound
  <2>2. CASE bind_cpu[u] = B /\ priority[u] = P
    <3>1. ListOf(r, u) = m /\ ListOf(q, u) = l
      BY <1>7, <2>1, <2>2 DEF ListOf, l
    <3>2. QED
      BY <1>3, <3>1 DEF Queued
  <2>3. CASE ~(bind_cpu[u] = B /\ priority[u] = P)
    <3>1. ListOf(r, u) = ListOf(q, u) /\ u # t
      BY <1>7, <2>1, <2>3 DEF ListOf
    <3>2. QED
      BY <3>1 DEF Queued
  <2>4. QED
    BY <2>2, <2>3
<1>11. QED
  BY <1>9, <1>10 DEF r

(* _get_highest_priority_thread returns a queued thread that CPU c may run,  *)
(* and none that it may run is better.                                       *)
LEMMA HighestIsBest ==
  ASSUME NEW q, Sound(q), NEW c \in Cpu, Ready(q, c)
  PROVE  /\ Highest(q, c) \in AllThreads /\ Queued(q, Highest(q, c))
         /\ bind_cpu[Highest(q, c)] \in {c, Global}
         /\ \A t \in AllThreads : Queued(q, t) /\ bind_cpu[t] \in {c, Global}
                                   => priority[Highest(q, c)] <= priority[t]
<1> DEFINE G == Best(q[Global].group)  L == Best(q[c].group)  M == RT_THREAD_PRIORITY_MAX
<1>1. M \in Nat /\ RT_CPUS_NR \in Nat /\ Global \in 0..RT_CPUS_NR /\ c \in 0..RT_CPUS_NR
  BY ReadyQueueAssumption DEF Global, Cpu
<1>2. ASSUME NEW b \in 0..RT_CPUS_NR
      PROVE  /\ q[b].group = {} => Best(q[b].group) = M
             /\ q[b].group # {} => /\ Best(q[b].group) \in q[b].group
                                   /\ Best(q[b].group) \in Nat /\ Best(q[b].group) < M
             /\ \A p \in q[b].group : Best(q[b].group) <= p
  <2>1. q[b].group \subseteq Prio /\ Prio \subseteq Nat
    <3>1. q[b].group \subseteq Prio
      BY QueueParts
    <3>2. Prio \subseteq Nat
      BY <1>1 DEF Prio
    <3>3. QED
      BY <3>1, <3>2
  <2>2. CASE q[b].group = {}
    BY <2>2 DEF Best
  <2>3. CASE q[b].group # {}
    <3>1. Best(q[b].group) = Min(q[b].group)
      BY <2>3 DEF Best
    <3>2. Min(q[b].group) \in q[b].group /\ \A p \in q[b].group : Min(q[b].group) <= p
      BY <2>1, <2>3, MinOfNats
    <3>3. QED
      BY <1>1, <2>1, <2>3, <3>1, <3>2 DEF Prio
  <2>4. QED
    BY <2>2, <2>3
<1>3. G \in Nat /\ L \in Nat
  BY <1>1, <1>2
<1>4. ASSUME NEW b \in 0..RT_CPUS_NR, NEW p \in q[b].group
      PROVE  LET h == Head(q[b].table[p]) IN
             h \in AllThreads /\ Queued(q, h) /\ bind_cpu[h] = b /\ priority[h] = p
  <2> DEFINE l == q[b].table[p]
  <2>1. p \in Prio
    BY QueueParts
  <2>2. l \in Seq(AllThreads) /\ l # <<>>
    BY <2>1, ListFacts
  <2>3. Contains(l, Head(l)) /\ Head(l) \in AllThreads
    BY <2>2, EmptyHasNone
  <2>4. bind_cpu[Head(l)] = b /\ priority[Head(l)] = p
    BY <2>1, <2>3, ListFacts
  <2>5. QED
    BY <2>3, <2>4 DEF Queued, ListOf
<1>5. ASSUME NEW t \in AllThreads, Queued(q, t)
      PROVE  priority[t] \in q[bind_cpu[t]].group
  <2>1. bind_cpu[t] \in 0..RT_CPUS_NR /\ priority[t] \in Prio
    BY Bound
  <2>2. ListOf(q, t) # <<>>
    BY <1>5, EmptyHasNone DEF Queued
  <2>3. QED
    BY <2>1, <2>2, ListFacts DEF ListOf
<1>6. CASE G < L
  <2>1. q[Global].group # {}
    BY <1>1, <1>2, <1>3, <1>6
  <2>2. G \in q[Global].group /\ Highest(q, c) = Head(q[Global].table[G])
    BY <1>1, <1>2, <1>6, <2>1 DEF Highest
  <2>3. /\ Highest(q, c) \in AllThreads /\ Queued(q, Highest(q, c))
        /\ bind_cpu[Highest(q, c)] = Global /\ priority[Highest(q, c)] = G
    BY <1>1, <1>4, <2>2
  <2>4. ASSUME NEW t \in AllThreads, Queued(q, t), bind_cpu[t] \in {c, Global}
        PROVE  G <= priority[t]
    <3>1. priority[t] \in q[bind_cpu[t]].group /\ priority[t] \in Nat
      BY <1>1, <1>5, <2>4, Bound DEF Prio
    <3>2. CASE bind_cpu[t] = Global
      BY <1>1, <1>2, <3>1, <3>2
    <3>3. CASE bind_cpu[t] = c
      <4>1. L <= priority[t]
        BY <1>1, <1>2, <3>1, <3>3
      <4>2. QED
        BY <1>3, <1>6, <3>1, <4>1
    <3>4. QED
      BY <2>4, <3>2, <3>3
  <2>5. QED
    BY <2>3, <2>4
<1>7. CASE ~(G < L)
  <2>1. q[c].group # {}
    <3>1. CASE q[c].group = {}
      <4>1. q[Global].group # {}
        BY <3>1 DEF Ready
      <4>2. G < M /\ L = M
        BY <1>1, <1>2, <3>1, <4>1
      <4>3. QED
        BY <1>7, <4>2
    <3>2. QED
      BY <3>1
  <2>2. L \in q[c].group /\ Highest(q, c) = Head(q[c].table[L])
    BY <1>1, <1>2, <1>7, <2>1 DEF Highest
  <2>3. /\ Highest(q, c) \in AllThreads /\ Queued(q, Highest(q, c))
        /\ bind_cpu[Highest(q, c)] = c /\ priority[Highest(q, c)] = L
    BY <1>1, <1>4, <2>2
  <2>4. ASSUME NEW t \in AllThreads, Queued(q, t), bind_cpu[t] \in {c, Global}
        PROVE  L <= priority[t]
    <3>1. priority[t] \in q[bind_cpu[t]].group /\ priority[t] \in Nat
      BY <1>1, <1>5, <2>4, Bound DEF Prio
    <3>2. CASE bind_cpu[t] = c
      BY <1>1, <1>2, <3>1, <3>2
    <3>3. CASE bind_cpu[t] = Global
      <4>1. G <= priority[t]
        BY <1>1, <1>2, <3>1, <3>3
      <4>2. QED
        BY <1>3, <1>7, <3>1, <4>1
    <3>4. QED
      BY <2>4, <3>2, <3>3
  <2>5. QED
    BY <2>3, <2>4
<1>8. QED
  BY <1>6, <1>7

-----------------------------------------------------------------------------
(* What rt_thread_resume, rt_thread_suspend and a context switch do, in      *)
(* terms of who is queued.                                                   *)
LEMMA Consts ==
  /\ RT_CPUS_NR \in Nat \ {0} /\ none \notin AllThreads
  /\ DETACHED = RT_CPUS_NR /\ Free = RT_CPUS_NR /\ Global = RT_CPUS_NR
  /\ Cpu = 0..(RT_CPUS_NR - 1) /\ 0 \in Cpu
  /\ \A c \in Cpu : c \in 0..RT_CPUS_NR /\ c # RT_CPUS_NR
  /\ \A c \in Cpu : /\ idle[c] \in AllThreads /\ idle[c] \notin Thread
                    /\ bind_cpu[idle[c]] = c
  /\ Thread \subseteq AllThreads
BY ReadyQueueAssumption, SchedulerAssumption DEF Cpu, DETACHED, Free, Global

LEMMA CurrentThread ==
  ASSUME CpusOK, Places, NEW c \in Cpu, current[c] # none
  PROVE  /\ current[c] \in AllThreads /\ stat[current[c]] \in {"RUNNING", "SUSPEND"}
         /\ oncpu[current[c]] = c /\ ~Queued(queue, current[c])
<1>1. current[c] \in AllThreads
  BY DEF CpusOK
<1>2. oncpu[current[c]] = c /\ oncpu[current[c]] # DETACHED
  BY <1>1, Consts DEF Places
<1>3. QED
  BY <1>1, <1>2 DEF Places

LEMMA KickFacts ==
  ASSUME NEW c \in Cpu, NEW t \in AllThreads, CpusOK
  PROVE  /\ Kick(c, t) \in [Cpu -> BOOLEAN]
         /\ \A d \in Cpu : ipi[d] \/ (d # c /\ bind_cpu[t] \in {d, Global}) <=> Kick(c, t)[d]
BY DEF Kick, CpusOK

LEMMA ResumedFacts ==
  ASSUME ThreadsOK, CpusOK, Sound(queue), Places, NEW c \in Cpu,
         NEW t \in AllThreads, stat[t] \in {"SUSPEND", "INIT"}, Resumed(c, t)
  PROVE  /\ Sound(queue)'
         /\ \A u \in AllThreads :
              Queued(queue, u)' <=> Queued(queue, u) \/ (oncpu[t] = DETACHED /\ u = t)
         /\ stat' = [stat EXCEPT ![t] = IF oncpu[t] = DETACHED THEN "READY" ELSE "RUNNING"]
         /\ ipi' = IF oncpu[t] = DETACHED THEN Kick(c, t) ELSE ipi
<1>1. ~Queued(queue, t)
  BY DEF Places
<1>2. CASE oncpu[t] # DETACHED
  BY <1>2 DEF Resumed
<1>3. CASE oncpu[t] = DETACHED
  <2>1. queue' = InsertThread(queue, t)
    BY <1>3 DEF Resumed
  <2>2. /\ Sound(InsertThread(queue, t))
        /\ \A u \in AllThreads : Queued(InsertThread(queue, t), u) <=> Queued(queue, u) \/ u = t
    BY <1>1, InsertAdds
  <2>3. Sound(queue)' /\ \A u \in AllThreads : Queued(queue, u)' <=> Queued(queue, u) \/ u = t
    BY <2>1, <2>2
  <2>4. QED
    BY <1>3, <2>3 DEF Resumed
<1>4. QED
  BY <1>2, <1>3

LEMMA SuspendedFacts ==
  ASSUME ThreadsOK, CpusOK, Sound(queue), Places, NEW c \in Cpu, current[c] # none,
         Suspended(current[c])
  PROVE  /\ Sound(queue)'
         /\ \A u \in AllThreads : Queued(queue, u)' <=> Queued(queue, u)
         /\ stat' = [stat EXCEPT ![current[c]] = "SUSPEND"]
<1> DEFINE t == current[c]
<1>1. t \in AllThreads /\ ~Queued(queue, t)
  BY CurrentThread
<1>2. CASE stat[t] = "SUSPEND"
  <2>1. UNCHANGED <<stat, queue>>
    BY <1>2 DEF Suspended
  <2>2. Sound(queue)' /\ \A u \in AllThreads : Queued(queue, u)' <=> Queued(queue, u)
    BY <2>1
  <2>3. stat' = [stat EXCEPT ![t] = "SUSPEND"]
    BY <1>1, <1>2, <2>1 DEF ThreadsOK
  <2>4. QED
    BY <2>2, <2>3
<1>3. CASE stat[t] # "SUSPEND"
  <2>1. queue' = RemoveThread(queue, t) /\ stat' = [stat EXCEPT ![t] = "SUSPEND"]
    BY <1>3 DEF Suspended
  <2>2. /\ Sound(RemoveThread(queue, t))
        /\ \A u \in AllThreads : Queued(RemoveThread(queue, t), u) <=> Queued(queue, u) /\ u # t
    BY <1>1, RemoveDrops
  <2>3. /\ Sound(queue)'
        /\ \A u \in AllThreads : Queued(queue, u)' <=> Queued(queue, u) /\ u # t
    BY <2>1, <2>2
  <2>4. QED
    BY <1>1, <2>1, <2>3
<1>4. QED
  BY <1>2, <1>3

(* Thread u, queued and the best, takes CPU c over from t, whose stat is s;  *)
(* t goes back to its queue if it still runs.                                *)
Swaps(c, t, u, s) ==
  /\ u # t /\ stat[u] = "READY" /\ oncpu[u] = DETACHED
  /\ bind_cpu[u] \in {c, Global}
  /\ \A v \in AllThreads : stat[v] = "READY" /\ bind_cpu[v] \in {c, Global}
                             => priority[u] <= priority[v]
  /\ s = "RUNNING" => priority[u] <= priority[t]
  /\ Sound(queue)'
  /\ \A v \in AllThreads :
       Queued(queue, v)' <=> (Queued(queue, v) \/ (s = "RUNNING" /\ v = t)) /\ v # u
  /\ stat' = [stat EXCEPT ![t] = IF s = "RUNNING" THEN "READY" ELSE s, ![u] = "RUNNING"]
  /\ yield' \in [AllThreads -> BOOLEAN]
  /\ oncpu' = [oncpu EXCEPT ![t] = DETACHED, ![u] = c]
  /\ current' = [current EXCEPT ![c] = u]
  /\ ipi' = IF s = "RUNNING" THEN Kick(c, t) ELSE ipi
  /\ lock' = IF nest[u] = 0 THEN Free ELSE c

LEMMA SwitchFacts ==
  ASSUME ThreadsOK, CpusOK, Sound(queue), Places, NEW c \in Cpu, current[c] # none, NEW s,
         ~Stays(c, s), Switch(c, s)
  PROVE  \E u \in AllThreads : Swaps(c, current[c], u, s)
<1> DEFINE t == current[c]  u == Highest(queue, c)
<1>1. t \in AllThreads /\ ~Queued(queue, t)
  BY CurrentThread
<1>2. Ready(queue, c)
  BY DEF Stays
<1>3. /\ u \in AllThreads /\ Queued(queue, u) /\ bind_cpu[u] \in {c, Global}
      /\ \A v \in AllThreads : Queued(queue, v) /\ bind_cpu[v] \in {c, Global}
                                 => priority[u] <= priority[v]
  BY <1>2, HighestIsBest
<1>4. s = "RUNNING" => priority[u] <= priority[t]
  <2>1. priority[u] \in Nat /\ priority[t] \in Nat
    BY <1>1, <1>3, ReadyQueueAssumption
  <2>2. s = "RUNNING" => ~(priority[t] < priority[u])
    BY DEF Stays
  <2>3. QED
    BY <2>1, <2>2
<1>5. u # t /\ stat[u] = "READY" /\ oncpu[u] = DETACHED
  <2>1. u # t /\ stat[u] = "READY"
    BY <1>1, <1>3 DEF Places
  <2>2. QED
    BY <1>3, <2>1 DEF Places
<1>6. /\ \A v \in AllThreads : stat[v] = "READY" /\ bind_cpu[v] \in {c, Global}
                                 => priority[u] <= priority[v]
  BY <1>3 DEF Places
<1>7. /\ queue' = RemoveThread(IF s = "RUNNING" THEN InsertThread(queue, t) ELSE queue, u)
      /\ stat' = [stat EXCEPT ![t] = IF s = "RUNNING" THEN "READY" ELSE s, ![u] = "RUNNING"]
      /\ oncpu' = [oncpu EXCEPT ![t] = DETACHED, ![u] = c]
      /\ current' = [current EXCEPT ![c] = u]
      /\ ipi' = IF s = "RUNNING" THEN Kick(c, t) ELSE ipi
      /\ lock' = IF nest[u] = 0 THEN Free ELSE c
  BY DEF Switch
<1> HIDE DEF u, t
<1>8. /\ Sound(queue)'
      /\ \A v \in AllThreads :
           Queued(queue, v)' <=> (Queued(queue, v) \/ (s = "RUNNING" /\ v = t)) /\ v # u
  <2>1. CASE s = "RUNNING"
    <3> DEFINE q == InsertThread(queue, t)
    <3>1. /\ Sound(q)
          /\ \A v \in AllThreads : Queued(q, v) <=> Queued(queue, v) \/ v = t
      BY <1>1, InsertAdds
    <3>2. queue' = RemoveThread(q, u)
      BY <1>7, <2>1
    <3> HIDE DEF q
    <3>3. /\ Sound(RemoveThread(q, u))
          /\ \A v \in AllThreads : Queued(RemoveThread(q, u), v) <=> Queued(q, v) /\ v # u
      BY <1>3, <3>1, RemoveDrops
    <3>4. /\ Sound(queue)'
          /\ \A v \in AllThreads : Queued(queue, v)' <=> Queued(q, v) /\ v # u
      BY <3>2, <3>3
    <3>5. QED
      BY <2>1, <3>1, <3>4
  <2>2. CASE s # "RUNNING"
    <3>1. queue' = RemoveThread(queue, u)
      BY <1>7, <2>2
    <3>2. /\ Sound(RemoveThread(queue, u))
          /\ \A v \in AllThreads : Queued(RemoveThread(queue, u), v) <=> Queued(queue, v) /\ v # u
      BY <1>3, RemoveDrops
    <3>3. /\ Sound(queue)'
          /\ \A v \in AllThreads : Queued(queue, v)' <=> Queued(queue, v) /\ v # u
      BY <3>1, <3>2
    <3>4. QED
      BY <2>2, <3>3
  <2>3. QED
    BY <2>1, <2>2
<1>9. yield' \in [AllThreads -> BOOLEAN]
  <2>1. yield \in [AllThreads -> BOOLEAN] /\ yield' = [yield EXCEPT ![t] = @ /\ s = "SUSPEND"]
    BY DEF ThreadsOK, Switch, t
  <2>2. QED
    BY <2>1, Zenon
<1>10. QED
  BY <1>3, <1>4, <1>5, <1>6, <1>7, <1>8, <1>9 DEF u, t, Swaps

-----------------------------------------------------------------------------
(* Types. *)
LEMMA CpuFacts ==
  /\ \A c \in Cpu : c # DETACHED /\ c # Free /\ c # Global /\ c \in 0..RT_CPUS_NR
  /\ DETACHED \in 0..RT_CPUS_NR /\ Free \in 0..RT_CPUS_NR /\ none \notin AllThreads
BY Consts

(* The thread that a CPU runs. *)
LEMMA Current ==
  ASSUME Base, NEW c \in Cpu
  PROVE  LET t == current[c] IN
         /\ trap[c] # "no" \/ lock = c => t # none
         /\ t # none => /\ t \in AllThreads /\ stat[t] \in {"RUNNING", "SUSPEND"}
                        /\ oncpu[t] = c /\ ~Queued(queue, t)
                        /\ \A d \in Cpu : current[d] = t => d = c
         /\ t # none /\ lock # c => /\ nest[t] = 0
                                    /\ snest[t] = IF crit = t THEN 1 ELSE 0
<1> DEFINE t == current[c]
<1>1. trap[c] # "no" \/ lock = c => t # none
  BY DEF Base, Places, Locked
<1>2. ASSUME t # none
      PROVE  /\ t \in AllThreads /\ stat[t] \in {"RUNNING", "SUSPEND"}
             /\ oncpu[t] = c /\ ~Queued(queue, t)
  BY <1>2, CurrentThread DEF Base
<1>3. ASSUME t # none PROVE \A d \in Cpu : current[d] = t => d = c
  <2> SUFFICES ASSUME NEW d \in Cpu, current[d] = t PROVE d = c
    OBVIOUS
  <2>1. oncpu[t] = d
    BY <1>2, <1>3 DEF Base, Places
  <2>2. QED
    BY <1>2, <1>3, <2>1
<1>4. ASSUME t # none, lock # c PROVE nest[t] = 0 /\ snest[t] = IF crit = t THEN 1 ELSE 0
  <2>1. t \in AllThreads /\ nest[t] \in 0..2
    BY <1>2, <1>4 DEF Base, ThreadsOK
  <2>2. nest[t] = 0
    BY <1>4, <2>1 DEF Base, Locked
  <2>3. snest[t] = (IF nest[t] > 0 THEN 1 ELSE 0) + (IF crit = t THEN 1 ELSE 0)
    BY <2>1 DEF Base, Locked
  <2>4. QED
    BY <2>2, <2>3
<1>5. QED
  BY <1>1, <1>2, <1>3, <1>4

(* A CPU that has not started finds at least its idle thread. *)
LEMMA BootReady ==
  ASSUME Sound(queue), Places, NEW c \in Cpu, current[c] = none
  PROVE  Ready(queue, c)
<1>1. Queued(queue, idle[c]) /\ idle[c] \in AllThreads /\ bind_cpu[idle[c]] = c
  BY Consts DEF Places
<1>2. priority[idle[c]] \in Prio /\ c \in 0..RT_CPUS_NR
  BY <1>1, Bound, Consts
<1>3. ListOf(queue, idle[c]) # <<>>
  BY <1>1, EmptyHasNone DEF Queued
<1>4. priority[idle[c]] \in queue[c].group
  BY <1>1, <1>2, <1>3, ListFacts DEF ListOf
<1>5. QED
  BY <1>4 DEF Ready

(* The first thread of a CPU. *)
Starts(c, u) ==
  /\ stat[u] = "READY" /\ oncpu[u] = DETACHED /\ bind_cpu[u] \in {c, Global}
  /\ \A v \in AllThreads : stat[v] = "READY" /\ bind_cpu[v] \in {c, Global}
                             => priority[u] <= priority[v]
  /\ Sound(queue)'
  /\ \A v \in AllThreads : Queued(queue, v)' <=> Queued(queue, v) /\ v # u
  /\ stat' = [stat EXCEPT ![u] = "RUNNING"] /\ oncpu' = [oncpu EXCEPT ![u] = c]
  /\ current' = [current EXCEPT ![c] = u] /\ lock' = IF nest[u] = 0 THEN Free ELSE c

LEMMA BootFacts ==
  ASSUME Base, NEW c \in Cpu, Boot(c)
  PROVE  \E u \in AllThreads : Starts(c, u)
<1> DEFINE u == Highest(queue, c)
<1>1. /\ u \in AllThreads /\ Queued(queue, u) /\ bind_cpu[u] \in {c, Global}
      /\ \A v \in AllThreads : Queued(queue, v) /\ bind_cpu[v] \in {c, Global}
                                 => priority[u] <= priority[v]
  BY BootReady, HighestIsBest DEF Base, Boot
<1>2. /\ queue' = RemoveThread(queue, u) /\ stat' = [stat EXCEPT ![u] = "RUNNING"]
      /\ oncpu' = [oncpu EXCEPT ![u] = c] /\ current' = [current EXCEPT ![c] = u]
      /\ lock' = IF nest[u] = 0 THEN Free ELSE c
  BY DEF Boot
<1> HIDE DEF u
<1>3. Sound(queue)' /\ \A v \in AllThreads : Queued(queue, v)' <=> Queued(queue, v) /\ v # u
  <2>1. /\ Sound(RemoveThread(queue, u))
        /\ \A v \in AllThreads : Queued(RemoveThread(queue, u), v) <=> Queued(queue, v) /\ v # u
    BY <1>1, RemoveDrops DEF Base
  <2>2. QED
    BY <1>2, <2>1
<1>4. /\ stat[u] = "READY" /\ oncpu[u] = DETACHED
      /\ \A v \in AllThreads : stat[v] = "READY" /\ bind_cpu[v] \in {c, Global}
                                 => priority[u] <= priority[v]
  BY <1>1 DEF Base, Places
<1>5. QED
  BY <1>1, <1>2, <1>3, <1>4 DEF Starts

(* CPU c wakes thread t ... *)
Wakes(c, t) ==
  /\ Sound(queue)'
  /\ \A u \in AllThreads :
       Queued(queue, u)' <=> Queued(queue, u) \/ (oncpu[t] = DETACHED /\ u = t)
  /\ stat' = [stat EXCEPT ![t] = IF oncpu[t] = DETACHED THEN "READY" ELSE "RUNNING"]
  /\ ipi' = IF oncpu[t] = DETACHED THEN Kick(c, t) ELSE ipi

(* ... and takes it off the list of heap_sem. *)
Drops(t) ==
  /\ waiting' \in Seq(AllThreads) /\ Distinct(waiting)'
  /\ \A u \in AllThreads : Contains(waiting, u)' <=> Contains(waiting, u) /\ u # t
  /\ waiting = <<>> => waiting' = <<>>

LEMMA ExpireFacts ==
  ASSUME Base, NEW c \in Cpu, NEW t \in asleep, Expire(c, t)
  PROVE  t \in AllThreads /\ stat[t] = "SUSPEND" /\ Wakes(c, t) /\ Drops(t)
<1>1. t \in AllThreads /\ stat[t] = "SUSPEND"
  BY DEF Base, HeapOK, Waits
<1>2. Wakes(c, t)
  BY <1>1, ResumedFacts DEF Base, Expire, Wakes
<1>3. waiting' = RemoveFirst(waiting, t) /\ waiting \in Seq(AllThreads) /\ Distinct(waiting)
  BY DEF Base, HeapOK, Waits, Expire
<1>4. Drops(t)
  BY <1>3, RemoveFirstDrops, RemoveFirstEmpty DEF Drops
<1>5. QED
  BY <1>1, <1>2, <1>4

(* CPU c runs thread t, outside of the kernel. *)
Acts(c, t) ==
  /\ t = current[c] /\ t \in AllThreads /\ t # none
  /\ trap[c] = "no" /\ lock = Free /\ sched[t] = "no"

LEMMA ActsFacts ==
  ASSUME Base, NEW c \in Cpu, lock = Free, NEW p, Works(c, p)
  PROVE  Acts(c, current[c]) /\ pc[current[c]] = p
BY Current DEF Works, Runs, Acts

(* Thread t releases heap_sem, and the first waiter h gets it. *)
Releases(c, t, h) ==
  /\ Acts(c, t) /\ pc[t] = "heap"
  /\ Contains(waiting, h) /\ stat[h] = "SUSPEND" /\ Wakes(c, h) /\ Drops(h)
  /\ asleep' = asleep \ {h} /\ sched' = [sched EXCEPT ![t] = "call"]
  /\ frees' = IF t \in Thread THEN frees ELSE frees - 1
  /\ pc' = [pc EXCEPT ![t] = IF t \notin Thread /\ frees > 1 THEN "free" ELSE "run"]
  /\ UNCHANGED <<yield, oncpu, current, flag, trap, reg, lock, nest, snest, crit, value,
                 defunct, raced, broken>>

LEMMA ReleaseFacts ==
  ASSUME Base, NEW c \in Cpu, Release(c), waiting # <<>>
  PROVE  \E h \in AllThreads : Releases(c, current[c], h)
<1> DEFINE h == Head(waiting)
<1>1. waiting \in Seq(AllThreads) /\ Distinct(waiting)
  BY DEF Base, HeapOK, Waits
<1>2. h \in AllThreads /\ Contains(waiting, h)
  BY <1>1, EmptyHasNone
<1>3. stat[h] = "SUSPEND"
  BY <1>2 DEF Base, Waits
<1>4. Resumed(c, h) /\ waiting' = Tail(waiting) /\ asleep' = asleep \ {h}
  BY DEF Release
<1> HIDE DEF h
<1>5. Wakes(c, h)
  BY <1>2, <1>3, <1>4, ResumedFacts DEF Base, Wakes
<1>6. Drops(h)
  BY <1>1, <1>4, TailDrops DEF Drops, h
<1>7. Acts(c, current[c]) /\ pc[current[c]] = "heap"
  BY ActsFacts DEF Release
<1>8. QED
  BY <1>2, <1>3, <1>4, <1>5, <1>6, <1>7 DEF Release, Releases, Calls, Goes, irqs, locks, ghost

(* The current thread t waits for the heap. *)
Joins(t) ==
  /\ waiting' \in Seq(AllThreads) /\ Distinct(waiting)'
  /\ \A u \in AllThreads : Contains(waiting, u)' <=> Contains(waiting, u) \/ u = t

Suspends(t) ==
  /\ Sound(queue)'
  /\ \A u \in AllThreads : Queued(queue, u)' <=> Queued(queue, u)
  /\ stat' = [stat EXCEPT ![t] = "SUSPEND"]

Blocks(c, t) ==
  /\ Acts(c, t) /\ pc[t] \in {"run", "free"}
  /\ pc[t] = "run" => t \in Thread
  /\ ~Contains(waiting, t) /\ value = 0 /\ Suspends(t) /\ Joins(t)
  /\ pc' = [pc EXCEPT ![t] = "heap"] /\ sched' = [sched EXCEPT ![t] = "call"]
  /\ UNCHANGED <<yield, oncpu, current, ipi, flag, trap, reg, lock, nest, snest, crit, value,
                 asleep, defunct, frees, raced, broken>>

LEMMA TakeFacts ==
  ASSUME Base, NEW c \in Cpu, Take(c)
  PROVE  LET t == current[c] IN
         /\ Acts(c, t) /\ pc[t] \in {"run", "free"}
         /\ pc[t] = "run" => t \in Thread
         /\ value = 0 => Blocks(c, t)
<1> DEFINE t == current[c]
<1>1. waiting \in Seq(AllThreads) /\ Distinct(waiting) /\ value \in Nat
  BY DEF Base, HeapOK, Waits
<1>2. /\ Acts(c, t) /\ pc[t] \in {"run", "free"}
      /\ pc[t] = "run" => t \in Thread
  BY ActsFacts DEF Take, User
<1>3. ASSUME value = 0 PROVE Blocks(c, t)
  <2>1. ~Contains(waiting, t) /\ waiting' = Append(waiting, t) /\ Suspended(t)
    BY <1>3 DEF Take
  <2>2. Suspends(t)
    BY <1>2, <2>1, SuspendedFacts DEF Base, Suspends, Acts
  <2>3. Joins(t)
    BY <1>1, <1>2, <2>1, AppendAdds DEF Joins, Acts
  <2>4. QED
    BY <1>2, <1>3, <2>1, <2>2, <2>3 DEF Take, Blocks, Calls, Goes, irqs, locks, dead, ghost
<1>4. QED
  BY <1>2, <1>3

LEMMA SleepFacts ==
  ASSUME Base, NEW c \in Cpu, Sleep(c)
  PROVE  Suspends(current[c])
<1>1. current[c] # none /\ Suspended(current[c])
  BY DEF Sleep, User, Works, Runs
<1>2. QED
  BY <1>1, SuspendedFacts DEF Base, Suspends

(* Idle thread t of CPU c joins the list, goes on and wakes the first.       *)
Passes(c, t, h) ==
  /\ h = t \/ (Contains(waiting, h) /\ stat[h] = "SUSPEND")
  /\ waiting' \in Seq(AllThreads) /\ Distinct(waiting)'
  /\ \A u \in AllThreads :
       Contains(waiting, u)' <=> (Contains(waiting, u) \/ u = t) /\ u # h
  /\ asleep' = asleep \ {h}
  /\ Sound(queue)'
  /\ \A u \in AllThreads :
       Queued(queue, u)' <=> Queued(queue, u) \/ (oncpu[h] = DETACHED /\ u = h)
  /\ stat' = [stat EXCEPT ![t] = "SUSPEND",
                          ![h] = IF oncpu[h] = DETACHED THEN "READY" ELSE "RUNNING"]
  /\ ipi' = IF oncpu[h] = DETACHED THEN Kick(c, h) ELSE ipi

Cleans(c, t) ==
  /\ t = current[c] /\ t \in AllThreads /\ oncpu[t] = c
  /\ lock = c /\ trap[c] = "no" /\ pc[t] = "reap" /\ crit = none
  /\ broken' \in BOOLEAN
  /\ broken' <=> broken \/ value = 0
  /\ lock' = Free /\ pc' = [pc EXCEPT ![t] = "free"] /\ frees' = 2
  /\ nest' = [nest EXCEPT ![t] = 0] /\ snest' = [snest EXCEPT ![t] = 0]
  /\ UNCHANGED <<yield, oncpu, current, flag, trap, reg, crit, sched, value, defunct,
                 raced>>

LEMMA CleanFacts ==
  ASSUME Base, NEW c \in Cpu, Clean(c), value = 0
  PROVE  \E h \in AllThreads : Passes(c, current[c], h)
<1> DEFINE t == current[c]  w == Append(waiting, t)  h == Head(w)
<1>1. waiting \in Seq(AllThreads) /\ Distinct(waiting)
  BY DEF Base, HeapOK, Waits
<1>2. t \in AllThreads /\ oncpu[t] = c /\ c # DETACHED
  BY Current, CpuFacts DEF Clean
<1>3. /\ ~Contains(waiting, t) /\ waiting' = Tail(w) /\ asleep' = asleep \ {h}
      /\ IF oncpu[h] # DETACHED
         THEN stat' = [stat EXCEPT ![t] = "SUSPEND", ![h] = "RUNNING"] /\ UNCHANGED <<queue, ipi>>
         ELSE /\ stat' = [stat EXCEPT ![t] = "SUSPEND", ![h] = "READY"]
              /\ queue' = InsertThread(queue, h) /\ ipi' = Kick(c, h)
  BY DEF Clean
<1>4. /\ w \in Seq(AllThreads) /\ w # <<>> /\ Distinct(w)
      /\ \A u : Contains(w, u) <=> Contains(waiting, u) \/ u = t
  BY <1>1, <1>2, <1>3, AppendAdds
<1> HIDE DEF w
<1>5. /\ waiting' \in Seq(AllThreads) /\ Distinct(waiting)'
      /\ \A u : Contains(waiting, u)' <=> Contains(w, u) /\ u # h
  BY <1>3, <1>4, TailDrops
<1>6. h \in AllThreads /\ Contains(w, h)
  BY <1>4, EmptyHasNone
<1> HIDE DEF h
<1>7. h = t \/ (Contains(waiting, h) /\ stat[h] = "SUSPEND")
  BY <1>4, <1>6 DEF Base, Waits
<1>8. CASE oncpu[h] # DETACHED
  <2>1. Sound(queue)' /\ \A u \in AllThreads : Queued(queue, u)' <=> Queued(queue, u)
    BY <1>3, <1>8 DEF Base
  <2>2. QED
    BY <1>3, <1>4, <1>5, <1>6, <1>7, <1>8, <2>1 DEF Passes
<1>9. CASE oncpu[h] = DETACHED
  <2>1. stat[h] = "SUSPEND" /\ queue' = InsertThread(queue, h)
    BY <1>2, <1>3, <1>7, <1>9
  <2>2. ~Queued(queue, h)
    BY <1>6, <2>1 DEF Base, Places
  <2>3. /\ Sound(InsertThread(queue, h))
        /\ \A u \in AllThreads : Queued(InsertThread(queue, h), u) <=> Queued(queue, u) \/ u = h
    BY <1>6, <2>2, InsertAdds DEF Base
  <2>4. Sound(queue)' /\ \A u \in AllThreads : Queued(queue, u)' <=> Queued(queue, u) \/ u = h
    BY <2>1, <2>3
  <2>5. QED
    BY <1>3, <1>4, <1>5, <1>6, <1>7, <1>9, <2>4 DEF Passes
<1>10. QED
  BY <1>8, <1>9

LEMMA CleanActs ==
  ASSUME Base, NEW c \in Cpu, Clean(c)
  PROVE  /\ Cleans(c, current[c])
         /\ value # 0 => UNCHANGED <<stat, queue, ipi, waiting, asleep>>
<1>1. current[c] \in AllThreads /\ oncpu[current[c]] = c
  BY Current DEF Clean
<1>2. value \in Nat
  BY DEF Base, HeapOK
<1>3. broken' \in BOOLEAN /\ (broken' <=> broken \/ value = 0)
  <2>1. broken' = (broken \/ value = 0) /\ broken \in BOOLEAN
    BY DEF Clean, Base, CpusOK
  <2>2. QED
    BY <2>1, Zenon
<1>4. QED
  BY <1>1, <1>2, <1>3 DEF Clean, Cleans, Goes, irqs

(* Thread t exits and thread u takes CPU c over. *)
Exits(c, t) ==
  /\ Acts(c, t) /\ t \in Thread /\ pc[t] = "run" /\ Drops(t) /\ asleep' = asleep \ {t}
  /\ nest' = [nest EXCEPT ![t] = 2] /\ snest' = [snest EXCEPT ![t] = 1]
  /\ sched' = [sched EXCEPT ![t] = "in"] /\ defunct' \in Seq(AllThreads)
  /\ UNCHANGED <<flag, trap, reg, crit, pc, value, frees, raced, broken>>

LEMMA ExitFacts ==
  ASSUME Base, NEW c \in Cpu, Exit(c)
  PROVE  Exits(c, current[c]) /\ \E u \in AllThreads : Swaps(c, current[c], u, "CLOSE")
<1>1. current[c] # none /\ ~Stays(c, "CLOSE") /\ Switch(c, "CLOSE")
  BY DEF Exit, User, Works, Runs
<1>2. \E u \in AllThreads : Swaps(c, current[c], u, "CLOSE")
  BY <1>1, SwitchFacts DEF Base
<1>3. /\ waiting' = RemoveFirst(waiting, current[c])
      /\ waiting \in Seq(AllThreads) /\ Distinct(waiting)
  BY DEF Exit, Base, HeapOK, Waits
<1>4. Drops(current[c])
  BY <1>3, RemoveFirstDrops, RemoveFirstEmpty DEF Drops
<1>5. Acts(c, current[c]) /\ current[c] \in Thread /\ pc[current[c]] = "run"
  BY ActsFacts DEF Exit, User
<1>6. defunct' \in Seq(AllThreads)
  <2>1. defunct' = <<current[c]>> \o defunct /\ defunct \in Seq(AllThreads)
    BY DEF Exit, Base, HeapOK
  <2>2. QED
    BY <1>5, <2>1, Consts
<1>7. QED
  BY <1>2, <1>4, <1>5, <1>6 DEF Exit, Exits, irqs, ghost

(* rt_schedule in thread t, which stays ... *)
Remains(c, t) ==
  /\ Acts(c, t)' /\ t = current[c] /\ trap[c] = "no" /\ lock = Free /\ sched[t] = "call"
  /\ snest[t] # 0 \/ Stays(c, stat[t])
  /\ sched' = [sched EXCEPT ![t] = "no"]
  /\ broken' \in BOOLEAN
  /\ broken' <=> broken \/ stat[t] = "SUSPEND"
  /\ UNCHANGED <<stat, yield, oncpu, queue, current, ipi, flag, trap, reg, lock, nest, snest,
                 crit, pc, value, waiting, asleep, defunct, frees, raced>>

(* ... or leaves to thread u. *)
Leaves(c, t, u) ==
  /\ t = current[c] /\ t \in AllThreads /\ t # none /\ trap[c] = "no" /\ lock = Free
  /\ sched[t] = "call" /\ snest[t] = 0 /\ Swaps(c, t, u, stat[t])
  /\ nest' = [nest EXCEPT ![t] = 1] /\ snest' = [snest EXCEPT ![t] = 1]
  /\ sched' = [sched EXCEPT ![t] = "in"]
  /\ UNCHANGED <<flag, trap, reg, crit, pc, value, waiting, asleep, defunct, frees, raced,
                 broken>>

LEMMA ScheduleFacts ==
  ASSUME Base, NEW c \in Cpu, Schedule(c)
  PROVE  Remains(c, current[c]) \/ \E u \in AllThreads : Leaves(c, current[c], u)
<1> DEFINE t == current[c]
<1>1. /\ t \in AllThreads /\ t # none /\ trap[c] = "no" /\ lock = Free /\ sched[t] = "call"
      /\ UNCHANGED <<flag, trap, reg, pc, value, waiting, asleep, defunct, frees, raced>>
  BY Current DEF Schedule, Runs, irqs, heap, dead
<1>2. CASE snest[t] # 0 \/ Stays(c, stat[t])
  <2>1. /\ sched' = [sched EXCEPT ![t] = "no"] /\ broken' = (broken \/ stat[t] = "SUSPEND")
        /\ UNCHANGED <<run, locks>>
    BY <1>2 DEF Schedule
  <2>2. broken' \in BOOLEAN /\ (broken' <=> broken \/ stat[t] = "SUSPEND")
    <3>1. broken \in BOOLEAN
      BY DEF Base, CpusOK
    <3>2. QED
      BY <2>1, <3>1, Zenon
  <2>3. sched'[t] = "no"
    BY <1>1, <2>1 DEF Base, ThreadsOK
  <2>4. QED
    BY <1>1, <1>2, <2>1, <2>2, <2>3 DEF Remains, Acts, run, locks
<1>3. CASE ~(snest[t] # 0 \/ Stays(c, stat[t]))
  <2>1. /\ Switch(c, stat[t]) /\ snest[t] = 0 /\ ~Stays(c, stat[t])
        /\ nest' = [nest EXCEPT ![t] = 1] /\ snest' = [snest EXCEPT ![t] = 1]
        /\ sched' = [sched EXCEPT ![t] = "in"] /\ UNCHANGED <<crit, broken>>
    BY <1>3 DEF Schedule
  <2>2. PICK u \in AllThreads : Swaps(c, t, u, stat[t])
    BY <1>1, <2>1, SwitchFacts DEF Base
  <2>3. QED
    BY <1>1, <2>1, <2>2 DEF Leaves
<1>4. QED
  BY <1>2, <1>3

(* The end of a trap: thread t stays, in a critical section with the flag    *)
(* kept, ...                                                                 *)
Returns(c, t) ==
  /\ t = current[c] /\ t \in AllThreads /\ t # none /\ trap[c] = "switch" /\ lock = Free
  /\ \/ flag' = [flag EXCEPT ![c] = 0] /\ Stays(c, stat[t])
     \/ flag' = flag /\ (flag[c] # 1 \/ snest[t] # 0)
  /\ trap' = [trap EXCEPT ![c] = "no"]
  /\ UNCHANGED <<stat, yield, oncpu, queue, current, ipi, reg, lock, nest, snest, crit, pc,
                 sched, value, waiting, asleep, defunct, frees, raced, broken>>

(* ... or leaves to thread u. *)
Preempted(c, t, u) ==
  /\ t = current[c] /\ t \in AllThreads /\ t # none /\ trap[c] = "switch" /\ lock = Free
  /\ snest[t] = 0 /\ Swaps(c, t, u, stat[t])
  /\ flag' = [flag EXCEPT ![c] = 0] /\ trap' = [trap EXCEPT ![c] = "no"]
  /\ UNCHANGED <<reg, nest, snest, crit, pc, sched, value, waiting, asleep, defunct,
                 frees, raced, broken>>

LEMMA IrqSwitchFacts ==
  ASSUME Base, NEW c \in Cpu, IrqSwitch(c)
  PROVE  Returns(c, current[c]) \/ \E u \in AllThreads : Preempted(c, current[c], u)
<1> DEFINE t == current[c]
<1>1. /\ t \in AllThreads /\ t # none /\ trap[c] = "switch" /\ lock = Free
      /\ trap' = [trap EXCEPT ![c] = "no"]
      /\ UNCHANGED <<reg, pc, sched, value, waiting, asleep, defunct, frees, raced, broken>>
  BY Current DEF IrqSwitch, heap, dead, ghost
<1>2. CASE ~(flag[c] = 1 /\ snest[t] = 0)
  BY <1>1, <1>2 DEF IrqSwitch, Returns, run, locks
<1>3. CASE flag[c] = 1 /\ snest[t] = 0 /\ Stays(c, stat[t])
  BY <1>1, <1>3 DEF IrqSwitch, Returns, run, locks
<1>4. CASE flag[c] = 1 /\ snest[t] = 0 /\ ~Stays(c, stat[t])
  <2>1. /\ Switch(c, stat[t]) /\ flag' = [flag EXCEPT ![c] = 0]
        /\ UNCHANGED <<nest, snest, crit>>
    BY <1>4 DEF IrqSwitch
  <2>2. PICK u \in AllThreads : Swaps(c, t, u, stat[t])
    BY <1>1, <1>4, <2>1, SwitchFacts DEF Base
  <2>3. QED
    BY <1>1, <1>4, <2>1, <2>2 DEF Preempted
<1>5. QED
  BY <1>2, <1>3, <1>4

(* A thread that takes a CPU over is at one place, and so is the old one. *)
LEMMA SwapPlaces ==
  ASSUME Base, NEW c \in Cpu, NEW v \in AllThreads, NEW s \in {"RUNNING", "SUSPEND", "CLOSE"},
         current[c] # none, Swaps(c, current[c], v, s), reg' = reg, trap'[c] = "no",
         \A d \in Cpu : d # c => trap'[d] = trap[d]
  PROVE  Places'
<1> DEFINE t == current[c]
<1>1. /\ t \in AllThreads /\ stat[t] \in {"RUNNING", "SUSPEND"} /\ t # v
      /\ oncpu[t] = c /\ ~Queued(queue, t) /\ \A d \in Cpu : current[d] = t => d = c
  BY Current DEF Swaps
<1>2. stat[v] = "READY" /\ oncpu[v] = DETACHED /\ Queued(queue, v) /\ bind_cpu[v] \in {c, Global}
  BY DEF Swaps, Base, Places
<1>3. \A d \in Cpu : current[d] # v
  BY <1>2, CpuFacts DEF Base, Places
<1>4. /\ stat'[t] = IF s = "RUNNING" THEN "READY" ELSE s
      /\ stat'[v] = "RUNNING"
      /\ \A u \in AllThreads : u # t /\ u # v => stat'[u] = stat[u]
  BY <1>1 DEF Swaps, Base, ThreadsOK
<1>5. /\ oncpu'[t] = DETACHED /\ oncpu'[v] = c
      /\ \A u \in AllThreads : u # t /\ u # v => oncpu'[u] = oncpu[u]
  BY <1>1 DEF Swaps, Base, ThreadsOK
<1>6. current'[c] = v /\ \A d \in Cpu : d # c => current'[d] = current[d]
  BY DEF Swaps, Base, CpusOK
<1>7. \A u \in AllThreads :
        Queued(queue, u)' <=> (Queued(queue, u) \/ (s = "RUNNING" /\ u = t)) /\ u # v
  BY DEF Swaps
<1> HIDE DEF t
<1>8. ASSUME NEW u \in AllThreads
      PROVE  /\ stat'[u] = "READY" <=> Queued(queue, u)'
             /\ stat'[u] = "RUNNING" => oncpu'[u] # DETACHED
             /\ oncpu'[u] # DETACHED => stat'[u] \in {"RUNNING", "SUSPEND"}
  <2>1. CASE u = t
    BY <1>1, <1>4, <1>5, <1>7, <2>1
  <2>2. CASE u = v
    BY <1>4, <1>5, <1>7, <2>2, CpuFacts
  <2>3. CASE u # t /\ u # v
    BY <1>4, <1>5, <1>7, <2>3 DEF Base, Places
  <2>4. QED
    BY <2>1, <2>2, <2>3
<1>9. ASSUME NEW u \in AllThreads, NEW d \in Cpu PROVE oncpu'[u] = d <=> current'[d] = u
  <2>1. CASE u = t
    BY <1>1, <1>5, <1>6, <2>1, CpuFacts
  <2>2. CASE u = v
    BY <1>3, <1>5, <1>6, <2>2
  <2>3. CASE u # t /\ u # v
    BY <1>1, <1>5, <1>6, <2>3 DEF Base, Places, t
  <2>4. QED
    BY <2>1, <2>2, <2>3
<1>10. ASSUME NEW d \in Cpu, current'[d] = none
       PROVE  trap'[d] = "no" /\ stat'[idle[d]] = "READY"
  <2>1. d # c /\ current[d] = none
    BY <1>6, <1>10, CpuFacts
  <2>2. trap[d] = "no" /\ stat[idle[d]] = "READY" /\ idle[d] \in AllThreads /\ bind_cpu[idle[d]] = d
    BY <2>1, Consts DEF Base, Places
  <2>3. idle[d] # t /\ idle[d] # v
    BY <1>1, <1>2, <2>1, <2>2, CpuFacts
  <2>4. QED
    BY <1>4, <2>1, <2>2, <2>3
<1>11. ASSUME NEW d \in Cpu, trap'[d] = "store"
       PROVE  reg'[d] # "none" /\ (stat'[current'[d]] = "SUSPEND" => reg'[d] = "SUSPEND")
  <2>1. d # c /\ trap[d] = "store" /\ current'[d] = current[d] /\ reg[d] # "none"
    BY <1>6, <1>11 DEF Base, Places
  <2>2. current[d] \in AllThreads
    BY <2>1, Current
  <2>3. current[d] # t /\ current[d] # v
    BY <1>1, <1>3, <2>1
  <2>4. stat'[current[d]] = stat[current[d]]
    BY <1>4, <2>2, <2>3
  <2>5. QED
    BY <2>1, <2>4 DEF Base, Places
<1>12. QED
  BY <1>8, <1>9, <1>10, <1>11 DEF Places

(* A step of no thread and no CPU, or the one that loses a CPU. *)
Quiet == UNCHANGED <<run, irqs, locks, pc, sched, heap, asleep, dead, raced, broken>>

LEMMA QuietSteps ==
  /\ UNCHANGED vars => Quiet
  /\ \A c \in Cpu : Hang(c) => Quiet
BY DEF vars, ghost, Quiet, Hang

(* Threads keep the types of what they have ... *)
LEMMA ThreadsStep ==
  ASSUME Base, [Next]_vars
  PROVE  ThreadsOK'
<1> USE CpuFacts DEF Base, ThreadsOK, CpusOK, run, irqs, locks, heap,
        dead, ghost, Runs, Works, User, Calls, Goes, Trap, Ticked
<1>a. \A c \in Cpu :
        LET t == current[c] IN
        /\ trap[c] # "no" \/ lock = c => t # none
        /\ t # none => /\ t \in AllThreads /\ stat[t] \in {"RUNNING", "SUSPEND"}
                       /\ oncpu[t] = c /\ ~Queued(queue, t)
                       /\ \A d \in Cpu : current[d] = t => d = c
        /\ t # none /\ lock # c => /\ nest[t] = 0
                                   /\ snest[t] = IF crit = t THEN 1 ELSE 0
  BY Current
<1>1. ASSUME NEW c \in Cpu, Boot(c) PROVE ThreadsOK'
  <2>1. PICK v \in AllThreads : Starts(c, v)
    BY <1>1, BootFacts
  <2>2. QED
    BY <1>1, <1>a, <2>1 DEF Boot, Starts
<1>2. ASSUME NEW c \in Cpu, Schedule(c) PROVE ThreadsOK'
  <2>1. CASE Remains(c, current[c])
    BY <1>a, <2>1 DEF Remains, Acts
  <2>2. ASSUME NEW v \in AllThreads, Leaves(c, current[c], v) PROVE ThreadsOK'
    BY <1>a, <2>2 DEF Leaves, Swaps
  <2>3. QED
    BY <1>2, <2>1, <2>2, ScheduleFacts
<1>3. ASSUME NEW c \in Cpu, Unlock(c) PROVE ThreadsOK'
  <2>1. current[c] \in AllThreads /\ stat[current[c]] # "CLOSE"
    BY <1>3, <1>a DEF Unlock, Locked, Base
  <2>2. nest[current[c]] = 1 /\ snest[current[c]] > 0
    BY <1>3, <2>1 DEF Unlock, Locked, Base
  <2>3. QED
    BY <1>3, <2>1, <2>2 DEF Unlock
<1>4. ASSUME NEW c \in Cpu, Ipi(c) PROVE ThreadsOK'
  BY <1>4, <1>a DEF Ipi
<1>5. ASSUME NEW c \in Cpu, TickLoad(c) PROVE ThreadsOK'
  BY <1>5, <1>a DEF TickLoad
<1>6. ASSUME NEW c \in Cpu, TickStore(c) PROVE ThreadsOK'
  <2>1. current[c] \in AllThreads /\ reg[c] \in {"RUNNING", "SUSPEND"}
    BY <1>6, <1>a DEF TickStore, Places, Base
  <2>2. QED
    BY <1>6, <2>1 DEF TickStore
<1>7. ASSUME NEW c \in Cpu, NoTimer(c) PROVE ThreadsOK'
  BY <1>7 DEF NoTimer
<1>8. ASSUME NEW c \in Cpu, Timers(c) PROVE ThreadsOK'
  <2>1. current[c] \in AllThreads /\ nest[current[c]] = 0
    BY <1>8, <1>a DEF Timers
  <2>2. snest[current[c]] \in 0..1
    BY <1>a, <1>8 DEF Timers
  <2>3. QED
    BY <1>8, <2>1, <2>2 DEF Timers
<1>9. ASSUME NEW c \in Cpu, NEW t \in asleep, Expire(c, t) PROVE ThreadsOK'
  <2>1. t \in AllThreads /\ stat[t] = "SUSPEND" /\ Wakes(c, t) /\ Drops(t)
    BY <1>9, ExpireFacts
  <2>2. QED
    BY <1>9, <1>a, <2>1 DEF Expire, Wakes, Drops
<1>10. ASSUME NEW c \in Cpu, TimersEnd(c) PROVE ThreadsOK'
  <2>1. current[c] \in AllThreads /\ nest[current[c]] = 1
    BY <1>10, <1>a DEF TimersEnd, Locked, Base
  <2>2. snest[current[c]] > 0
    BY <2>1 DEF Locked, Base
  <2>3. QED
    BY <1>10, <2>1, <2>2 DEF TimersEnd
<1>11. ASSUME NEW c \in Cpu, IrqSwitch(c) PROVE ThreadsOK'
  <2>1. CASE Returns(c, current[c])
    BY <1>a, <2>1 DEF Returns, Acts
  <2>2. ASSUME NEW v \in AllThreads, Preempted(c, current[c], v) PROVE ThreadsOK'
    BY <1>a, <2>2 DEF Preempted, Swaps
  <2>3. QED
    BY <1>11, <2>1, <2>2, IrqSwitchFacts
<1>12. ASSUME NEW c \in Cpu, Reap(c) PROVE ThreadsOK'
  BY <1>12, <1>a DEF Reap
<1>13. ASSUME NEW c \in Cpu, Clean(c) PROVE ThreadsOK'
  <2>1. Cleans(c, current[c])
    BY <1>13, CleanActs
  <2>2. stat' \in [AllThreads -> {"INIT", "READY", "RUNNING", "SUSPEND", "CLOSE"}]
    <3>1. CASE value # 0
      BY <1>13, <3>1, CleanActs
    <3>2. CASE value = 0
      <4>1. PICK h \in AllThreads : Passes(c, current[c], h)
        BY <1>13, <3>2, CleanFacts
      <4>2. stat' = [stat EXCEPT ![current[c]] = "SUSPEND",
                                 ![h] = IF oncpu[h] = DETACHED THEN "READY" ELSE "RUNNING"]
        BY <4>1 DEF Passes
      <4>3. QED
        BY <2>1, <4>2 DEF Cleans
    <3>3. QED
      BY <3>1, <3>2
  <2>3. /\ current[c] \in AllThreads /\ pc' = [pc EXCEPT ![current[c]] = "free"]
        /\ nest' = [nest EXCEPT ![current[c]] = 0] /\ snest' = [snest EXCEPT ![current[c]] = 0]
        /\ UNCHANGED <<yield, oncpu, sched>>
    BY <2>1 DEF Cleans
  <2>4. QED
    BY <2>2, <2>3
<1>14. ASSUME NEW c \in Cpu, Take(c) PROVE ThreadsOK'
  <2>1. CASE value = 0
    <3>1. Blocks(c, current[c])
      BY <1>14, <2>1, TakeFacts
    <3>2. QED
      BY <1>a, <2>1, <3>1 DEF Blocks, Acts, Suspends, Joins
  <2>2. CASE value # 0
    <3>1. value > 0
      BY <2>2 DEF HeapOK
    <3>2. QED
      BY <1>14, <1>a, <3>1, TakeFacts DEF Take, Acts
  <2>3. QED
    BY <2>1, <2>2
<1>15. ASSUME NEW c \in Cpu, Release(c) PROVE ThreadsOK'
  <2>1. CASE waiting = <<>>
    BY <1>15, <1>a, <2>1 DEF Release
  <2>2. CASE waiting # <<>>
    <3>1. PICK h \in AllThreads : Releases(c, current[c], h)
      BY <1>15, <2>2, ReleaseFacts
    <3>2. QED
      BY <1>a, <2>2, <3>1 DEF Releases, Acts, Wakes, Drops
  <2>3. QED
    BY <2>1, <2>2
<1>16. ASSUME NEW c \in Cpu, Sleep(c) PROVE ThreadsOK'
  <2>1. Suspends(current[c])
    BY <1>16, SleepFacts
  <2>2. QED
    BY <1>16, <1>a, <2>1 DEF Sleep, Suspends
<1>17. ASSUME NEW c \in Cpu, Yield(c) PROVE ThreadsOK'
  BY <1>17, <1>a DEF Yield
<1>18. ASSUME NEW c \in Cpu, Exit(c) PROVE ThreadsOK'
  <2>1. Exits(c, current[c])
    BY <1>18, ExitFacts
  <2>2. PICK v \in AllThreads : Swaps(c, current[c], v, "CLOSE")
    BY <1>18, ExitFacts
  <2>3. /\ stat' = [stat EXCEPT ![current[c]] = "CLOSE", ![v] = "RUNNING"]
        /\ yield' \in [AllThreads -> BOOLEAN]
        /\ oncpu' = [oncpu EXCEPT ![current[c]] = DETACHED, ![v] = c]
    BY <2>2 DEF Swaps
  <2>4. /\ current[c] \in AllThreads
        /\ nest' = [nest EXCEPT ![current[c]] = 2] /\ snest' = [snest EXCEPT ![current[c]] = 1]
        /\ sched' = [sched EXCEPT ![current[c]] = "in"] /\ pc' = pc
    BY <2>1 DEF Exits, Acts
  <2>5. QED
    BY <2>3, <2>4
<1>19. ASSUME NEW c \in Cpu, Enter(c) PROVE ThreadsOK'
  <2>1. current[c] \in AllThreads /\ nest[current[c]] = 0
    BY <1>19, <1>a DEF Enter
  <2>2. snest[current[c]] \in 0..1
    BY <1>a, <1>19 DEF Enter
  <2>3. QED
    BY <1>19, <2>1, <2>2 DEF Enter
<1>20. ASSUME NEW c \in Cpu, Leave(c) PROVE ThreadsOK'
  <2>1. current[c] \in AllThreads /\ nest[current[c]] = 0 /\ crit = current[c]
    BY <1>20, <1>a DEF Leave, Locked, Base
  <2>2. snest[current[c]] = 1
    BY <2>1, <1>a, <1>20 DEF Leave
  <2>3. QED
    BY <1>20, <2>1, <2>2 DEF Leave
<1>21. ASSUME NEW c \in Cpu, NEW u \in AllThreads, Startup(c, u) PROVE ThreadsOK'
  <2>1. Wakes(c, u)
    BY <1>21, ResumedFacts DEF Startup, Base, Wakes
  <2>2. QED
    BY <1>21, <1>a, <2>1 DEF Startup, Wakes
<1>22. CASE Quiet
  BY <1>22 DEF Quiet
<1>23. QED
  BY QuietSteps, <1>1, <1>2, <1>3, <1>4, <1>5, <1>6, <1>7, <1>8, <1>9, <1>10, <1>11,
     <1>12, <1>13, <1>14, <1>15, <1>16, <1>17, <1>18, <1>19, <1>20, <1>21,
     <1>22 DEF Next, Kernel, Program

(* ... and so do the CPUs ... *)
LEMMA CpusStep ==
  ASSUME Base, [Next]_vars
  PROVE  CpusOK'
<1> USE CpuFacts DEF Base, ThreadsOK, CpusOK, run, irqs, locks, heap,
        dead, ghost, Runs, Works, User, Calls, Goes, Trap, Ticked
<1>a. \A c \in Cpu :
        LET t == current[c] IN
        /\ trap[c] # "no" \/ lock = c => t # none
        /\ t # none => /\ t \in AllThreads /\ stat[t] \in {"RUNNING", "SUSPEND"}
                       /\ oncpu[t] = c /\ ~Queued(queue, t)
                       /\ \A d \in Cpu : current[d] = t => d = c
        /\ t # none /\ lock # c => /\ nest[t] = 0
                                   /\ snest[t] = IF crit = t THEN 1 ELSE 0
  BY Current
<1>1. ASSUME NEW c \in Cpu, Boot(c) PROVE CpusOK'
  <2>1. PICK v \in AllThreads : Starts(c, v)
    BY <1>1, BootFacts
  <2>2. QED
    BY <1>1, <1>a, KickFacts, <2>1 DEF Boot, Starts
<1>2. ASSUME NEW c \in Cpu, Schedule(c) PROVE CpusOK'
  <2>1. CASE Remains(c, current[c])
    BY <1>a, KickFacts, <2>1 DEF Remains, Acts
  <2>2. ASSUME NEW v \in AllThreads, Leaves(c, current[c], v) PROVE CpusOK'
    BY <1>a, KickFacts, <2>2 DEF Leaves, Swaps
  <2>3. QED
    BY <1>2, <2>1, <2>2, ScheduleFacts
<1>3. ASSUME NEW c \in Cpu, Unlock(c) PROVE CpusOK'
  BY <1>3, <1>a DEF Unlock
<1>4. ASSUME NEW c \in Cpu, Ipi(c) PROVE CpusOK'
  BY <1>4, <1>a DEF Ipi
<1>5. ASSUME NEW c \in Cpu, TickLoad(c) PROVE CpusOK'
  BY <1>5, <1>a DEF TickLoad
<1>6. ASSUME NEW c \in Cpu, TickStore(c) PROVE CpusOK'
  BY <1>6, <1>a DEF TickStore
<1>7. ASSUME NEW c \in Cpu, NoTimer(c) PROVE CpusOK'
  BY <1>7, <1>a DEF NoTimer
<1>8. ASSUME NEW c \in Cpu, Timers(c) PROVE CpusOK'
  BY <1>8, <1>a DEF Timers
<1>9. ASSUME NEW c \in Cpu, NEW t \in asleep, Expire(c, t) PROVE CpusOK'
  <2>1. t \in AllThreads /\ stat[t] = "SUSPEND" /\ Wakes(c, t) /\ Drops(t)
    BY <1>9, ExpireFacts
  <2>2. QED
    BY <1>9, <1>a, KickFacts, <2>1 DEF Expire, Wakes
<1>10. ASSUME NEW c \in Cpu, TimersEnd(c) PROVE CpusOK'
  BY <1>10, <1>a DEF TimersEnd
<1>11. ASSUME NEW c \in Cpu, IrqSwitch(c) PROVE CpusOK'
  <2>1. CASE Returns(c, current[c])
    BY <1>a, KickFacts, <2>1 DEF Returns, Acts
  <2>2. ASSUME NEW v \in AllThreads, Preempted(c, current[c], v) PROVE CpusOK'
    BY <1>a, KickFacts, <2>2 DEF Preempted, Swaps
  <2>3. QED
    BY <1>11, <2>1, <2>2, IrqSwitchFacts
<1>12. ASSUME NEW c \in Cpu, Reap(c) PROVE CpusOK'
  BY <1>12, <1>a DEF Reap
<1>13. ASSUME NEW c \in Cpu, Clean(c) PROVE CpusOK'
  <2>1. Cleans(c, current[c])
    BY <1>13, CleanActs
  <2>2. CASE value # 0
    <3>1. UNCHANGED <<stat, queue, ipi, waiting, asleep>>
      BY <1>13, <2>2, CleanActs
    <3>2. QED
      BY <1>a, KickFacts, <2>1, <2>2, <3>1 DEF Cleans
  <2>3. CASE value = 0
    <3>1. PICK h \in AllThreads : Passes(c, current[c], h)
      BY <1>13, <2>3, CleanFacts
    <3>2. QED
      BY <1>a, KickFacts, <2>1, <2>3, <3>1 DEF Cleans, Passes
  <2>4. QED
    BY <2>2, <2>3
<1>14. ASSUME NEW c \in Cpu, Take(c) PROVE CpusOK'
  <2>1. CASE value = 0
    <3>1. Blocks(c, current[c])
      BY <1>14, <2>1, TakeFacts
    <3>2. QED
      BY <1>a, KickFacts, <2>1, <3>1 DEF Blocks, Acts, Suspends, Joins
  <2>2. CASE value # 0
    <3>1. value > 0
      BY <2>2 DEF HeapOK
    <3>2. QED
      BY <1>14, <1>a, KickFacts, <3>1, TakeFacts DEF Take, Acts
  <2>3. QED
    BY <2>1, <2>2
<1>15. ASSUME NEW c \in Cpu, Release(c) PROVE CpusOK'
  <2>1. CASE waiting = <<>>
    BY <1>15, <1>a, KickFacts, <2>1 DEF Release
  <2>2. CASE waiting # <<>>
    <3>1. PICK h \in AllThreads : Releases(c, current[c], h)
      BY <1>15, <2>2, ReleaseFacts
    <3>2. QED
      BY <1>a, KickFacts, <2>2, <3>1 DEF Releases, Acts, Wakes, Drops
  <2>3. QED
    BY <2>1, <2>2
<1>16. ASSUME NEW c \in Cpu, Sleep(c) PROVE CpusOK'
  <2>1. Suspends(current[c])
    BY <1>16, SleepFacts
  <2>2. QED
    BY <1>16, <1>a, KickFacts, <2>1 DEF Sleep, Suspends
<1>17. ASSUME NEW c \in Cpu, Yield(c) PROVE CpusOK'
  BY <1>17, <1>a DEF Yield
<1>18. ASSUME NEW c \in Cpu, Exit(c) PROVE CpusOK'
  <2>1. Exits(c, current[c])
    BY <1>18, ExitFacts
  <2>2. PICK v \in AllThreads : Swaps(c, current[c], v, "CLOSE")
    BY <1>18, ExitFacts
  <2>3. QED
    BY <1>a, KickFacts, <2>1, <2>2 DEF Exits, Acts, Swaps, Drops
<1>19. ASSUME NEW c \in Cpu, Enter(c) PROVE CpusOK'
  BY <1>19, <1>a DEF Enter
<1>20. ASSUME NEW c \in Cpu, Leave(c) PROVE CpusOK'
  BY <1>20, <1>a DEF Leave
<1>21. ASSUME NEW c \in Cpu, NEW u \in AllThreads, Startup(c, u) PROVE CpusOK'
  <2>1. Wakes(c, u)
    BY <1>21, ResumedFacts DEF Startup, Base, Wakes
  <2>2. QED
    BY <1>21, <1>a, KickFacts, <2>1 DEF Startup, Wakes
<1>22. CASE Quiet
  BY <1>22 DEF Quiet
<1>23. QED
  BY QuietSteps, <1>1, <1>2, <1>3, <1>4, <1>5, <1>6, <1>7, <1>8, <1>9, <1>10, <1>11,
     <1>12, <1>13, <1>14, <1>15, <1>16, <1>17, <1>18, <1>19, <1>20, <1>21,
     <1>22 DEF Next, Kernel, Program

(* ... and the heap, ... *)
LEMMA HeapStep ==
  ASSUME Base, Frees, [Next]_vars
  PROVE  HeapOK'
<1> USE CpuFacts DEF Base, HeapOK, run, irqs, locks, heap, dead, ghost,
        Runs, Works, User, Calls, Goes, Trap, Ticked
<1>a. \A c \in Cpu :
        LET t == current[c] IN
        /\ trap[c] # "no" \/ lock = c => t # none
        /\ t # none => /\ t \in AllThreads /\ stat[t] \in {"RUNNING", "SUSPEND"}
                       /\ oncpu[t] = c /\ ~Queued(queue, t)
                       /\ \A d \in Cpu : current[d] = t => d = c
        /\ t # none /\ lock # c => /\ nest[t] = 0
                                   /\ snest[t] = IF crit = t THEN 1 ELSE 0
  BY Current
<1>1. ASSUME NEW c \in Cpu, Boot(c) \/ Schedule(c) \/ Unlock(c) \/ Ipi(c)
           \/ TickLoad(c) \/ TickStore(c) \/ NoTimer(c) \/ Timers(c) \/ TimersEnd(c)
           \/ IrqSwitch(c) \/ Yield(c) \/ Enter(c) \/ Leave(c) \/ (\E u \in
           AllThreads : Startup(c, u)) PROVE HeapOK'
  BY <1>1, <1>a DEF Boot, Schedule, Unlock, Ipi, TickLoad, TickStore,
     NoTimer, Timers, TimersEnd, IrqSwitch, Yield, Enter, Leave, Startup
<1>2. ASSUME NEW c \in Cpu, NEW t \in asleep, Expire(c, t) PROVE HeapOK'
  <2>1. t \in AllThreads /\ stat[t] = "SUSPEND" /\ Wakes(c, t) /\ Drops(t)
    BY <1>2, ExpireFacts
  <2>2. QED
    BY <1>2, <1>a, <2>1 DEF Expire, Drops
<1>3. ASSUME NEW c \in Cpu, Reap(c) PROVE HeapOK'
  <2>1. defunct' = Tail(defunct) /\ defunct # <<>> /\ UNCHANGED <<value, waiting, asleep, frees>>
    BY <1>3 DEF Reap
  <2>2. QED
    BY <2>1, HeadTailProperties
<1>4. ASSUME NEW c \in Cpu, Clean(c) PROVE HeapOK'
  <2>1. Cleans(c, current[c])
    BY <1>4, CleanActs
  <2>2. CASE value # 0
    <3>1. UNCHANGED <<stat, queue, ipi, waiting, asleep>>
      BY <1>4, <2>2, CleanActs
    <3>2. QED
      BY <1>a, <2>1, <2>2, <3>1 DEF Cleans
  <2>3. CASE value = 0
    <3>1. PICK h \in AllThreads : Passes(c, current[c], h)
      BY <1>4, <2>3, CleanFacts
    <3>2. QED
      BY <1>a, <2>1, <2>3, <3>1 DEF Cleans, Passes
  <2>4. QED
    BY <2>2, <2>3
<1>5. ASSUME NEW c \in Cpu, Take(c) PROVE HeapOK'
  <2>1. CASE value = 0
    <3>1. Blocks(c, current[c])
      BY <1>5, <2>1, TakeFacts
    <3>2. QED
      BY <1>a, <2>1, <3>1 DEF Blocks, Acts, Suspends, Joins
  <2>2. CASE value # 0
    <3>1. value > 0
      BY <2>2 DEF HeapOK
    <3>2. QED
      BY <1>5, <1>a, <3>1, TakeFacts DEF Take, Acts
  <2>3. QED
    BY <2>1, <2>2
<1>6. ASSUME NEW c \in Cpu, Release(c) PROVE HeapOK'
  <2>1. current[c] \in AllThreads /\ (current[c] \notin Thread => frees > 0)
    BY <1>6, <1>a DEF Release, Frees
  <2>2. CASE waiting = <<>>
    BY <1>6, <2>1, <2>2 DEF Release
  <2>3. CASE waiting # <<>>
    <3>1. PICK h \in AllThreads : Releases(c, current[c], h)
      BY <1>6, <2>3, ReleaseFacts
    <3>2. QED
      BY <2>1, <3>1 DEF Releases, Drops
  <2>4. QED
    BY <2>2, <2>3
<1>7. ASSUME NEW c \in Cpu, Sleep(c) PROVE HeapOK'
  BY <1>7, <1>a DEF Sleep
<1>8. ASSUME NEW c \in Cpu, Exit(c) PROVE HeapOK'
  <2>1. Exits(c, current[c])
    BY <1>8, ExitFacts
  <2>2. QED
    BY <2>1 DEF Exits, Drops
<1>9. CASE Quiet
  BY <1>9 DEF Quiet
<1>10. QED
  BY QuietSteps, <1>1, <1>2, <1>3, <1>4, <1>5, <1>6, <1>7, <1>8, <1>9 DEF Next,
     Kernel, Program

(* ... and only the first idle thread frees. *)
LEMMA FreesStep ==
  ASSUME Base, Frees, [Next]_vars
  PROVE  Frees'
<1> USE CpuFacts DEF Base, ThreadsOK, HeapOK, Frees, run, irqs, locks,
        heap, dead, ghost, Runs, Works, User, Calls, Goes, Trap, Ticked
<1>a. \A c \in Cpu :
        LET t == current[c] IN
        /\ trap[c] # "no" \/ lock = c => t # none
        /\ t # none => /\ t \in AllThreads /\ stat[t] \in {"RUNNING", "SUSPEND"}
                       /\ oncpu[t] = c /\ ~Queued(queue, t)
                       /\ \A d \in Cpu : current[d] = t => d = c
        /\ t # none /\ lock # c => /\ nest[t] = 0
                                   /\ snest[t] = IF crit = t THEN 1 ELSE 0
  BY Current
<1>1. ASSUME NEW c \in Cpu, Boot(c) \/ Schedule(c) \/ Unlock(c) \/ Ipi(c)
           \/ TickLoad(c) \/ TickStore(c) \/ NoTimer(c) \/ Timers(c) \/ TimersEnd(c)
           \/ IrqSwitch(c) \/ Sleep(c) \/ Yield(c) \/ Exit(c) \/ (\E t \in asleep :
           Expire(c, t)) \/ (\E u \in AllThreads : Startup(c, u)) PROVE Frees'
  BY <1>1, <1>a DEF Boot, Schedule, Unlock, Ipi, TickLoad, TickStore,
     NoTimer, Timers, Expire, TimersEnd, IrqSwitch, Sleep, Yield, Exit, Startup
<1>2. ASSUME NEW c \in Cpu, Reap(c) PROVE Frees'
  <2>1. current[c] \in AllThreads /\ frees' = frees /\ pc' = [pc EXCEPT ![current[c]] = "reap"] /\ current[c] = idle[0]
    BY <1>2, <1>a DEF Reap
  <2>2. QED
    BY <2>1
<1>3. ASSUME NEW c \in Cpu, Clean(c) PROVE Frees'
  <2>1. current[c] \in AllThreads /\ frees' = 2 /\ pc' = [pc EXCEPT ![current[c]] = "free"] /\ pc[current[c]] = "reap" 
    BY <1>3, <1>a DEF Clean
  <2>2. QED
    BY <2>1
<1>4. ASSUME NEW c \in Cpu, Take(c) PROVE Frees'
  <2>1. current[c] \in AllThreads /\ frees' = frees /\ pc' = [pc EXCEPT ![current[c]] = "heap"] /\ (current[c] \in Thread \/ pc[current[c]] = "free")
    BY <1>4, <1>a DEF Take
  <2>2. QED
    BY <2>1
<1>5. ASSUME NEW c \in Cpu, Release(c) PROVE Frees'
  <2>1. /\ current[c] \in AllThreads /\ pc[current[c]] = "heap"
        /\ current[c] \notin Thread => frees > 0 /\ current[c] = idle[0]
    BY <1>5, <1>a DEF Release
  <2>2. /\ frees' = IF current[c] \in Thread THEN frees ELSE frees - 1
        /\ pc' = [pc EXCEPT ![current[c]] =
                    IF current[c] \notin Thread /\ frees > 1 THEN "free" ELSE "run"]
    BY <1>5 DEF Release
  <2>3. QED
    BY <2>1, <2>2
<1>6. ASSUME NEW c \in Cpu, Enter(c) PROVE Frees'
  BY <1>6, <1>a DEF Enter
<1>7. ASSUME NEW c \in Cpu, Leave(c) PROVE Frees'
  BY <1>7, <1>a DEF Leave
<1>8. CASE Quiet
  BY <1>8 DEF Quiet
<1>9. QED
  BY QuietSteps, <1>1, <1>2, <1>3, <1>4, <1>5, <1>6, <1>7, <1>8 DEF Next, Kernel,
     Program

(* A thread stays at one place ... *)
LEMMA PlacesStep ==
  ASSUME Base, [Next]_vars
  PROVE  Sound(queue)' /\ Places'
<1> USE CpuFacts DEF Base, ThreadsOK, CpusOK, HeapOK, Places, run, irqs,
        locks, heap, dead, ghost, Runs, Works, User, Calls, Goes, Trap, Ticked
<1>a. \A c \in Cpu :
        LET t == current[c] IN
        /\ trap[c] # "no" \/ lock = c => t # none
        /\ t # none => /\ t \in AllThreads /\ stat[t] \in {"RUNNING", "SUSPEND"}
                       /\ oncpu[t] = c /\ ~Queued(queue, t)
                       /\ \A d \in Cpu : current[d] = t => d = c
        /\ t # none /\ lock # c => /\ nest[t] = 0
                                   /\ snest[t] = IF crit = t THEN 1 ELSE 0
  BY Current
<1>1. ASSUME NEW c \in Cpu, Unlock(c) \/ Yield(c) \/ Enter(c) \/ Leave(c)
           \/ Reap(c) PROVE Sound(queue)' /\ Places'
  BY <1>1, <1>a DEF Unlock, Yield, Enter, Leave, Reap
<1>2. ASSUME NEW c \in Cpu, Boot(c) PROVE Sound(queue)' /\ Places'
  <2>1. PICK v \in AllThreads : Starts(c, v)
    BY <1>2, BootFacts
  <2>2. current[c] = none /\ trap[c] = "no" /\ trap' = trap /\ reg' = reg
    BY <1>2 DEF Boot
  <2>3. \A d \in Cpu : current[d] # v /\ (d # c => idle[d] # v)
    BY <2>1, Consts DEF Starts
  <2>4. \A u \in AllThreads, d \in Cpu : (oncpu[u] = d <=> current[d] = u)'
    BY <2>1, <2>2, <2>3 DEF Starts
  <2>5. \A u \in AllThreads : /\ (stat[u] = "READY" <=> Queued(queue, u))'
                              /\ (stat[u] = "RUNNING" => oncpu[u] # DETACHED)'
                              /\ (oncpu[u] # DETACHED => stat[u] \in {"RUNNING", "SUSPEND"})'
    BY <2>1, <2>2 DEF Starts
  <2>6. \A d \in Cpu : /\ (current[d] = none => trap[d] = "no" /\ stat[idle[d]] = "READY")'
                       /\ (trap[d] = "store" =>
                             reg[d] # "none" /\ (stat[current[d]] = "SUSPEND" => reg[d] = "SUSPEND"))'
    BY <1>a, <2>1, <2>2, <2>3, Consts DEF Starts
  <2>7. QED
    BY <2>1, <2>4, <2>5, <2>6 DEF Starts
<1>3. ASSUME NEW c \in Cpu, Schedule(c) PROVE Sound(queue)' /\ Places'
  <2>1. CASE Remains(c, current[c])
    BY <1>a, <2>1 DEF Remains, Acts
  <2>2. ASSUME NEW v \in AllThreads, Leaves(c, current[c], v) PROVE Sound(queue)' /\ Places'
    <3>1. /\ current[c] # none /\ stat[current[c]] \in {"RUNNING", "SUSPEND"}
          /\ Swaps(c, current[c], v, stat[current[c]]) /\ reg' = reg /\ trap'[c] = "no"
          /\ \A d \in Cpu : d # c => trap'[d] = trap[d]
      BY <1>a, <2>2 DEF Leaves
    <3> HIDE DEF Base, ThreadsOK, CpusOK, HeapOK, Places
    <3>2. QED
      BY <3>1, SwapPlaces, ZenonT(60) DEF Swaps
  <2>3. QED
    BY <1>3, <2>1, <2>2, ScheduleFacts
<1>4. ASSUME NEW c \in Cpu, Ipi(c) PROVE Sound(queue)' /\ Places'
  BY <1>4, <1>a DEF Ipi
<1>5. ASSUME NEW c \in Cpu, TickLoad(c) PROVE Sound(queue)' /\ Places'
  BY <1>5, <1>a DEF TickLoad
<1>6. ASSUME NEW c \in Cpu, TickStore(c) PROVE Sound(queue)' /\ Places'
  BY <1>6, <1>a DEF TickStore
<1>7. ASSUME NEW c \in Cpu, NoTimer(c) PROVE Sound(queue)' /\ Places'
  BY <1>7, <1>a DEF NoTimer
<1>8. ASSUME NEW c \in Cpu, Timers(c) PROVE Sound(queue)' /\ Places'
  BY <1>8, <1>a DEF Timers
<1>9. ASSUME NEW c \in Cpu, NEW t \in asleep, Expire(c, t) PROVE Sound(queue)' /\ Places'
  <2>1. t \in AllThreads /\ stat[t] = "SUSPEND" /\ Wakes(c, t) /\ Drops(t)
    BY <1>9, ExpireFacts
  <2>2. QED
    BY <1>9, <1>a, <2>1 DEF Expire, Wakes, Drops
<1>10. ASSUME NEW c \in Cpu, TimersEnd(c) PROVE Sound(queue)' /\ Places'
  BY <1>10, <1>a DEF TimersEnd
<1>11. ASSUME NEW c \in Cpu, IrqSwitch(c) PROVE Sound(queue)' /\ Places'
  <2>1. CASE Returns(c, current[c])
    BY <1>a, <2>1 DEF Returns, Acts
  <2>2. ASSUME NEW v \in AllThreads, Preempted(c, current[c], v) PROVE Sound(queue)' /\ Places'
    <3>1. /\ current[c] # none /\ stat[current[c]] \in {"RUNNING", "SUSPEND"}
          /\ Swaps(c, current[c], v, stat[current[c]]) /\ reg' = reg /\ trap'[c] = "no"
          /\ \A d \in Cpu : d # c => trap'[d] = trap[d]
      BY <1>a, <2>2 DEF Preempted
    <3> HIDE DEF Base, ThreadsOK, CpusOK, HeapOK, Places
    <3>2. QED
      BY <3>1, SwapPlaces, ZenonT(60) DEF Swaps
  <2>3. QED
    BY <1>11, <2>1, <2>2, IrqSwitchFacts
<1>12. ASSUME NEW c \in Cpu, Clean(c) PROVE Sound(queue)' /\ Places'
  <2>1. /\ current[c] \in AllThreads /\ current[c] # none /\ trap[c] = "no"
        /\ oncpu[current[c]] = c /\ UNCHANGED <<oncpu, current, trap, reg>>
    BY <1>12, CleanActs DEF Cleans
  <2>2. CASE value # 0
    <3>1. UNCHANGED <<stat, queue, ipi, waiting, asleep>>
      BY <1>12, <2>2, CleanActs
    <3>2. QED
      BY <1>a, <2>1, <2>2, <3>1
  <2>3. CASE value = 0
    <3>1. PICK h \in AllThreads : Passes(c, current[c], h)
      BY <1>12, <2>3, CleanFacts
    <3>2. /\ h = current[c] \/ stat[h] = "SUSPEND"
          /\ stat'[h] = IF oncpu[h] = DETACHED THEN "READY" ELSE "RUNNING"
          /\ h # current[c] => stat'[current[c]] = "SUSPEND"
          /\ \A u \in AllThreads : u # h /\ u # current[c] => stat'[u] = stat[u]
      BY <2>1, <3>1 DEF Passes
    <3>3. /\ Sound(queue)'
          /\ \A u \in AllThreads :
               Queued(queue, u)' <=> Queued(queue, u) \/ (oncpu[h] = DETACHED /\ u = h)
      BY <3>1 DEF Passes
    <3>4. \A u \in AllThreads : /\ (stat[u] = "READY" <=> Queued(queue, u))'
                                /\ (stat[u] = "RUNNING" => oncpu[u] # DETACHED)'
                                /\ (oncpu[u] # DETACHED => stat[u] \in {"RUNNING", "SUSPEND"})'
      BY <1>a, <2>1, <3>2, <3>3
    <3>5. \A d \in Cpu : /\ (current[d] = none => trap[d] = "no" /\ stat[idle[d]] = "READY")'
                         /\ (trap[d] = "store" =>
                               reg[d] # "none" /\ (stat[current[d]] = "SUSPEND" => reg[d] = "SUSPEND"))'
      BY <1>a, <2>1, <3>2, Consts
    <3>6. QED
      BY <2>1, <3>3, <3>4, <3>5
  <2>4. QED
    BY <2>2, <2>3
<1>13. ASSUME NEW c \in Cpu, Take(c) PROVE Sound(queue)' /\ Places'
  <2>1. CASE value = 0
    <3>1. Blocks(c, current[c])
      BY <1>13, <2>1, TakeFacts
    <3>2. /\ current[c] \in AllThreads /\ current[c] # none /\ trap[c] = "no"
          /\ Suspends(current[c]) /\ UNCHANGED <<oncpu, current, trap, reg>>
      BY <3>1 DEF Blocks, Acts
    <3>3. QED
      BY <1>a, <3>2 DEF Suspends
  <2>2. CASE value # 0
    BY <1>13, <2>2 DEF Take
  <2>3. QED
    BY <2>1, <2>2
<1>14. ASSUME NEW c \in Cpu, Release(c) PROVE Sound(queue)' /\ Places'
  <2>1. CASE waiting = <<>>
    BY <1>14, <1>a, <2>1 DEF Release
  <2>2. CASE waiting # <<>>
    <3>1. PICK h \in AllThreads : Releases(c, current[c], h)
      BY <1>14, <2>2, ReleaseFacts
    <3>2. QED
      BY <1>a, <2>2, <3>1 DEF Releases, Acts, Wakes, Drops
  <2>3. QED
    BY <2>1, <2>2
<1>15. ASSUME NEW c \in Cpu, Sleep(c) PROVE Sound(queue)' /\ Places'
  <2>1. Suspends(current[c])
    BY <1>15, SleepFacts
  <2>2. QED
    BY <1>15, <1>a, <2>1 DEF Sleep, Suspends
<1>16. ASSUME NEW c \in Cpu, Exit(c) PROVE Sound(queue)' /\ Places'
  <2>1. Exits(c, current[c])
    BY <1>16, ExitFacts
  <2>2. PICK v \in AllThreads : Swaps(c, current[c], v, "CLOSE")
    BY <1>16, ExitFacts
  <2>3. /\ current[c] # none /\ reg' = reg /\ trap'[c] = "no"
        /\ \A d \in Cpu : d # c => trap'[d] = trap[d]
    BY <2>1 DEF Exits, Acts
  <2> HIDE DEF Base, ThreadsOK, CpusOK, HeapOK, Places
  <2>4. QED
    BY <2>2, <2>3, SwapPlaces DEF Swaps
<1>17. ASSUME NEW c \in Cpu, NEW u \in AllThreads, Startup(c, u) PROVE Sound(queue)' /\ Places'
  <2>1. Wakes(c, u)
    BY <1>17, ResumedFacts DEF Startup, Base, Wakes
  <2>2. QED
    BY <1>17, <1>a, <2>1 DEF Startup, Wakes
<1>18. CASE Quiet
  BY <1>18 DEF Quiet
<1>19. QED
  BY QuietSteps, <1>1, <1>2, <1>3, <1>4, <1>5, <1>6, <1>7, <1>8, <1>9, <1>10, <1>11,
     <1>12, <1>13, <1>14, <1>15, <1>16, <1>17, <1>18 DEF Next, Kernel, Program

(* ... and in the lists while it is suspended, ... *)
LEMMA WaitsStep ==
  ASSUME Base, [Next]_vars
  PROVE  Waits'
<1> USE CpuFacts DEF Base, ThreadsOK, HeapOK, Waits, run, irqs, locks,
        heap, dead, ghost, Runs, Works, User, Calls, Goes, Trap, Ticked
<1>a. \A c \in Cpu :
        LET t == current[c] IN
        /\ trap[c] # "no" \/ lock = c => t # none
        /\ t # none => /\ t \in AllThreads /\ stat[t] \in {"RUNNING", "SUSPEND"}
                       /\ oncpu[t] = c /\ ~Queued(queue, t)
                       /\ \A d \in Cpu : current[d] = t => d = c
        /\ t # none /\ lock # c => /\ nest[t] = 0
                                   /\ snest[t] = IF crit = t THEN 1 ELSE 0
  BY Current
<1>1. ASSUME NEW c \in Cpu, Unlock(c) \/ Ipi(c) \/ TickLoad(c) \/
           NoTimer(c) \/ Timers(c) \/ TimersEnd(c) \/ Reap(c) \/ Yield(c) \/ Enter(c)
           \/ Leave(c) PROVE Waits'
  BY <1>1, <1>a DEF Unlock, Ipi, TickLoad, NoTimer, Timers, TimersEnd,
     Reap, Yield, Enter, Leave
<1>2. ASSUME NEW c \in Cpu, Boot(c) PROVE Waits'
  <2>1. PICK v \in AllThreads : Starts(c, v)
    BY <1>2, BootFacts
  <2>2. QED
    BY <1>2, <1>a, <2>1 DEF Boot, Starts
<1>3. ASSUME NEW c \in Cpu, Schedule(c) PROVE Waits'
  <2>1. CASE Remains(c, current[c])
    BY <1>a, <2>1 DEF Remains, Acts
  <2>2. ASSUME NEW v \in AllThreads, Leaves(c, current[c], v) PROVE Waits'
    BY <1>a, <2>2 DEF Leaves, Swaps
  <2>3. QED
    BY <1>3, <2>1, <2>2, ScheduleFacts
<1>4. ASSUME NEW c \in Cpu, TickStore(c) PROVE Waits'
  <2>1. /\ current[c] \in AllThreads /\ stat' = [stat EXCEPT ![current[c]] = reg[c]]
        /\ UNCHANGED <<waiting, asleep>>
        /\ stat[current[c]] = "SUSPEND" => reg[c] = "SUSPEND"
    BY <1>4, <1>a DEF TickStore, Places
  <2>2. QED
    BY <2>1
<1>5. ASSUME NEW c \in Cpu, NEW t \in asleep, Expire(c, t) PROVE Waits'
  <2>1. t \in AllThreads /\ stat[t] = "SUSPEND" /\ Wakes(c, t) /\ Drops(t)
    BY <1>5, ExpireFacts
  <2>2. QED
    BY <1>5, <1>a, <2>1 DEF Expire, Wakes, Drops
<1>6. ASSUME NEW c \in Cpu, IrqSwitch(c) PROVE Waits'
  <2>1. CASE Returns(c, current[c])
    BY <1>a, <2>1 DEF Returns, Acts
  <2>2. ASSUME NEW v \in AllThreads, Preempted(c, current[c], v) PROVE Waits'
    BY <1>a, <2>2 DEF Preempted, Swaps
  <2>3. QED
    BY <1>6, <2>1, <2>2, IrqSwitchFacts
<1>7. ASSUME NEW c \in Cpu, Clean(c) PROVE Waits'
  <2>1. Cleans(c, current[c])
    BY <1>7, CleanActs
  <2>2. CASE value # 0
    <3>1. UNCHANGED <<stat, queue, ipi, waiting, asleep>>
      BY <1>7, <2>2, CleanActs
    <3>2. QED
      BY <1>a, <2>1, <2>2, <3>1 DEF Cleans
  <2>3. CASE value = 0
    <3>1. PICK h \in AllThreads : Passes(c, current[c], h)
      BY <1>7, <2>3, CleanFacts
    <3>2. QED
      BY <1>a, <2>1, <2>3, <3>1 DEF Cleans, Passes
  <2>4. QED
    BY <2>2, <2>3
<1>8. ASSUME NEW c \in Cpu, Take(c) PROVE Waits'
  <2>1. CASE value = 0
    <3>1. Blocks(c, current[c])
      BY <1>8, <2>1, TakeFacts
    <3>2. QED
      BY <1>a, <2>1, <3>1 DEF Blocks, Acts, Suspends, Joins
  <2>2. CASE value # 0
    <3>1. value > 0
      BY <2>2 DEF HeapOK
    <3>2. QED
      BY <1>8, <1>a, <3>1, TakeFacts DEF Take, Acts
  <2>3. QED
    BY <2>1, <2>2
<1>9. ASSUME NEW c \in Cpu, Release(c) PROVE Waits'
  <2>1. CASE waiting = <<>>
    BY <1>9, <1>a, <2>1 DEF Release
  <2>2. CASE waiting # <<>>
    <3>1. PICK h \in AllThreads : Releases(c, current[c], h)
      BY <1>9, <2>2, ReleaseFacts
    <3>2. QED
      BY <1>a, <2>2, <3>1 DEF Releases, Acts, Wakes, Drops
  <2>3. QED
    BY <2>1, <2>2
<1>10. ASSUME NEW c \in Cpu, Sleep(c) PROVE Waits'
  <2>1. Suspends(current[c])
    BY <1>10, SleepFacts
  <2>2. QED
    BY <1>10, <1>a, <2>1 DEF Sleep, Suspends
<1>11. ASSUME NEW c \in Cpu, Exit(c) PROVE Waits'
  <2>1. Exits(c, current[c])
    BY <1>11, ExitFacts
  <2>2. PICK v \in AllThreads : Swaps(c, current[c], v, "CLOSE")
    BY <1>11, ExitFacts
  <2>3. QED
    BY <1>a, <2>1, <2>2 DEF Exits, Acts, Swaps, Drops
<1>12. ASSUME NEW c \in Cpu, NEW u \in AllThreads, Startup(c, u) PROVE Waits'
  <2>1. Wakes(c, u)
    BY <1>12, ResumedFacts DEF Startup, Base, Wakes
  <2>2. QED
    BY <1>12, <1>a, <2>1 DEF Startup, Wakes
<1>13. CASE Quiet
  BY <1>13 DEF Quiet
<1>14. QED
  BY QuietSteps, <1>1, <1>2, <1>3, <1>4, <1>5, <1>6, <1>7, <1>8, <1>9, <1>10, <1>11,
     <1>12, <1>13 DEF Next, Kernel, Program

(* ... and never suspended without a list, *)
LEMMA ResumeStep ==
  ASSUME Base, NoLostResume, [Next]_vars
  PROVE  NoLostResume'
<1> USE CpuFacts DEF Base, ThreadsOK, HeapOK, NoLostResume, run, irqs,
        locks, heap, dead, ghost, Runs, Works, User, Calls, Goes, Trap, Ticked
<1>a. \A c \in Cpu :
        LET t == current[c] IN
        /\ trap[c] # "no" \/ lock = c => t # none
        /\ t # none => /\ t \in AllThreads /\ stat[t] \in {"RUNNING", "SUSPEND"}
                       /\ oncpu[t] = c /\ ~Queued(queue, t)
                       /\ \A d \in Cpu : current[d] = t => d = c
        /\ t # none /\ lock # c => /\ nest[t] = 0
                                   /\ snest[t] = IF crit = t THEN 1 ELSE 0
  BY Current
<1>1. ASSUME NEW c \in Cpu, Unlock(c) \/ Ipi(c) \/ TickLoad(c) \/
           NoTimer(c) \/ Timers(c) \/ TimersEnd(c) \/ Reap(c) \/ Yield(c) \/ Enter(c)
           \/ Leave(c) PROVE NoLostResume'
  BY <1>1, <1>a DEF Unlock, Ipi, TickLoad, NoTimer, Timers, TimersEnd,
     Reap, Yield, Enter, Leave
<1>2. ASSUME NEW c \in Cpu, Boot(c) PROVE NoLostResume'
  <2>1. PICK v \in AllThreads : Starts(c, v)
    BY <1>2, BootFacts
  <2>2. QED
    BY <1>2, <1>a, <2>1 DEF Boot, Starts
<1>3. ASSUME NEW c \in Cpu, Schedule(c) PROVE NoLostResume'
  <2>1. CASE Remains(c, current[c])
    BY <1>a, <2>1 DEF Remains, Acts
  <2>2. ASSUME NEW v \in AllThreads, Leaves(c, current[c], v) PROVE NoLostResume'
    BY <1>a, <2>2 DEF Leaves, Swaps
  <2>3. QED
    BY <1>3, <2>1, <2>2, ScheduleFacts
<1>4. ASSUME NEW c \in Cpu, TickStore(c) PROVE NoLostResume'
  <2>1. /\ current[c] \in AllThreads /\ stat' = [stat EXCEPT ![current[c]] = reg[c]]
        /\ UNCHANGED <<waiting, asleep>> /\ raced' = (raced \/ reg[c] # stat[current[c]])
    BY <1>4, <1>a DEF TickStore
  <2>2. CASE raced'
    BY <2>2
  <2>3. CASE ~raced'
    <3>1. ~raced /\ reg[c] = stat[current[c]]
      BY <2>1, <2>3
    <3>2. QED
      BY <2>1, <3>1
  <2>4. QED
    BY <2>2, <2>3
<1>5. ASSUME NEW c \in Cpu, NEW t \in asleep, Expire(c, t) PROVE NoLostResume'
  <2>1. t \in AllThreads /\ stat[t] = "SUSPEND" /\ Wakes(c, t) /\ Drops(t)
    BY <1>5, ExpireFacts
  <2>2. QED
    BY <1>5, <1>a, <2>1 DEF Expire, Wakes, Drops
<1>6. ASSUME NEW c \in Cpu, IrqSwitch(c) PROVE NoLostResume'
  <2>1. CASE Returns(c, current[c])
    BY <1>a, <2>1 DEF Returns, Acts
  <2>2. ASSUME NEW v \in AllThreads, Preempted(c, current[c], v) PROVE NoLostResume'
    BY <1>a, <2>2 DEF Preempted, Swaps
  <2>3. QED
    BY <1>6, <2>1, <2>2, IrqSwitchFacts
<1>7. ASSUME NEW c \in Cpu, Clean(c) PROVE NoLostResume'
  <2>1. Cleans(c, current[c])
    BY <1>7, CleanActs
  <2>2. CASE value # 0
    <3>1. UNCHANGED <<stat, queue, ipi, waiting, asleep>>
      BY <1>7, <2>2, CleanActs
    <3>2. QED
      BY <1>a, <2>1, <2>2, <3>1 DEF Cleans
  <2>3. CASE value = 0
    <3>1. PICK h \in AllThreads : Passes(c, current[c], h)
      BY <1>7, <2>3, CleanFacts
    <3>2. QED
      BY <1>a, <2>1, <2>3, <3>1 DEF Cleans, Passes
  <2>4. QED
    BY <2>2, <2>3
<1>8. ASSUME NEW c \in Cpu, Take(c) PROVE NoLostResume'
  <2>1. CASE value = 0
    <3>1. Blocks(c, current[c])
      BY <1>8, <2>1, TakeFacts
    <3>2. QED
      BY <1>a, <2>1, <3>1 DEF Blocks, Acts, Suspends, Joins
  <2>2. CASE value # 0
    <3>1. value > 0
      BY <2>2 DEF HeapOK
    <3>2. QED
      BY <1>8, <1>a, <3>1, TakeFacts DEF Take, Acts
  <2>3. QED
    BY <2>1, <2>2
<1>9. ASSUME NEW c \in Cpu, Release(c) PROVE NoLostResume'
  <2>1. CASE waiting = <<>>
    BY <1>9, <1>a, <2>1 DEF Release
  <2>2. CASE waiting # <<>>
    <3>1. PICK h \in AllThreads : Releases(c, current[c], h)
      BY <1>9, <2>2, ReleaseFacts
    <3>2. QED
      BY <1>a, <2>2, <3>1 DEF Releases, Acts, Wakes, Drops
  <2>3. QED
    BY <2>1, <2>2
<1>10. ASSUME NEW c \in Cpu, Sleep(c) PROVE NoLostResume'
  <2>1. Suspends(current[c])
    BY <1>10, SleepFacts
  <2>2. QED
    BY <1>10, <1>a, <2>1 DEF Sleep, Suspends
<1>11. ASSUME NEW c \in Cpu, Exit(c) PROVE NoLostResume'
  <2>1. Exits(c, current[c])
    BY <1>11, ExitFacts
  <2>2. PICK v \in AllThreads : Swaps(c, current[c], v, "CLOSE")
    BY <1>11, ExitFacts
  <2>3. QED
    BY <1>a, <2>1, <2>2 DEF Exits, Acts, Swaps, Drops
<1>12. ASSUME NEW c \in Cpu, NEW u \in AllThreads, Startup(c, u) PROVE NoLostResume'
  <2>1. Wakes(c, u)
    BY <1>12, ResumedFacts DEF Startup, Base, Wakes
  <2>2. QED
    BY <1>12, <1>a, <2>1 DEF Startup, Wakes
<1>13. CASE Quiet
  BY <1>13 DEF Quiet
<1>14. QED
  BY QuietSteps, <1>1, <1>2, <1>3, <1>4, <1>5, <1>6, <1>7, <1>8, <1>9, <1>10, <1>11,
     <1>12, <1>13 DEF Next, Kernel, Program

(* The lock is handed over. *)
LEMMA LockedStep ==
  ASSUME Base, [Next]_vars
  PROVE  Locked'
<1> USE CpuFacts DEF Base, ThreadsOK, CpusOK, Locked, run, irqs, locks,
        heap, dead, ghost, Runs, Works, User, Calls, Goes, Trap, Ticked
<1>a. \A c \in Cpu :
        LET t == current[c] IN
        /\ trap[c] # "no" \/ lock = c => t # none
        /\ t # none => /\ t \in AllThreads /\ stat[t] \in {"RUNNING", "SUSPEND"}
                       /\ oncpu[t] = c /\ ~Queued(queue, t)
                       /\ \A d \in Cpu : current[d] = t => d = c
        /\ t # none /\ lock # c => /\ nest[t] = 0
                                   /\ snest[t] = IF crit = t THEN 1 ELSE 0
  BY Current
<1>1. ASSUME NEW c \in Cpu, Ipi(c) \/ TickLoad(c) \/ NoTimer(c) \/
           Yield(c) PROVE Locked'
  BY <1>1, <1>a DEF Ipi, TickLoad, NoTimer, Yield
<1>2. ASSUME NEW c \in Cpu, Boot(c) PROVE Locked'
  <2>1. PICK v \in AllThreads : Starts(c, v)
    BY <1>2, BootFacts
  <2>2. QED
    BY <1>2, <1>a, <2>1 DEF Boot, Starts
<1>3. ASSUME NEW c \in Cpu, Schedule(c) PROVE Locked'
  <2>1. CASE Remains(c, current[c])
    BY <1>a, <2>1 DEF Remains, Acts
  <2>2. ASSUME NEW v \in AllThreads, Leaves(c, current[c], v) PROVE Locked'
    BY <1>a, <2>2 DEF Leaves, Swaps
  <2>3. QED
    BY <1>3, <2>1, <2>2, ScheduleFacts
<1>4. ASSUME NEW c \in Cpu, Unlock(c) PROVE Locked'
  BY <1>4, <1>a DEF Unlock
<1>5. ASSUME NEW c \in Cpu, TickStore(c) PROVE Locked'
  <2>1. /\ current[c] \in AllThreads /\ stat[current[c]] # "CLOSE"
        /\ stat' = [stat EXCEPT ![current[c]] = reg[c]] /\ trap' = [trap EXCEPT ![c] = "timers"]
        /\ UNCHANGED <<current, lock, nest, snest, crit, pc, sched>>
    BY <1>5, <1>a DEF TickStore
  <2>2. QED
    BY <2>1
<1>6. ASSUME NEW c \in Cpu, Timers(c) PROVE Locked'
  BY <1>6, <1>a DEF Timers
<1>7. ASSUME NEW c \in Cpu, NEW t \in asleep, Expire(c, t) PROVE Locked'
  <2>1. t \in AllThreads /\ stat[t] = "SUSPEND" /\ Wakes(c, t) /\ Drops(t)
    BY <1>7, ExpireFacts
  <2>2. QED
    BY <1>7, <1>a, <2>1 DEF Expire, Wakes, Drops
<1>8. ASSUME NEW c \in Cpu, TimersEnd(c) PROVE Locked'
  <2>1. /\ current[c] \in AllThreads /\ lock = c /\ nest[current[c]] = 1
        /\ sched[current[c]] # "in"
    BY <1>8, <1>a DEF TimersEnd
  <2>2. QED
    BY <1>8, <1>a, <2>1 DEF TimersEnd
<1>9. ASSUME NEW c \in Cpu, IrqSwitch(c) PROVE Locked'
  <2>1. CASE Returns(c, current[c])
    BY <1>a, <2>1 DEF Returns, Acts
  <2>2. ASSUME NEW v \in AllThreads, Preempted(c, current[c], v) PROVE Locked'
    BY <1>a, <2>2 DEF Preempted, Swaps
  <2>3. QED
    BY <1>9, <2>1, <2>2, IrqSwitchFacts
<1>10. ASSUME NEW c \in Cpu, Reap(c) PROVE Locked'
  BY <1>10, <1>a DEF Reap
<1>11. ASSUME NEW c \in Cpu, Clean(c) PROVE Locked'
  <2>1. Cleans(c, current[c])
    BY <1>11, CleanActs
  <2>2. CASE value # 0
    <3>1. UNCHANGED <<stat, queue, ipi, waiting, asleep>>
      BY <1>11, <2>2, CleanActs
    <3>2. QED
      BY <1>a, <2>1, <2>2, <3>1 DEF Cleans
  <2>3. CASE value = 0
    <3>1. PICK h \in AllThreads : Passes(c, current[c], h)
      BY <1>11, <2>3, CleanFacts
    <3>2. QED
      BY <1>a, <2>1, <2>3, <3>1 DEF Cleans, Passes
  <2>4. QED
    BY <2>2, <2>3
<1>12. ASSUME NEW c \in Cpu, Take(c) PROVE Locked'
  <2>1. CASE value = 0
    <3>1. Blocks(c, current[c])
      BY <1>12, <2>1, TakeFacts
    <3>2. QED
      BY <1>a, <2>1, <3>1 DEF Blocks, Acts, Suspends, Joins
  <2>2. CASE value # 0
    <3>1. value > 0
      BY <2>2 DEF HeapOK
    <3>2. QED
      BY <1>12, <1>a, <3>1, TakeFacts DEF Take, Acts
  <2>3. QED
    BY <2>1, <2>2
<1>13. ASSUME NEW c \in Cpu, Release(c) PROVE Locked'
  <2>1. CASE waiting = <<>>
    BY <1>13, <1>a, <2>1 DEF Release
  <2>2. CASE waiting # <<>>
    <3>1. PICK h \in AllThreads : Releases(c, current[c], h)
      BY <1>13, <2>2, ReleaseFacts
    <3>2. QED
      BY <1>a, <2>2, <3>1 DEF Releases, Acts, Wakes, Drops
  <2>3. QED
    BY <2>1, <2>2
<1>14. ASSUME NEW c \in Cpu, Sleep(c) PROVE Locked'
  <2>1. Suspends(current[c])
    BY <1>14, SleepFacts
  <2>2. QED
    BY <1>14, <1>a, <2>1 DEF Sleep, Suspends
<1>15. ASSUME NEW c \in Cpu, Exit(c) PROVE Locked'
  <2>1. Exits(c, current[c])
    BY <1>15, ExitFacts
  <2>2. PICK v \in AllThreads : Swaps(c, current[c], v, "CLOSE")
    BY <1>15, ExitFacts
  <2>3. /\ v # current[c] /\ lock' = (IF nest[v] = 0 THEN Free ELSE c)
        /\ stat' = [stat EXCEPT ![current[c]] = "CLOSE", ![v] = "RUNNING"]
        /\ current' = [current EXCEPT ![c] = v] /\ stat[v] = "READY"
    BY <2>2 DEF Swaps
  <2>4. /\ current[c] \in AllThreads /\ lock = Free /\ pc[current[c]] = "run" /\ trap[c] = "no"
        /\ nest' = [nest EXCEPT ![current[c]] = 2] /\ snest' = [snest EXCEPT ![current[c]] = 1]
        /\ sched' = [sched EXCEPT ![current[c]] = "in"] /\ UNCHANGED <<trap, crit, pc>>
    BY <2>1 DEF Exits, Acts
  <2>5. QED
    BY <1>a, <2>3, <2>4
<1>16. ASSUME NEW c \in Cpu, Enter(c) PROVE Locked'
  BY <1>16, <1>a DEF Enter
<1>17. ASSUME NEW c \in Cpu, Leave(c) PROVE Locked'
  BY <1>17, <1>a DEF Leave
<1>18. ASSUME NEW c \in Cpu, NEW u \in AllThreads, Startup(c, u) PROVE Locked'
  <2>1. Wakes(c, u)
    BY <1>18, ResumedFacts DEF Startup, Base, Wakes
  <2>2. QED
    BY <1>18, <1>a, <2>1 DEF Startup, Wakes
<1>19. CASE Quiet
  BY <1>19 DEF Quiet
<1>20. QED
  BY QuietSteps, <1>1, <1>2, <1>3, <1>4, <1>5, <1>6, <1>7, <1>8, <1>9, <1>10, <1>11,
     <1>12, <1>13, <1>14, <1>15, <1>16, <1>17, <1>18, <1>19 DEF Next, Kernel,
     Program

(* What is broken stays so. *)
LEMMA GhostStep ==
  ASSUME Base, [Next]_vars
  PROVE  (raced => raced') /\ (broken => broken')
<1> USE DEF run, irqs, locks, heap, dead, ghost, Runs, Works, User, Calls,
        Goes, Trap, Ticked
<1>1. ASSUME NEW c \in Cpu, Boot(c) \/ Unlock(c) \/ Ipi(c) \/ TickLoad(c)
           \/ NoTimer(c) \/ Timers(c) \/ TimersEnd(c) \/ IrqSwitch(c) \/ Reap(c) \/
           Take(c) \/ Release(c) \/ Sleep(c) \/ Yield(c) \/ Exit(c) \/ Enter(c) \/
           Leave(c) \/ (\E t \in asleep : Expire(c, t)) \/ (\E u \in AllThreads :
           Startup(c, u)) PROVE (raced => raced') /\ (broken => broken')
  BY <1>1 DEF Boot, Unlock, Ipi, TickLoad, NoTimer, Timers, Expire,
     TimersEnd, IrqSwitch, Reap, Take, Release, Sleep, Yield, Exit, Enter,
     Leave, Startup
<1>2. ASSUME NEW c \in Cpu, Schedule(c) PROVE (raced => raced') /\ (broken => broken')
  <2>1. raced' = raced /\ (broken' = broken \/ broken' = (broken \/ stat[current[c]] = "SUSPEND"))
    BY <1>2 DEF Schedule
  <2>2. raced \in BOOLEAN /\ broken \in BOOLEAN
    BY DEF Base, CpusOK
  <2>3. QED
    BY <2>1, <2>2, Zenon
<1>3. ASSUME NEW c \in Cpu, TickStore(c) PROVE (raced => raced') /\ (broken => broken')
  BY <1>3 DEF TickStore
<1>4. ASSUME NEW c \in Cpu, Clean(c) PROVE (raced => raced') /\ (broken => broken')
  BY <1>4 DEF Clean
<1>5. CASE Quiet
  BY <1>5 DEF Quiet
<1>6. QED
  BY QuietSteps, <1>1, <1>2, <1>3, <1>4, <1>5 DEF Next, Kernel, Program

(* Suspended threads leave their CPU, *)
LEMMA ParkedStep ==
  ASSUME Base, Owned, Calm', [Next]_vars
  PROVE  Parked'
<1> USE CpuFacts DEF Base, ThreadsOK, CpusOK, HeapOK, Parked, run, irqs,
        locks, heap, dead, ghost, Runs, Works, User, Calls, Goes, Trap, Ticked
<1>a. \A c \in Cpu :
        LET t == current[c] IN
        /\ trap[c] # "no" \/ lock = c => t # none
        /\ t # none => /\ t \in AllThreads /\ stat[t] \in {"RUNNING", "SUSPEND"}
                       /\ oncpu[t] = c /\ ~Queued(queue, t)
                       /\ \A d \in Cpu : current[d] = t => d = c
        /\ t # none /\ lock # c => /\ nest[t] = 0
                                   /\ snest[t] = IF crit = t THEN 1 ELSE 0
  BY Current
<1>b. Calm /\ Parked /\ OneOwner
  BY GhostStep DEF Owned, Calm
<1>c. ASSUME NEW c \in Cpu, current[c] # none, sched[current[c]] # "call"
      PROVE  /\ stat[current[c]] # "SUSPEND" /\ current[c] \notin asleep
             /\ ~Contains(waiting, current[c])
  BY <1>a, <1>b, <1>c, CpuFacts DEF Base, Waits, Parked
<1>1. ASSUME NEW c \in Cpu, Ipi(c) \/ TickLoad(c) \/ NoTimer(c) \/
           Timers(c) \/ TimersEnd(c) PROVE Parked'
  BY <1>1, <1>a, <1>b, <1>c DEF Ipi, TickLoad, NoTimer, Timers, TimersEnd
<1>2. ASSUME NEW c \in Cpu, Boot(c) PROVE Parked'
  <2>1. PICK v \in AllThreads : Starts(c, v)
    BY <1>2, BootFacts
  <2>2. QED
    BY <1>2, <1>a, <1>b, <1>c, <2>1 DEF Boot, Starts
<1>3. ASSUME NEW c \in Cpu, Schedule(c) PROVE Parked'
  <2>1. CASE Remains(c, current[c])
    BY <1>a, <1>b, <1>c, <2>1 DEF Remains, Acts, Calm
  <2>2. ASSUME NEW v \in AllThreads, Leaves(c, current[c], v) PROVE Parked'
    <3>1. /\ current[c] \in AllThreads /\ v # current[c]
          /\ stat'[v] = "RUNNING" /\ oncpu'[current[c]] = DETACHED
          /\ \A u \in AllThreads : u # v /\ u # current[c] =>
               stat'[u] = stat[u] /\ oncpu'[u] = oncpu[u]
      BY <2>2 DEF Leaves, Swaps
    <3>2. /\ UNCHANGED <<pc, asleep, waiting>>
          /\ \A u \in AllThreads : u # current[c] => sched'[u] = sched[u]
      BY <2>2 DEF Leaves
    <3>3. QED
      BY <1>b, <3>1, <3>2, ZenonT(60)
  <2>3. QED
    BY <1>3, <2>1, <2>2, ScheduleFacts
<1>4. ASSUME NEW c \in Cpu, Unlock(c) PROVE Parked'
  BY <1>4, <1>a, <1>b, <1>c DEF Unlock
<1>5. ASSUME NEW c \in Cpu, TickStore(c) PROVE Parked'
  <2>1. reg[c] = stat[current[c]]
    BY <1>5 DEF TickStore, Calm
  <2>2. /\ current[c] \in AllThreads /\ stat' = [stat EXCEPT ![current[c]] = reg[c]]
        /\ UNCHANGED <<oncpu, sched, pc, waiting, asleep>>
    BY <1>5, <1>a DEF TickStore
  <2>3. QED
    BY <1>b, <2>1, <2>2
<1>6. ASSUME NEW c \in Cpu, NEW t \in asleep, Expire(c, t) PROVE Parked'
  <2>1. t \in AllThreads /\ stat[t] = "SUSPEND" /\ Wakes(c, t) /\ Drops(t)
    BY <1>6, ExpireFacts
  <2>2. QED
    BY <1>6, <1>a, <1>b, <1>c, <2>1 DEF Expire, Wakes, Drops
<1>7. ASSUME NEW c \in Cpu, IrqSwitch(c) PROVE Parked'
  <2>1. CASE Returns(c, current[c])
    BY <1>a, <1>b, <1>c, <2>1 DEF Returns, Acts, Calm
  <2>2. ASSUME NEW v \in AllThreads, Preempted(c, current[c], v) PROVE Parked'
    <3>1. /\ current[c] \in AllThreads /\ v # current[c]
          /\ stat'[v] = "RUNNING" /\ oncpu'[current[c]] = DETACHED
          /\ \A u \in AllThreads : u # v /\ u # current[c] =>
               stat'[u] = stat[u] /\ oncpu'[u] = oncpu[u]
      BY <2>2 DEF Preempted, Swaps
    <3>2. /\ UNCHANGED <<pc, asleep, waiting>>
          /\ \A u \in AllThreads : u # current[c] => sched'[u] = sched[u]
      BY <2>2 DEF Preempted
    <3>3. QED
      BY <1>b, <3>1, <3>2, ZenonT(60)
  <2>3. QED
    BY <1>7, <2>1, <2>2, IrqSwitchFacts
<1>8. ASSUME NEW c \in Cpu, Reap(c) PROVE Parked'
  BY <1>8, <1>a, <1>b, <1>c DEF Reap
<1>9. ASSUME NEW c \in Cpu, Clean(c) PROVE Parked'
  <2>1. Cleans(c, current[c])
    BY <1>9, CleanActs
  <2>2. value # 0
    BY <2>1 DEF Cleans, Calm
  <2>3. UNCHANGED <<stat, queue, ipi, waiting, asleep>>
    BY <1>9, <2>2, CleanActs
  <2>4. QED
    BY <1>a, <1>b, <1>c, <2>1, <2>2, <2>3 DEF Cleans
<1>10. ASSUME NEW c \in Cpu, Take(c) PROVE Parked'
  <2>1. CASE value = 0
    <3>1. Blocks(c, current[c])
      BY <1>10, <2>1, TakeFacts
    <3>2. QED
      BY <1>a, <1>b, <1>c, <2>1, <3>1 DEF Blocks, Acts, Suspends, Joins
  <2>2. CASE value # 0
    <3>1. value > 0
      BY <2>2 DEF HeapOK
    <3>2. QED
      BY <1>10, <1>a, <1>b, <1>c, <3>1, TakeFacts DEF Take, Acts
  <2>3. QED
    BY <2>1, <2>2
<1>11. ASSUME NEW c \in Cpu, Release(c) PROVE Parked'
  <2>1. CASE waiting = <<>>
    BY <1>11, <1>a, <1>b, <1>c, <2>1 DEF Release
  <2>2. CASE waiting # <<>>
    <3>1. PICK h \in AllThreads : Releases(c, current[c], h)
      BY <1>11, <2>2, ReleaseFacts
    <3>2. QED
      BY <1>a, <1>b, <1>c, <2>2, <3>1 DEF Releases, Acts, Wakes, Drops
  <2>3. QED
    BY <2>1, <2>2
<1>12. ASSUME NEW c \in Cpu, Sleep(c) PROVE Parked'
  <2>1. Suspends(current[c])
    BY <1>12, SleepFacts
  <2>2. QED
    BY <1>12, <1>a, <1>b, <1>c, <2>1 DEF Sleep, Suspends
<1>13. ASSUME NEW c \in Cpu, Yield(c) PROVE Parked'
  BY <1>13, <1>a, <1>b, <1>c DEF Yield
<1>14. ASSUME NEW c \in Cpu, Exit(c) PROVE Parked'
  <2>1. Exits(c, current[c])
    BY <1>14, ExitFacts
  <2>2. PICK v \in AllThreads : Swaps(c, current[c], v, "CLOSE")
    BY <1>14, ExitFacts
  <2>3. QED
    BY <1>a, <1>b, <1>c, <2>1, <2>2 DEF Exits, Acts, Swaps, Drops
<1>15. ASSUME NEW c \in Cpu, Enter(c) PROVE Parked'
  BY <1>15, <1>a, <1>b, <1>c DEF Enter
<1>16. ASSUME NEW c \in Cpu, Leave(c) PROVE Parked'
  BY <1>16, <1>a, <1>b, <1>c DEF Leave
<1>17. ASSUME NEW c \in Cpu, NEW u \in AllThreads, Startup(c, u) PROVE Parked'
  <2>1. Wakes(c, u)
    BY <1>17, ResumedFacts DEF Startup, Base, Wakes
  <2>2. QED
    BY <1>17, <1>a, <1>b, <1>c, <2>1 DEF Startup, Wakes
<1>18. CASE Quiet
  BY <1>18, <1>b DEF Quiet
<1>19. QED
  BY QuietSteps, <1>1, <1>2, <1>3, <1>4, <1>5, <1>6, <1>7, <1>8, <1>9, <1>10, <1>11,
     <1>12, <1>13, <1>14, <1>15, <1>16, <1>17, <1>18 DEF Next, Kernel, Program

(* the heap keeps one owner, *)
LEMMA OwnerStep ==
  ASSUME Base, Owned, Calm', [Next]_vars
  PROVE  OneOwner'
<1> USE DEF Base, ThreadsOK, HeapOK, run, irqs, locks, heap, dead, ghost,
        Runs, Works, User, Calls, Goes, Trap, Ticked
<1>a. \A c \in Cpu :
        LET t == current[c] IN
        /\ trap[c] # "no" \/ lock = c => t # none
        /\ t # none => /\ t \in AllThreads /\ stat[t] \in {"RUNNING", "SUSPEND"}
                       /\ oncpu[t] = c /\ ~Queued(queue, t)
                       /\ \A d \in Cpu : current[d] = t => d = c
        /\ t # none /\ lock # c => /\ nest[t] = 0
                                   /\ snest[t] = IF crit = t THEN 1 ELSE 0
  BY Current
<1>b. Calm /\ Parked /\ OneOwner
  BY GhostStep DEF Owned, Calm
<1>c. ASSUME NEW c \in Cpu, current[c] # none, sched[current[c]] # "call"
      PROVE  /\ stat[current[c]] # "SUSPEND" /\ current[c] \notin asleep
             /\ ~Contains(waiting, current[c])
  BY <1>a, <1>b, <1>c, CpuFacts DEF Base, Waits, Parked
<1>1. ASSUME NEW c \in Cpu, Boot(c) \/ Schedule(c) \/ Unlock(c) \/ Ipi(c)
           \/ TickLoad(c) \/ TickStore(c) \/ NoTimer(c) \/ Timers(c) \/ TimersEnd(c)
           \/ IrqSwitch(c) \/ Sleep(c) \/ Yield(c) \/ (\E u \in AllThreads :
           Startup(c, u)) PROVE OneOwner'
  <2>1. UNCHANGED <<value, waiting, pc>>
    BY <1>1 DEF Boot, Schedule, Unlock, Ipi, TickLoad, TickStore, NoTimer,
       Timers, TimersEnd, IrqSwitch, Sleep, Yield, Startup
  <2>2. QED
    BY <1>b, <2>1 DEF OneOwner, Owner
<1>2. ASSUME NEW c \in Cpu, NEW t \in asleep, Expire(c, t) PROVE OneOwner'
  <2>1. Drops(t) /\ t \in AllThreads /\ value' = value /\ pc' = pc
    BY <1>2, ExpireFacts DEF Expire
  <2>2. ~Contains(waiting, t)
    BY <1>b DEF Parked
  <2>3. \A u \in AllThreads : Owner(u)' <=> Owner(u)
    BY <2>1, <2>2 DEF Owner, Drops
  <2>4. waiting' # <<>> => waiting # <<>>
    BY <2>1 DEF Drops
  <2>5. QED
    BY <1>b, <2>1, <2>3, <2>4 DEF OneOwner
<1>3. ASSUME NEW c \in Cpu, Reap(c) PROVE OneOwner'
  <2>1. \A u \in AllThreads : Owner(u)' <=> Owner(u)
    BY <1>3, <1>a DEF Reap, Owner
  <2>2. UNCHANGED <<value, waiting>>
    BY <1>3 DEF Reap
  <2>3. QED
    BY <1>b, <2>1, <2>2 DEF OneOwner
<1>4. ASSUME NEW c \in Cpu, Clean(c) PROVE OneOwner'
  <2>1. Cleans(c, current[c])
    BY <1>4, CleanActs
  <2>2. value # 0
    BY <2>1 DEF Cleans, Calm
  <2>3. UNCHANGED <<value, waiting>>
    BY <1>4, <2>1, <2>2, CleanActs DEF Cleans
  <2>4. \A u \in AllThreads : Owner(u)' <=> Owner(u)
    BY <2>1, <2>3 DEF Cleans, Owner
  <2>5. QED
    BY <1>b, <2>3, <2>4 DEF OneOwner
<1>5. ASSUME NEW c \in Cpu, Take(c) PROVE OneOwner'
  <2> DEFINE t == current[c]
  <2>1. /\ t \in AllThreads /\ t # none /\ sched[t] = "no" /\ pc[t] # "heap"
        /\ pc' = [pc EXCEPT ![t] = "heap"]
    BY <1>5, TakeFacts DEF Take, Acts
  <2>2. CASE value = 0
    <3>1. Joins(t) /\ value' = 0
      BY <1>5, <2>2, TakeFacts DEF Blocks
    <3>2. PICK o \in AllThreads : \A u \in AllThreads : Owner(u) <=> u = o
      BY <1>b, <2>2 DEF OneOwner
    <3>3. \A u \in AllThreads : Owner(u)' <=> u = o
      <4>1. o # t
        BY <2>1, <3>2 DEF Owner
      <4>2. ASSUME NEW u \in AllThreads PROVE Owner(u)' <=> Owner(u)
        BY <2>1, <3>1 DEF Owner, Joins
      <4>3. QED
        BY <3>2, <4>2
    <3>4. QED
      BY <3>1, <3>3 DEF OneOwner
  <2>3. CASE value # 0
    <3>1. value = 1 /\ waiting = <<>> /\ \A u \in AllThreads : ~Owner(u)
      BY <1>b, <2>3 DEF OneOwner
    <3>2. value' = 0 /\ waiting' = <<>>
      BY <1>5, <3>1 DEF Take
    <3>3. \A u \in AllThreads : ~Contains(<<>>, u)
      BY EmptyHasNone
    <3>4. \A u \in AllThreads : Owner(u)' <=> u = t
      BY <2>1, <3>1, <3>2, <3>3 DEF Owner
    <3>5. QED
      BY <2>1, <3>2, <3>4 DEF OneOwner
  <2>4. QED
    BY <2>2, <2>3
<1>6. ASSUME NEW c \in Cpu, Release(c) PROVE OneOwner'
  <2> DEFINE t == current[c]
  <2>1. /\ t \in AllThreads /\ t # none /\ sched[t] = "no" /\ pc[t] = "heap" /\ pc'[t] # "heap"
        /\ \A u \in AllThreads : u # t => pc'[u] = pc[u]
    BY <1>6, <1>a DEF Release
  <2>2. Owner(t)
    BY <1>c, <2>1 DEF Owner
  <2>3. value = 0 /\ \A u \in AllThreads : Owner(u) <=> u = t
    BY <1>b, <2>1, <2>2 DEF OneOwner
  <2>4. CASE waiting = <<>>
    <3>1. waiting' = waiting /\ value' = 1
      BY <1>6, <2>3, <2>4 DEF Release
    <3>2. \A u \in AllThreads : ~Owner(u)'
      BY <2>1, <2>3, <3>1 DEF Owner
    <3>3. QED
      BY <2>4, <3>1, <3>2 DEF OneOwner
  <2>5. CASE waiting # <<>>
    <3>1. PICK h \in AllThreads : Releases(c, t, h)
      BY <1>6, <2>5, ReleaseFacts
    <3>2. /\ Contains(waiting, h) /\ value' = 0
          /\ \A u \in AllThreads : Contains(waiting, u)' <=> Contains(waiting, u) /\ u # h
      BY <2>3, <3>1 DEF Releases, Drops
    <3>3. pc[h] = "heap" /\ h # t
      BY <1>b, <2>2, <3>2 DEF Parked, Owner
    <3>4. \A u \in AllThreads : Owner(u)' <=> u = h
      BY <2>1, <2>3, <3>2, <3>3 DEF Owner
    <3>5. QED
      BY <3>2, <3>4 DEF OneOwner
  <2>6. QED
    BY <2>4, <2>5
<1>7. ASSUME NEW c \in Cpu, Exit(c) PROVE OneOwner'
  <2>1. /\ Drops(current[c]) /\ current[c] \in AllThreads /\ pc[current[c]] = "run"
        /\ value' = value /\ pc' = pc
    BY <1>7, ExitFacts DEF Exits, Acts
  <2>2. ~Contains(waiting, current[c])
    BY <1>b, <2>1 DEF Parked
  <2>3. \A u \in AllThreads : Owner(u)' <=> Owner(u)
    BY <2>1, <2>2 DEF Owner, Drops
  <2>4. waiting' # <<>> => waiting # <<>>
    BY <2>1 DEF Drops
  <2>5. QED
    BY <1>b, <2>1, <2>3, <2>4 DEF OneOwner
<1>8. ASSUME NEW c \in Cpu, Enter(c) PROVE OneOwner'
  <2>1. \A u \in AllThreads : Owner(u)' <=> Owner(u)
    BY <1>8, <1>a DEF Enter, Owner
  <2>2. UNCHANGED <<value, waiting>>
    BY <1>8 DEF Enter
  <2>3. QED
    BY <1>b, <2>1, <2>2 DEF OneOwner
<1>9. ASSUME NEW c \in Cpu, Leave(c) PROVE OneOwner'
  <2>1. \A u \in AllThreads : Owner(u)' <=> Owner(u)
    BY <1>9, <1>a DEF Leave, Owner
  <2>2. UNCHANGED <<value, waiting>>
    BY <1>9 DEF Leave
  <2>3. QED
    BY <1>b, <2>1, <2>2 DEF OneOwner
<1>10. CASE Quiet
  BY <1>10, <1>b DEF Quiet, OneOwner, Owner
<1>11. QED
  BY QuietSteps, <1>1, <1>2, <1>3, <1>4, <1>5, <1>6, <1>7, <1>8, <1>9, <1>10 DEF Next,
     Kernel, Program

(* A CPU whose thread stays has nothing better to run. *)
LEMMA StaysFacts ==
  ASSUME Base, NEW c \in Cpu, current[c] # none, Stays(c, stat[current[c]])
  PROVE  \A t \in AllThreads : stat[t] = "READY" /\ bind_cpu[t] \in {c, Global}
                                 => priority[current[c]] <= priority[t]
<1> SUFFICES ASSUME NEW t \in AllThreads, stat[t] = "READY", bind_cpu[t] \in {c, Global}
             PROVE  priority[current[c]] <= priority[t]
  OBVIOUS
<1>1. Queued(queue, t)
  BY DEF Base, Places
<1>2. Ready(queue, c)
  <2>1. bind_cpu[t] \in 0..RT_CPUS_NR /\ priority[t] \in Prio
    BY Bound
  <2>2. ListOf(queue, t) # <<>>
    BY <1>1, EmptyHasNone DEF Queued
  <2>3. priority[t] \in queue[bind_cpu[t]].group
    BY <2>1, <2>2, ListFacts DEF Base, ListOf
  <2>4. QED
    BY <2>3 DEF Ready
<1>3. Highest(queue, c) \in AllThreads /\ priority[Highest(queue, c)] <= priority[t]
  BY <1>1, <1>2, HighestIsBest DEF Base
<1>4. current[c] \in AllThreads
  BY Current
<1>5. \/ priority[current[c]] < priority[Highest(queue, c)]
      \/ priority[current[c]] = priority[Highest(queue, c)]
  BY <1>2 DEF Stays
<1>6. /\ priority[t] \in Nat /\ priority[current[c]] \in Nat
      /\ priority[Highest(queue, c)] \in Nat
  BY <1>3, <1>4, ReadyQueueAssumption
<1>7. QED
  BY <1>3, <1>5, <1>6

(* After a switch the CPU runs the best, and the others were told. *)
LEMMA SwapPrompt ==
  ASSUME Base, NEW c \in Cpu, NEW d \in Cpu, NEW v \in AllThreads,
         NEW s \in {"RUNNING", "SUSPEND", "CLOSE"}, current[c] # none,
         Swaps(c, current[c], v, s), Prompt(d), crit' = crit,
         \A u \in AllThreads : u # current[c] => sched'[u] = sched[u],
         \A e \in Cpu : e # c => trap'[e] = trap[e] /\ flag'[e] = flag[e]
  PROVE  Prompt(d)'
<1> DEFINE t == current[c]
<1>1. t \in AllThreads /\ t # v /\ \A e \in Cpu : current[e] = t => e = c
  BY Current DEF Swaps
<1>2. /\ stat'[t] = IF s = "RUNNING" THEN "READY" ELSE s
      /\ stat'[v] = "RUNNING"
      /\ \A u \in AllThreads : u # t /\ u # v => stat'[u] = stat[u]
  BY <1>1 DEF Swaps, Base, ThreadsOK
<1>3. current'[c] = v /\ \A e \in Cpu : e # c => current'[e] = current[e]
  BY DEF Swaps, Base, CpusOK
<1>4. /\ \A u \in AllThreads : stat[u] = "READY" /\ bind_cpu[u] \in {c, Global}
                                 => priority[v] <= priority[u]
      /\ s = "RUNNING" => priority[v] <= priority[t]
      /\ ipi' = IF s = "RUNNING" THEN Kick(c, t) ELSE ipi
  BY DEF Swaps
<1> HIDE DEF t
<1>5. CASE d = c
  <2>1. ASSUME NEW u \in AllThreads, stat'[u] = "READY", bind_cpu[u] \in {c, Global}
        PROVE  priority[v] <= priority[u]
    <3>1. CASE u = t
      BY <1>2, <1>4, <2>1, <3>1
    <3>2. CASE u # t
      <4>1. stat[u] = "READY"
        BY <1>2, <2>1, <3>2
      <4>2. QED
        BY <1>4, <2>1, <4>1
    <3>3. QED
      BY <3>1, <3>2
  <2>2. QED
    BY <1>3, <1>5, <2>1 DEF Prompt
<1>6. CASE d # c
  <2>1. CASE current[d] = none
    BY <1>3, <1>6, <2>1 DEF Prompt
  <2>2. CASE current[d] # none
    <3>1. current'[d] = current[d] /\ current[d] \in AllThreads /\ current[d] # t
      BY <1>1, <1>3, <1>6, <2>2 DEF Base, CpusOK
    <3>2. ipi[d] => ipi'[d]
      BY <1>1, <1>4, KickFacts DEF Base
    <3>3. CASE Looks(d)
      <4>1. Looks(d)'
        BY <1>6, <3>1, <3>2, <3>3 DEF Looks, t
      <4>2. QED
        BY <4>1 DEF Prompt
    <3>4. CASE ~Looks(d)
      <4>1. \A u \in AllThreads : stat[u] = "READY" /\ bind_cpu[u] \in {d, Global}
                                    => priority[current[d]] <= priority[u]
        BY <2>2, <3>4 DEF Prompt
      <4>2. CASE s = "RUNNING" /\ bind_cpu[t] \in {d, Global}
        <5>1. ipi'[d]
          BY <1>1, <1>4, <1>6, <4>2, KickFacts DEF Base
        <5>2. QED
          BY <5>1 DEF Prompt, Looks
      <4>3. CASE ~(s = "RUNNING" /\ bind_cpu[t] \in {d, Global})
        <5>1. ASSUME NEW u \in AllThreads, stat'[u] = "READY", bind_cpu[u] \in {d, Global}
              PROVE  stat[u] = "READY"
          BY <1>1, <1>2, <4>3, <5>1
        <5>2. QED
          BY <3>1, <4>1, <5>1 DEF Prompt
      <4>4. QED
        BY <4>2, <4>3
    <3>5. QED
      BY <3>3, <3>4
  <2>3. QED
    BY <2>1, <2>2
<1>7. QED
  BY <1>5, <1>6

(* A thread that is woken is told to the other CPUs. *)
LEMMA WakePrompt ==
  ASSUME Base, NEW c \in Cpu, NEW d \in Cpu, d # c, NEW h \in AllThreads, Wakes(c, h), Prompt(d),
         UNCHANGED <<current, crit>>,
         \A u \in AllThreads : u # current[c] => sched'[u] = sched[u],
         trap'[d] = trap[d], flag'[d] = flag[d]
  PROVE  Prompt(d)'
<1>1. CASE current[d] = none
  BY <1>1 DEF Prompt
<1>2. CASE current[d] # none
  <2>1. current[d] \in AllThreads /\ current[d] # current[c]
    BY <1>2, Current
  <2>2. ipi[d] => ipi'[d]
    BY KickFacts DEF Base, Wakes
  <2>3. CASE Looks(d)
    <3>1. Looks(d)'
      BY <2>1, <2>2, <2>3 DEF Looks
    <3>2. QED
      BY <3>1 DEF Prompt
  <2>4. CASE ~Looks(d)
    <3>1. \A u \in AllThreads : stat[u] = "READY" /\ bind_cpu[u] \in {d, Global}
                                  => priority[current[d]] <= priority[u]
      BY <1>2, <2>4 DEF Prompt
    <3>2. CASE oncpu[h] = DETACHED /\ bind_cpu[h] \in {d, Global}
      <4>1. ipi'[d]
        BY <3>2, KickFacts DEF Base, Wakes
      <4>2. QED
        BY <4>1 DEF Prompt, Looks
    <3>3. CASE ~(oncpu[h] = DETACHED /\ bind_cpu[h] \in {d, Global})
      <4>1. ASSUME NEW u \in AllThreads, stat'[u] = "READY", bind_cpu[u] \in {d, Global}
            PROVE  stat[u] = "READY"
        BY <3>3, <4>1 DEF Base, ThreadsOK, Wakes
      <4>2. QED
        BY <3>1, <4>1 DEF Prompt
    <3>4. QED
      BY <3>2, <3>3
  <2>5. QED
    BY <2>3, <2>4
<1>3. QED
  BY <1>1, <1>2

(* and no CPU misses a better thread. *)
LEMMA PromptStep ==
  ASSUME Base, NEW d \in Cpu, Prompt(d), ~broken', [Next]_vars
  PROVE  Prompt(d)'
<1> USE CpuFacts DEF Base, ThreadsOK, CpusOK, run, irqs, locks, heap,
        dead, ghost, Runs, Works, User, Calls, Goes, Trap, Ticked
<1>a. \A c \in Cpu :
        LET t == current[c] IN
        /\ trap[c] # "no" \/ lock = c => t # none
        /\ t # none => /\ t \in AllThreads /\ stat[t] \in {"RUNNING", "SUSPEND"}
                       /\ oncpu[t] = c /\ ~Queued(queue, t)
                       /\ \A e \in Cpu : current[e] = t => e = c
        /\ t # none /\ lock # c => /\ nest[t] = 0
                                   /\ snest[t] = IF crit = t THEN 1 ELSE 0
  BY Current
<1>1. ASSUME NEW c \in Cpu, Boot(c) PROVE Prompt(d)'
  <2>1. PICK v \in AllThreads : Starts(c, v)
    BY <1>1, BootFacts
  <2>2. UNCHANGED <<ipi, flag, trap, crit, sched>>
    BY <1>1 DEF Boot
  <2>3. /\ \A u \in AllThreads : stat'[u] = "READY" => stat[u] = "READY"
        /\ current'[c] = v /\ \A e \in Cpu : e # c => current'[e] = current[e]
        /\ \A u \in AllThreads : stat[u] = "READY" /\ bind_cpu[u] \in {c, Global}
                                   => priority[v] <= priority[u]
    BY <2>1 DEF Starts
  <2>4. CASE d = c
    BY <2>3, <2>4 DEF Prompt
  <2>5. CASE d # c
    BY <2>2, <2>3, <2>5 DEF Prompt, Looks
  <2>6. QED
    BY <2>4, <2>5
<1>2. ASSUME NEW c \in Cpu, Schedule(c) PROVE Prompt(d)'
  <2>1. CASE Remains(c, current[c])
    <3>1. CASE d # c
      <4>1. current[d] # none => current[d] \in AllThreads /\ current[d] # current[c]
        BY <1>a, <3>1
      <4>2. /\ UNCHANGED <<stat, current, ipi, crit>> /\ trap'[d] = trap[d] /\ flag'[d] = flag[d]
            /\ current[d] # none => sched'[current[d]] = sched[current[d]]
        BY <2>1, <3>1, <4>1 DEF Remains
      <4>3. QED
        BY <4>2 DEF Prompt, Looks
    <3>2. CASE d = c
      <4>1. /\ current[c] # none /\ lock # c /\ UNCHANGED <<stat, current, crit>>
            /\ snest[current[c]] # 0 \/ Stays(c, stat[current[c]])
        BY <1>a, <2>1 DEF Remains, Acts
      <4>2. CASE snest[current[c]] # 0
        BY <1>a, <3>2, <4>1, <4>2 DEF Prompt, Looks
      <4>3. CASE Stays(c, stat[current[c]])
        BY <3>2, <4>1, <4>3, StaysFacts DEF Prompt
      <4>4. QED
        BY <4>1, <4>2, <4>3
    <3>3. QED
      BY <3>1, <3>2
  <2>2. ASSUME NEW v \in AllThreads, Leaves(c, current[c], v) PROVE Prompt(d)'
    <3>1. /\ current[c] # none /\ stat[current[c]] \in {"RUNNING", "SUSPEND"}
          /\ Swaps(c, current[c], v, stat[current[c]]) /\ crit' = crit
          /\ \A u \in AllThreads : u # current[c] => sched'[u] = sched[u]
          /\ \A e \in Cpu : e # c => trap'[e] = trap[e] /\ flag'[e] = flag[e]
      BY <1>a, <2>2 DEF Leaves
    <3> HIDE DEF Base, ThreadsOK, CpusOK
    <3>2. QED
      BY <3>1, SwapPrompt
  <2>3. QED
    BY <1>2, <2>1, <2>2, ScheduleFacts
<1>3. ASSUME NEW c \in Cpu, Unlock(c) PROVE Prompt(d)'
  BY <1>3, <1>a DEF Unlock, Prompt, Looks
<1>4. ASSUME NEW c \in Cpu, Ipi(c) PROVE Prompt(d)'
  BY <1>4, <1>a DEF Ipi, Prompt, Looks
<1>5. ASSUME NEW c \in Cpu, TickLoad(c) PROVE Prompt(d)'
  BY <1>5, <1>a DEF TickLoad, Prompt, Looks
<1>6. ASSUME NEW c \in Cpu, TickStore(c) PROVE Prompt(d)'
  <2>1. /\ \A u \in AllThreads : stat'[u] = "READY" => stat[u] = "READY"
        /\ UNCHANGED <<current, ipi, sched, crit>> /\ flag'[c] = 1 /\ trap'[c] # "no"
        /\ \A e \in Cpu : e # c => trap'[e] = trap[e] /\ flag'[e] = flag[e]
    BY <1>6, <1>a DEF TickStore
  <2>2. QED
    BY <2>1 DEF Prompt, Looks
<1>7. ASSUME NEW c \in Cpu, NoTimer(c) PROVE Prompt(d)'
  BY <1>7, <1>a DEF NoTimer, Prompt, Looks
<1>8. ASSUME NEW c \in Cpu, Timers(c) PROVE Prompt(d)'
  BY <1>8, <1>a DEF Timers, Prompt, Looks
<1>9. ASSUME NEW c \in Cpu, NEW t \in asleep, Expire(c, t) PROVE Prompt(d)'
  <2>1. t \in AllThreads /\ Wakes(c, t)
    BY <1>9, ExpireFacts
  <2>2. /\ UNCHANGED <<current, crit, sched, trap>> /\ trap[c] = "check"
        /\ flag' = [flag EXCEPT ![c] = 1]
    BY <1>9 DEF Expire
  <2>3. CASE d = c
    BY <2>2, <2>3 DEF Prompt, Looks
  <2>4. CASE d # c
    <3>1. trap'[d] = trap[d] /\ flag'[d] = flag[d] /\ sched' = sched
      BY <2>2, <2>4
    <3> HIDE DEF Base, ThreadsOK, CpusOK
    <3>2. QED
      BY <2>1, <2>2, <2>4, <3>1, WakePrompt
  <2>5. QED
    BY <2>3, <2>4
<1>10. ASSUME NEW c \in Cpu, TimersEnd(c) PROVE Prompt(d)'
  BY <1>10, <1>a DEF TimersEnd, Prompt, Looks
<1>11. ASSUME NEW c \in Cpu, IrqSwitch(c) PROVE Prompt(d)'
  <2>1. CASE Returns(c, current[c])
    <3>1. CASE d # c
      <4>1. current[d] # none => current[d] \in AllThreads /\ current[d] # current[c]
        BY <1>a, <3>1
      <4>2. /\ UNCHANGED <<stat, current, ipi, crit>> /\ trap'[d] = trap[d] /\ flag'[d] = flag[d]
            /\ current[d] # none => sched'[current[d]] = sched[current[d]]
        BY <2>1, <3>1, <4>1 DEF Returns
      <4>3. QED
        BY <4>2 DEF Prompt, Looks
    <3>2. CASE d = c
      <4>1. /\ current[c] # none /\ lock # c /\ UNCHANGED <<stat, current, crit, ipi, sched>>
            /\ snest[current[c]] # 0 \/ Stays(c, stat[current[c]]) \/ (flag[c] # 1 /\ flag' = flag)
        BY <1>a, <2>1 DEF Returns
      <4>2. CASE snest[current[c]] # 0
        BY <1>a, <3>2, <4>1, <4>2 DEF Prompt, Looks
      <4>3. CASE Stays(c, stat[current[c]])
        BY <3>2, <4>1, <4>3, StaysFacts DEF Prompt
      <4>4. CASE flag[c] # 1 /\ flag' = flag
        BY <3>2, <4>1, <4>4 DEF Prompt, Looks
      <4>5. QED
        BY <4>1, <4>2, <4>3, <4>4
    <3>3. QED
      BY <3>1, <3>2
  <2>2. ASSUME NEW v \in AllThreads, Preempted(c, current[c], v) PROVE Prompt(d)'
    <3>1. /\ current[c] # none /\ stat[current[c]] \in {"RUNNING", "SUSPEND"}
          /\ Swaps(c, current[c], v, stat[current[c]]) /\ crit' = crit
          /\ \A u \in AllThreads : u # current[c] => sched'[u] = sched[u]
          /\ \A e \in Cpu : e # c => trap'[e] = trap[e] /\ flag'[e] = flag[e]
      BY <1>a, <2>2 DEF Preempted
    <3> HIDE DEF Base, ThreadsOK, CpusOK
    <3>2. QED
      BY <3>1, SwapPrompt
  <2>3. QED
    BY <1>11, <2>1, <2>2, IrqSwitchFacts
<1>12. ASSUME NEW c \in Cpu, Reap(c) PROVE Prompt(d)'
  <2>1. UNCHANGED <<stat, current, ipi, sched, trap, flag, crit>>
    BY <1>12 DEF Reap
  <2>2. QED
    BY <2>1 DEF Prompt, Looks
<1>13. ASSUME NEW c \in Cpu, Clean(c) PROVE Prompt(d)'
  <2>1. Cleans(c, current[c]) /\ value # 0
    BY <1>13, CleanActs DEF Cleans
  <2>2. UNCHANGED <<stat, current, ipi, sched, trap, flag, crit>>
    BY <1>13, <2>1, CleanActs DEF Cleans
  <2>3. QED
    BY <2>2 DEF Prompt, Looks
<1>14. ASSUME NEW c \in Cpu, Take(c) PROVE Prompt(d)'
  <2>a. CASE value # 0
    <3>1. UNCHANGED <<stat, current, ipi, sched, trap, flag, crit>>
      BY <1>14, <2>a DEF Take, HeapOK
    <3>2. QED
      BY <3>1 DEF Prompt, Looks
  <2>b. CASE value = 0
    <3>1. /\ current[c] \in AllThreads /\ current[c] # none
          /\ UNCHANGED <<current, crit, trap, flag, ipi>>
          /\ stat' = [stat EXCEPT ![current[c]] = "SUSPEND"]
          /\ sched' = [sched EXCEPT ![current[c]] = "call"]
      BY <1>14, <2>b, TakeFacts DEF Blocks, Suspends, Acts
    <3>2. \A u \in AllThreads : stat'[u] = "READY" => stat[u] = "READY"
      BY <3>1
    <3>3. CASE d = c
      BY <3>1, <3>3 DEF Prompt, Looks
    <3>4. CASE d # c
      BY <1>a, <3>1, <3>2, <3>4 DEF Prompt, Looks
    <3>5. QED
      BY <3>3, <3>4
  <2>c. QED
    BY <2>a, <2>b
<1>15. ASSUME NEW c \in Cpu, Release(c) PROVE Prompt(d)'
  <2>1. CASE waiting = <<>>
    <3>1. UNCHANGED <<stat, current, ipi, sched, trap, flag, crit>>
      BY <1>15, <2>1 DEF Release
    <3>2. QED
      BY <3>1 DEF Prompt, Looks
  <2>2. CASE waiting # <<>>
    <3>1. PICK h \in AllThreads : Releases(c, current[c], h)
      BY <1>15, <2>2, ReleaseFacts
    <3>2. /\ Wakes(c, h) /\ UNCHANGED <<current, crit, trap, flag>>
          /\ \A w \in AllThreads : w # current[c] => sched'[w] = sched[w]
          /\ sched'[current[c]] = "call"
      BY <3>1 DEF Releases, Acts
    <3>3. CASE d = c
      BY <3>2, <3>3 DEF Prompt, Looks
    <3>4. CASE d # c
      <4>1. trap'[d] = trap[d] /\ flag'[d] = flag[d]
        BY <3>2
      <4> HIDE DEF Base, ThreadsOK, CpusOK
      <4>2. QED
        BY <3>2, <3>4, <4>1, WakePrompt
    <3>5. QED
      BY <3>3, <3>4
  <2>3. QED
    BY <2>1, <2>2
<1>16. ASSUME NEW c \in Cpu, Sleep(c) PROVE Prompt(d)'
  <2>1. /\ current[c] \in AllThreads /\ current[c] # none
        /\ UNCHANGED <<current, crit, trap, flag, ipi>>
        /\ stat' = [stat EXCEPT ![current[c]] = "SUSPEND"]
        /\ sched' = [sched EXCEPT ![current[c]] = "call"]
    BY <1>16, <1>a, SleepFacts DEF Sleep, Suspends
  <2>2. \A u \in AllThreads : stat'[u] = "READY" => stat[u] = "READY"
    BY <2>1
  <2>3. CASE d = c
    BY <2>1, <2>3 DEF Prompt, Looks
  <2>4. CASE d # c
    BY <1>a, <2>1, <2>2, <2>4 DEF Prompt, Looks
  <2>5. QED
    BY <2>3, <2>4
<1>17. ASSUME NEW c \in Cpu, Yield(c) PROVE Prompt(d)'
  BY <1>17, <1>a DEF Yield, Prompt, Looks
<1>18. ASSUME NEW c \in Cpu, Exit(c) PROVE Prompt(d)'
  <2>1. Exits(c, current[c])
    BY <1>18, ExitFacts
  <2>2. PICK v \in AllThreads : Swaps(c, current[c], v, "CLOSE")
    BY <1>18, ExitFacts
  <2>3. /\ current[c] # none /\ crit' = crit
        /\ \A u \in AllThreads : u # current[c] => sched'[u] = sched[u]
        /\ \A e \in Cpu : e # c => trap'[e] = trap[e] /\ flag'[e] = flag[e]
    BY <2>1 DEF Exits, Acts
  <2> HIDE DEF Base, ThreadsOK, CpusOK
  <2>4. QED
    BY <2>2, <2>3, SwapPrompt
<1>19. ASSUME NEW c \in Cpu, Enter(c) PROVE Prompt(d)'
  BY <1>19, <1>a DEF Enter, Prompt, Looks
<1>20. ASSUME NEW c \in Cpu, Leave(c) PROVE Prompt(d)'
  <2>1. /\ current[c] \in AllThreads /\ current[c] # none /\ crit = current[c]
        /\ crit' = none /\ UNCHANGED <<stat, current, ipi, trap, flag>>
        /\ sched' = [sched EXCEPT ![current[c]] = "call"]
    BY <1>20, <1>a DEF Leave, Locked
  <2>2. CASE d = c
    BY <2>1, <2>2 DEF Prompt, Looks
  <2>3. CASE d # c
    BY <1>a, <2>1, <2>3 DEF Prompt, Looks
  <2>4. QED
    BY <2>2, <2>3
<1>21. ASSUME NEW c \in Cpu, NEW u \in AllThreads, Startup(c, u) PROVE Prompt(d)'
  <2>1. /\ Wakes(c, u) /\ UNCHANGED <<current, crit, trap, flag>>
        /\ \A w \in AllThreads : w # current[c] => sched'[w] = sched[w]
        /\ current[c] # none => sched'[current[c]] = "call"
    BY <1>21, <1>a, ResumedFacts DEF Startup, Wakes
  <2>2. CASE d = c
    BY <1>a, <2>1, <2>2 DEF Prompt, Looks
  <2>3. CASE d # c
    <3>1. trap'[d] = trap[d] /\ flag'[d] = flag[d]
      BY <2>1
    <3> HIDE DEF Base, ThreadsOK, CpusOK
    <3>2. QED
      BY <2>1, <2>3, <3>1, WakePrompt
  <2>4. QED
    BY <2>2, <2>3
<1>22. CASE Quiet
  BY <1>22 DEF Quiet, Prompt, Looks
<1>23. QED
  BY QuietSteps, <1>1, <1>2, <1>3, <1>4, <1>5, <1>6, <1>7, <1>8, <1>9, <1>10, <1>11,
     <1>12, <1>13, <1>14, <1>15, <1>16, <1>17, <1>18, <1>19, <1>20, <1>21,
     <1>22 DEF Next, Kernel, Program

-----------------------------------------------------------------------------
(* The initial state: main and the idle threads are queued. *)
LEMMA SingleFacts ==
  ASSUME NEW S, NEW e \in S
  PROVE  /\ <<e>> \in Seq(S) /\ <<e>> # <<>> /\ Distinct(<<e>>)
         /\ \A u : Contains(<<e>>, u) <=> u = e
         /\ \A i \in 1..Len(<<e>>) : <<e>>[i] = e
BY DEF Distinct, Contains

First(b) == IF b = Global THEN main ELSE idle[b]

LEMMA FirstFacts ==
  ASSUME NEW b \in 0..RT_CPUS_NR
  PROVE  /\ First(b) \in AllThreads /\ bind_cpu[First(b)] = b /\ priority[First(b)] \in Prio
         /\ First(b) \in Thread => First(b) = main
<1>1. CASE b = Global
  BY <1>1, SchedulerAssumption, Bound DEF First
<1>2. CASE b # Global
  <2>1. b \in Cpu
    BY <1>2, Consts
  <2>2. QED
    BY <1>2, <2>1, Consts, Bound DEF First
<1>3. QED
  BY <1>1, <1>2

LEMMA InitQueue ==
  ASSUME Init
  PROVE  /\ Sound(queue)
         /\ \A u \in AllThreads : Queued(queue, u) <=> u \notin Thread \ {main}
<1> DEFINE Q(t) == [table |-> [EmptyQueue.table EXCEPT ![priority[t]] = <<t>>],
                    group |-> {priority[t]}]
<1>1. queue = [b \in 0..RT_CPUS_NR |-> Q(First(b))]
  BY DEF Init, First
<1>2. ASSUME NEW t \in AllThreads, priority[t] \in Prio
      PROVE  /\ Q(t) \in Queue /\ Q(t).group = {priority[t]}
             /\ \A p \in Prio : Q(t).table[p] = IF p = priority[t] THEN <<t>> ELSE <<>>
  <2>1. EmptyQueue.table = [p \in Prio |-> <<>>] /\ <<>> \in Seq(AllThreads)
    BY DEF EmptyQueue
  <2>2. <<t>> \in Seq(AllThreads)
    BY SingleFacts
  <2> DEFINE T == [EmptyQueue.table EXCEPT ![priority[t]] = <<t>>]
  <2>3. /\ T \in [Prio -> Seq(AllThreads)]
        /\ \A p \in Prio : T[p] = IF p = priority[t] THEN <<t>> ELSE <<>>
    BY <1>2, <2>1, <2>2
  <2> HIDE DEF T
  <2>4. Q(t) = [table |-> T, group |-> {priority[t]}]
    BY DEF T
  <2> HIDE DEF Q
  <2>5. QED
    BY <1>2, <2>3, <2>4 DEF Queue
<1> HIDE DEF Q
<1>3. ASSUME NEW b \in 0..RT_CPUS_NR
      PROVE  /\ queue[b] \in Queue /\ queue[b].group = {priority[First(b)]}
             /\ \A p \in Prio : queue[b].table[p] =
                                  IF p = priority[First(b)] THEN <<First(b)>> ELSE <<>>
  <2>1. queue[b] = Q(First(b))
    BY <1>1
  <2>2. QED
    BY <2>1, <1>2, FirstFacts
<1>4. Sound(queue)
  <2>1. queue \in [0..RT_CPUS_NR -> Queue]
    BY <1>1, <1>3
  <2>2. ASSUME NEW b \in 0..RT_CPUS_NR, NEW p \in Prio
        PROVE  /\ p \in queue[b].group <=> queue[b].table[p] # <<>>
               /\ \A i \in 1..Len(queue[b].table[p]) : /\ bind_cpu[queue[b].table[p][i]] = b
                                                       /\ priority[queue[b].table[p][i]] = p
               /\ Distinct(queue[b].table[p])
    <3>1. CASE p = priority[First(b)]
      <4>1. queue[b].table[p] = <<First(b)>> /\ p \in queue[b].group
        BY <1>3, <3>1
      <4>2. /\ <<First(b)>> # <<>> /\ Distinct(<<First(b)>>)
            /\ \A i \in 1..Len(<<First(b)>>) : <<First(b)>>[i] = First(b)
        BY FirstFacts, SingleFacts
      <4>3. QED
        BY <3>1, <4>1, <4>2, FirstFacts
    <3>2. CASE p # priority[First(b)]
      <4>1. queue[b].table[p] = <<>> /\ p \notin queue[b].group
        BY <1>3, <3>2
      <4>2. Distinct(<<>>) /\ \A i \in 1..Len(<<>>) : FALSE
        BY EmptyHasNone
      <4>3. QED
        BY <4>1, <4>2
    <3>3. QED
      BY <3>1, <3>2
  <2>3. QED
    BY <2>1, <2>2 DEF Sound
<1>5. ASSUME NEW u \in AllThreads
      PROVE  Queued(queue, u) <=> u \notin Thread \ {main}
  <2> DEFINE b == bind_cpu[u]
  <2>1. b \in 0..RT_CPUS_NR /\ priority[u] \in Prio
    BY Bound
  <2>2. ListOf(queue, u) = IF priority[u] = priority[First(b)] THEN <<First(b)>> ELSE <<>>
    BY <1>3, <2>1 DEF ListOf
  <2>3. Queued(queue, u) <=> u = First(b)
    <3>1. /\ \A w : Contains(<<First(b)>>, w) <=> w = First(b)
          /\ ~Contains(<<>>, u)
      BY <2>1, FirstFacts, SingleFacts, EmptyHasNone
    <3>2. QED
      BY <2>2, <3>1 DEF Queued
  <2>4. CASE u \in Thread \ {main}
    BY <2>1, <2>3, <2>4, FirstFacts
  <2>5. CASE u = main
    BY <2>1, <2>3, <2>5, SchedulerAssumption, Consts DEF First
  <2>6. CASE u \notin Thread
    <3>1. PICK c \in Cpu : u = idle[c]
      BY <2>6, SchedulerAssumption
    <3>2. b = c /\ c # Global
      BY <3>1, Consts
    <3>3. QED
      BY <2>3, <2>6, <3>1, <3>2 DEF First
  <2>7. QED
    BY <2>4, <2>5, <2>6
<1>6. QED
  BY <1>4, <1>5

LEMMA InitInv ==
  ASSUME Init
  PROVE  Inv
<1>1. ThreadsOK
  BY Consts DEF Init, ThreadsOK
<1>2. CpusOK
  <2>1. ipi \in [Cpu -> BOOLEAN] /\ raced \in BOOLEAN /\ broken \in BOOLEAN
    BY Zenon DEF Init
  <2>2. /\ current \in [Cpu -> AllThreads \cup {none}] /\ flag \in [Cpu -> 0..1]
        /\ trap \in [Cpu -> {"no", "store", "timers", "check", "switch"}]
        /\ reg \in [Cpu -> {"none", "RUNNING", "SUSPEND"}] /\ crit \in AllThreads \cup {none}
    BY DEF Init
  <2>3. lock \in 0..RT_CPUS_NR
    BY CpuFacts DEF Init
  <2>4. QED
    BY <2>1, <2>2, <2>3 DEF CpusOK
<1>3. HeapOK
  BY DEF Init, HeapOK
<1>4. Sound(queue)
  BY InitQueue
<1>5. Places
  <2>1. ASSUME NEW t \in AllThreads
        PROVE  /\ stat[t] = "READY" <=> Queued(queue, t)
               /\ stat[t] # "RUNNING" /\ oncpu[t] = DETACHED
               /\ \A c \in Cpu : oncpu[t] # c /\ current[c] # t
    <3>1. stat[t] = IF t \in Thread \ {main} THEN "INIT" ELSE "READY"
      BY DEF Init
    <3>2. oncpu[t] = DETACHED /\ \A c \in Cpu : current[c] = none
      BY DEF Init
    <3>3. Queued(queue, t) <=> t \notin Thread \ {main}
      BY InitQueue
    <3>4. QED
      BY <3>1, <3>2, <3>3, CpuFacts
  <2>2. ASSUME NEW c \in Cpu PROVE trap[c] = "no" /\ stat[idle[c]] = "READY"
    BY Consts DEF Init
  <2>3. QED
    BY <2>1, <2>2 DEF Places
<1>6. \A t : ~Contains(<<>>, t)
  BY EmptyHasNone
<1>7. Waits
  BY <1>6, EmptyHasNone DEF Init, Waits
<1>8. Locked
  BY Consts DEF Init, Locked
<1>9. Frees
  BY DEF Init, Frees
<1>10. NoLostResume
  <2>1. \A t \in AllThreads : stat[t] # "SUSPEND"
    BY DEF Init
  <2>2. QED
    BY <2>1 DEF NoLostResume
<1>11. Owned
  <2>1. Parked
    BY <1>6 DEF Init, Parked
  <2>2. OneOwner
    BY DEF Init, OneOwner, Owner
  <2>3. QED
    BY <2>1, <2>2 DEF Owned
<1>12. Preempts
  BY DEF Init, Preempts, Prompt
<1>13. HookOK
  BY Zenon DEF Init, HookOK
<1>14. QED
  BY <1>1, <1>2, <1>3, <1>4, <1>5, <1>7, <1>8, <1>9, <1>10, <1>11, <1>12, <1>13 DEF Inv, Base

(* The accounts are those of threads. *)
LEMMA HookStep ==
  ASSUME Base, HookOK, [Next]_vars
  PROVE  HookOK'
<1> USE CpuFacts DEF HookOK, run, irqs, locks, heap, dead, ghost, Runs, Works, User,
        Calls, Goes, Trap, Ticked
<1>1. ASSUME NEW c \in Cpu, NEW s, current[c] # none, ~Stays(c, s), Switch(c, s)
      PROVE  acct' \subseteq AllThreads
  <2>1. current[c] \in AllThreads
    BY <1>1, Current
  <2>2. Highest(queue, c) \in AllThreads
    BY <1>1, HighestIsBest DEF Stays, Base
  <2>3. QED
    BY <1>1, <2>1, <2>2 DEF Switch
<1>2. ASSUME NEW c \in Cpu, Schedule(c) \/ IrqSwitch(c) \/ Exit(c) PROVE HookOK'
  <2>1. current[c] # none
    BY <1>2, Current DEF Schedule, IrqSwitch, Exit
  <2>2. QED
    BY <1>1, <1>2, <2>1 DEF Schedule, IrqSwitch, Exit
<1>3. ASSUME NEW c \in Cpu, Hang(c) PROVE HookOK'
  BY <1>3 DEF Hang
<1>4. ASSUME NEW c \in Cpu, Boot(c) \/ Unlock(c) \/ Ipi(c) \/ TickLoad(c) \/ TickStore(c)
           \/ NoTimer(c) \/ Timers(c) \/ TimersEnd(c) \/ Reap(c) \/ Clean(c) \/
           Take(c) \/ Release(c) \/ Sleep(c) \/ Yield(c) \/ Enter(c) \/
           Leave(c) \/ (\E t \in asleep : Expire(c, t)) \/ (\E u \in AllThreads :
           Startup(c, u)) PROVE HookOK'
  BY <1>4 DEF Boot, Unlock, Ipi, TickLoad, TickStore, NoTimer, Timers, Expire,
     TimersEnd, Reap, Clean, Take, Release, Sleep, Yield, Enter, Leave, Startup
<1>5. CASE UNCHANGED vars
  BY <1>5 DEF vars
<1>6. QED
  BY <1>2, <1>3, <1>4, <1>5 DEF Next, Kernel, Program

LEMMA StepInv ==
  ASSUME Inv, [Next]_vars
  PROVE  Inv'
<1>1. Base /\ HookOK /\ Frees /\ NoLostResume /\ Owned /\ Preempts
  BY DEF Inv
<1>2. ThreadsOK' /\ CpusOK' /\ HeapOK' /\ HookOK' /\ Frees'
  BY <1>1, ThreadsStep, CpusStep, HeapStep, HookStep, FreesStep
<1>3. Sound(queue)' /\ Places' /\ Waits' /\ Locked'
  BY <1>1, PlacesStep, WaitsStep, LockedStep
<1>4. NoLostResume'
  BY <1>1, ResumeStep
<1>5. Owned'
  <2>1. ASSUME Calm' PROVE Parked' /\ OneOwner'
    BY <1>1, <2>1, ParkedStep, OwnerStep
  <2>2. QED
    BY <2>1 DEF Owned
<1>6. Preempts'
  <2>1. ASSUME ~broken', NEW d \in Cpu PROVE Prompt(d)'
    <3>1. ~broken
      BY <1>1, <2>1, GhostStep
    <3>2. Prompt(d)
      BY <1>1, <3>1 DEF Preempts
    <3>3. QED
      BY <1>1, <2>1, <3>2, PromptStep
  <2>2. QED
    BY <2>1 DEF Preempts
<1>7. QED
  BY <1>2, <1>3, <1>4, <1>5, <1>6 DEF Inv, Base

-----------------------------------------------------------------------------
(* The invariant holds in every reachable state of scheduler.c, for every    *)
(* number of CPUs, priorities and threads.                                   *)
THEOREM SchedulerInv == Spec => []Inv
<1>1. Init => Inv
  BY InitInv
<1>2. Inv /\ [Next]_vars => Inv'
  BY StepInv
<1>3. QED
  BY <1>1, <1>2, PTL DEF Spec

(* rt_schedule and rt_scheduler_do_irq_switch hand _cpus_lock over to the    *)
(* new thread: a CPU holds it exactly while the thread it runs counts it.    *)
THEOREM SchedulerLockHandedOver == Spec => []LockHandedOver
<1>1. ASSUME Inv PROVE LockHandedOver
  <2>1. TypeOK
    BY <1>1 DEF Inv, Base, TypeOK, Sound
  <2>2. ASSUME NEW c \in Cpu
        PROVE  (current[c] # none /\ lock = c) <=> (current[c] # none /\ nest[current[c]] > 0)
    BY <1>1 DEF Inv, Base, Locked
  <2>3. ASSUME NEW t \in AllThreads
        PROVE  snest[t] = (IF nest[t] > 0 THEN 1 ELSE 0) + (IF crit = t THEN 1 ELSE 0)
    BY <1>1 DEF Inv, Base, Locked
  <2>4. QED
    BY <2>1, <2>2, <2>3 DEF LockHandedOver
<1>2. QED
  BY <1>1, SchedulerInv, PTL

(* A thread is at one place: in the list of its CPU and priority, once, or   *)
(* on the one CPU that runs it; and the bitmap of rt_schedule_insert_thread  *)
(* and rt_schedule_remove_thread is exact.                                   *)
THEOREM SchedulerOnePlace == Spec => []OnePlace
<1>1. ASSUME Inv PROVE OnePlace
  <2>1. ASSUME NEW t \in AllThreads
        PROVE  /\ stat[t] = "READY" <=> Contains(ListOf(queue, t), t)
               /\ stat[t] = "RUNNING" => oncpu[t] # DETACHED
               /\ \A c \in Cpu : oncpu[t] = c <=> current[c] = t
    BY <1>1 DEF Inv, Base, Places, Queued
  <2>2. ASSUME NEW b \in 0..RT_CPUS_NR, NEW p \in Prio
        PROVE  LET l == queue[b].table[p] IN
               /\ p \in queue[b].group <=> l # <<>>
               /\ \A i, j \in 1..Len(l) : /\ bind_cpu[l[i]] = b /\ priority[l[i]] = p
                                          /\ l[i] = l[j] => i = j
    <3>1. Sound(queue)
      BY <1>1 DEF Inv, Base
    <3>2. QED
      BY <3>1 DEF Sound, Distinct
  <2>3. QED
    BY <2>1, <2>2 DEF OnePlace
<1>2. QED
  BY <1>1, SchedulerInv, PTL

(* Unless the unlocked store of rt_tick_increase has overwritten a newer     *)
(* stat, a suspended thread waits for heap_sem or for its timer.             *)
THEOREM SchedulerNoLostResume == Spec => []NoLostResume
<1>1. Inv => NoLostResume
  BY DEF Inv
<1>2. QED
  BY <1>1, SchedulerInv, PTL

(* rt_sem_take and rt_sem_release of heap_sem let one thread into the heap.  *)
THEOREM SchedulerHeapExclusive == Spec => []HeapExclusive
<1>1. ASSUME Inv PROVE HeapExclusive
  <2> DEFINE H == {t \in AllThreads : InHeap(t)}
  <2> SUFFICES ASSUME Calm PROVE value + Cardinality(H) <= 1
    BY DEF Calm, HeapExclusive
  <2>1. Parked /\ OneOwner /\ NoLostResume /\ Waits
    BY <1>1 DEF Inv, Base, Owned
  <2>2. ASSUME NEW t \in AllThreads, InHeap(t) PROVE Owner(t)
    BY <2>1, <2>2 DEF InHeap, Owner, Waits
  <2>3. CASE value = 1 /\ \A t \in AllThreads : ~Owner(t)
    <3>1. H = {}
      BY <2>2, <2>3
    <3>2. QED
      BY <2>3, <3>1, FS_EmptySet
  <2>4. ASSUME value = 0, NEW o \in AllThreads, \A t \in AllThreads : Owner(t) <=> t = o
        PROVE  value + Cardinality(H) <= 1
    <3>1. H \subseteq {o}
      BY <2>2, <2>4
    <3>2. IsFiniteSet({o}) /\ Cardinality({o}) = 1
      BY FS_Singleton
    <3>3. Cardinality(H) <= 1 /\ Cardinality(H) \in Nat
      BY <3>1, <3>2, FS_Subset, FS_CardinalityType
    <3>4. QED
      BY <2>4, <3>3
  <2>5. QED
    BY <2>1, <2>3, <2>4 DEF OneOwner
<1>2. QED
  BY <1>1, SchedulerInv, PTL

(* RT_ASSERT of rt_thread_timeout: the thread whose timer expires is         *)
(* suspended, whatever the clock has written to its stat.                    *)
THEOREM SchedulerTimeoutSuspended ==
  Spec => [](\A t \in asleep : stat[t] = "SUSPEND")
<1>1. Inv => \A t \in asleep : stat[t] = "SUSPEND"
  BY DEF Inv, Base, HeapOK, Waits
<1>2. QED
  BY <1>1, SchedulerInv, PTL

(* Priority preemption: a CPU that has no interrupt to handle and whose      *)
(* thread is not in the kernel runs a thread at least as good as every ready *)
(* one it could run.                                                         *)
THEOREM SchedulerNoInversion == Spec => []NoInversion
<1>1. ASSUME Inv PROVE NoInversion
  <2> SUFFICES ASSUME NEW c \in Cpu, NEW t \in AllThreads, Settled(c), stat[t] = "READY",
                      bind_cpu[t] \in {c, Global}, ~broken
               PROVE  priority[current[c]] <= priority[t]
    BY DEF NoInversion
  <2>1. Prompt(c) /\ Base
    BY <1>1 DEF Inv, Preempts
  <2>2. current[c] # none /\ trap[c] = "no" /\ lock # c /\ ~ipi[c] /\ sched[current[c]] # "call"
    BY DEF Settled, Runs
  <2>3. crit # current[c]
    BY <2>1, <2>2, Current DEF Settled
  <2>4. QED
    BY <2>1, <2>2, <2>3 DEF Prompt, Looks
<1>2. QED
  BY <1>1, SchedulerInv, PTL
=============================================================================
