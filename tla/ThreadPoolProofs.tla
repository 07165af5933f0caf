-------------------------- MODULE ThreadPoolProofs --------------------------
(***************************************************************************)
(* The thread pool on the kernel's mutex and semaphore, for any number of  *)
(* workers and tasks and every width of the counter.                       *)
(***************************************************************************)
EXTENDS ThreadPool, SequenceTheorems, FiniteSetTheorems, TLAPS

(* No element is in a sequence twice; the elements grow. *)
Distinct(s) == \A i, j \in 1..Len(s) : s[i] = s[j] => i = j
Growing(s) == \A i, j \in 1..Len(s) : i < j => s[i] < s[j]

(* Where the shell and a worker can be. *)
ShellAt == {"init", "user", "append", "post", "clear", "reset", "unlock", "delete", "end",
            "assert"}
WorkerAt == {"none", "lock", "test", "wait", "take", "run", "sync", "finish", "exit", "freed",
             "gone", "stray", "assert"}

Positions ==
  /\ pc[shell] \in ShellAt /\ \A w \in Worker : pc[w] \in WorkerAt
  /\ pc[shell] = "end" => \A w \in Worker : pc[w] \in {"gone", "stray"}
  /\ \A w \in Worker : pc[w] = "stray" => w \in marked /\ pc[shell] = "end"
  /\ \A w \in marked : w \in Worker /\ pc[w] \notin {"gone", "freed"}
  /\ pc[shell] = "assert" => \E w \in Worker : pc[w] = "freed"
  /\ \A w \in Worker : pc[w] = "assert" => reused
  /\ pc[shell] = "append" => added < MaxTask

(* cur_wait_thread_num counts the list, in 8 bits.                           *)
Counted == ~reused /\ pc[shell] # "end" => cur_wait = Len(queue) % UINT8

(* Tasks are numbered as they come, and each is in one of three places.      *)
Placed ==
  /\ Growing(started) /\ Growing(queue)
  /\ \A i \in 1..Len(started) : started[i] <= added /\ started[i] \notin dropped
  /\ \A i \in 1..Len(queue) : queue[i] <= added /\ queue[i] \notin dropped
  /\ \A i \in 1..Len(started), j \in 1..Len(queue) : started[i] < queue[j]
  /\ \A k \in dropped : k <= added
  /\ \A k \in 1..added : Contains(started, k) \/ Contains(queue, k) \/ k \in dropped

(* A mutex without an owner has no waiters; an owner holds it once.          *)
Held ==
  \A m \in Mutexes :
    /\ mutex[m].owner = none => mutex[m].hold = 0 /\ mutex[m].wait = <<>>
    /\ mutex[m].owner # none => mutex[m].hold = 1
    /\ Distinct(mutex[m].wait)
    /\ \A t \in Threads : Waits(m, t) => ~Owns(m, t)

(* Where a thread is when it owns a mutex, waits for one or for queue_ready. *)
Owning ==
  /\ Owns("queue_lock", shell) => pc[shell] \in {"append", "clear", "reset", "unlock"}
  /\ \A w \in Worker :
       /\ Owns("queue_lock", w) => pc[w] \in {"test", "take", "assert", "gone"}
       /\ Owns("user_lock", w) => pc[w] \in {"sync", "gone"}

Waiting ==
  /\ Waits("queue_lock", shell) => pc[shell] \in {"append", "clear"}
  /\ Waits("user_lock", shell) => pc[shell] = "user"
  /\ \A w \in Worker :
       /\ Waits("queue_lock", w) => pc[w] = "test"
       /\ Waits("user_lock", w) => pc[w] = "sync"
       /\ InReady(w) => pc[w] \in {"lock", "test"}
  /\ Distinct(ready_wait)

(* Who is in the section of a lock owns the lock, or waits for it.           *)
Entered ==
  /\ pc[shell] \in {"append", "clear"} => Owns("queue_lock", shell) \/ Waits("queue_lock", shell)
  /\ pc[shell] \in {"reset", "unlock"} => Owns("queue_lock", shell)
  /\ \A w \in Worker :
       /\ pc[w] = "test" => Owns("queue_lock", w) \/ Waits("queue_lock", w)
       /\ pc[w] = "take" => Owns("queue_lock", w)
       /\ pc[w] = "sync" => Owns("user_lock", w) \/ Waits("user_lock", w)

(* What a release gives back: the priority that the owner was created with,  *)
(* except when the shell took the lock of the queue with the other one held. *)
GivesBack ==
  /\ \A t \in Threads :
       /\ prio[t] <= Base[t]
       /\ Owns("user_lock", t) => mutex["user_lock"].original_priority = Base[t]
       /\ Owns("queue_lock", t) =>
            /\ mutex["queue_lock"].original_priority <= Base[t]
            /\ ~Owns("user_lock", t) => mutex["queue_lock"].original_priority = Base[t]

(* What is said about the two locks, their waiters and priorities, and the   *)
(* whole.                                                                    *)
LockInv == Held /\ Owning /\ Waiting /\ Entered /\ GivesBack /\ Inheritance

Inv == TypeOK /\ Positions /\ Counted /\ Placed /\ LockInv

-----------------------------------------------------------------------------
(* Sequences: what they contain after one element is added or taken off. *)
LEMMA EmptyHasNone ==
  ASSUME NEW S
  PROVE  /\ \A u : ~Contains(<<>>, u)
         /\ Distinct(<<>>)
         /\ \A s \in Seq(S) : s # <<>> => Contains(s, Head(s)) /\ Head(s) \in S
BY DEF Contains, Distinct

LEMMA AppendAdds ==
  ASSUME NEW S, NEW s \in Seq(S), NEW e \in S
  PROVE  /\ Append(s, e) \in Seq(S) /\ Append(s, e) # <<>>
         /\ \A u : Contains(Append(s, e), u) <=> Contains(s, u) \/ u = e
         /\ Distinct(s) /\ ~Contains(s, e) => Distinct(Append(s, e))
         /\ Head(Append(s, e)) = IF s = <<>> THEN e ELSE Head(s)
<1>1. /\ Append(s, e) \in Seq(S) /\ Append(s, e) # <<>> /\ Len(Append(s, e)) = Len(s) + 1
      /\ \A i \in 1..Len(s) : Append(s, e)[i] = s[i]
      /\ Append(s, e)[Len(s) + 1] = e
  BY AppendProperties
<1>2. \A u : Contains(Append(s, e), u) <=> Contains(s, u) \/ u = e
  BY <1>1 DEF Contains
<1>3. ASSUME Distinct(s), ~Contains(s, e) PROVE Distinct(Append(s, e))
  BY <1>1, <1>3 DEF Contains, Distinct
<1>4. QED
  BY <1>1, <1>2, <1>3, HeadTailAppend

LEMMA TailDrops ==
  ASSUME NEW S, NEW s \in Seq(S), s # <<>>, Distinct(s)
  PROVE  /\ Tail(s) \in Seq(S) /\ Distinct(Tail(s))
         /\ \A u : Contains(Tail(s), u) <=> Contains(s, u) /\ u # Head(s)
<1>1. /\ Tail(s) \in Seq(S) /\ Len(Tail(s)) = Len(s) - 1 /\ Len(s) \in Nat /\ Len(s) > 0
      /\ \A i \in 1..Len(Tail(s)) : Tail(s)[i] = s[i + 1]
      /\ Head(s) = s[1]
  BY HeadTailProperties, EmptySeq, LenProperties
<1>2. Distinct(Tail(s))
  BY <1>1 DEF Distinct
<1>3. ASSUME NEW u, Contains(Tail(s), u) PROVE Contains(s, u) /\ u # Head(s)
  BY <1>1, <1>3 DEF Contains, Distinct
<1>4. ASSUME NEW u, Contains(s, u), u # Head(s) PROVE Contains(Tail(s), u)
  <2>1. PICK i \in 1..Len(s) : s[i] = u
    BY <1>4 DEF Contains
  <2>2. i - 1 \in 1..Len(Tail(s)) /\ Tail(s)[i - 1] = u
    BY <1>1, <1>4, <2>1
  <2>3. QED
    BY <2>2 DEF Contains
<1>5. QED
  BY <1>1, <1>2, <1>3, <1>4

LEMMA RemoveFirstDrops ==
  ASSUME NEW S, NEW s \in Seq(S), Distinct(s), NEW e
  PROVE  /\ RemoveFirst(s, e) \in Seq(S) /\ Distinct(RemoveFirst(s, e))
         /\ \A u : Contains(RemoveFirst(s, e), u) <=> Contains(s, u) /\ u # e
<1>1. CASE ~ \E i \in 1..Len(s) : s[i] = e
  <2>1. RemoveFirst(s, e) = s
    BY <1>1 DEF RemoveFirst
  <2>2. QED
    BY <1>1, <2>1 DEF Contains
<1>2. CASE \E i \in 1..Len(s) : s[i] = e
  <2> DEFINE I == {i \in 1..Len(s) : s[i] = e}
  <2>1. PICK k \in 1..Len(s) : s[k] = e
    BY <1>2
  <2>2. Len(s) \in Nat /\ k \in Nat /\ k > 0 /\ k <= Len(s) /\ \A i \in 1..Len(s) : s[i] \in S
    BY LenProperties, ElementOfSeq
  <2>3. I = {k}
    BY <2>1 DEF Distinct
  <2>4. Min({k}) = k
    BY <2>2 DEF Min
  <2>5. RemoveFirst(s, e) = RemoveAt(s, k)
    BY <1>2, <2>3, <2>4 DEF RemoveFirst, SelectInSeq
  <2> DEFINE a == SubSeq(s, 1, k - 1)  b == SubSeq(s, k + 1, Len(s))  r == a \o b
  <2>6. a \in Seq(S) /\ Len(a) = k - 1 /\ \A i \in 1..(k - 1) : a[i] = s[i]
    <3>1. \A i \in 1..(k - 1) : s[i] \in S
      BY <2>2
    <3>2. 1 \in Int /\ k - 1 \in Int
      BY <2>2
    <3>3. QED
      BY <2>2, <3>1, <3>2, SubSeqProperties
  <2>7. b \in Seq(S) /\ Len(b) = Len(s) - k /\ \A i \in 1..(Len(s) - k) : b[i] = s[k + i]
    <3>1. \A i \in (k + 1)..Len(s) : s[i] \in S
      BY <2>2
    <3>2. k + 1 \in Int /\ Len(s) \in Int
      BY <2>2
    <3>3. /\ b \in Seq(S) /\ Len(b) = IF k + 1 <= Len(s) THEN Len(s) - (k + 1) + 1 ELSE 0
          /\ \A i \in 1..(Len(s) - (k + 1) + 1) : b[i] = s[(k + 1) + i - 1]
      BY <3>1, <3>2, SubSeqProperties
    <3>4. QED
      BY <2>2, <3>3
  <2> HIDE DEF a, b
  <2>8. r \in Seq(S) /\ Len(r) = Len(s) - 1
    <3>1. a \o b \in Seq(S) /\ Len(a \o b) = Len(a) + Len(b)
      BY <2>6, <2>7, ConcatProperties
    <3>2. QED
      BY <2>2, <2>6, <2>7, <3>1
  <2>9. \A i \in 1..(Len(s) - 1) : r[i] = IF i < k THEN s[i] ELSE s[i + 1]
    <3> SUFFICES ASSUME NEW i \in 1..(Len(s) - 1) PROVE r[i] = IF i < k THEN s[i] ELSE s[i + 1]
      OBVIOUS
    <3>1. r[i] = IF i <= Len(a) THEN a[i] ELSE b[i - Len(a)]
      BY <2>2, <2>6, <2>7, ConcatProperties
    <3>2. CASE i < k
      BY <2>2, <2>6, <3>1, <3>2
    <3>3. CASE ~(i < k)
      <4>1. i - (k - 1) \in 1..(Len(s) - k)
        BY <2>2, <3>3
      <4>2. b[i - (k - 1)] = s[i + 1]
        <5>1. b[i - (k - 1)] = s[k + (i - (k - 1))]
          BY <2>7, <4>1
        <5>2. k + (i - (k - 1)) = i + 1
          BY <2>2
        <5>3. QED
          BY <5>1, <5>2
      <4>3. QED
        BY <2>2, <2>6, <3>1, <3>3, <4>2
    <3>4. QED
      BY <3>2, <3>3
  <2> HIDE DEF r
  <2>10. Distinct(r)
    BY <2>2, <2>8, <2>9, SMTT(30) DEF Distinct
  <2>11. ASSUME NEW u, Contains(r, u) PROVE Contains(s, u) /\ u # e
    <3>1. PICK i \in 1..Len(r) : r[i] = u
      BY <2>11 DEF Contains
    <3>2. PICK j \in 1..Len(s) : s[j] = u /\ j # k
      BY <2>2, <2>8, <2>9, <3>1
    <3>3. QED
      BY <2>1, <3>2 DEF Contains, Distinct
  <2>12. ASSUME NEW u, Contains(s, u), u # e PROVE Contains(r, u)
    <3>1. PICK j \in 1..Len(s) : s[j] = u
      BY <2>12 DEF Contains
    <3>2. CASE j < k
      BY <2>2, <2>8, <2>9, <3>1, <3>2 DEF Contains
    <3>3. CASE j > k
      <4>1. j - 1 \in 1..Len(r) /\ r[j - 1] = u
        BY <2>2, <2>8, <2>9, <3>1, <3>3
      <4>2. QED
        BY <4>1 DEF Contains
    <3>4. j # k
      BY <2>1, <2>12, <3>1
    <3>5. QED
      BY <2>2, <3>1, <3>2, <3>3, <3>4
  <2>13. RemoveFirst(s, e) = r
    BY <2>5 DEF RemoveAt, r, a, b
  <2>14. QED
    BY <2>8, <2>10, <2>11, <2>12, <2>13
<1>3. QED
  BY <1>1, <1>2

(* A number of the form n * q + r has the remainder r. *)
LEMMA ModUnique ==
  ASSUME NEW n \in Nat \ {0}, NEW q \in Int, NEW r \in 0..(n - 1)
  PROVE  (n * q + r) % n = r
OBVIOUS

(* Every integer has a quotient and a remainder. *)
LEMMA DivMod ==
  ASSUME NEW n \in Nat \ {0}, NEW x \in Int
  PROVE  \E q \in Int, r \in 0..(n - 1) : x = n * q + r /\ x % n = r
<1>1. x \div n \in Int /\ x % n \in 0..(n - 1)
  OBVIOUS
<1>2. x = n * (x \div n) + (x % n)
  OBVIOUS
<1>3. QED
  BY <1>1, <1>2

(* A wrap inside of a sum does not change the remainder of the sum. *)
LEMMA ModAdd ==
  ASSUME NEW n \in Nat \ {0}, NEW x \in Int, NEW y \in Int
  PROVE  ((x % n) + y) % n = (x + y) % n
<1>1. PICK p \in Int, s \in 0..(n - 1) : x = n * p + s /\ x % n = s
  BY DivMod
<1>2. PICK q \in Int, r \in 0..(n - 1) : s + y = n * q + r /\ (s + y) % n = r
  <2>1. s + y \in Int
    OBVIOUS
  <2>2. QED
    BY <2>1, DivMod
<1>3. n * (p + q) = n * p + n * q /\ n * p \in Int /\ n * q \in Int
  OBVIOUS
<1>4. x + y = n * (p + q) + r
  BY <1>1, <1>2, <1>3
<1>5. (x + y) % n = r
  <2>1. p + q \in Int
    OBVIOUS
  <2>2. QED
    BY <1>4, <2>1, ModUnique
<1>6. QED
  BY <1>1, <1>2, <1>5

-----------------------------------------------------------------------------
(* rt_mutex_take and rt_mutex_release, field by field.  t gets mutex m ...   *)
Acquires(m, t) ==
  /\ mutex[m].owner = none
  /\ \A k \in Mutexes :
       /\ mutex'[k].owner = IF k = m THEN t ELSE mutex[k].owner
       /\ mutex'[k].original_priority = IF k = m THEN prio[t] ELSE mutex[k].original_priority
       /\ mutex'[k].hold = IF k = m THEN 1 ELSE mutex[k].hold
       /\ mutex'[k].wait = mutex[k].wait
  /\ prio' = prio /\ lent' = lent

(* ... or joins its waiters and lends the owner o its priority.              *)
Joins(m, t, o) ==
  /\ mutex[m].owner = o /\ o # t
  /\ \A k \in Mutexes :
       /\ mutex'[k].owner = mutex[k].owner
       /\ mutex'[k].original_priority = mutex[k].original_priority
       /\ mutex'[k].hold = mutex[k].hold
       /\ Distinct(mutex'[k].wait)
       /\ k # m => mutex'[k].wait = mutex[k].wait
       /\ \A u : Waits(k, u)' <=> Waits(k, u) \/ (k = m /\ u = t)
  /\ \A u \in Threads : u # o => prio'[u] = prio[u]
  /\ prio'[o] <= prio[o] /\ prio'[o] <= prio[t] /\ prio'[o] \in {prio[o], prio[t]}
  /\ \A k \in Mutexes : lent'[k] = IF k = m THEN lent[k] \cup {t} ELSE lent[k]

(* A release by t leaves mutex m without an owner, or gives it to h.         *)
Releases(m, t, h) ==
  /\ mutex[m].owner = t
  /\ \A k \in Mutexes :
       /\ mutex'[k].owner = IF k = m THEN h ELSE mutex[k].owner
       /\ k # m => mutex'[k] = mutex[k]
       /\ Distinct(mutex'[k].wait)
       /\ \A u : Waits(k, u)' <=> Waits(k, u) /\ ~(k = m /\ u = h)
  /\ \/ h = none /\ mutex'[m].wait = <<>> /\ mutex'[m].hold = 0
     \/ /\ h \in Threads /\ Waits(m, h) /\ mutex'[m].hold = 1
        /\ mutex'[m].original_priority = prio[h]
  /\ \A u \in Threads : prio'[u] = IF u = t THEN mutex[m].original_priority ELSE prio[u]
  /\ \A k \in Mutexes : lent'[k] = IF Owns(k, t) THEN {} ELSE lent[k]

LockTypes == MutexType /\ lent \in [Mutexes -> SUBSET Threads]

(* What the lock functions of the model do to a thread that is not blocked.  *)
LEMMA LocksEffect ==
  ASSUME LockTypes, Held, NEW m \in Mutexes, NEW t \in Threads, Locks(m, t),
         ~Owns(m, t), ~Waits(m, t)
  PROVE  LockTypes' /\ (Acquires(m, t) \/ \E o \in Threads : Joins(m, t, o))
<1> USE KernelMutexAssumption DEF KernelMutexAssumption
<1> DEFINE x == mutex[m]  o == x.owner
<1>1. /\ mutex \in [Mutexes -> [owner : Threads \cup {none}, original_priority : Nat,
                                hold : Nat, wait : Seq(Threads)]]
      /\ prio \in [Threads -> Nat] /\ lent \in [Mutexes -> SUBSET Threads]
  BY DEF LockTypes, MutexType
<1>2. /\ x \in [owner : Threads \cup {none}, original_priority : Nat, hold : Nat,
                wait : Seq(Threads)]
      /\ x.wait \in Seq(Threads) /\ Distinct(x.wait) /\ ~Contains(x.wait, t) /\ o # t
      /\ o = none => x.hold = 0
  BY <1>1 DEF Held, Owns, Waits
<1>3. CASE o = none
  <2>1. /\ mutex' = [mutex EXCEPT ![m] = [x EXCEPT !.owner = t, !.original_priority = prio[t],
                                                   !.hold = x.hold + 1]]
        /\ prio' = prio /\ lent' = lent
    BY <1>1, <1>2, <1>3 DEF Locks, rt_mutex_take
  <2>2. [x EXCEPT !.owner = t, !.original_priority = prio[t], !.hold = x.hold + 1]
          \in [owner : Threads \cup {none}, original_priority : Nat, hold : Nat,
              wait : Seq(Threads)]
    <3>1. prio[t] \in Nat /\ x.hold + 1 \in Nat
      BY <1>1, <1>2
    <3> HIDE DEF x
    <3>2. QED
      BY <1>2, <3>1
  <2>3. LockTypes'
    BY <1>1, <2>1, <2>2 DEF LockTypes, MutexType
  <2>4. Acquires(m, t)
    BY <1>1, <1>2, <1>3, <2>1 DEF Acquires
  <2>5. QED
    BY <2>3, <2>4
<1>4. CASE o # none
  <2>1. /\ mutex' = [mutex EXCEPT ![m] = [x EXCEPT !.wait = Append(x.wait, t)]]
        /\ prio' = IF prio[t] < prio[o] THEN [prio EXCEPT ![o] = prio[t]] ELSE prio
        /\ lent' = [lent EXCEPT ![m] = lent[m] \cup {t}]
    BY <1>1, <1>2, <1>4 DEF Locks, rt_mutex_take
  <2>2. /\ o \in Threads /\ Append(x.wait, t) \in Seq(Threads) /\ Distinct(Append(x.wait, t))
        /\ \A u : Contains(Append(x.wait, t), u) <=> Contains(x.wait, u) \/ u = t
    BY <1>2, <1>4, AppendAdds
  <2>3. LockTypes'
    BY <1>1, <1>2, <2>1, <2>2 DEF LockTypes, MutexType
  <2>4. /\ mutex'[m] = [x EXCEPT !.wait = Append(x.wait, t)]
        /\ \A k \in Mutexes : k # m => mutex'[k] = mutex[k]
    BY <1>1, <2>1
  <2>5. /\ mutex'[m].owner = o /\ mutex'[m].original_priority = x.original_priority
        /\ mutex'[m].hold = x.hold /\ mutex'[m].wait = Append(x.wait, t)
    BY <1>2, <2>4
  <2>6. \A k \in Mutexes : Distinct(mutex[k].wait)
    BY DEF Held
  <2>7. \A k \in Mutexes : \A u : Waits(k, u)' <=> Waits(k, u) \/ (k = m /\ u = t)
    BY <2>2, <2>4, <2>5 DEF Waits
  <2>8. /\ \A u \in Threads : u # o => prio'[u] = prio[u]
        /\ prio'[o] <= prio[o] /\ prio'[o] <= prio[t] /\ prio'[o] \in {prio[o], prio[t]}
    BY <1>1, <2>1, <2>2
  <2>9. \A k \in Mutexes : lent'[k] = IF k = m THEN lent[k] \cup {t} ELSE lent[k]
    BY <1>1, <2>1
  <2>10. Joins(m, t, o)
    BY <1>2, <2>2, <2>4, <2>5, <2>6, <2>7, <2>8, <2>9 DEF Joins
  <2>11. QED
    BY <2>2, <2>3, <2>10
<1>5. QED
  BY <1>3, <1>4

LEMMA UnlocksEffect ==
  ASSUME LockTypes, Held, NEW m \in Mutexes, NEW t \in Threads, Unlocks(m, t), Owns(m, t)
  PROVE  LockTypes' /\ \E h \in Threads \cup {none} : Releases(m, t, h)
<1> USE KernelMutexAssumption DEF KernelMutexAssumption
<1> DEFINE x == mutex[m]
<1>1. /\ mutex \in [Mutexes -> [owner : Threads \cup {none}, original_priority : Nat,
                                hold : Nat, wait : Seq(Threads)]]
      /\ prio \in [Threads -> Nat] /\ lent \in [Mutexes -> SUBSET Threads]
  BY DEF LockTypes, MutexType
<1>2. /\ x.owner = t /\ x.hold = 1 /\ x.wait \in Seq(Threads) /\ Distinct(x.wait)
      /\ x.original_priority \in Nat
  BY <1>1 DEF Held, Owns
<1>3. /\ mutex' = [mutex EXCEPT ![m] = IF x.wait = <<>> THEN Unowned
            ELSE [owner |-> Head(x.wait), original_priority |-> prio[Head(x.wait)],
                  hold |-> 1, wait |-> Tail(x.wait)]]
      /\ prio' = [prio EXCEPT ![t] = x.original_priority]
      /\ lent' = [k \in Mutexes |-> IF Owns(k, t) THEN {} ELSE lent[k]]
  BY <1>2 DEF Unlocks, rt_mutex_release
<1>4. \A k \in Mutexes : k # m => mutex'[k] = mutex[k]
  BY <1>1, <1>3
<1>5. \A k \in Mutexes : Distinct(mutex[k].wait)
  BY DEF Held
<1>6. /\ \A u \in Threads : prio'[u] = IF u = t THEN x.original_priority ELSE prio[u]
      /\ \A k \in Mutexes : lent'[k] = IF Owns(k, t) THEN {} ELSE lent[k]
      /\ prio' \in [Threads -> Nat] /\ lent' \in [Mutexes -> SUBSET Threads]
  BY <1>1, <1>2, <1>3
<1>7. CASE x.wait = <<>>
  <2>1. mutex'[m] = Unowned
    BY <1>1, <1>3, <1>7
  <2>2. Unowned \in [owner : Threads \cup {none}, original_priority : Nat,
                     hold : Nat, wait : Seq(Threads)]
    BY DEF Unowned
  <2>3. LockTypes'
    BY <1>1, <1>3, <1>6, <1>7, <2>2 DEF LockTypes, MutexType
  <2>4. /\ mutex'[m].owner = none /\ mutex'[m].wait = <<>> /\ mutex'[m].hold = 0
        /\ \A u : ~Contains(<<>>, u)
        /\ Distinct(<<>>)
    BY <2>1, EmptyHasNone DEF Unowned
  <2>5. \A k \in Mutexes : \A u : Waits(k, u)' <=> Waits(k, u) /\ ~(k = m /\ u = none)
    BY <1>4, <1>7, <2>4 DEF Waits
  <2>6. Releases(m, t, none)
    BY <1>2, <1>4, <1>5, <1>6, <2>4, <2>5 DEF Releases
  <2>7. QED
    BY <2>3, <2>6
<1>8. CASE x.wait # <<>>
  <2> DEFINE h == Head(x.wait)
  <2>1. /\ h \in Threads /\ Contains(x.wait, h) /\ Tail(x.wait) \in Seq(Threads)
        /\ Distinct(Tail(x.wait))
        /\ \A u : Contains(Tail(x.wait), u) <=> Contains(x.wait, u) /\ u # h
    BY <1>2, <1>8, EmptyHasNone, TailDrops
  <2>2. mutex'[m] = [owner |-> h, original_priority |-> prio[h], hold |-> 1,
                     wait |-> Tail(x.wait)]
    BY <1>1, <1>3, <1>8
  <2>3. mutex'[m] \in [owner : Threads \cup {none}, original_priority : Nat,
                       hold : Nat, wait : Seq(Threads)]
    BY <1>1, <2>1, <2>2
  <2>4. mutex' \in [Mutexes -> [owner : Threads \cup {none}, original_priority : Nat,
                                hold : Nat, wait : Seq(Threads)]]
    BY <1>1, <1>3, <1>4, <2>3
  <2>5. LockTypes'
    BY <1>6, <2>4 DEF LockTypes, MutexType
  <2>6. /\ mutex'[m].owner = h /\ mutex'[m].wait = Tail(x.wait) /\ mutex'[m].hold = 1
        /\ mutex'[m].original_priority = prio[h]
    BY <2>2
  <2>7. \A k \in Mutexes : \A u : Waits(k, u)' <=> Waits(k, u) /\ ~(k = m /\ u = h)
    BY <1>4, <2>1, <2>6 DEF Waits
  <2>8. Waits(m, h)
    BY <2>1 DEF Waits
  <2>9. Releases(m, t, h)
    BY <1>2, <1>4, <1>5, <1>6, <2>1, <2>6, <2>7, <2>8 DEF Releases
  <2>10. QED
    BY <2>1, <2>5, <2>9
<1>9. QED
  BY <1>7, <1>8
-----------------------------------------------------------------------------
(* Thread t, not blocked, takes m and goes to p, wherever the code does it.  *)
Enters(m, t, p) ==
  /\ t \in Threads /\ m \in Mutexes /\ ~Owns(m, t) /\ ready_wait' = ready_wait
  /\ \A k \in Mutexes : ~Waits(k, t)
  /\ \A u \in Threads : pc'[u] = IF u = t THEN p ELSE pc[u]
  /\ \/ m = "queue_lock" /\ t = shell /\ pc[t] = "user" /\ p = "append" /\ added < MaxTask
     \/ m = "queue_lock" /\ t = shell /\ pc[t] = "user" /\ p = "clear"
     \/ m = "user_lock" /\ t = shell /\ pc[t] = "user" /\ p = "user"
     \/ m = "queue_lock" /\ t \in Worker /\ pc[t] = "lock" /\ p = "test" /\ ~InReady(t)
     \/ m = "user_lock" /\ t \in Worker /\ pc[t] = "run" /\ p = "sync"

(* Thread t, not blocked, releases m and goes to p. *)
Leaves(m, t, p) ==
  /\ t \in Threads /\ m \in Mutexes /\ Owns(m, t) /\ ready_wait' = ready_wait
  /\ \A k \in Mutexes : ~Waits(k, t)
  /\ \A u \in Threads : pc'[u] = IF u = t THEN p ELSE pc[u]
  /\ \/ m = "queue_lock" /\ t = shell /\ pc[t] = "append" /\ p = "post"
     \/ m = "queue_lock" /\ t = shell /\ pc[t] = "unlock" /\ p = "user"
     \/ m = "user_lock" /\ t = shell /\ pc[t] = "user" /\ p = "user"
     \/ m = "queue_lock" /\ t \in Worker /\ pc[t] = "test" /\ ~InReady(t)
                         /\ p \in {"wait", "exit", "run"}
     \/ m = "user_lock" /\ t \in Worker /\ pc[t] = "sync" /\ p = "finish"

LEMMA AcquiresLockInv ==
  ASSUME LockTypes, LockInv, NEW m, NEW t, NEW p, Enters(m, t, p), Acquires(m, t)
  PROVE  LockInv'
<1> USE KernelMutexAssumption, ThreadPoolAssumption
    DEF KernelMutexAssumption, ThreadPoolAssumption, LockInv, Enters, Acquires, Owns
<1>1. \A k \in Mutexes : \A u : Waits(k, u)' <=> Waits(k, u)
  BY DEF Waits
<1>2. \A u : InReady(u)' <=> InReady(u)
  BY DEF InReady
<1>3. Held'
  BY <1>1 DEF Held
<1>4. Owning'
  BY DEF Owning
<1>5. Waiting'
  BY <1>1, <1>2 DEF Waiting
<1>6. Entered'
  BY <1>1 DEF Entered
<1>7. prio[t] = Base[t] \/ Owns("user_lock", t)
  BY DEF Inheritance, OwnsSome, Owning
<1>8. prio[t] <= Base[t]
  BY DEF GivesBack
<1>9. GivesBack'
  BY <1>7, <1>8 DEF GivesBack, Owning
<1>10. lent[m] = {}
  BY EmptyHasNone DEF Inheritance, Held, Waits
<1>11. Inheritance'
  BY <1>1, <1>10 DEF Inheritance, OwnsSome
<1>12. QED
  BY <1>3, <1>4, <1>5, <1>6, <1>9, <1>11

LEMMA JoinsLockInv ==
  ASSUME LockTypes, LockInv, NEW m, NEW t, NEW p, NEW o \in Threads,
         Enters(m, t, p), Joins(m, t, o)
  PROVE  LockInv'
<1> USE KernelMutexAssumption, ThreadPoolAssumption
    DEF KernelMutexAssumption, ThreadPoolAssumption, LockInv, Enters, Joins, Owns
<1>1. \A u : InReady(u)' <=> InReady(u)
  BY DEF InReady
<1>2. Held'
  BY DEF Held
<1>3. Owning'
  BY DEF Owning
<1>4. Waiting'
  BY <1>1 DEF Waiting
<1>5. Entered'
  BY DEF Entered
<1>6. /\ prio \in [Threads -> Nat]
      /\ \A u \in Threads : prio'[u] \in Nat /\ prio'[u] <= prio[u]
  <2>1. prio \in [Threads -> Nat]
    BY DEF LockTypes, MutexType
  <2>2. /\ \A u \in Threads : u # o => prio'[u] = prio[u]
        /\ prio'[o] <= prio[o] /\ prio'[o] \in {prio[o], prio[t]} /\ t \in Threads
    OBVIOUS
  <2> QED
    BY ONLY <2>1, <2>2, o \in Threads
<1>7. GivesBack'
  BY <1>6 DEF GivesBack
<1>8. ASSUME NEW k \in Mutexes, NEW u \in lent'[k]
      PROVE  Waits(k, u)' /\ prio'[mutex'[k].owner] <= prio'[u]
  <2>1. CASE k = m /\ u = t
    BY <1>6, <2>1
  <2>2. CASE ~(k = m /\ u = t)
    <3>1. /\ u \in lent[k] /\ Waits(k, u) /\ prio[mutex[k].owner] <= prio[u]
          /\ u \in Threads /\ mutex[k].owner \in Threads
      BY <2>2, EmptyHasNone DEF Inheritance, LockTypes, MutexType, Held, Waits
    <3>2. CASE u # o
      BY <1>6, <3>1, <3>2
    <3>3. CASE u = o
      <4>1. o = shell /\ k = "queue_lock" /\ m = "user_lock" /\ t \in Worker
        <5>1. Waits(k, o) /\ mutex[m].owner = o /\ k # m
          BY <3>1, <3>3 DEF Held
        <5>2. o = shell
          BY <5>1 DEF Waiting, Owning
        <5>3. k = "queue_lock" /\ m = "user_lock"
          BY <5>1, <5>2 DEF Waiting, Owning
        <5>4. QED
          BY <5>2, <5>3
      <4>2. mutex[k].owner \in Worker /\ prio[t] = Base[t]
        BY <3>1, <3>3, <4>1 DEF Held, Inheritance, OwnsSome, Owning
      <4>3. Base[mutex[k].owner] = Base[t]
        BY <4>1, <4>2
      <4>4. prio[mutex[k].owner] <= Base[mutex[k].owner]
        BY <4>2 DEF GivesBack
      <4>5. QED
        BY <1>6, <3>1, <3>3, <4>1, <4>2, <4>3, <4>4
    <3>4. QED
      BY <3>2, <3>3
  <2>3. QED
    BY <2>1, <2>2
<1>9. ASSUME NEW u \in Threads, ~OwnsSome(u)', pc'[u] \notin {"gone", "stray", "end"}
      PROVE  prio'[u] = Base[u]
  <2>1. ~OwnsSome(u) /\ u # o
    BY <1>9 DEF OwnsSome
  <2>2. pc[u] \notin {"gone", "stray", "end"}
    BY <1>9
  <2>3. QED
    BY <2>1, <2>2 DEF Inheritance
<1>10. Inheritance'
  BY <1>8, <1>9 DEF Inheritance
<1>11. QED
  BY <1>2, <1>3, <1>4, <1>5, <1>7, <1>10

LEMMA ReleasesLockInv ==
  ASSUME LockTypes, LockInv, NEW m, NEW t, NEW p, NEW h,
         Leaves(m, t, p), Releases(m, t, h)
  PROVE  LockInv'
<1> USE KernelMutexAssumption, ThreadPoolAssumption
    DEF KernelMutexAssumption, ThreadPoolAssumption, LockInv, Leaves, Releases, Owns
<1>1. \A u : InReady(u)' <=> InReady(u)
  BY DEF InReady
<1>2. Held'
  BY DEF Held
<1>3. Owning'
  BY DEF Owning, Waiting
<1>4. Waiting'
  BY <1>1 DEF Waiting
<1>5. Entered'
  BY DEF Entered
<1>6. prio \in [Threads -> Nat]
  BY DEF LockTypes, MutexType
<1>7. GivesBack'
  BY <1>6, SMTT(60) DEF GivesBack, Inheritance, OwnsSome, Owning, Waiting, Held
<1>8. ASSUME NEW k \in Mutexes, NEW u \in lent'[k]
      PROVE  Waits(k, u)' /\ prio'[mutex'[k].owner] <= prio'[u]
  <2>1. /\ u \in lent[k] /\ mutex[k].owner # t /\ k # m
    BY <1>8
  <2>2. /\ Waits(k, u) /\ prio[mutex[k].owner] <= prio[u]
        /\ u \in Threads /\ mutex[k].owner \in Threads
    BY <2>1, EmptyHasNone DEF Inheritance, LockTypes, MutexType, Held, Waits
  <2>3. u # t
    BY <2>2
  <2>4. mutex'[k].owner = mutex[k].owner
    BY <2>1
  <2>5. QED
    BY <2>1, <2>2, <2>3, <2>4
<1>9. ASSUME NEW u \in Threads, ~OwnsSome(u)', pc'[u] \notin {"gone", "stray", "end"}
      PROVE  prio'[u] = Base[u]
  <2>1. pc[u] \notin {"gone", "stray", "end"}
    BY <1>9
  <2>2. CASE u = t
    BY <1>9, <2>2 DEF OwnsSome, GivesBack
  <2>3. CASE u # t
    <3>1. ~OwnsSome(u)
      BY <1>9, <2>3 DEF OwnsSome
    <3>2. QED
      BY <2>1, <2>3, <3>1 DEF Inheritance
  <2>4. QED
    BY <2>2, <2>3
<1>10. Inheritance'
  BY <1>8, <1>9 DEF Inheritance
<1>11. QED
  BY <1>2, <1>3, <1>4, <1>5, <1>7, <1>10

(* Steps that leave the locks alone: thread t goes from one place to another *)
(* of the same section, and threads may leave the list of queue_ready.       *)
Moves(t, p) ==
  /\ t \in Threads
  /\ \A u \in Threads : pc'[u] = IF u = t THEN p ELSE pc[u]
  /\ \A k \in Mutexes : ~Waits(k, t)
  /\ \/ t = shell /\ <<pc[t], p>> \in {<<"init", "user">>, <<"post", "user">>, <<"clear", "reset">>,
                                       <<"reset", "unlock">>, <<"user", "delete">>}
     \/ t \in Worker /\ <<pc[t], p>> \in {<<"none", "lock">>, <<"test", "take">>, <<"wait", "lock">>,
                                         <<"take", "test">>, <<"run", "lock">>, <<"finish", "lock">>,
                                         <<"exit", "freed">>, <<"test", "assert">>}

LEMMA MovesLockInv ==
  ASSUME LockInv, NEW t, NEW p, Moves(t, p), UNCHANGED locks, Distinct(ready_wait'),
         \A u : InReady(u)' => (InReady(u) /\ u # t) \/ (u = t /\ p \in {"lock", "test"})
  PROVE  LockInv'
<1> USE KernelMutexAssumption, ThreadPoolAssumption
    DEF KernelMutexAssumption, ThreadPoolAssumption, LockInv, locks
<1>1. \A k, u : (Waits(k, u)' <=> Waits(k, u)) /\ (Owns(k, u)' <=> Owns(k, u))
                /\ (OwnsSome(u)' <=> OwnsSome(u))
  BY DEF Waits, Owns, OwnsSome
<1> USE DEF Moves
<1>2. Held'
  BY <1>1 DEF Held
<1>3. Owning'
  BY <1>1 DEF Owning
<1>4. Waiting'
  BY <1>1 DEF Waiting
<1>5. Entered'
  BY <1>1 DEF Entered
<1>6. GivesBack'
  BY <1>1 DEF GivesBack
<1>7. Inheritance'
  BY <1>1 DEF Inheritance
<1>8. QED
  BY <1>2, <1>3, <1>4, <1>5, <1>6, <1>7

(* Worker w goes, or the shell fails at it, and w is on no list any more. *)
Deletes(w) ==
  /\ w \in Worker /\ pc[w] # "gone"
  /\ \/ \A u \in Threads : pc'[u] = IF u = w THEN "gone" ELSE pc[u]
     \/ /\ pc[shell] = "delete" /\ pc[w] = "freed"
        /\ \A u \in Threads : pc'[u] = IF u = shell THEN "assert" ELSE pc[u]
  /\ \A k \in Mutexes :
       /\ mutex'[k].owner = mutex[k].owner
       /\ mutex'[k].original_priority = mutex[k].original_priority
       /\ mutex'[k].hold = mutex[k].hold
       /\ mutex[k].wait = <<>> => mutex'[k].wait = <<>>
       /\ Distinct(mutex'[k].wait)
       /\ \A u : Waits(k, u)' <=> Waits(k, u) /\ u # w
       /\ lent'[k] = lent[k] \ {w}
  /\ Distinct(ready_wait') /\ \A u : InReady(u)' <=> InReady(u) /\ u # w
  /\ prio' = prio

LEMMA RemoveFirstEmpty ==
  ASSUME NEW e
  PROVE  RemoveFirst(<<>>, e) = <<>>
<1>1. ~ \E i \in 1..Len(<<>>) : <<>>[i] = e
  OBVIOUS
<1>2. QED
  BY <1>1 DEF RemoveFirst

LEMMA DeletesEffect ==
  ASSUME TypeOK, Positions, Held, Waiting, NEW w \in Worker, Delete(w) \/ Stop(w)
  PROVE  LockTypes' /\ Deletes(w) /\ ready_wait' \in Seq(Worker)
<1> USE ThreadPoolAssumption DEF ThreadPoolAssumption
<1>1. /\ mutex \in [Mutexes -> [owner : Threads \cup {none}, original_priority : Nat,
                                hold : Nat, wait : Seq(Threads)]]
      /\ prio \in [Threads -> Nat] /\ lent \in [Mutexes -> SUBSET Threads]
      /\ ready_wait \in Seq(Worker)
  BY DEF TypeOK, MutexType
<1>2. /\ mutex' = [m \in Mutexes |-> [mutex[m] EXCEPT !.wait = RemoveFirst(mutex[m].wait, w)]]
      /\ ready_wait' = RemoveFirst(ready_wait, w)
      /\ lent' = [m \in Mutexes |-> lent[m] \ {w}] /\ prio' = prio
  BY DEF Delete, Stop, Removed
<1>3. ASSUME NEW k \in Mutexes
      PROVE  /\ mutex'[k] \in [owner : Threads \cup {none}, original_priority : Nat,
                               hold : Nat, wait : Seq(Threads)]
             /\ mutex'[k].owner = mutex[k].owner
             /\ mutex'[k].original_priority = mutex[k].original_priority
             /\ mutex'[k].hold = mutex[k].hold
             /\ mutex[k].wait = <<>> => mutex'[k].wait = <<>>
             /\ Distinct(mutex'[k].wait)
             /\ \A u : Waits(k, u)' <=> Waits(k, u) /\ u # w
             /\ lent'[k] = lent[k] \ {w}
  <2> DEFINE x == mutex[k]  r == RemoveFirst(x.wait, w)
  <2>1. x \in [owner : Threads \cup {none}, original_priority : Nat, hold : Nat,
               wait : Seq(Threads)]
    BY <1>1
  <2>2. Distinct(x.wait) /\ x.wait \in Seq(Threads)
    BY <2>1 DEF Held
  <2>3. /\ r \in Seq(Threads) /\ Distinct(r)
        /\ \A u : Contains(r, u) <=> Contains(x.wait, u) /\ u # w
        /\ x.wait = <<>> => r = <<>>
    BY <2>2, RemoveFirstDrops, RemoveFirstEmpty
  <2>4. mutex'[k] = [x EXCEPT !.wait = r] /\ lent'[k] = lent[k] \ {w}
    BY <1>2
  <2> HIDE DEF x, r
  <2>5. /\ mutex'[k] \in [owner : Threads \cup {none}, original_priority : Nat,
                          hold : Nat, wait : Seq(Threads)]
        /\ mutex'[k].owner = x.owner /\ mutex'[k].original_priority = x.original_priority
        /\ mutex'[k].hold = x.hold /\ mutex'[k].wait = r
    BY <2>1, <2>3, <2>4
  <2>6. QED
    BY <2>3, <2>4, <2>5 DEF x, Waits
<1>4. /\ ready_wait' \in Seq(Worker) /\ Distinct(ready_wait')
      /\ \A u : InReady(u)' <=> InReady(u) /\ u # w
  BY <1>1, <1>2, RemoveFirstDrops DEF InReady, Waiting
<1>5. LockTypes'
  BY <1>1, <1>2, <1>3 DEF LockTypes, MutexType
<1>6. /\ pc[w] # "gone"
      /\ \/ \A u \in Threads : pc'[u] = IF u = w THEN "gone" ELSE pc[u]
         \/ /\ pc[shell] = "delete" /\ pc[w] = "freed"
            /\ \A u \in Threads : pc'[u] = IF u = shell THEN "assert" ELSE pc[u]
  <2>1. CASE Delete(w)
    BY <2>1 DEF Delete, At, TypeOK
  <2>2. CASE Stop(w)
    BY <2>2 DEF Stop, Goes, Positions, TypeOK
  <2>3. QED
    BY <2>1, <2>2
<1>7. QED
  BY <1>2, <1>3, <1>4, <1>5, <1>6 DEF Deletes

LEMMA DeletesLockInv ==
  ASSUME LockTypes, LockInv, NEW w, Deletes(w)
  PROVE  LockInv'
<1> USE KernelMutexAssumption, ThreadPoolAssumption
    DEF KernelMutexAssumption, ThreadPoolAssumption, LockInv, Deletes, Owns
<1>1. Held'
  BY DEF Held
<1>2. Owning'
  BY DEF Owning
<1>3. Waiting'
  BY DEF Waiting
<1>4. Entered'
  BY DEF Entered
<1>5. GivesBack'
  BY DEF GivesBack
<1>6. Inheritance'
  BY DEF Inheritance, OwnsSome
<1>7. QED
  BY <1>1, <1>2, <1>3, <1>4, <1>5, <1>6

-----------------------------------------------------------------------------
(* The pool.  Thread t goes to p; nobody fails an assertion by it. *)
Walks(t, p) ==
  /\ t \in Threads /\ \A u \in Threads : pc'[u] = IF u = t THEN p ELSE pc[u]
  /\ \/ /\ t = shell /\ pc[t] \notin {"end", "assert"}
        /\ p \in ShellAt \ {"end", "assert"} /\ (p = "append" => added < MaxTask)
        /\ added' = added \/ p = "post"
     \/ /\ t \in Worker /\ pc[t] \notin {"gone", "freed", "stray"}
        /\ p \in WorkerAt \ {"gone", "stray"} /\ (p = "freed" => t \notin marked)
        /\ p = "assert" => reused
        /\ added' = added

LEMMA GoesPositions ==
  ASSUME Positions, NEW t, NEW p, Walks(t, p), reused => reused', marked' = marked
  PROVE  Positions' /\ (pc'[shell] # "end" => pc[shell] # "end")
<1> USE ThreadPoolAssumption DEF ThreadPoolAssumption, Positions, Walks, ShellAt, WorkerAt
<1>1. CASE t = shell
  BY <1>1
<1>2. CASE t \in Worker
  BY <1>2
<1>3. QED
  BY <1>1, <1>2

LEMMA GrowingDistinct ==
  ASSUME NEW s, Growing(s), Len(s) \in Nat, \A i \in 1..Len(s) : s[i] \in Nat
  PROVE  Distinct(s)
<1> SUFFICES ASSUME NEW i \in 1..Len(s), NEW j \in 1..Len(s), s[i] = s[j], i # j PROVE FALSE
  BY DEF Distinct
<1>1. i < j => s[i] < s[j]
  BY DEF Growing
<1>2. j < i => s[j] < s[i]
  BY DEF Growing
<1>3. QED
  BY <1>1, <1>2

(* A step that does not touch the tasks keeps the count and their places.    *)
LEMMA QuietPool ==
  ASSUME Counted, Placed, UNCHANGED <<queue, cur_wait, rest>>,
         pc'[shell] # "end" => pc[shell] # "end"
  PROVE  Counted' /\ Placed'
BY DEF Counted, Placed, rest

(* One task more at the end of the list. *)
LEMMA AppendPool ==
  ASSUME TypeOK, Counted, Placed, pc[shell] # "end", added < MaxTask,
         added' = added + 1, queue' = Append(queue, added + 1),
         cur_wait' = (cur_wait + 1) % UINT8, UNCHANGED <<started, dropped, reused>>
  PROVE  /\ Counted' /\ Placed'
         /\ queue' \in Seq(Task) /\ cur_wait' \in 0..(UINT8 - 1) /\ added' \in 0..MaxTask
<1> USE ThreadPoolAssumption DEF ThreadPoolAssumption
<1>1. /\ queue \in Seq(Task) /\ added \in Nat /\ cur_wait \in Nat /\ added + 1 \in Task
      /\ started \in Seq(Task) /\ added \in 0..MaxTask
  BY DEF TypeOK, Task
<1>2. /\ queue' \in Seq(Task) /\ Len(queue') = Len(queue) + 1 /\ Len(queue) \in Nat
      /\ \A i \in 1..Len(queue) : queue'[i] = queue[i]
      /\ queue'[Len(queue) + 1] = added + 1
  BY <1>1, AppendProperties, LenProperties
<1>3. \A i \in 1..Len(queue) : queue[i] \in Nat
  BY <1>1, ElementOfSeq DEF Task
<1>4. \A i \in 1..Len(started) : started[i] \in Nat
  BY <1>1, ElementOfSeq DEF Task
<1>5. Counted'
  <2>1. CASE ~reused
    <3>1. cur_wait = Len(queue) % UINT8
      BY <2>1 DEF Counted
    <3>2. ((Len(queue) % UINT8) + 1) % UINT8 = (Len(queue) + 1) % UINT8
      <4>1. UINT8 \in Nat \ {0} /\ Len(queue) \in Int /\ 1 \in Int
        BY <1>2
      <4>2. QED
        BY ONLY <4>1, ModAdd
    <3>3. QED
      BY <1>2, <3>1, <3>2 DEF Counted
  <2>2. QED
    BY <2>1 DEF Counted
<1>6. Growing(queue')
  BY <1>1, <1>2, <1>3 DEF Growing, Placed
<1>7. \A k : Contains(queue', k) <=> Contains(queue, k) \/ k = added + 1
  BY <1>1, AppendAdds
<1>8. /\ \A i \in 1..Len(queue') : queue'[i] <= added + 1 /\ queue'[i] \notin dropped
      /\ \A i \in 1..Len(started), j \in 1..Len(queue') : started[i] < queue'[j]
  <2>1. added + 1 \notin dropped
    BY <1>1 DEF Placed
  <2>2. \A i \in 1..Len(queue') : i \in 1..Len(queue) \/ i = Len(queue) + 1
    BY <1>2
  <2>3. QED
    BY <1>1, <1>2, <1>3, <1>4, <2>1, <2>2 DEF Placed
<1>9. Placed'
  <2>1. /\ \A i \in 1..Len(started) : started[i] <= added + 1
        /\ \A k \in dropped : k <= added + 1
    BY <1>1, <1>4 DEF Placed, TypeOK, Task
  <2>2. \A k \in 1..(added + 1) : Contains(started, k) \/ Contains(queue', k) \/ k \in dropped
    BY <1>1, <1>7 DEF Placed
  <2>3. QED
    BY <1>6, <1>8, <2>1, <2>2 DEF Placed
<1>10. cur_wait' \in 0..(UINT8 - 1) /\ added' \in 0..MaxTask
  BY <1>1
<1>11. QED
  BY <1>2, <1>5, <1>9, <1>10

(* A worker takes the first task. *)
LEMMA LoadPool ==
  ASSUME TypeOK, Counted, Placed, pc[shell] # "end", queue # <<>>,
         queue' = Tail(queue), started' = Append(started, Head(queue)),
         cur_wait' = (cur_wait - 1) % UINT8, UNCHANGED <<added, dropped, reused>>
  PROVE  /\ Counted' /\ Placed'
         /\ queue' \in Seq(Task) /\ started' \in Seq(Task) /\ cur_wait' \in 0..(UINT8 - 1)
         /\ Head(queue) \in Task
<1> USE ThreadPoolAssumption DEF ThreadPoolAssumption
<1> DEFINE h == Head(queue)
<1>1. /\ queue \in Seq(Task) /\ added \in Nat /\ cur_wait \in Nat
      /\ started \in Seq(Task) /\ \A i \in 1..Len(queue) : queue[i] \in Nat
      /\ \A i \in 1..Len(started) : started[i] \in Nat
  <2>1. queue \in Seq(Task) /\ started \in Seq(Task) /\ added \in Nat /\ cur_wait \in Nat
    BY DEF TypeOK
  <2>2. /\ \A i \in 1..Len(queue) : queue[i] \in Task
        /\ \A i \in 1..Len(started) : started[i] \in Task
    BY <2>1, ElementOfSeq
  <2>3. QED
    BY <2>1, <2>2 DEF Task
<1>2. /\ queue' \in Seq(Task) /\ Len(queue') = Len(queue) - 1 /\ Len(queue) \in Nat
      /\ Len(queue) > 0 /\ h = queue[1] /\ h \in Task
      /\ \A i \in 1..Len(queue') : queue'[i] = queue[i + 1]
  BY <1>1, HeadTailProperties, EmptySeq, LenProperties
<1>3. /\ started' \in Seq(Task) /\ Len(started') = Len(started) + 1 /\ Len(started) \in Nat
      /\ \A i \in 1..Len(started) : started'[i] = started[i]
      /\ started'[Len(started) + 1] = h
  BY <1>1, <1>2, AppendProperties, LenProperties
<1>4. Counted'
  <2>1. CASE ~reused
    <3>1. cur_wait = Len(queue) % UINT8
      BY <2>1 DEF Counted
    <3>2. ((Len(queue) % UINT8) + (-1)) % UINT8 = (Len(queue) + (-1)) % UINT8
      <4>1. UINT8 \in Nat \ {0} /\ Len(queue) \in Int /\ (-1) \in Int
        BY <1>2
      <4>2. QED
        BY ONLY <4>1, ModAdd
    <3>3. cur_wait' = (cur_wait + (-1)) % UINT8
      BY <1>1
    <3>4. Len(queue') = Len(queue) + (-1)
      BY <1>2
    <3>5. QED
      BY <3>1, <3>2, <3>3, <3>4 DEF Counted
  <2>2. QED
    BY <2>1 DEF Counted
<1> HIDE DEF h
<1>5. Growing(queue)  /\ Growing(started) /\ 1 \in 1..Len(queue)
  BY <1>2 DEF Placed
<1>6. Growing(queue') /\ \A j \in 1..Len(queue') : h < queue'[j]
  BY <1>1, <1>2, <1>5 DEF Growing
<1>7. \A i \in 1..Len(started') : i \in 1..Len(started) \/ i = Len(started) + 1
  BY <1>3
<1>8. \A i \in 1..Len(started) : started[i] < h
  BY <1>2, <1>5 DEF Placed
<1>9. Growing(started')
  BY <1>1, <1>3, <1>5, <1>7, <1>8 DEF Growing
<1>10. \A i \in 1..Len(started') : started'[i] <= added /\ started'[i] \notin dropped
  BY <1>2, <1>3, <1>5, <1>7 DEF Placed
<1>11. \A i \in 1..Len(queue') : i + 1 \in 1..Len(queue)
  BY <1>2
<1>12. \A i \in 1..Len(queue') : queue'[i] <= added /\ queue'[i] \notin dropped
  BY <1>2, <1>11 DEF Placed
<1>13. \A i \in 1..Len(started'), j \in 1..Len(queue') : started'[i] < queue'[j]
  BY <1>2, <1>3, <1>6, <1>7, <1>11 DEF Placed
<1>14. Distinct(queue)
  BY <1>1, <1>2, <1>5, GrowingDistinct
<1>15. /\ \A k : Contains(queue', k) <=> Contains(queue, k) /\ k # h
       /\ \A k : Contains(started', k) <=> Contains(started, k) \/ k = h
  BY <1>1, <1>2, <1>14, TailDrops, AppendAdds DEF h
<1>16. \A k \in 1..added : Contains(started', k) \/ Contains(queue', k) \/ k \in dropped
  BY <1>15 DEF Placed
<1>17. Placed'
  BY <1>6, <1>9, <1>10, <1>12, <1>13, <1>16 DEF Placed
<1>18. cur_wait' \in 0..(UINT8 - 1)
  BY <1>1
<1>19. QED
  BY <1>2, <1>3, <1>4, <1>17, <1>18 DEF h

(* The list is emptied. *)
LEMMA ClearPool ==
  ASSUME TypeOK, Placed, queue' = <<>>,
         dropped' = dropped \cup {queue[i] : i \in 1..Len(queue)}, UNCHANGED <<added, started>>
  PROVE  Placed' /\ queue' \in Seq(Task) /\ dropped' \subseteq Task
<1>1. queue \in Seq(Task) /\ started \in Seq(Task) /\ dropped \subseteq Task
  BY DEF TypeOK
<1>2. /\ \A i \in 1..Len(queue) : queue[i] \in Task
      /\ \A i \in 1..Len(started) : started[i] \in Task
  BY <1>1, ElementOfSeq
<1>3. Len(queue') = 0 /\ queue' \in Seq(Task) /\ dropped' \subseteq Task
  BY <1>1, <1>2
<1>4. \A i \in 1..Len(started), j \in 1..Len(queue) : started[i] # queue[j]
  BY <1>2 DEF Placed, Task
<1>5. \A i \in 1..Len(started) : started[i] <= added /\ started[i] \notin dropped'
  BY <1>4 DEF Placed
<1>6. \A k : Contains(queue, k) => k \in dropped'
  BY DEF Contains
<1>7. \A k \in 1..added : Contains(started, k) \/ k \in dropped'
  BY <1>6 DEF Placed
<1>8. /\ \A k \in dropped' : k <= added
      /\ Growing(started) /\ Growing(queue')
  BY <1>3 DEF Placed, Growing
<1>9. Placed'
  BY <1>3, <1>5, <1>7, <1>8 DEF Placed
<1>10. QED
  BY <1>3, <1>9

-----------------------------------------------------------------------------
(* Every step of the pool keeps the invariant. *)
Where == [Threads -> ShellAt \cup WorkerAt]

PoolTypes ==
  /\ queue \in Seq(Task) /\ cur_wait \in 0..(UINT8 - 1) /\ is_shutdown \in BOOLEAN
  /\ value \in Nat /\ ready_wait \in Seq(Worker) /\ task \in [Worker -> 0..MaxTask]
  /\ added \in 0..MaxTask /\ started \in Seq(Task) /\ dropped \subseteq Task
  /\ reused \in BOOLEAN /\ marked \subseteq Worker

LEMMA TypeParts ==
  /\ TypeOK <=> LockTypes /\ PoolTypes /\ pc \in Where
  /\ TypeOK' <=> LockTypes' /\ PoolTypes' /\ pc' \in Where
BY DEF TypeOK, LockTypes, PoolTypes, Where, ShellAt, WorkerAt

LEMMA GoesWhere ==
  ASSUME TypeOK, NEW t \in Threads, NEW p \in ShellAt \cup WorkerAt, Goes(t, p)
  PROVE  pc' \in Where /\ \A u \in Threads : pc'[u] = IF u = t THEN p ELSE pc[u]
BY TypeParts DEF Goes, Where

LEMMA TakeStep ==
  ASSUME Inv, NEW m, NEW t, NEW p, Locks(m, t), Enters(m, t, p), pc' \in Where,
         UNCHANGED <<pool, ready, task, rest>>
  PROVE  Inv'
<1> USE ThreadPoolAssumption DEF ThreadPoolAssumption
<1>1. LockTypes' /\ (Acquires(m, t) \/ \E o \in Threads : Joins(m, t, o))
  BY LocksEffect, TypeParts DEF Inv, LockInv, Enters
<1>2. LockInv'
  BY <1>1, TypeParts, AcquiresLockInv, JoinsLockInv DEF Inv
<1>3. Walks(t, p) /\ reused' = reused /\ marked' = marked
  BY DEF Enters, Walks, ShellAt, WorkerAt, rest
<1>4. Positions' /\ (pc'[shell] # "end" => pc[shell] # "end")
  BY <1>3, GoesPositions DEF Inv
<1>5. Counted' /\ Placed'
  BY <1>4, QuietPool DEF Inv, pool
<1>6. PoolTypes'
  BY TypeParts DEF Inv, PoolTypes, pool, ready, rest
<1>7. QED
  BY <1>1, <1>2, <1>4, <1>5, <1>6, TypeParts DEF Inv

LEMMA ReleaseStep ==
  ASSUME Inv, NEW m, NEW t, NEW p, Unlocks(m, t), Leaves(m, t, p), pc' \in Where,
         PoolTypes', Counted', Placed', reused' = reused, marked' = marked,
         added' = added \/ p = "post"
  PROVE  Inv'
<1> USE ThreadPoolAssumption DEF ThreadPoolAssumption
<1>1. LockTypes' /\ \E h \in Threads \cup {none} : Releases(m, t, h)
  BY UnlocksEffect, TypeParts DEF Inv, LockInv, Leaves
<1>2. LockInv'
  BY <1>1, TypeParts, ReleasesLockInv DEF Inv
<1>3. Walks(t, p)
  BY DEF Leaves, Walks, ShellAt, WorkerAt
<1>4. Positions'
  BY <1>3, GoesPositions DEF Inv
<1>5. QED
  BY <1>1, <1>2, <1>4, TypeParts DEF Inv

LEMMA MoveStep ==
  ASSUME Inv, NEW t, NEW p, Moves(t, p), UNCHANGED locks, Distinct(ready_wait'), pc' \in Where,
         \A u : InReady(u)' => (InReady(u) /\ u # t) \/ (u = t /\ p \in {"lock", "test"}),
         PoolTypes', Counted', Placed', reused => reused', p = "assert" => reused,
         added' = added, marked' = marked, p = "freed" => t \notin marked
  PROVE  Inv'
<1> USE ThreadPoolAssumption DEF ThreadPoolAssumption
<1>1. LockTypes'
  BY TypeParts DEF Inv, LockTypes, MutexType, locks
<1>2. LockInv'
  BY MovesLockInv DEF Inv
<1>3. Walks(t, p)
  BY DEF Moves, Walks, ShellAt, WorkerAt
<1>4. Positions'
  BY <1>3, GoesPositions DEF Inv
<1>5. QED
  BY <1>1, <1>2, <1>4, TypeParts DEF Inv

LEMMA AddTaskStep ==
  ASSUME Inv, AddTask
  PROVE  Inv'
<1> USE ThreadPoolAssumption DEF ThreadPoolAssumption
<1>1. shell \in Threads /\ pc[shell] = "user" /\ ~Blocked(shell) /\ Locks("queue_lock", shell)
  BY DEF AddTask, At
<1>2. pc' \in Where /\ \A u \in Threads : pc'[u] = IF u = shell THEN "append" ELSE pc[u]
  BY <1>1, GoesWhere DEF Inv, AddTask, ShellAt, WorkerAt
<1>3. UNCHANGED <<pool, ready, task, rest>>
  BY DEF AddTask
<1>4. ~Owns("queue_lock", shell)
  BY <1>1 DEF Inv, LockInv, Owning
<1>5. Enters("queue_lock", shell, "append")
  BY <1>1, <1>2, <1>3, <1>4 DEF Enters, Blocked, ready, AddTask
<1>6. QED
  BY <1>1, <1>2, <1>3, <1>5, TakeStep

LEMMA DelAllStep ==
  ASSUME Inv, DelAll
  PROVE  Inv'
<1> USE ThreadPoolAssumption DEF ThreadPoolAssumption
<1>1. shell \in Threads /\ pc[shell] = "user" /\ ~Blocked(shell) /\ Locks("queue_lock", shell)
  BY DEF DelAll, At
<1>2. pc' \in Where /\ \A u \in Threads : pc'[u] = IF u = shell THEN "clear" ELSE pc[u]
  BY <1>1, GoesWhere DEF Inv, DelAll, ShellAt, WorkerAt
<1>3. UNCHANGED <<pool, ready, task, rest>>
  BY DEF DelAll
<1>4. ~Owns("queue_lock", shell)
  BY <1>1 DEF Inv, LockInv, Owning
<1>5. Enters("queue_lock", shell, "clear")
  BY <1>1, <1>2, <1>3, <1>4 DEF Enters, Blocked, ready
<1>6. QED
  BY <1>1, <1>2, <1>3, <1>5, TakeStep

LEMMA UserLockStep ==
  ASSUME Inv, UserLock
  PROVE  Inv'
<1> USE ThreadPoolAssumption DEF ThreadPoolAssumption
<1>1. shell \in Threads /\ pc[shell] = "user" /\ ~Blocked(shell) /\ Locks("user_lock", shell)
  BY DEF UserLock, At
<1>2. pc' \in Where /\ \A u \in Threads : pc'[u] = IF u = shell THEN "user" ELSE pc[u]
  BY <1>1, TypeParts DEF Inv, UserLock
<1>3. UNCHANGED <<pool, ready, task, rest>>
  BY DEF UserLock
<1>4. ~Owns("user_lock", shell)
  BY <1>1 DEF UserLock
<1>5. Enters("user_lock", shell, "user")
  BY <1>1, <1>2, <1>3, <1>4 DEF Enters, Blocked, ready
<1>6. QED
  BY <1>1, <1>2, <1>3, <1>5, TakeStep

LEMMA LockStep ==
  ASSUME Inv, NEW w \in Worker, Lock(w)
  PROVE  Inv'
<1> USE ThreadPoolAssumption DEF ThreadPoolAssumption
<1>1. w \in Threads /\ pc[w] = "lock" /\ ~Blocked(w) /\ Locks("queue_lock", w)
  BY DEF Lock, At
<1>2. pc' \in Where /\ \A u \in Threads : pc'[u] = IF u = w THEN "test" ELSE pc[u]
  BY <1>1, GoesWhere DEF Inv, Lock, ShellAt, WorkerAt
<1>3. UNCHANGED <<pool, ready, task, rest>>
  BY DEF Lock
<1>4. ~Owns("queue_lock", w)
  BY <1>1 DEF Inv, LockInv, Owning
<1>5. Enters("queue_lock", w, "test")
  BY <1>1, <1>2, <1>3, <1>4 DEF Enters, Blocked, ready
<1>6. QED
  BY <1>1, <1>2, <1>3, <1>5, TakeStep

LEMMA TaskLockStep ==
  ASSUME Inv, NEW w \in Worker, TaskLock(w)
  PROVE  Inv'
<1> USE ThreadPoolAssumption DEF ThreadPoolAssumption
<1>1. w \in Threads /\ pc[w] = "run" /\ ~Blocked(w) /\ Locks("user_lock", w)
  BY DEF TaskLock, At
<1>2. pc' \in Where /\ \A u \in Threads : pc'[u] = IF u = w THEN "sync" ELSE pc[u]
  BY <1>1, GoesWhere DEF Inv, TaskLock, ShellAt, WorkerAt
<1>3. UNCHANGED <<pool, ready, task, rest>>
  BY DEF TaskLock
<1>4. ~Owns("user_lock", w)
  BY <1>1 DEF Inv, LockInv, Owning
<1>5. Enters("user_lock", w, "sync")
  BY <1>1, <1>2, <1>3, <1>4 DEF Enters, Blocked, ready
<1>6. QED
  BY <1>1, <1>2, <1>3, <1>5, TakeStep

LEMMA AppendTaskStep ==
  ASSUME Inv, AppendTask
  PROVE  Inv'
<1> USE ThreadPoolAssumption DEF ThreadPoolAssumption
<1>1. shell \in Threads /\ pc[shell] = "append" /\ ~Blocked(shell) /\ Unlocks("queue_lock", shell)
  BY DEF AppendTask, At
<1>2. pc' \in Where /\ \A u \in Threads : pc'[u] = IF u = shell THEN "post" ELSE pc[u]
  BY <1>1, GoesWhere DEF Inv, AppendTask, ShellAt, WorkerAt
<1>3. Owns("queue_lock", shell)
  BY <1>1 DEF Inv, LockInv, Entered, Blocked
<1>4. UNCHANGED ready /\ Leaves("queue_lock", shell, "post")
  BY <1>1, <1>2, <1>3 DEF AppendTask, Leaves, Blocked, ready
<1>5. /\ added < MaxTask
      /\ added' = added + 1 /\ queue' = Append(queue, added + 1)
      /\ cur_wait' = (cur_wait + 1) % UINT8 /\ pc[shell] # "end"
      /\ UNCHANGED <<is_shutdown, ready, task, marked, started, dropped, reused>>
  BY <1>1 DEF AppendTask, Inv, Positions
<1>6. /\ Counted' /\ Placed'
      /\ queue' \in Seq(Task) /\ cur_wait' \in 0..(UINT8 - 1) /\ added' \in 0..MaxTask
  BY <1>5, AppendPool DEF Inv
<1>7. PoolTypes'
  BY <1>5, <1>6, TypeParts DEF Inv, PoolTypes, ready
<1>8. QED
  BY <1>1, <1>2, <1>4, <1>5, <1>6, <1>7, ReleaseStep

LEMMA DelAllEndStep ==
  ASSUME Inv, DelAllEnd
  PROVE  Inv'
<1> USE ThreadPoolAssumption DEF ThreadPoolAssumption
<1>1. shell \in Threads /\ pc[shell] = "unlock" /\ ~Blocked(shell) /\ Unlocks("queue_lock", shell)
  BY DEF DelAllEnd, At
<1>2. pc' \in Where /\ \A u \in Threads : pc'[u] = IF u = shell THEN "user" ELSE pc[u]
  BY <1>1, GoesWhere DEF Inv, DelAllEnd, ShellAt, WorkerAt
<1>3. Owns("queue_lock", shell)
  BY <1>1 DEF Inv, LockInv, Entered, Blocked
<1>4. UNCHANGED ready /\ Leaves("queue_lock", shell, "user")
  BY <1>1, <1>2, <1>3 DEF DelAllEnd, Leaves, Blocked, ready
<1>5. UNCHANGED <<pool, ready, task, rest>>
  BY DEF DelAllEnd
<1>6. PoolTypes' /\ reused' = reused /\ added' = added /\ marked' = marked
  BY <1>5, TypeParts DEF Inv, PoolTypes, pool, ready, rest
<1>7. pc[shell] # "end"
  BY <1>1 DEF Inv, Positions
<1>8. Counted' /\ Placed'
  BY <1>5, <1>7, QuietPool DEF Inv, pool
<1>9. QED
  BY <1>1, <1>2, <1>4, <1>6, <1>8, ReleaseStep

LEMMA UserUnlockStep ==
  ASSUME Inv, UserUnlock
  PROVE  Inv'
<1> USE ThreadPoolAssumption DEF ThreadPoolAssumption
<1>1. shell \in Threads /\ pc[shell] = "user" /\ ~Blocked(shell) /\ Unlocks("user_lock", shell)
  BY DEF UserUnlock, At
<1>2. pc' \in Where /\ \A u \in Threads : pc'[u] = IF u = shell THEN "user" ELSE pc[u]
  BY <1>1, TypeParts DEF Inv, UserUnlock
<1>3. Owns("user_lock", shell)
  BY <1>1 DEF UserUnlock
<1>4. UNCHANGED ready /\ Leaves("user_lock", shell, "user")
  BY <1>1, <1>2, <1>3 DEF UserUnlock, Leaves, Blocked, ready
<1>5. UNCHANGED <<pool, ready, task, rest>>
  BY DEF UserUnlock
<1>6. PoolTypes' /\ reused' = reused /\ added' = added /\ marked' = marked
  BY <1>5, TypeParts DEF Inv, PoolTypes, pool, ready, rest
<1>7. pc[shell] # "end"
  BY <1>1 DEF Inv, Positions
<1>8. Counted' /\ Placed'
  BY <1>5, <1>7, QuietPool DEF Inv, pool
<1>9. QED
  BY <1>1, <1>2, <1>4, <1>6, <1>8, ReleaseStep

LEMMA EmptyStep ==
  ASSUME Inv, NEW w \in Worker, Empty(w)
  PROVE  Inv'
<1> USE ThreadPoolAssumption DEF ThreadPoolAssumption
<1>1. w \in Threads /\ pc[w] = "test" /\ ~Blocked(w) /\ Unlocks("queue_lock", w)
  BY DEF Empty, At
<1>2. pc' \in Where /\ \A u \in Threads : pc'[u] = IF u = w THEN "wait" ELSE pc[u]
  BY <1>1, GoesWhere DEF Inv, Empty, ShellAt, WorkerAt
<1>3. Owns("queue_lock", w)
  BY <1>1 DEF Inv, LockInv, Entered, Blocked
<1>4. UNCHANGED ready /\ Leaves("queue_lock", w, "wait")
  BY <1>1, <1>2, <1>3 DEF Empty, Leaves, Blocked, ready
<1>5. UNCHANGED <<pool, ready, task, rest>>
  BY DEF Empty
<1>6. PoolTypes' /\ reused' = reused /\ added' = added /\ marked' = marked
  BY <1>5, TypeParts DEF Inv, PoolTypes, pool, ready, rest
<1>7. pc[shell] # "end"
  BY <1>1 DEF Inv, Positions
<1>8. Counted' /\ Placed'
  BY <1>5, <1>7, QuietPool DEF Inv, pool
<1>9. QED
  BY <1>1, <1>2, <1>4, <1>6, <1>8, ReleaseStep

LEMMA ShutdownStep ==
  ASSUME Inv, NEW w \in Worker, Shutdown(w)
  PROVE  Inv'
<1> USE ThreadPoolAssumption DEF ThreadPoolAssumption
<1>1. w \in Threads /\ pc[w] = "test" /\ ~Blocked(w) /\ Unlocks("queue_lock", w)
  BY DEF Shutdown, At
<1>2. pc' \in Where /\ \A u \in Threads : pc'[u] = IF u = w THEN "exit" ELSE pc[u]
  BY <1>1, GoesWhere DEF Inv, Shutdown, ShellAt, WorkerAt
<1>3. Owns("queue_lock", w)
  BY <1>1 DEF Inv, LockInv, Entered, Blocked
<1>4. UNCHANGED ready /\ Leaves("queue_lock", w, "exit")
  BY <1>1, <1>2, <1>3 DEF Shutdown, Leaves, Blocked, ready
<1>5. UNCHANGED <<pool, ready, task, rest>>
  BY DEF Shutdown
<1>6. PoolTypes' /\ reused' = reused /\ added' = added /\ marked' = marked
  BY <1>5, TypeParts DEF Inv, PoolTypes, pool, ready, rest
<1>7. pc[shell] # "end"
  BY <1>1 DEF Inv, Positions
<1>8. Counted' /\ Placed'
  BY <1>5, <1>7, QuietPool DEF Inv, pool
<1>9. QED
  BY <1>1, <1>2, <1>4, <1>6, <1>8, ReleaseStep

LEMMA TaskUnlockStep ==
  ASSUME Inv, NEW w \in Worker, TaskUnlock(w)
  PROVE  Inv'
<1> USE ThreadPoolAssumption DEF ThreadPoolAssumption
<1>1. w \in Threads /\ pc[w] = "sync" /\ ~Blocked(w) /\ Unlocks("user_lock", w)
  BY DEF TaskUnlock, At
<1>2. pc' \in Where /\ \A u \in Threads : pc'[u] = IF u = w THEN "finish" ELSE pc[u]
  BY <1>1, GoesWhere DEF Inv, TaskUnlock, ShellAt, WorkerAt
<1>3. Owns("user_lock", w)
  BY <1>1 DEF Inv, LockInv, Entered, Blocked
<1>4. UNCHANGED ready /\ Leaves("user_lock", w, "finish")
  BY <1>1, <1>2, <1>3 DEF TaskUnlock, Leaves, Blocked, ready
<1>5. UNCHANGED <<pool, ready, task, rest>>
  BY DEF TaskUnlock
<1>6. PoolTypes' /\ reused' = reused /\ added' = added /\ marked' = marked
  BY <1>5, TypeParts DEF Inv, PoolTypes, pool, ready, rest
<1>7. pc[shell] # "end"
  BY <1>1 DEF Inv, Positions
<1>8. Counted' /\ Placed'
  BY <1>5, <1>7, QuietPool DEF Inv, pool
<1>9. QED
  BY <1>1, <1>2, <1>4, <1>6, <1>8, ReleaseStep

LEMMA PostReadyStep ==
  ASSUME Inv, PostReady
  PROVE  Inv'
<1> USE ThreadPoolAssumption DEF ThreadPoolAssumption
<1>1. shell \in Threads /\ pc[shell] = "post" /\ ~Blocked(shell) /\ Goes(shell, "user") /\ UNCHANGED locks
  BY DEF PostReady, At
<1>2. pc' \in Where /\ \A u \in Threads : pc'[u] = IF u = shell THEN "user" ELSE pc[u]
  BY <1>1, GoesWhere DEF Inv, ShellAt, WorkerAt
<1>3. Moves(shell, "user") /\ pc[shell] # "end"
  BY <1>1, <1>2 DEF Moves, Blocked, Inv, Positions
<1>4. /\ ready_wait' \in Seq(Worker) /\ value' \in Nat /\ Distinct(ready_wait')
      /\ \A u : InReady(u)' => (InReady(u) /\ u # shell) \/ (u = shell /\ "user" \in {"lock", "test"})
  <2>1. ready_wait \in Seq(Worker) /\ Distinct(ready_wait) /\ value \in Nat /\ ~InReady(shell)
    BY <1>1, TypeParts DEF Inv, LockInv, Waiting, PoolTypes, Blocked
  <2>2. CASE ready_wait = <<>>
    BY <2>1, <2>2 DEF PostReady, InReady
  <2>3. CASE ready_wait # <<>>
    <3>1. ready_wait' = Tail(ready_wait) /\ value' = value
      BY <2>3 DEF PostReady
    <3>2. /\ Tail(ready_wait) \in Seq(Worker) /\ Distinct(Tail(ready_wait))
          /\ \A u : Contains(Tail(ready_wait), u) <=>
                     Contains(ready_wait, u) /\ u # Head(ready_wait)
      BY <2>1, <2>3, TailDrops
    <3>3. QED
      BY <2>1, <3>1, <3>2 DEF InReady
  <2>4. QED
    BY <2>2, <2>3
<1>5. UNCHANGED <<queue, cur_wait, rest>>
  BY DEF PostReady, pool
<1>6. /\ is_shutdown' \in BOOLEAN /\ task' \in [Worker -> 0..MaxTask]
      /\ reused' = reused /\ added' = added /\ marked' = marked
  BY <1>5, TypeParts DEF Inv, PoolTypes, PostReady, pool, rest
<1>7. PoolTypes'
  BY <1>4, <1>5, <1>6, TypeParts DEF Inv, PoolTypes, rest
<1>8. Counted' /\ Placed'
  BY <1>3, <1>5, QuietPool DEF Inv
<1>9. QED
  BY <1>1, <1>2, <1>3, <1>4, <1>6, <1>7, <1>8, MoveStep

LEMMA ClearStep ==
  ASSUME Inv, Clear
  PROVE  Inv'
<1> USE ThreadPoolAssumption DEF ThreadPoolAssumption
<1>1. shell \in Threads /\ pc[shell] = "clear" /\ ~Blocked(shell) /\ Goes(shell, "reset") /\ UNCHANGED locks
  BY DEF Clear, At
<1>2. pc' \in Where /\ \A u \in Threads : pc'[u] = IF u = shell THEN "reset" ELSE pc[u]
  BY <1>1, GoesWhere DEF Inv, ShellAt, WorkerAt
<1>3. Moves(shell, "reset") /\ pc[shell] # "end"
  BY <1>1, <1>2 DEF Moves, Blocked, Inv, Positions
<1>4. /\ ready_wait' \in Seq(Worker) /\ value' \in Nat /\ Distinct(ready_wait')
      /\ \A u : InReady(u)' => (InReady(u) /\ u # shell) \/ (u = shell /\ "reset" \in {"lock", "test"})
  <2>1. UNCHANGED ready /\ ~InReady(shell)
    BY <1>1 DEF Clear, Blocked
  <2>2. QED
    BY <2>1, TypeParts DEF Inv, LockInv, Waiting, PoolTypes, ready, InReady
<1>5. PICK k \in 0..Len(queue) : /\ (k = 0) <=> (queue = <<>>)
                                /\ cur_wait' = (cur_wait - k) % UINT8
                                /\ reused' = (reused \/ k < Len(queue))
  BY DEF Clear
<1>6. /\ queue' = <<>> /\ dropped' = dropped \cup {queue[i] : i \in 1..Len(queue)}
      /\ UNCHANGED <<is_shutdown, task, marked, added, started>>
  BY DEF Clear
<1>7. Placed' /\ queue' \in Seq(Task) /\ dropped' \subseteq Task
  BY <1>6, ClearPool DEF Inv
<1>8. queue \in Seq(Task) /\ cur_wait \in 0..(UINT8 - 1) /\ Len(queue) \in Nat
  BY TypeParts, LenProperties DEF Inv, PoolTypes
<1>9. (reused => reused') /\ reused' \in BOOLEAN
  BY <1>5
<1>10. cur_wait' \in 0..(UINT8 - 1)
  BY <1>5, <1>8
<1>11. PoolTypes'
  BY <1>4, <1>6, <1>7, <1>9, <1>10, TypeParts DEF Inv, PoolTypes
<1>12. ASSUME ~reused' PROVE cur_wait' = Len(queue') % UINT8
  <2>1. ~reused /\ k = Len(queue)
    <3>1. ~(reused \/ k < Len(queue))
      BY <1>5, <1>12, Zenon
    <3>2. QED
      BY <1>5, <1>8, <3>1
  <2>2. cur_wait = Len(queue) % UINT8
    BY <1>3, <2>1 DEF Inv, Counted
  <2>3. cur_wait' = ((Len(queue) % UINT8) + (-Len(queue))) % UINT8
    BY <1>5, <1>8, <2>1, <2>2
  <2>4. ((Len(queue) % UINT8) + (-Len(queue))) % UINT8 = (Len(queue) + (-Len(queue))) % UINT8
    <3>1. UINT8 \in Nat \ {0} /\ Len(queue) \in Int /\ -Len(queue) \in Int
      BY <1>8
    <3>2. QED
      BY ONLY <3>1, ModAdd
  <2>5. Len(queue) + (-Len(queue)) = 0 /\ Len(queue') = 0
    BY <1>6, <1>8
  <2>6. QED
    BY <2>3, <2>4, <2>5
<1>13. Counted'
  BY <1>12 DEF Counted
<1>14. QED
  BY <1>1, <1>2, <1>3, <1>4, <1>6, <1>7, <1>9, <1>11, <1>13, MoveStep

LEMMA ResetStep ==
  ASSUME Inv, Reset
  PROVE  Inv'
<1> USE ThreadPoolAssumption DEF ThreadPoolAssumption
<1>1. shell \in Threads /\ pc[shell] = "reset" /\ ~Blocked(shell) /\ Goes(shell, "unlock") /\ UNCHANGED locks
  BY DEF Reset, At
<1>2. pc' \in Where /\ \A u \in Threads : pc'[u] = IF u = shell THEN "unlock" ELSE pc[u]
  BY <1>1, GoesWhere DEF Inv, ShellAt, WorkerAt
<1>3. Moves(shell, "unlock") /\ pc[shell] # "end"
  BY <1>1, <1>2 DEF Moves, Blocked, Inv, Positions
<1>4. /\ ready_wait' \in Seq(Worker) /\ value' \in Nat /\ Distinct(ready_wait')
      /\ \A u : InReady(u)' => (InReady(u) /\ u # shell) \/ (u = shell /\ "unlock" \in {"lock", "test"})
  <2>1. ready_wait' = <<>> /\ value' = 0
    BY DEF Reset
  <2>2. QED
    BY <2>1, EmptyHasNone DEF InReady
<1>5. UNCHANGED <<queue, cur_wait, rest>>
  BY DEF Reset, pool
<1>6. /\ is_shutdown' \in BOOLEAN /\ task' \in [Worker -> 0..MaxTask]
      /\ reused' = reused /\ added' = added /\ marked' = marked
  BY <1>5, TypeParts DEF Inv, PoolTypes, Reset, pool, rest
<1>7. PoolTypes'
  BY <1>4, <1>5, <1>6, TypeParts DEF Inv, PoolTypes, rest
<1>8. Counted' /\ Placed'
  BY <1>3, <1>5, QuietPool DEF Inv
<1>9. QED
  BY <1>1, <1>2, <1>3, <1>4, <1>6, <1>7, <1>8, MoveStep

LEMMA DestroyStep ==
  ASSUME Inv, Destroy
  PROVE  Inv'
<1> USE ThreadPoolAssumption DEF ThreadPoolAssumption
<1>1. shell \in Threads /\ pc[shell] = "user" /\ ~Blocked(shell) /\ Goes(shell, "delete") /\ UNCHANGED locks
  BY DEF Destroy, At
<1>2. pc' \in Where /\ \A u \in Threads : pc'[u] = IF u = shell THEN "delete" ELSE pc[u]
  BY <1>1, GoesWhere DEF Inv, ShellAt, WorkerAt
<1>3. Moves(shell, "delete") /\ pc[shell] # "end"
  BY <1>1, <1>2 DEF Moves, Blocked, Inv, Positions
<1>4. /\ ready_wait' \in Seq(Worker) /\ value' \in Nat /\ Distinct(ready_wait')
      /\ \A u : InReady(u)' => (InReady(u) /\ u # shell) \/ (u = shell /\ "delete" \in {"lock", "test"})
  <2>1. UNCHANGED ready /\ ~InReady(shell)
    BY <1>1 DEF Destroy, Blocked
  <2>2. QED
    BY <2>1, TypeParts DEF Inv, LockInv, Waiting, PoolTypes, ready, InReady
<1>5. UNCHANGED <<queue, cur_wait, rest>>
  BY DEF Destroy, pool
<1>6. /\ is_shutdown' \in BOOLEAN /\ task' \in [Worker -> 0..MaxTask]
      /\ reused' = reused /\ added' = added /\ marked' = marked
  BY <1>5, TypeParts DEF Inv, PoolTypes, Destroy, pool, rest
<1>7. PoolTypes'
  BY <1>4, <1>5, <1>6, TypeParts DEF Inv, PoolTypes, rest
<1>8. Counted' /\ Placed'
  BY <1>3, <1>5, QuietPool DEF Inv
<1>9. QED
  BY <1>1, <1>2, <1>3, <1>4, <1>6, <1>7, <1>8, MoveStep

LEMMA SurplusStep ==
  ASSUME Inv, NEW w \in Worker, Surplus(w)
  PROVE  Inv'
<1> USE ThreadPoolAssumption DEF ThreadPoolAssumption
<1>1. w \in Threads /\ pc[w] = "test" /\ ~Blocked(w) /\ Goes(w, "take") /\ UNCHANGED locks
  BY DEF Surplus, At
<1>2. pc' \in Where /\ \A u \in Threads : pc'[u] = IF u = w THEN "take" ELSE pc[u]
  BY <1>1, GoesWhere DEF Inv, ShellAt, WorkerAt
<1>3. Moves(w, "take") /\ pc[shell] # "end"
  BY <1>1, <1>2 DEF Moves, Blocked, Inv, Positions
<1>4. /\ ready_wait' \in Seq(Worker) /\ value' \in Nat /\ Distinct(ready_wait')
      /\ \A u : InReady(u)' => (InReady(u) /\ u # w) \/ (u = w /\ "take" \in {"lock", "test"})
  <2>1. UNCHANGED ready /\ ~InReady(w)
    BY <1>1 DEF Surplus, Blocked
  <2>2. QED
    BY <2>1, TypeParts DEF Inv, LockInv, Waiting, PoolTypes, ready, InReady
<1>5. UNCHANGED <<queue, cur_wait, rest>>
  BY DEF Surplus, pool
<1>6. /\ is_shutdown' \in BOOLEAN /\ task' \in [Worker -> 0..MaxTask]
      /\ reused' = reused /\ added' = added /\ marked' = marked
  BY <1>5, TypeParts DEF Inv, PoolTypes, Surplus, pool, rest
<1>7. PoolTypes'
  BY <1>4, <1>5, <1>6, TypeParts DEF Inv, PoolTypes, rest
<1>8. Counted' /\ Placed'
  BY <1>3, <1>5, QuietPool DEF Inv
<1>9. QED
  BY <1>1, <1>2, <1>3, <1>4, <1>6, <1>7, <1>8, MoveStep

LEMMA WaitStep ==
  ASSUME Inv, NEW w \in Worker, Wait(w)
  PROVE  Inv'
<1> USE ThreadPoolAssumption DEF ThreadPoolAssumption
<1>1. w \in Threads /\ pc[w] = "wait" /\ ~Blocked(w) /\ Goes(w, "lock") /\ UNCHANGED locks
  BY DEF Wait, At, TakeReady
<1>2. pc' \in Where /\ \A u \in Threads : pc'[u] = IF u = w THEN "lock" ELSE pc[u]
  BY <1>1, GoesWhere DEF Inv, ShellAt, WorkerAt
<1>3. Moves(w, "lock") /\ pc[shell] # "end"
  BY <1>1, <1>2 DEF Moves, Blocked, Inv, Positions
<1>4. /\ ready_wait' \in Seq(Worker) /\ value' \in Nat /\ Distinct(ready_wait')
      /\ \A u : InReady(u)' => (InReady(u) /\ u # w) \/ (u = w /\ "lock" \in {"lock", "test"})
  <2>1. ready_wait \in Seq(Worker) /\ Distinct(ready_wait) /\ value \in Nat /\ ~InReady(w)
    BY <1>1, TypeParts DEF Inv, LockInv, Waiting, PoolTypes, Blocked
  <2>2. CASE value > 0
    BY <2>1, <2>2 DEF Wait, TakeReady, InReady
  <2>3. CASE ~(value > 0)
    <3>1. ready_wait' = Append(ready_wait, w) /\ value' = value
      BY <2>3 DEF Wait, TakeReady
    <3>2. /\ Append(ready_wait, w) \in Seq(Worker) /\ Distinct(Append(ready_wait, w))
          /\ \A u : Contains(Append(ready_wait, w), u) <=> Contains(ready_wait, u) \/ u = w
      BY <2>1, AppendAdds DEF InReady
    <3>3. QED
      BY <2>1, <3>1, <3>2 DEF InReady
  <2>4. QED
    BY <2>2, <2>3
<1>5. UNCHANGED <<queue, cur_wait, rest>>
  BY DEF Wait, pool, TakeReady
<1>6. /\ is_shutdown' \in BOOLEAN /\ task' \in [Worker -> 0..MaxTask]
      /\ reused' = reused /\ added' = added /\ marked' = marked
  BY <1>5, TypeParts DEF Inv, PoolTypes, Wait, pool, rest, TakeReady
<1>7. PoolTypes'
  BY <1>4, <1>5, <1>6, TypeParts DEF Inv, PoolTypes, rest
<1>8. Counted' /\ Placed'
  BY <1>3, <1>5, QuietPool DEF Inv
<1>9. QED
  BY <1>1, <1>2, <1>3, <1>4, <1>6, <1>7, <1>8, MoveStep

LEMMA TakeSurplusStep ==
  ASSUME Inv, NEW w \in Worker, TakeSurplus(w)
  PROVE  Inv'
<1> USE ThreadPoolAssumption DEF ThreadPoolAssumption
<1>1. w \in Threads /\ pc[w] = "take" /\ ~Blocked(w) /\ Goes(w, "test") /\ UNCHANGED locks
  BY DEF TakeSurplus, At, TakeReady
<1>2. pc' \in Where /\ \A u \in Threads : pc'[u] = IF u = w THEN "test" ELSE pc[u]
  BY <1>1, GoesWhere DEF Inv, ShellAt, WorkerAt
<1>3. Moves(w, "test") /\ pc[shell] # "end"
  BY <1>1, <1>2 DEF Moves, Blocked, Inv, Positions
<1>4. /\ ready_wait' \in Seq(Worker) /\ value' \in Nat /\ Distinct(ready_wait')
      /\ \A u : InReady(u)' => (InReady(u) /\ u # w) \/ (u = w /\ "test" \in {"lock", "test"})
  <2>1. ready_wait \in Seq(Worker) /\ Distinct(ready_wait) /\ value \in Nat /\ ~InReady(w)
    BY <1>1, TypeParts DEF Inv, LockInv, Waiting, PoolTypes, Blocked
  <2>2. CASE value > 0
    BY <2>1, <2>2 DEF TakeSurplus, TakeReady, InReady
  <2>3. CASE ~(value > 0)
    <3>1. ready_wait' = Append(ready_wait, w) /\ value' = value
      BY <2>3 DEF TakeSurplus, TakeReady
    <3>2. /\ Append(ready_wait, w) \in Seq(Worker) /\ Distinct(Append(ready_wait, w))
          /\ \A u : Contains(Append(ready_wait, w), u) <=> Contains(ready_wait, u) \/ u = w
      BY <2>1, AppendAdds DEF InReady
    <3>3. QED
      BY <2>1, <3>1, <3>2 DEF InReady
  <2>4. QED
    BY <2>2, <2>3
<1>5. UNCHANGED <<queue, cur_wait, rest>>
  BY DEF TakeSurplus, pool, TakeReady
<1>6. /\ is_shutdown' \in BOOLEAN /\ task' \in [Worker -> 0..MaxTask]
      /\ reused' = reused /\ added' = added /\ marked' = marked
  BY <1>5, TypeParts DEF Inv, PoolTypes, TakeSurplus, pool, rest, TakeReady
<1>7. PoolTypes'
  BY <1>4, <1>5, <1>6, TypeParts DEF Inv, PoolTypes, rest
<1>8. Counted' /\ Placed'
  BY <1>3, <1>5, QuietPool DEF Inv
<1>9. QED
  BY <1>1, <1>2, <1>3, <1>4, <1>6, <1>7, <1>8, MoveStep

LEMMA FinishStep ==
  ASSUME Inv, NEW w \in Worker, Finish(w)
  PROVE  Inv'
<1> USE ThreadPoolAssumption DEF ThreadPoolAssumption
<1>1. w \in Threads /\ pc[w] \in {"run", "finish"} /\ ~Blocked(w) /\ Goes(w, "lock") /\ UNCHANGED locks
  BY DEF Finish, At
<1>2. pc' \in Where /\ \A u \in Threads : pc'[u] = IF u = w THEN "lock" ELSE pc[u]
  BY <1>1, GoesWhere DEF Inv, ShellAt, WorkerAt
<1>3. Moves(w, "lock") /\ pc[shell] # "end"
  BY <1>1, <1>2 DEF Moves, Blocked, Inv, Positions
<1>4. /\ ready_wait' \in Seq(Worker) /\ value' \in Nat /\ Distinct(ready_wait')
      /\ \A u : InReady(u)' => (InReady(u) /\ u # w) \/ (u = w /\ "lock" \in {"lock", "test"})
  <2>1. UNCHANGED ready /\ ~InReady(w)
    BY <1>1 DEF Finish, Blocked
  <2>2. QED
    BY <2>1, TypeParts DEF Inv, LockInv, Waiting, PoolTypes, ready, InReady
<1>5. UNCHANGED <<queue, cur_wait, rest>>
  BY DEF Finish, pool
<1>6. /\ is_shutdown' \in BOOLEAN /\ task' \in [Worker -> 0..MaxTask]
      /\ reused' = reused /\ added' = added /\ marked' = marked
  BY <1>5, TypeParts DEF Inv, PoolTypes, Finish, pool, rest
<1>7. PoolTypes'
  BY <1>4, <1>5, <1>6, TypeParts DEF Inv, PoolTypes, rest
<1>8. Counted' /\ Placed'
  BY <1>3, <1>5, QuietPool DEF Inv
<1>9. QED
  BY <1>1, <1>2, <1>3, <1>4, <1>6, <1>7, <1>8, MoveStep

LEMMA IdleFreesStep ==
  ASSUME Inv, NEW w \in Worker, IdleFrees(w)
  PROVE  Inv'
<1> USE ThreadPoolAssumption DEF ThreadPoolAssumption
<1>1. /\ w \in Threads /\ pc[w] = "exit" /\ ~Blocked(w) /\ Goes(w, "freed") /\ UNCHANGED locks
      /\ w \notin marked
  BY DEF IdleFrees, Blocked, Inv, LockInv, Waiting
<1>2. pc' \in Where /\ \A u \in Threads : pc'[u] = IF u = w THEN "freed" ELSE pc[u]
  BY <1>1, GoesWhere DEF Inv, ShellAt, WorkerAt
<1>3. Moves(w, "freed") /\ pc[shell] # "end"
  BY <1>1, <1>2 DEF Moves, Blocked, Inv, Positions
<1>4. /\ ready_wait' \in Seq(Worker) /\ value' \in Nat /\ Distinct(ready_wait')
      /\ \A u : InReady(u)' => (InReady(u) /\ u # w) \/ (u = w /\ "freed" \in {"lock", "test"})
  <2>1. UNCHANGED ready /\ ~InReady(w)
    BY <1>1 DEF IdleFrees, Blocked
  <2>2. QED
    BY <2>1, TypeParts DEF Inv, LockInv, Waiting, PoolTypes, ready, InReady
<1>5. UNCHANGED <<queue, cur_wait, rest>>
  BY DEF IdleFrees, pool
<1>6. /\ is_shutdown' \in BOOLEAN /\ task' \in [Worker -> 0..MaxTask]
      /\ reused' = reused /\ added' = added /\ marked' = marked
  BY <1>5, TypeParts DEF Inv, PoolTypes, IdleFrees, pool, rest
<1>7. PoolTypes'
  BY <1>4, <1>5, <1>6, TypeParts DEF Inv, PoolTypes, rest
<1>8. Counted' /\ Placed'
  BY <1>3, <1>5, QuietPool DEF Inv
<1>9. QED
  BY <1>1, <1>2, <1>3, <1>4, <1>6, <1>7, <1>8, MoveStep

LEMMA LoadStep ==
  ASSUME Inv, NEW w \in Worker, Load(w)
  PROVE  Inv'
<1> USE ThreadPoolAssumption DEF ThreadPoolAssumption
<1>1. /\ w \in Threads /\ pc[w] = "test" /\ ~Blocked(w) /\ cur_wait # 0
      /\ UNCHANGED <<is_shutdown, ready, marked, added, dropped, reused>>
  BY DEF Load, At
<1>2. pc[shell] # "end" /\ Owns("queue_lock", w) /\ ~InReady(w)
  BY <1>1 DEF Inv, Positions, LockInv, Entered, Blocked
<1>3. CASE queue = <<>>
  <2>1. Goes(w, "assert") /\ UNCHANGED <<queue, cur_wait, task, started, locks>>
    BY <1>3 DEF Load
  <2>2. pc' \in Where /\ \A u \in Threads : pc'[u] = IF u = w THEN "assert" ELSE pc[u]
    BY <1>1, <2>1, GoesWhere DEF Inv, ShellAt, WorkerAt
  <2>3. reused
    <3>1. Len(queue) % UINT8 = 0
      <4>1. Len(queue) = 0 /\ UINT8 \in Nat \ {0}
        BY <1>3
      <4>2. QED
        BY <4>1
    <3>2. QED
      BY <1>1, <1>2, <3>1, TypeParts DEF Inv, Counted, PoolTypes
  <2>4. Moves(w, "assert")
    BY <1>1, <2>2 DEF Moves, Blocked
  <2>5. PoolTypes'
    BY <1>1, <2>1, TypeParts DEF Inv, PoolTypes, ready
  <2>6. Counted' /\ Placed'
    BY <1>1, <1>2, <2>1, QuietPool DEF Inv, rest
  <2>7. Distinct(ready_wait') /\ \A u : InReady(u)' => InReady(u) /\ u # w
    BY <1>1, <1>2 DEF Inv, LockInv, Waiting, ready, InReady
  <2>8. QED
    BY <1>1, <2>1, <2>2, <2>3, <2>4, <2>5, <2>6, <2>7, MoveStep
<1>4. CASE queue # <<>>
  <2>1. /\ cur_wait' = (cur_wait - 1) % UINT8 /\ queue' = Tail(queue)
        /\ task' = [task EXCEPT ![w] = Head(queue)] /\ started' = Append(started, Head(queue))
        /\ Unlocks("queue_lock", w) /\ Goes(w, "run")
    BY <1>4 DEF Load
  <2>2. pc' \in Where /\ \A u \in Threads : pc'[u] = IF u = w THEN "run" ELSE pc[u]
    BY <1>1, <2>1, GoesWhere DEF Inv, ShellAt, WorkerAt
  <2>3. Leaves("queue_lock", w, "run")
    BY <1>1, <1>2, <2>2 DEF Leaves, Blocked, ready
  <2>4. /\ Counted' /\ Placed'
        /\ queue' \in Seq(Task) /\ started' \in Seq(Task) /\ cur_wait' \in 0..(UINT8 - 1)
        /\ Head(queue) \in Task
    BY <1>1, <1>2, <1>4, <2>1, LoadPool DEF Inv
  <2>5. task' \in [Worker -> 0..MaxTask]
    <3>1. task \in [Worker -> 0..MaxTask]
      BY TypeParts DEF Inv, PoolTypes
    <3>2. Head(queue) \in 0..MaxTask
      BY <2>4 DEF Task
    <3>3. QED
      BY <2>1, <3>1, <3>2
  <2>6. PoolTypes'
    BY <1>1, <2>4, <2>5, TypeParts DEF Inv, PoolTypes, ready
  <2>7. QED
    BY <1>1, <2>1, <2>2, <2>3, <2>4, <2>6, ReleaseStep
<1>5. QED
  BY <1>3, <1>4

LEMMA CreateStep ==
  ASSUME Inv, NEW w \in Worker, Create(w)
  PROVE  Inv'
<1> USE KernelMutexAssumption, ThreadPoolAssumption
    DEF KernelMutexAssumption, ThreadPoolAssumption
<1>1. /\ pc[w] = "none" /\ pc[shell] = "init" /\ UNCHANGED <<pool, ready, locks, task, rest>>
  BY DEF Create, At
<1>2. /\ pc' \in Where /\ pc'[w] = "lock" /\ pc'[shell] \in {"init", "user"}
      /\ \A u \in Threads \ {w, shell} : pc'[u] = pc[u]
  <2>1. pc' = [pc EXCEPT ![w] = "lock",
                         ![shell] = IF \A v \in Worker \ {w} : pc[v] # "none" THEN "user"
                                                                             ELSE pc[shell]]
    BY <1>1 DEF Create
  <2>2. pc \in Where /\ w # shell
    BY TypeParts DEF Inv
  <2>3. QED
    BY <1>1, <2>1, <2>2 DEF Where, ShellAt, WorkerAt
<1>3. /\ \A k, u : (Waits(k, u)' <=> Waits(k, u)) /\ (Owns(k, u)' <=> Owns(k, u))
                    /\ (OwnsSome(u)' <=> OwnsSome(u))
      /\ \A u : InReady(u)' <=> InReady(u)
      /\ ready_wait' = ready_wait /\ mutex' = mutex /\ prio' = prio /\ lent' = lent
  BY <1>1 DEF Waits, Owns, OwnsSome, InReady, locks, ready
<1>4. LockInv'
  <2> USE DEF Inv, LockInv
  <2>1. Held'
    BY <1>3 DEF Held
  <2>2. Owning'
    BY <1>1, <1>2, <1>3 DEF Owning
  <2>3. Waiting'
    BY <1>1, <1>2, <1>3 DEF Waiting
  <2>4. Entered'
    BY <1>1, <1>2, <1>3 DEF Entered
  <2>5. GivesBack'
    BY <1>3 DEF GivesBack
  <2>6. Inheritance'
    BY <1>1, <1>2, <1>3 DEF Inheritance
  <2>7. QED
    BY <2>1, <2>2, <2>3, <2>4, <2>5, <2>6
<1>5. Positions'
  BY <1>1, <1>2 DEF Inv, Positions, ShellAt, WorkerAt, rest
<1>6. Counted' /\ Placed'
  BY <1>1, QuietPool DEF Inv, pool
<1>7. PoolTypes' /\ LockTypes'
  BY <1>1, TypeParts DEF Inv, PoolTypes, LockTypes, MutexType, pool, ready, rest, locks
<1>8. QED
  BY <1>2, <1>4, <1>5, <1>6, <1>7, TypeParts DEF Inv

LEMMA DeleteStep ==
  ASSUME Inv, NEW w \in Worker, Delete(w) \/ Stop(w)
  PROVE  Inv'
<1> USE ThreadPoolAssumption DEF ThreadPoolAssumption
<1>1. LockTypes' /\ Deletes(w) /\ ready_wait' \in Seq(Worker)
  BY DeletesEffect DEF Inv, LockInv
<1>2. LockInv'
  BY <1>1, TypeParts, DeletesLockInv DEF Inv
<1>3. /\ UNCHANGED <<pool, value, task, added, started, dropped, reused>> /\ pc' \in Where
      /\ marked' \subseteq Worker
  <2>1. CASE Delete(w)
    BY <2>1, TypeParts DEF Delete, Inv, PoolTypes, Where, ShellAt, WorkerAt, rest
  <2>2. CASE Stop(w)
    BY <2>2, TypeParts DEF Stop, Goes, Inv, Where, ShellAt, WorkerAt
  <2>3. QED
    BY <2>1, <2>2
<1>4. Positions'
  <2>1. CASE Delete(w)
    BY <1>3, <2>1, TypeParts DEF Delete, At, Inv, Positions, Where, ShellAt, WorkerAt, rest
  <2>2. CASE Stop(w)
    BY <1>3, <2>2, TypeParts DEF Stop, Goes, Inv, Positions, Where, ShellAt, WorkerAt
  <2>3. QED
    BY <2>1, <2>2
<1>5. Counted' /\ Placed'
  <2>1. pc'[shell] # "end" => pc[shell] # "end"
    BY <1>1 DEF Deletes
  <2>2. QED
    BY <1>3, <2>1 DEF Inv, pool, Counted, Placed
<1>6. PoolTypes'
  BY <1>1, <1>3, TypeParts DEF Inv, PoolTypes, pool
<1>7. QED
  BY <1>1, <1>2, <1>3, <1>4, <1>5, <1>6, TypeParts DEF Inv

LEMMA MarkStep ==
  ASSUME Inv, NEW w \in Worker, Mark(w)
  PROVE  Inv'
<1>1. /\ UNCHANGED <<pool, ready, locks, pc, task, added, started, dropped, reused>>
      /\ marked' = {w} /\ pc[w] \notin {"gone", "freed"} /\ pc[shell] = "delete"
  BY DEF Mark, At
<1>2. Positions'
  BY <1>1, ThreadPoolAssumption DEF ThreadPoolAssumption, Inv, Positions
<1>3. LockInv'
  BY <1>1 DEF Inv, LockInv, Held, Owning, Waiting, Entered, GivesBack, Inheritance, Waits,
     Owns, OwnsSome, InReady, ready, locks
<1>4. Counted' /\ Placed'
  BY <1>1 DEF Inv, Counted, Placed, pool
<1>5. TypeOK'
  BY <1>1 DEF Inv, TypeOK, MutexType, pool, ready, locks
<1>6. QED
  BY <1>2, <1>3, <1>4, <1>5 DEF Inv

LEMMA DestroyEndStep ==
  ASSUME Inv, DestroyEnd
  PROVE  Inv'
<1> USE KernelMutexAssumption, ThreadPoolAssumption
    DEF KernelMutexAssumption, ThreadPoolAssumption
<1>1. /\ pc[shell] = "delete" /\ \A w \in Worker : pc[w] = "gone" \/ w \in marked
      /\ mutex' = [m \in Mutexes |-> Unowned] /\ ready_wait' = <<>>
      /\ lent' = [m \in Mutexes |-> {}] /\ queue' = <<>>
      /\ dropped' = dropped \cup {queue[i] : i \in 1..Len(queue)}
      /\ UNCHANGED <<cur_wait, is_shutdown, value, prio, task, marked, added, started, reused>>
  BY DEF DestroyEnd, At
<1>2. /\ pc' \in Where /\ shell \notin marked
      /\ \A u \in Threads : pc'[u] = IF u = shell THEN "end"
                                     ELSE IF u \in marked THEN "stray" ELSE pc[u]
  BY TypeParts DEF DestroyEnd, Inv, Positions, Where, ShellAt, WorkerAt
<1>3. Placed' /\ queue' \in Seq(Task) /\ dropped' \subseteq Task
  BY <1>1, ClearPool DEF Inv
<1>4. PoolTypes'
  BY <1>1, <1>3, TypeParts DEF Inv, PoolTypes
<1>5. Unowned \in [owner : Threads \cup {none}, original_priority : Nat, hold : Nat,
                   wait : Seq(Threads)]
  BY DEF Unowned
<1>6. LockTypes'
  BY <1>1, <1>5, TypeParts DEF Inv, LockTypes, MutexType
<1>7. Positions' /\ Counted'
  BY <1>1, <1>2 DEF Inv, Positions, Counted, ShellAt, WorkerAt
<1>8. /\ \A m \in Mutexes : /\ mutex'[m].owner = none /\ mutex'[m].hold = 0
                             /\ mutex'[m].wait = <<>> /\ lent'[m] = {}
      /\ \A u : ~Contains(<<>>, u)
      /\ Distinct(<<>>)
  BY <1>1, EmptyHasNone DEF Unowned
<1>9. \A u \in Threads : pc'[u] \in {"gone", "stray", "end"}
  BY <1>1, <1>2
<1>10. LockInv'
  <2>1. \A m \in Mutexes : \A u : ~Waits(m, u)' /\ (u \in Threads => ~Owns(m, u)')
    BY <1>8 DEF Waits, Owns
  <2>2. \A u : ~InReady(u)'
    BY <1>1, <1>8 DEF InReady
  <2>3. Held' /\ Owning' /\ Waiting'
    BY <1>1, <1>8, <2>1, <2>2 DEF Held, Owning, Waiting
  <2>4. Entered'
    BY <1>9 DEF Entered
  <2>5. GivesBack'
    BY <1>1, <2>1 DEF GivesBack, Inv, LockInv
  <2>6. Inheritance'
    BY <1>8, <1>9 DEF Inheritance
  <2>7. QED
    BY <2>3, <2>4, <2>5, <2>6 DEF LockInv
<1>11. QED
  BY <1>2, <1>3, <1>4, <1>6, <1>7, <1>10, TypeParts DEF Inv

LEMMA InitInv == Init => Inv
<1> SUFFICES ASSUME Init PROVE Inv
  OBVIOUS
<1> USE KernelMutexAssumption, ThreadPoolAssumption
    DEF KernelMutexAssumption, ThreadPoolAssumption
<1>1. /\ mutex = [m \in Mutexes |-> Unowned] /\ prio = Base /\ lent = [m \in Mutexes |-> {}]
      /\ queue = <<>> /\ cur_wait = 0 /\ is_shutdown = FALSE /\ value = 0
      /\ ready_wait = <<>> /\ task = [w \in Worker |-> 0]
      /\ marked = {} /\ added = 0 /\ started = <<>> /\ dropped = {} /\ reused = FALSE
      /\ pc = [t \in Threads |-> IF t = shell THEN "init" ELSE "none"]
  BY DEF Init, MutexInit
<1>2. Unowned \in [owner : Threads \cup {none}, original_priority : Nat, hold : Nat,
                   wait : Seq(Threads)]
  BY DEF Unowned
<1>3. LockTypes
  BY <1>1, <1>2 DEF LockTypes, MutexType
<1>4. PoolTypes /\ pc \in Where
  <2>1. pc \in Where
    BY <1>1 DEF Where, ShellAt, WorkerAt
  <2>2. task \in [Worker -> 0..MaxTask] /\ 0 \in 0..(UINT8 - 1) /\ 0 \in 0..MaxTask
    BY <1>1
  <2>3. is_shutdown \in BOOLEAN /\ reused \in BOOLEAN
    BY <1>1, Zenon
  <2>4. queue \in Seq(Task) /\ started \in Seq(Task) /\ ready_wait \in Seq(Worker)
    BY <1>1
  <2>5. cur_wait \in 0..(UINT8 - 1) /\ added \in 0..MaxTask /\ value \in Nat
    BY <1>1, <2>2
  <2>6. dropped \subseteq Task /\ marked \subseteq Worker
    BY <1>1
  <2>7. QED
    BY <2>1, <2>2, <2>3, <2>4, <2>5, <2>6 DEF PoolTypes
<1>5. pc[shell] = "init" /\ \A w \in Worker : pc[w] = "none"
  BY <1>1
<1>6. Positions
  BY <1>1, <1>5 DEF Positions, ShellAt, WorkerAt
<1>7. Counted
  <2>1. Len(queue) = 0 /\ UINT8 \in Nat \ {0}
    BY <1>1
  <2>2. QED
    BY <1>1, <2>1 DEF Counted
<1>8. Placed
  BY <1>1 DEF Placed, Growing
<1>9. /\ \A m \in Mutexes : /\ mutex[m].owner = none /\ mutex[m].hold = 0
                             /\ mutex[m].wait = <<>> /\ lent[m] = {}
      /\ \A u : ~Contains(<<>>, u)
      /\ Distinct(<<>>)
  BY <1>1, EmptyHasNone DEF Unowned
<1>10. LockInv
  <2>1. \A m \in Mutexes : \A u : ~Waits(m, u) /\ (u \in Threads => ~Owns(m, u))
    BY <1>9 DEF Waits, Owns
  <2>2. \A u : ~InReady(u)
    BY <1>1, <1>9 DEF InReady
  <2>3. Held /\ Owning /\ Waiting
    BY <1>1, <1>9, <2>1, <2>2 DEF Held, Owning, Waiting
  <2>4. Entered
    BY <1>5 DEF Entered
  <2>5. GivesBack
    BY <1>1, <2>1 DEF GivesBack
  <2>6. Inheritance
    BY <1>1, <1>9 DEF Inheritance
  <2>7. QED
    BY <2>3, <2>4, <2>5, <2>6 DEF LockInv
<1>11. QED
  BY <1>3, <1>4, <1>6, <1>7, <1>8, <1>10, TypeParts DEF Inv

(* The pool and its locks: the invariant holds in every state.               *)
THEOREM ThreadPoolInv == Spec => []Inv
<1>1. Inv /\ [Next]_vars => Inv'
  <2> SUFFICES ASSUME Inv, [Next]_vars PROVE Inv'
    OBVIOUS
  <2>1. CASE Calls
    BY <2>1, AddTaskStep, DelAllStep, UserLockStep, DestroyStep DEF Calls
  <2>2. CASE Continues
    BY <2>2, AppendTaskStep, PostReadyStep, ClearStep, ResetStep, DelAllEndStep,
       UserUnlockStep, DestroyEndStep, CreateStep, DeleteStep, MarkStep DEF Continues
  <2>3. ASSUME NEW w \in Worker, Works(w) \/ TaskLock(w) \/ Stop(w) \/ IdleFrees(w) PROVE Inv'
    BY <2>3, LockStep, EmptyStep, SurplusStep, WaitStep, TakeSurplusStep, ShutdownStep,
       LoadStep, TaskUnlockStep, FinishStep, TaskLockStep, DeleteStep, IdleFreesStep DEF Works
  <2>4. CASE UNCHANGED vars
    BY <2>4 DEF Inv, TypeOK, MutexType, Positions, Counted, Placed, LockInv, Held, Owning,
       Waiting, Entered, GivesBack, Inheritance, Waits, Owns, OwnsSome, InReady, vars, pool,
       ready, locks, rest
  <2>5. QED
    BY <2>1, <2>2, <2>3, <2>4 DEF Next
<1>2. QED
  BY <1>1, InitInv, PTL DEF Spec

(* RT_ASSERT in thread_job and in rt_thread_delete fails only where the      *)
(* property says, and all variables keep their types.                        *)
THEOREM ThreadPoolAssertionsHold == Spec => []AssertionsHold
<1>1. Inv => AssertionsHold
  <2> SUFFICES ASSUME Inv PROVE AssertionsHold
    OBVIOUS
  <2>1. pc[shell] # "stray" /\ (pc[shell] = "assert" => \E w \in Worker : pc[w] = "freed")
    BY DEF Inv, Positions, ShellAt
  <2>2. \A w \in Worker : /\ pc[w] = "assert" => reused
                          /\ pc[w] = "stray" => w \in marked /\ pc[shell] = "end"
    BY DEF Inv, Positions
  <2>3. QED
    BY <2>1, <2>2, ThreadPoolAssumption DEF ThreadPoolAssumption, Inv, AssertionsHold
<1>2. QED
  BY <1>1, ThreadPoolInv, PTL

(* add_task, del_all and thread_job: every task that was accepted is started *)
(* once, deleted or still in the list, and tasks start in the order in which *)
(* they were added, although the counter wraps, as long as no worker runs on *)
(* in a destroyed pool.                                                      *)
THEOREM ThreadPoolTasksConserved == Spec => []TasksConserved
<1>1. Inv => TasksConserved
  <2> SUFFICES ASSUME Inv PROVE TasksConserved
    OBVIOUS
  <2>1. /\ queue \in Seq(Task) /\ started \in Seq(Task)
        /\ Len(queue) \in Nat /\ Len(started) \in Nat
    BY TypeParts, LenProperties DEF Inv, PoolTypes
  <2>2. /\ \A i \in 1..Len(queue) : queue[i] \in Nat
        /\ \A i \in 1..Len(started) : started[i] \in Nat
    <3>1. /\ \A i \in 1..Len(queue) : queue[i] \in Task
          /\ \A i \in 1..Len(started) : started[i] \in Task
      BY <2>1, ElementOfSeq
    <3>2. QED
      BY <3>1 DEF Task
  <2>3. Distinct(started) /\ Distinct(queue)
    BY <2>1, <2>2, GrowingDistinct DEF Inv, Placed
  <2>4. ASSUME NEW s, Distinct(s), NEW k
        PROVE  Cardinality({i \in 1..Len(s) : s[i] = k}) = IF Contains(s, k) THEN 1 ELSE 0
    <3>1. CASE Contains(s, k)
      <4>1. PICK i \in 1..Len(s) : s[i] = k
        BY <3>1 DEF Contains
      <4>2. {j \in 1..Len(s) : s[j] = k} = {i}
        BY <2>4, <4>1 DEF Distinct
      <4>3. QED
        BY <3>1, <4>2, FS_Singleton
    <3>2. CASE ~Contains(s, k)
      <4>1. {j \in 1..Len(s) : s[j] = k} = {}
        BY <3>2 DEF Contains
      <4>2. QED
        BY <3>2, <4>1, FS_EmptySet
    <3>3. QED
      BY <3>1, <3>2
  <2>5. ASSUME NEW k \in 1..added
        PROVE  Cardinality({i \in 1..Len(started) : started[i] = k})
                 + Cardinality({i \in 1..Len(queue) : queue[i] = k})
                 + (IF k \in dropped THEN 1 ELSE 0) = 1
    <3>1. Contains(started, k) \/ Contains(queue, k) \/ k \in dropped
      BY DEF Inv, Placed
    <3>2. /\ Contains(started, k) => k \notin dropped
          /\ Contains(queue, k) => k \notin dropped
          /\ ~(Contains(started, k) /\ Contains(queue, k))
      BY <2>2 DEF Inv, Placed, Contains
    <3>3. /\ Cardinality({i \in 1..Len(started) : started[i] = k})
               = IF Contains(started, k) THEN 1 ELSE 0
          /\ Cardinality({i \in 1..Len(queue) : queue[i] = k})
               = IF Contains(queue, k) THEN 1 ELSE 0
      BY <2>3, <2>4
    <3>4. QED
      BY <3>1, <3>2, <3>3
  <2>6. Growing(started)
    BY DEF Inv, Placed
  <2>7. QED
    BY <2>5, <2>6 DEF TasksConserved, Growing
<1>2. QED
  BY <1>1, ThreadPoolInv, PTL

(* rt_mutex_take and rt_mutex_release as the pool uses them: a waiter's loan *)
(* is in force as long as it is recorded, and who holds no lock runs with    *)
(* the priority that it was created with.                                    *)
THEOREM ThreadPoolInheritance == Spec => []Inheritance
<1>1. Inv => Inheritance
  BY DEF Inv, LockInv
<1>2. QED
  BY <1>1, ThreadPoolInv, PTL

(* Who is in a section that queue_lock protects, and not waiting for it.     *)
InSection(t) ==
  /\ pc[t] \in {"append", "clear", "reset", "unlock", "test", "take"}
  /\ ~Waits("queue_lock", t)

(* thread_pool.c: no two threads are in sections of the lock of the queue,   *)
(* which is what lets the accesses in such a section be one step.            *)
THEOREM ThreadPoolExclusion ==
  Spec => [](\A t, u \in Threads : InSection(t) /\ InSection(u) => t = u)
<1>1. Inv => \A t, u \in Threads : InSection(t) /\ InSection(u) => t = u
  <2> SUFFICES ASSUME Inv, NEW t \in Threads, InSection(t) PROVE Owns("queue_lock", t)
    BY DEF Owns
  <2>1. CASE t = shell
    BY <2>1 DEF InSection, Inv, Positions, ShellAt, LockInv, Entered
  <2>2. CASE t \in Worker
    BY <2>2 DEF InSection, Inv, Positions, WorkerAt, LockInv, Entered
  <2>3. QED
    BY <2>1, <2>2, ThreadPoolAssumption DEF ThreadPoolAssumption
<1>2. QED
  BY <1>1, ThreadPoolInv, PTL
=============================================================================
