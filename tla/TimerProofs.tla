---------------------------- MODULE TimerProofs -----------------------------
(***************************************************************************)
(* The kernel's timers for any set of timers and every width of the tick:  *)
(* the list stays sorted across the wrap, and it implements timers that    *)
(* expire exactly when they were asked to.                                 *)
(***************************************************************************)
EXTENDS Timer, SequenceTheorems, TLAPS

(* No element is in a sequence twice; u stands before v in it. *)
Distinct(s) == \A i, j \in 1..Len(s) : s[i] = s[j] => i = j
Ahead(s, u, v) == \E i, j \in 1..Len(s) : i < j /\ s[i] = u /\ s[j] = v

(* A timer with r ticks left. *)
Left(t, r) == r \in -1..(Half - 1) /\ timeout[t] = (tick + r) % RANGE

(* What is known of the ticks that timer t has left: at most one tick late,  *)
(* and only between the tick and the check of CPU 0; due and not asked for   *)
(* just now, only in the same interval.                                      *)
InTime(t) ==
  /\ Left(t, Remaining(t))
  /\ Expired(t) <=> Remaining(t) <= 0
  /\ ~due => Remaining(t) >= 0
  /\ ~due /\ Remaining(t) = 0 => init[t] = 0

(* The inductive invariant. *)
OnTime == \A t \in Timer : InList(t) => InTime(t)
InOrder == \A u, v \in Timer : Ahead(list, u, v) => Remaining(u) <= Remaining(v)
Early ==
  \A t \in Timer : \A u \in before[t] :
    InList(t) /\ InList(u) /\ timeout[u] = timeout[t] => Ahead(list, u, t)

Inv == TypeOK /\ OnTime /\ InOrder /\ Early
-----------------------------------------------------------------------------
(* Sequences: what they contain, and in which order, after one element is    *)
(* taken off or put in, or the first ones are cut off.                       *)
LEMMA RemoveFirstDrops ==
  ASSUME NEW S, NEW s \in Seq(S), Distinct(s), NEW e
  PROVE  /\ RemoveFirst(s, e) \in Seq(S) /\ Distinct(RemoveFirst(s, e))
         /\ \A u : Contains(RemoveFirst(s, e), u) <=> Contains(s, u) /\ u # e
         /\ \A u, v : Ahead(RemoveFirst(s, e), u, v) <=> Ahead(s, u, v) /\ u # e /\ v # e
<1>1. CASE ~ \E i \in 1..Len(s) : s[i] = e
  <2>1. RemoveFirst(s, e) = s
    BY <1>1 DEF RemoveFirst
  <2>2. QED
    BY <1>1, <2>1 DEF Contains, Ahead
<1>2. CASE \E i \in 1..Len(s) : s[i] = e
  <2> DEFINE I == {i \in 1..Len(s) : s[i] = e}
  <2>1. PICK k \in 1..Len(s) : s[k] = e
    BY <1>2
  <2>2. Len(s) \in Nat /\ k \in Nat /\ k > 0 /\ k <= Len(s) /\ \A i \in 1..Len(s) : s[i] \in S
    BY LenProperties, ElementOfSeq
  <2>3. I = {k}
    BY <2>1 DEF Distinct
  <2>4. Min({k}) = k
    BY <2>2 DEF Min
  <2>5. RemoveFirst(s, e) = RemoveAt(s, k)
    BY <1>2, <2>3, <2>4 DEF RemoveFirst, SelectInSeq
  <2> DEFINE a == SubSeq(s, 1, k - 1)  b == SubSeq(s, k + 1, Len(s))  r == a \o b
  <2>6. a \in Seq(S) /\ Len(a) = k - 1 /\ \A i \in 1..(k - 1) : a[i] = s[i]
    <3>1. \A i \in 1..(k - 1) : s[i] \in S
      BY <2>2
    <3>2. 1 \in Int /\ k - 1 \in Int
      BY <2>2
    <3>3. QED
      BY <2>2, <3>1, <3>2, SubSeqProperties
  <2>7. b \in Seq(S) /\ Len(b) = Len(s) - k /\ \A i \in 1..(Len(s) - k) : b[i] = s[k + i]
    <3>1. \A i \in (k + 1)..Len(s) : s[i] \in S
      BY <2>2
    <3>2. k + 1 \in Int /\ Len(s) \in Int
      BY <2>2
    <3>3. /\ b \in Seq(S) /\ Len(b) = IF k + 1 <= Len(s) THEN Len(s) - (k + 1) + 1 ELSE 0
          /\ \A i \in 1..(Len(s) - (k + 1) + 1) : b[i] = s[(k + 1) + i - 1]
      BY <3>1, <3>2, SubSeqProperties
    <3>4. QED
      BY <2>2, <3>3
  <2> HIDE DEF a, b
  <2>8. r \in Seq(S) /\ Len(r) = Len(s) - 1
    <3>1. a \o b \in Seq(S) /\ Len(a \o b) = Len(a) + Len(b)
      BY <2>6, <2>7, ConcatProperties
    <3>2. QED
      BY <2>2, <2>6, <2>7, <3>1
  <2>9. \A i \in 1..(Len(s) - 1) : r[i] = IF i < k THEN s[i] ELSE s[i + 1]
    <3> SUFFICES ASSUME NEW i \in 1..(Len(s) - 1) PROVE r[i] = IF i < k THEN s[i] ELSE s[i + 1]
      OBVIOUS
    <3>1. r[i] = IF i <= Len(a) THEN a[i] ELSE b[i - Len(a)]
      BY <2>2, <2>6, <2>7, ConcatProperties
    <3>2. CASE i < k
      BY <2>2, <2>6, <3>1, <3>2
    <3>3. CASE ~(i < k)
      <4>1. i - (k - 1) \in 1..(Len(s) - k)
        BY <2>2, <3>3
      <4>2. b[i - (k - 1)] = s[i + 1]
        <5>1. b[i - (k - 1)] = s[k + (i - (k - 1))]
          BY <2>7, <4>1
        <5>2. k + (i - (k - 1)) = i + 1
          BY <2>2
        <5>3. QED
          BY <5>1, <5>2
      <4>3. QED
        BY <2>2, <2>6, <3>1, <3>3, <4>2
    <3>4. QED
      BY <3>2, <3>3
  <2> HIDE DEF r
  <2>10. Distinct(r)
    BY <2>2, <2>8, <2>9 DEF Distinct
  <2>11. ASSUME NEW u, Contains(r, u) PROVE Contains(s, u) /\ u # e
    <3>1. PICK i \in 1..Len(r) : r[i] = u
      BY <2>11 DEF Contains
    <3>2. PICK j \in 1..Len(s) : s[j] = u /\ j # k
      BY <2>2, <2>8, <2>9, <3>1
    <3>3. QED
      BY <2>1, <3>2 DEF Contains, Distinct
  <2>12. ASSUME NEW u, Contains(s, u), u # e PROVE Contains(r, u)
    <3>1. PICK j \in 1..Len(s) : s[j] = u
      BY <2>12 DEF Contains
    <3>2. CASE j < k
      BY <2>2, <2>8, <2>9, <3>1, <3>2 DEF Contains
    <3>3. CASE j > k
      <4>1. j - 1 \in 1..Len(r) /\ r[j - 1] = u
        BY <2>2, <2>8, <2>9, <3>1, <3>3
      <4>2. QED
        BY <4>1 DEF Contains
    <3>4. j # k
      BY <2>1, <2>12, <3>1
    <3>5. QED
      BY <2>2, <3>1, <3>2, <3>3, <3>4
  <2>13. RemoveFirst(s, e) = r
    BY <2>5 DEF RemoveAt, r, a, b
  <2>14. ASSUME NEW u, NEW v, Ahead(r, u, v) PROVE Ahead(s, u, v) /\ u # e /\ v # e
    <3>1. PICK i, j \in 1..Len(r) : i < j /\ r[i] = u /\ r[j] = v
      BY <2>14 DEF Ahead
    <3>2. PICK p, q \in 1..Len(s) : p < q /\ s[p] = u /\ s[q] = v /\ p # k /\ q # k
      <4> DEFINE p == IF i < k THEN i ELSE i + 1  q == IF j < k THEN j ELSE j + 1
      <4>1. p \in 1..Len(s) /\ q \in 1..Len(s) /\ p < q /\ p # k /\ q # k
        BY <2>2, <2>8, <3>1
      <4>2. s[p] = u /\ s[q] = v
        BY <2>2, <2>8, <2>9, <3>1
      <4>3. QED
        BY <4>1, <4>2
    <3>3. QED
      BY <2>1, <3>2 DEF Ahead, Distinct
  <2>15. ASSUME NEW u, NEW v, Ahead(s, u, v), u # e, v # e PROVE Ahead(r, u, v)
    <3>1. PICK i, j \in 1..Len(s) : i < j /\ s[i] = u /\ s[j] = v
      BY <2>15 DEF Ahead
    <3>2. i # k /\ j # k
      BY <2>1, <2>15, <3>1
    <3> DEFINE p == IF i < k THEN i ELSE i - 1  q == IF j < k THEN j ELSE j - 1
    <3>3. p \in 1..Len(r) /\ q \in 1..Len(r) /\ p < q
      BY <2>2, <2>8, <3>1, <3>2
    <3>4. ASSUME NEW n \in 1..Len(s), n # k PROVE r[IF n < k THEN n ELSE n - 1] = s[n]
      <4>1. CASE n < k
        BY <2>2, <2>9, <4>1
      <4>2. CASE ~(n < k)
        <5>1. n - 1 \in 1..(Len(s) - 1) /\ ~(n - 1 < k) /\ (n - 1) + 1 = n
          BY <2>2, <3>4, <4>2
        <5>2. QED
          BY <2>9, <4>2, <5>1
      <4>3. QED
        BY <4>1, <4>2
    <3>5. r[p] = u /\ r[q] = v
      BY <3>1, <3>2, <3>4
    <3> HIDE DEF p, q
    <3>6. QED
      BY <3>3, <3>5 DEF Ahead
  <2>16. QED
    BY <2>8, <2>10, <2>11, <2>12, <2>13, <2>14, <2>15
<1>3. QED
  BY <1>1, <1>2

LEMMA InsertAtAdds ==
  ASSUME NEW S, NEW s \in Seq(S), Distinct(s), NEW e \in S, ~Contains(s, e), NEW i \in 0..Len(s)
  PROVE  /\ InsertAt(s, i + 1, e) \in Seq(S) /\ Distinct(InsertAt(s, i + 1, e))
         /\ \A u : Contains(InsertAt(s, i + 1, e), u) <=> Contains(s, u) \/ u = e
         /\ \A u, v : Ahead(InsertAt(s, i + 1, e), u, v) <=>
              \/ Ahead(s, u, v)
              \/ u = e /\ \E j \in (i + 1)..Len(s) : s[j] = v
              \/ v = e /\ \E j \in 1..i : s[j] = u
<1> DEFINE a == SubSeq(s, 1, i)  b == SubSeq(s, i + 1, Len(s))  r == (a \o <<e>>) \o b
<1>1. Len(s) \in Nat /\ i \in Nat /\ i <= Len(s) /\ \A j \in 1..Len(s) : s[j] \in S
  BY LenProperties, ElementOfSeq
<1>2. a \in Seq(S) /\ Len(a) = i /\ \A j \in 1..i : a[j] = s[j]
  <2>1. \A j \in 1..i : s[j] \in S
    BY <1>1
  <2>2. QED
    BY <1>1, <2>1, SubSeqProperties
<1>3. b \in Seq(S) /\ Len(b) = Len(s) - i /\ \A j \in 1..(Len(s) - i) : b[j] = s[i + j]
  <2>1. \A j \in (i + 1)..Len(s) : s[j] \in S
    BY <1>1
  <2>2. i + 1 \in Int /\ Len(s) \in Int
    BY <1>1
  <2>3. /\ b \in Seq(S) /\ Len(b) = IF i + 1 <= Len(s) THEN Len(s) - (i + 1) + 1 ELSE 0
        /\ \A j \in 1..(Len(s) - (i + 1) + 1) : b[j] = s[(i + 1) + j - 1]
    BY <2>1, <2>2, SubSeqProperties
  <2>4. QED
    BY <1>1, <2>3
<1>4. InsertAt(s, i + 1, e) = r
  <2>1. (i + 1) - 1 = i
    BY <1>1
  <2>2. QED
    BY <2>1 DEF InsertAt
<1> HIDE DEF a, b
<1>5. /\ a \o <<e>> \in Seq(S) /\ Len(a \o <<e>>) = i + 1
      /\ \A j \in 1..(i + 1) : (a \o <<e>>)[j] = IF j <= i THEN s[j] ELSE e
  <2>1. <<e>> \in Seq(S) /\ Len(<<e>>) = 1 /\ <<e>>[1] = e
    OBVIOUS
  <2>2. /\ a \o <<e>> \in Seq(S) /\ Len(a \o <<e>>) = Len(a) + Len(<<e>>)
        /\ \A j \in 1..(Len(a) + Len(<<e>>)) :
             (a \o <<e>>)[j] = IF j <= Len(a) THEN a[j] ELSE <<e>>[j - Len(a)]
    BY <1>2, <2>1, ConcatProperties
  <2>3. ASSUME NEW j \in 1..(i + 1) PROVE (a \o <<e>>)[j] = IF j <= i THEN s[j] ELSE e
    <3>1. CASE j <= i
      BY <1>1, <1>2, <2>1, <2>2, <3>1
    <3>2. CASE ~(j <= i)
      <4>1. j = i + 1 /\ j - i = 1
        BY <1>1, <3>2
      <4>2. QED
        BY <1>1, <1>2, <2>1, <2>2, <3>2, <4>1
    <3>3. QED
      BY <3>1, <3>2
  <2>4. QED
    BY <1>1, <1>2, <2>1, <2>2, <2>3
<1> DEFINE c == a \o <<e>>
<1> HIDE DEF c
<1>6. /\ r \in Seq(S) /\ Len(r) = Len(s) + 1
      /\ \A j \in 1..(Len(s) + 1) :
           r[j] = IF j <= i THEN s[j] ELSE IF j = i + 1 THEN e ELSE s[j - 1]
  <2>1. /\ c \in Seq(S) /\ Len(c) = i + 1 /\ r = c \o b
        /\ \A j \in 1..(i + 1) : c[j] = IF j <= i THEN s[j] ELSE e
    BY <1>5 DEF c
  <2> HIDE DEF r
  <2>2. /\ r \in Seq(S) /\ Len(r) = Len(c) + Len(b)
        /\ \A j \in 1..(Len(c) + Len(b)) : r[j] = IF j <= Len(c) THEN c[j] ELSE b[j - Len(c)]
    BY <1>3, <2>1, ConcatProperties
  <2>3. Len(r) = Len(s) + 1
    BY <1>1, <1>3, <2>1, <2>2
  <2>4. ASSUME NEW j \in 1..(Len(s) + 1)
        PROVE  r[j] = IF j <= i THEN s[j] ELSE IF j = i + 1 THEN e ELSE s[j - 1]
    <3>1. CASE j <= i + 1
      BY <1>1, <1>3, <2>1, <2>2, <3>1
    <3>2. CASE ~(j <= i + 1)
      <4>1. j - (i + 1) \in 1..(Len(s) - i)
        BY <1>1, <3>2
      <4>2. b[j - (i + 1)] = s[j - 1]
        <5>1. b[j - (i + 1)] = s[i + (j - (i + 1))]
          BY <1>3, <4>1
        <5>2. i + (j - (i + 1)) = j - 1
          BY <1>1
        <5>3. QED
          BY <5>1, <5>2
      <4>3. r[j] = b[j - (i + 1)]
        BY <1>1, <1>3, <2>1, <2>2, <3>2
      <4>4. QED
        BY <1>1, <3>2, <4>2, <4>3
    <3>3. QED
      BY <3>1, <3>2
  <2>5. QED
    BY <2>2, <2>3, <2>4
<1> HIDE DEF r
<1>7. \A j \in 1..Len(s) : s[j] # e
  BY DEF Contains
<1>8. Distinct(r)
  <2> SUFFICES ASSUME NEW p \in 1..(Len(s) + 1), NEW q \in 1..(Len(s) + 1), r[p] = r[q], p < q
               PROVE FALSE
    BY <1>1, <1>6 DEF Distinct
  <2> DEFINE x == IF p <= i THEN p ELSE p - 1  y == IF q <= i THEN q ELSE q - 1
  <2>1. CASE p = i + 1
    <3>1. q - 1 \in 1..Len(s) /\ r[q] = s[q - 1] /\ r[p] = e
      BY <1>1, <1>6, <2>1
    <3>2. QED
      BY <1>7, <3>1
  <2>2. CASE q = i + 1
    <3>1. p \in 1..Len(s) /\ r[p] = s[p] /\ r[q] = e
      BY <1>1, <1>6, <2>2
    <3>2. QED
      BY <1>7, <3>1
  <2>3. CASE p # i + 1 /\ q # i + 1
    <3>1. x \in 1..Len(s) /\ y \in 1..Len(s) /\ x < y
      BY <1>1, <2>3
    <3>2. r[p] = s[x] /\ r[q] = s[y]
      BY <1>1, <1>6, <2>3
    <3> HIDE DEF x, y
    <3>3. s[x] = s[y]
      BY <3>2
    <3>4. x = y
      BY <3>1, <3>3 DEF Distinct
    <3>5. x \in Int /\ y \in Int
      BY <3>1
    <3>6. QED
      BY <3>1, <3>4, <3>5
  <2>4. QED
    BY <2>1, <2>2, <2>3
<1>9. ASSUME NEW u, NEW v
      PROVE  Ahead(r, u, v) => \/ Ahead(s, u, v)
                               \/ u = e /\ \E j \in (i + 1)..Len(s) : s[j] = v
                               \/ v = e /\ \E j \in 1..i : s[j] = u
  <2> SUFFICES ASSUME NEW p \in 1..(Len(s) + 1), NEW q \in 1..(Len(s) + 1), p < q,
                      r[p] = u, r[q] = v
               PROVE  \/ Ahead(s, u, v)
                      \/ u = e /\ \E j \in (i + 1)..Len(s) : s[j] = v
                      \/ v = e /\ \E j \in 1..i : s[j] = u
    BY <1>6 DEF Ahead
  <2> DEFINE x == IF p <= i THEN p ELSE p - 1  y == IF q <= i THEN q ELSE q - 1
  <2>1. CASE p = i + 1
    <3>1. q - 1 \in (i + 1)..Len(s) /\ r[q] = s[q - 1] /\ r[p] = e
      BY <1>1, <1>6, <2>1
    <3>2. QED
      BY <3>1
  <2>2. CASE q = i + 1
    <3>1. p \in 1..i /\ r[p] = s[p] /\ r[q] = e
      BY <1>1, <1>6, <2>2
    <3>2. QED
      BY <3>1
  <2>3. CASE p # i + 1 /\ q # i + 1
    <3>1. x \in 1..Len(s) /\ y \in 1..Len(s) /\ x < y
      BY <1>1, <2>3
    <3>2. r[p] = s[x] /\ r[q] = s[y]
      BY <1>1, <1>6, <2>3
    <3> HIDE DEF x, y
    <3>3. QED
      BY <3>1, <3>2 DEF Ahead
  <2>4. QED
    BY <2>1, <2>2, <2>3
<1>10. ASSUME NEW j \in 1..Len(s) PROVE s[j] = r[IF j <= i THEN j ELSE j + 1]
  <2>1. CASE j <= i
    BY <1>1, <1>6, <2>1
  <2>2. CASE ~(j <= i)
    <3>1. j + 1 \in 1..(Len(s) + 1) /\ ~(j + 1 <= i) /\ j + 1 # i + 1 /\ (j + 1) - 1 = j
      BY <1>1, <2>2
    <3>2. QED
      BY <1>6, <2>2, <3>1
  <2>3. QED
    BY <2>1, <2>2
<1>11. r[i + 1] = e /\ i + 1 \in 1..(Len(s) + 1)
  BY <1>1, <1>6
<1>12. ASSUME NEW u, NEW v, Ahead(s, u, v) PROVE Ahead(r, u, v)
  <2>1. PICK p, q \in 1..Len(s) : p < q /\ s[p] = u /\ s[q] = v
    BY <1>12 DEF Ahead
  <2> DEFINE x == IF p <= i THEN p ELSE p + 1  y == IF q <= i THEN q ELSE q + 1
  <2>2. x \in 1..(Len(s) + 1) /\ y \in 1..(Len(s) + 1) /\ x < y
    BY <1>1, <2>1
  <2>3. r[x] = u /\ r[y] = v
    BY <1>10, <2>1
  <2> HIDE DEF x, y
  <2>4. QED
    BY <1>6, <2>2, <2>3 DEF Ahead
<1>13. ASSUME NEW j \in (i + 1)..Len(s) PROVE Ahead(r, e, s[j])
  <2>1. j + 1 \in 1..(Len(s) + 1) /\ i + 1 < j + 1 /\ j \in 1..Len(s) /\ ~(j <= i)
    BY <1>1
  <2>2. r[j + 1] = s[j]
    BY <1>10, <2>1
  <2>3. QED
    BY <1>6, <1>11, <2>1, <2>2 DEF Ahead
<1>14. ASSUME NEW j \in 1..i PROVE Ahead(r, s[j], e)
  <2>1. j \in 1..(Len(s) + 1) /\ j < i + 1 /\ r[j] = s[j]
    BY <1>1, <1>6
  <2>2. QED
    BY <1>6, <1>11, <2>1 DEF Ahead
<1>15. \A u : Contains(r, u) <=> Contains(s, u) \/ u = e
  <2>1. ASSUME NEW u, Contains(r, u) PROVE Contains(s, u) \/ u = e
    <3>1. PICK j \in 1..(Len(s) + 1) : r[j] = u
      BY <1>6, <2>1 DEF Contains
    <3>2. CASE j <= i
      BY <1>1, <1>6, <3>1, <3>2 DEF Contains
    <3>3. CASE j = i + 1
      BY <1>11, <3>1, <3>3
    <3>4. CASE j > i + 1
      <4>1. j - 1 \in 1..Len(s) /\ r[j] = s[j - 1]
        BY <1>1, <1>6, <3>4
      <4>2. QED
        BY <3>1, <4>1 DEF Contains
    <3>5. QED
      BY <1>1, <3>2, <3>3, <3>4
  <2>2. ASSUME NEW u, Contains(s, u) PROVE Contains(r, u)
    <3>1. PICK j \in 1..Len(s) : s[j] = u
      BY <2>2 DEF Contains
    <3> DEFINE x == IF j <= i THEN j ELSE j + 1
    <3>2. x \in 1..(Len(s) + 1) /\ r[x] = u
      BY <1>1, <1>10, <3>1
    <3> HIDE DEF x
    <3>3. QED
      BY <1>6, <3>2 DEF Contains
  <2>3. Contains(r, e)
    BY <1>6, <1>11 DEF Contains
  <2>4. QED
    BY <2>1, <2>2, <2>3
<1>16. QED
  BY <1>4, <1>6, <1>8, <1>9, <1>12, <1>13, <1>14, <1>15

LEMMA SuffixKeeps ==
  ASSUME NEW S, NEW s \in Seq(S), Distinct(s), NEW k \in 0..Len(s)
  PROVE  /\ SubSeq(s, k + 1, Len(s)) \in Seq(S) /\ Distinct(SubSeq(s, k + 1, Len(s)))
         /\ \A u : Contains(SubSeq(s, k + 1, Len(s)), u) <=> \E j \in (k + 1)..Len(s) : s[j] = u
         /\ \A u, v : Ahead(SubSeq(s, k + 1, Len(s)), u, v) <=>
              Ahead(s, u, v) /\ Contains(SubSeq(s, k + 1, Len(s)), u)
                             /\ Contains(SubSeq(s, k + 1, Len(s)), v)
<1> DEFINE r == SubSeq(s, k + 1, Len(s))
<1>1. Len(s) \in Nat /\ k \in Nat /\ k <= Len(s) /\ \A j \in 1..Len(s) : s[j] \in S
  BY LenProperties, ElementOfSeq
<1>2. r \in Seq(S) /\ Len(r) = Len(s) - k /\ \A j \in 1..(Len(s) - k) : r[j] = s[k + j]
  <2>1. \A j \in (k + 1)..Len(s) : s[j] \in S
    BY <1>1
  <2>2. k + 1 \in Int /\ Len(s) \in Int
    BY <1>1
  <2>3. /\ r \in Seq(S) /\ Len(r) = IF k + 1 <= Len(s) THEN Len(s) - (k + 1) + 1 ELSE 0
        /\ \A j \in 1..(Len(s) - (k + 1) + 1) : r[j] = s[(k + 1) + j - 1]
    BY <2>1, <2>2, SubSeqProperties
  <2>4. QED
    BY <1>1, <2>3
<1> HIDE DEF r
<1>3. ASSUME NEW j \in (k + 1)..Len(s)
      PROVE  j - k \in 1..Len(r) /\ r[j - k] = s[j]
  <2>1. j - k \in 1..(Len(s) - k) /\ k + (j - k) = j
    BY <1>1
  <2>2. QED
    BY <1>2, <2>1
<1>4. ASSUME NEW j \in 1..Len(r) PROVE k + j \in (k + 1)..Len(s) /\ r[j] = s[k + j]
  BY <1>1, <1>2
<1>5. Distinct(r)
  BY <1>1, <1>2, <1>4 DEF Distinct
<1>6. \A u : Contains(r, u) <=> \E j \in (k + 1)..Len(s) : s[j] = u
  BY <1>3, <1>4 DEF Contains
<1>7. ASSUME NEW u, NEW v, Ahead(r, u, v) PROVE Ahead(s, u, v) /\ Contains(r, u) /\ Contains(r, v)
  <2>1. PICK p, q \in 1..Len(r) : p < q /\ r[p] = u /\ r[q] = v
    BY <1>7 DEF Ahead
  <2>2. k + p \in 1..Len(s) /\ k + q \in 1..Len(s) /\ k + p < k + q
    BY <1>1, <1>4, <2>1
  <2>3. QED
    BY <1>4, <2>1, <2>2 DEF Ahead, Contains
<1>8. ASSUME NEW u, NEW v, Ahead(s, u, v), Contains(r, u), Contains(r, v) PROVE Ahead(r, u, v)
  <2>1. PICK p, q \in 1..Len(s) : p < q /\ s[p] = u /\ s[q] = v
    BY <1>8 DEF Ahead
  <2>2. p \in (k + 1)..Len(s) /\ q \in (k + 1)..Len(s)
    <3>1. PICK x, y \in (k + 1)..Len(s) : s[x] = u /\ s[y] = v
      BY <1>6, <1>8
    <3>2. x = p /\ y = q
      BY <1>1, <2>1, <3>1 DEF Distinct
    <3>3. QED
      BY <3>1, <3>2
  <2>3. p - k < q - k
    BY <1>1, <2>1
  <2>4. QED
    BY <1>3, <2>1, <2>2, <2>3 DEF Ahead
<1>9. QED
  BY <1>2, <1>5, <1>6, <1>7, <1>8 DEF r
-----------------------------------------------------------------------------
(* Ticks.  A sum that leaves the range by less than the range. *)
LEMMA ModUnique ==
  ASSUME NEW n \in Nat \ {0}, NEW q \in Int, NEW r \in 0..(n - 1)
  PROVE  (n * q + r) % n = r
OBVIOUS

LEMMA Wraps ==
  ASSUME NEW n \in Nat \ {0}, NEW x \in Int
  PROVE  /\ 0 <= x /\ x < n => x % n = x
         /\ n <= x /\ x < 2 * n => x % n = x - n
         /\ -n <= x /\ x < 0 => x % n = x + n
<1>1. ASSUME 0 <= x, x < n PROVE x % n = x
  <2>1. x \in 0..(n - 1) /\ n * 0 + x = x
    BY <1>1
  <2>2. (n * 0 + x) % n = x
    BY <2>1, ModUnique
  <2>3. QED
    BY <2>1, <2>2
<1>2. ASSUME n <= x, x < 2 * n PROVE x % n = x - n
  <2>1. x - n \in 0..(n - 1) /\ n * 1 + (x - n) = x
    BY <1>2
  <2>2. (n * 1 + (x - n)) % n = x - n
    BY <2>1, ModUnique
  <2>3. QED
    BY <2>1, <2>2
<1>3. ASSUME -n <= x, x < 0 PROVE x % n = x + n
  <2>1. x + n \in 0..(n - 1) /\ n * (-1) + (x + n) = x
    BY <1>3
  <2>2. (n * (-1) + (x + n)) % n = x + n
    BY <2>1, ModUnique
  <2>3. QED
    BY <2>1, <2>2
<1>4. QED
  BY <1>1, <1>2, <1>3

LEMMA HalfRange == Half \in Nat /\ Half >= 2 /\ 2 * Half < RANGE /\ RANGE \in Nat \ {0}
BY TimerAssumption DEF TimerAssumption, Half, RT_TICK_MAX

(* A sum of a tick and a few ticks, before or after the wrap. *)
LEMMA SumOf ==
  ASSUME NEW c \in Tick, NEW r \in -1..(Half - 1)
  PROVE  /\ (c + r) % RANGE \in Tick
         /\ (c + r) % RANGE \in {c + r, c + r - RANGE, c + r + RANGE}
<1>1. c \in Int /\ 0 <= c /\ c < RANGE /\ r \in Int /\ -1 <= r /\ r < Half
  BY HalfRange DEF Tick
<1> DEFINE z == c + r
<1>2. z \in Int /\ z = c + r /\ -RANGE <= z /\ z < 2 * RANGE
  BY <1>1, HalfRange
<1> HIDE DEF z
<1>3. /\ 0 <= z /\ z < RANGE => z % RANGE = z
      /\ RANGE <= z /\ z < 2 * RANGE => z % RANGE = z - RANGE
      /\ -RANGE <= z /\ z < 0 => z % RANGE = z + RANGE
  BY <1>2, HalfRange, Wraps
<1>4. z % RANGE \in Tick /\ z % RANGE \in {z, z - RANGE, z + RANGE}
  BY <1>2, <1>3, HalfRange DEF Tick
<1>5. QED
  BY <1>1, <1>2, <1>4, HalfRange

(* The unsigned difference of two ticks that are d apart. *)
LEMMA DifferenceOf ==
  ASSUME NEW x \in Tick, NEW y \in Tick, NEW d \in -Half..Half,
         x - y \in {d, d - RANGE, d + RANGE}
  PROVE  (x - y) % RANGE = IF d >= 0 THEN d ELSE d + RANGE
<1>1. /\ x \in Int /\ y \in Int /\ 0 <= x /\ x < RANGE /\ 0 <= y /\ y < RANGE
      /\ d \in Int /\ -Half <= d /\ d <= Half
  BY HalfRange DEF Tick
<1>2. x - y \in Int /\ -RANGE <= x - y /\ x - y < 2 * RANGE
  BY <1>1, HalfRange
<1>3. /\ 0 <= x - y /\ x - y < RANGE => (x - y) % RANGE = x - y
      /\ -RANGE <= x - y /\ x - y < 0 => (x - y) % RANGE = (x - y) + RANGE
  BY <1>2, HalfRange, Wraps
<1>4. QED
  BY <1>1, <1>2, <1>3, HalfRange

(* The ticks from tick c to a timeout x, as Remaining computes them. *)
Ticks(c, x) == IF (c - x) % RANGE < Half THEN -((c - x) % RANGE) ELSE (x - c) % RANGE

(* rt_timer_check and rt_timer_start compare ticks as if they did not wrap.  *)
LEMMA TicksIs ==
  ASSUME NEW c \in Tick, NEW r \in -1..(Half - 1), NEW x, x = (c + r) % RANGE
  PROVE  /\ Ticks(c, x) = r
         /\ (c - x) % RANGE < Half <=> r <= 0
<1>1. x \in Tick /\ x \in {c + r, c + r - RANGE, c + r + RANGE}
  BY SumOf
<1>2. /\ c \in Int /\ r \in Int /\ x \in Int /\ -r \in -Half..Half /\ r \in -Half..Half
      /\ -1 <= r /\ r < Half
  BY <1>1, HalfRange DEF Tick
<1>3. c - x \in {-r, -r - RANGE, -r + RANGE} /\ x - c \in {r, r - RANGE, r + RANGE}
  BY <1>1, <1>2, HalfRange
<1>4. (c - x) % RANGE = IF -r >= 0 THEN -r ELSE -r + RANGE
  BY <1>1, <1>2, <1>3, DifferenceOf
<1>5. (x - c) % RANGE = IF r >= 0 THEN r ELSE r + RANGE
  BY <1>1, <1>2, <1>3, DifferenceOf
<1>6. (c - x) % RANGE < Half <=> r <= 0
  BY <1>2, <1>4, HalfRange
<1>7. QED
  BY <1>2, <1>4, <1>5, <1>6 DEF Ticks

LEMMA RemainingIs ==
  /\ \A t : Remaining(t) = IF InList(t) THEN Ticks(tick, timeout[t]) ELSE Off
  /\ \A t : Remaining(t)' = IF InList(t)' THEN Ticks(tick', timeout'[t]) ELSE Off
  /\ \A t : Expired(t) <=> (tick - timeout[t]) % RANGE < Half
  /\ \A t : Expired(t)' <=> (tick' - timeout'[t]) % RANGE < Half
BY DEF Remaining, Expired, Ticks

LEMMA LaterIs ==
  ASSUME tick \in Tick, NEW t, NEW r, Left(t, r), NEW d \in Delay
  PROVE  Later(timeout[t], (tick + d) % RANGE) <=> r > d
<1>1. r \in -1..(Half - 1) /\ timeout[t] = (tick + r) % RANGE /\ d \in -1..(Half - 1)
  BY HalfRange DEF Left, Delay
<1> DEFINE x == timeout[t]  y == (tick + d) % RANGE
<1>2. x \in Tick /\ x \in {tick + r, tick + r - RANGE, tick + r + RANGE}
  BY <1>1, SumOf
<1>3. y \in Tick /\ y \in {tick + d, tick + d - RANGE, tick + d + RANGE}
  BY <1>1, SumOf
<1> HIDE DEF x, y
<1>4. /\ tick \in Int /\ r \in Int /\ d \in Int /\ x \in Int /\ y \in Int
      /\ r - d \in -Half..Half /\ 0 <= d /\ r - d < Half
  BY <1>1, <1>2, <1>3, HalfRange DEF Tick, Delay
<1>5. /\ 0 <= x /\ x < RANGE /\ 0 <= y /\ y < RANGE
      /\ -Half <= r - d /\ r - d <= Half
  BY <1>2, <1>3, <1>4, HalfRange DEF Tick
<1>6. x - y \in {r - d, r - d - RANGE, r - d + RANGE}
  BY <1>2, <1>3, <1>4, <1>5, HalfRange
<1>7. (x - y) % RANGE = IF r - d >= 0 THEN r - d ELSE r - d + RANGE
  BY <1>2, <1>3, <1>4, <1>6, DifferenceOf
<1>8. Later(x, y) <=> (x - y) % RANGE # 0 /\ (x - y) % RANGE < Half
  BY DEF Later
<1>9. Later(x, y) <=> r > d
  BY <1>4, <1>5, <1>7, <1>8, HalfRange
<1>10. QED
  BY <1>9 DEF x, y
-----------------------------------------------------------------------------
(* Every step keeps the invariant and changes what the timers have left as   *)
(* the promise says.                                                         *)
LEMMA StaysInTime ==
  ASSUME NEW u \in Timer, InList(u), InTime(u), InList(u)', tick' = tick,
         timeout'[u] = timeout[u], init'[u] = init[u],
         ~due' => ~due \/ Remaining(u) > 0
  PROVE  InTime(u)' /\ Remaining(u)' = Remaining(u)
<1>1. Remaining(u)' = Remaining(u) /\ (Expired(u)' <=> Expired(u))
  BY RemainingIs
<1>2. Remaining(u) \in Int
  BY HalfRange DEF InTime, Left
<1>3. Left(u, Remaining(u))'
  BY <1>1 DEF InTime, Left
<1>4. QED
  BY <1>1, <1>2, <1>3 DEF InTime

LEMMA StartsInTime ==
  ASSUME NEW t \in Timer, NEW d \in Delay, tick \in Tick, tick' = tick, InList(t)',
         timeout'[t] = (tick + d) % RANGE, init'[t] = d
  PROVE  InTime(t)' /\ Remaining(t)' = d
<1>1. d \in -1..(Half - 1) /\ d \in Int /\ d >= 0
  BY HalfRange DEF Delay
<1>2. Remaining(t)' = d /\ (Expired(t)' <=> d <= 0)
  <2>1. Ticks(tick', timeout'[t]) = d /\ ((tick' - timeout'[t]) % RANGE < Half <=> d <= 0)
    BY <1>1, TicksIs
  <2>2. QED
    BY <2>1, RemainingIs
<1>3. Left(t, Remaining(t))'
  BY <1>1, <1>2 DEF Left
<1>4. QED
  BY <1>1, <1>2, <1>3 DEF InTime

LEMMA ListFacts ==
  ASSUME TypeOK
  PROVE  /\ list \in Seq(Timer) /\ Distinct(list)
         /\ \A u : InList(u) => u \in Timer
         /\ \A u, v : Ahead(list, u, v) => InList(u) /\ InList(v) /\ u # v
<1>1. list \in Seq(Timer) /\ Distinct(list) /\ \A i \in 1..Len(list) : list[i] \in Timer
  BY ElementOfSeq DEF TypeOK, Distinct
<1>2. Len(list) \in Nat
  BY <1>1, LenProperties
<1>3. QED
  BY <1>1, <1>2 DEF InList, Contains, Ahead, Distinct

LEMMA StartStep ==
  ASSUME Inv, NEW t \in Timer, NEW d \in Delay, Start(t, d)
  PROVE  /\ Inv' /\ init' = [init EXCEPT ![t] = d]
         /\ \A u \in Timer : Remaining(u)' = IF u = t THEN d ELSE Remaining(u)
<1> DEFINE l == RemoveFirst(list, t)  when == (tick + d) % RANGE
<1>1. PICK i \in 0..Len(l) : Place(l, i, when) /\ list' = InsertAt(l, i + 1, t)
  BY DEF Start
<1>2. /\ timeout' = [timeout EXCEPT ![t] = when] /\ init' = [init EXCEPT ![t] = d]
      /\ before' = [Keep(l) EXCEPT ![t] = {u \in Timer : Contains(l, u)}]
      /\ tick' = tick /\ due' = due
  BY DEF Start
<1>3. /\ tick \in Tick /\ due \in BOOLEAN /\ timeout \in [Timer -> Tick]
      /\ init \in [Timer -> Delay] /\ before \in [Timer -> SUBSET Timer]
  BY DEF Inv, TypeOK
<1>4. /\ list \in Seq(Timer) /\ Distinct(list)
      /\ \A u : InList(u) => u \in Timer
      /\ \A u, v : Ahead(list, u, v) => InList(u) /\ InList(v) /\ u # v
  BY ListFacts DEF Inv
<1>5. /\ l \in Seq(Timer) /\ Distinct(l)
      /\ \A u : Contains(l, u) <=> InList(u) /\ u # t
      /\ \A u, v : Ahead(l, u, v) <=> Ahead(list, u, v) /\ u # t /\ v # t
  BY <1>4, RemoveFirstDrops DEF InList
<1> HIDE DEF l
<1>6. /\ list' \in Seq(Timer) /\ Distinct(list')
      /\ \A u : InList(u)' <=> Contains(l, u) \/ u = t
      /\ \A u, v : Ahead(list', u, v) <=>
           \/ Ahead(l, u, v)
           \/ u = t /\ \E j \in (i + 1)..Len(l) : l[j] = v
           \/ v = t /\ \E j \in 1..i : l[j] = u
  <2> DEFINE r == InsertAt(l, i + 1, t)
  <2>1. l \in Seq(Timer) /\ Distinct(l) /\ ~Contains(l, t)
    BY <1>5
  <2>2. /\ r \in Seq(Timer) /\ Distinct(r)
        /\ \A u : Contains(r, u) <=> Contains(l, u) \/ u = t
        /\ \A u, v : Ahead(r, u, v) <=>
             \/ Ahead(l, u, v)
             \/ u = t /\ \E j \in (i + 1)..Len(l) : l[j] = v
             \/ v = t /\ \E j \in 1..i : l[j] = u
    BY <2>1, InsertAtAdds
  <2>3. list' = r
    BY <1>1
  <2> HIDE DEF r
  <2>4. QED
    BY <2>2, <2>3 DEF InList
<1>7. /\ when \in Tick
      /\ \A u \in Timer : /\ timeout'[u] = IF u = t THEN when ELSE timeout[u]
                          /\ init'[u] = IF u = t THEN d ELSE init[u]
                          /\ before'[u] = IF u = t THEN {v \in Timer : Contains(l, v)}
                               ELSE {v \in before[u] : Contains(l, u) /\ Contains(l, v)}
  <2>1. d \in -1..(Half - 1)
    BY HalfRange DEF Delay
  <2>2. when \in Tick
    BY <1>3, <2>1, SumOf
  <2>3. QED
    BY <1>2, <1>3, <2>2 DEF Keep
<1>8. InTime(t)' /\ Remaining(t)' = d
  BY <1>2, <1>3, <1>6, <1>7, StartsInTime
<1>9. ASSUME NEW u \in Timer, InList(u), u # t
      PROVE  InTime(u)' /\ Remaining(u)' = Remaining(u)
  <2>1. InList(u)' /\ InTime(u)
    BY <1>5, <1>6, <1>9 DEF Inv, OnTime
  <2>2. timeout'[u] = timeout[u] /\ init'[u] = init[u]
    BY <1>7, <1>9
  <2>3. QED
    BY <1>2, <1>9, <2>1, <2>2, StaysInTime
<1>10. \A u \in Timer : Remaining(u)' = IF u = t THEN d ELSE Remaining(u)
  <2>1. ASSUME NEW u \in Timer, ~InList(u), u # t PROVE Remaining(u)' = Remaining(u)
    BY <1>5, <1>6, <2>1, RemainingIs
  <2>2. QED
    BY <1>8, <1>9, <2>1
<1>11. OnTime'
  BY <1>5, <1>6, <1>8, <1>9 DEF OnTime
<1>12. ASSUME NEW j \in 1..Len(l)
       PROVE  /\ l[j] \in Timer /\ l[j] # t /\ InList(l[j]) /\ Remaining(l[j]) \in Int
              /\ Left(l[j], Remaining(l[j]))
              /\ Later(timeout[l[j]], when) <=> Remaining(l[j]) > d
  <2>1. Contains(l, l[j])
    BY DEF Contains
  <2>2. InList(l[j]) /\ l[j] # t /\ l[j] \in Timer
    BY <1>4, <1>5, <2>1
  <2>3. Left(l[j], Remaining(l[j])) /\ Remaining(l[j]) \in Int
    BY <2>2, HalfRange DEF Inv, OnTime, InTime, Left
  <2>4. QED
    BY <1>3, <2>2, <2>3, LaterIs
<1>13. d \in Int /\ Len(l) \in Nat /\ i \in Nat /\ i <= Len(l)
  BY <1>5, LenProperties, HalfRange DEF Delay
<1>14. ASSUME NEW j \in 1..i PROVE Remaining(l[j]) <= d
  <2>1. j \in 1..Len(l) /\ ~Later(timeout[l[j]], when)
    BY <1>1, <1>13 DEF Place
  <2>2. QED
    BY <1>12, <1>13, <2>1
<1>15. ASSUME NEW j \in (i + 1)..Len(l) PROVE Remaining(l[j]) > d
  <2>1. i + 1 \in 1..Len(l) /\ j \in 1..Len(l) /\ Later(timeout[l[i + 1]], when)
    BY <1>1, <1>13 DEF Place
  <2>2. Remaining(l[i + 1]) > d
    BY <1>12, <2>1
  <2>3. CASE j = i + 1
    BY <2>2, <2>3
  <2>4. CASE j # i + 1
    <3>1. Ahead(l, l[i + 1], l[j])
      <4>1. i + 1 < j
        BY <1>13, <2>4
      <4>2. QED
        BY <2>1, <4>1 DEF Ahead
    <3>2. Remaining(l[i + 1]) <= Remaining(l[j])
      BY <1>5, <1>12, <2>1, <3>1 DEF Inv, InOrder
    <3>3. QED
      BY <1>12, <1>13, <2>1, <2>2, <3>2
  <2>5. QED
    BY <2>3, <2>4
<1>16. InOrder'
  <2> SUFFICES ASSUME NEW u \in Timer, NEW v \in Timer, Ahead(list', u, v)
               PROVE  Remaining(u)' <= Remaining(v)'
    BY DEF InOrder
  <2>1. CASE Ahead(l, u, v)
    BY <1>5, <1>10, <2>1 DEF Inv, InOrder
  <2>2. CASE u = t /\ \E j \in (i + 1)..Len(l) : l[j] = v
    <3>1. PICK j \in (i + 1)..Len(l) : l[j] = v
      BY <2>2
    <3>2. j \in 1..Len(l) /\ Remaining(v) > d
      BY <1>13, <1>15, <3>1
    <3>3. v # t /\ Remaining(v) \in Int
      BY <1>12, <3>1, <3>2
    <3>4. QED
      BY <1>10, <1>13, <2>2, <3>2, <3>3
  <2>3. CASE v = t /\ \E j \in 1..i : l[j] = u
    <3>1. PICK j \in 1..i : l[j] = u
      BY <2>3
    <3>2. j \in 1..Len(l) /\ Remaining(u) <= d
      BY <1>13, <1>14, <3>1
    <3>3. u # t
      BY <1>12, <3>1, <3>2
    <3>4. QED
      BY <1>10, <2>3, <3>2, <3>3
  <2>4. QED
    BY <1>6, <2>1, <2>2, <2>3
<1>17. Early'
  <2> SUFFICES ASSUME NEW v \in Timer, NEW u \in before'[v], InList(v)', InList(u)',
                      timeout'[u] = timeout'[v]
               PROVE  Ahead(list', u, v)
    BY DEF Early
  <2>1. CASE v = t
    <3>1. u \in Timer /\ Contains(l, u) /\ u # t
      BY <1>5, <1>7, <2>1
    <3>2. PICK j \in 1..Len(l) : l[j] = u
      BY <3>1 DEF Contains
    <3>3. timeout[u] = when
      BY <1>7, <2>1, <3>1
    <3>4. Remaining(u) = d
      <4>1. InList(u) /\ d \in -1..(Half - 1)
        BY <1>12, <3>2, HalfRange DEF Delay
      <4>2. Ticks(tick, timeout[u]) = d
        BY <1>3, <3>3, <4>1, TicksIs
      <4>3. QED
        BY <4>1, <4>2, RemainingIs
    <3>5. j \in 1..i
      <4>1. CASE j \in (i + 1)..Len(l)
        <5>1. Remaining(u) > d
          BY <1>15, <3>2, <4>1
        <5>2. QED
          BY <1>13, <3>4, <5>1
      <4>2. QED
        BY <1>13, <4>1
    <3>6. QED
      BY <1>6, <2>1, <3>2, <3>5
  <2>2. CASE v # t
    <3>1. u \in before[v] /\ Contains(l, v) /\ Contains(l, u) /\ u \in Timer
      BY <1>3, <1>7, <2>2
    <3>2. InList(v) /\ InList(u) /\ u # t
      BY <1>5, <3>1
    <3>3. timeout[u] = timeout[v]
      BY <1>7, <2>2, <3>1, <3>2
    <3>4. Ahead(list, u, v)
      BY <3>1, <3>2, <3>3 DEF Inv, Early
    <3>5. QED
      BY <1>5, <1>6, <2>2, <3>2, <3>4
  <2>3. QED
    BY <2>1, <2>2
<1>18. TypeOK'
  <2>1. timeout' \in [Timer -> Tick] /\ init' \in [Timer -> Delay]
    BY <1>2, <1>3, <1>7
  <2>2. before' \in [Timer -> SUBSET Timer]
    BY <1>2, <1>3, <1>7 DEF Keep
  <2>3. QED
    BY <1>2, <1>3, <1>6, <2>1, <2>2 DEF TypeOK, Distinct
<1>19. QED
  BY <1>2, <1>10, <1>11, <1>16, <1>17, <1>18 DEF Inv

(* Timers leave the list and nothing else changes for the others. *)
LEMMA DropsInv ==
  ASSUME Inv, UNCHANGED <<tick, timeout, init>>, due' \in BOOLEAN,
         list' \in Seq(Timer), Distinct(list'), before' = Keep(list'),
         \A u : InList(u)' => InList(u),
         \A u, v : Ahead(list', u, v) <=> Ahead(list, u, v) /\ InList(u)' /\ InList(v)',
         ~due' => ~due \/ \A u \in Timer : InList(u)' => Remaining(u) > 0
  PROVE  Inv' /\ \A u \in Timer : Remaining(u)' = IF InList(u)' THEN Remaining(u) ELSE Off
<1>1. ASSUME NEW u \in Timer, InList(u)' PROVE InTime(u)' /\ Remaining(u)' = Remaining(u)
  <2>1. InList(u) /\ InTime(u)
    BY <1>1 DEF Inv, OnTime
  <2>2. ~due' => ~due \/ Remaining(u) > 0
    BY <1>1
  <2>3. QED
    BY <1>1, <2>1, <2>2, StaysInTime
<1>2. \A u \in Timer : Remaining(u)' = IF InList(u)' THEN Remaining(u) ELSE Off
  BY <1>1, RemainingIs
<1>3. OnTime'
  BY <1>1 DEF OnTime
<1>4. InOrder'
  <2> SUFFICES ASSUME NEW u \in Timer, NEW v \in Timer, Ahead(list', u, v)
               PROVE  Remaining(u)' <= Remaining(v)'
    BY DEF InOrder
  <2>1. Ahead(list, u, v) /\ InList(u)' /\ InList(v)'
    OBVIOUS
  <2>2. QED
    BY <1>1, <2>1 DEF Inv, InOrder
<1>5. before \in [Timer -> SUBSET Timer]
  BY DEF Inv, TypeOK
<1>6. \A t \in Timer : before'[t] \subseteq before[t]
  BY DEF Keep
<1>7. Early'
  BY <1>5, <1>6 DEF Inv, Early
<1>8. TypeOK'
  <2>1. before' \in [Timer -> SUBSET Timer]
    BY <1>5 DEF Keep
  <2>2. QED
    BY <2>1 DEF Inv, TypeOK, Distinct
<1>9. QED
  BY <1>2, <1>3, <1>4, <1>7, <1>8 DEF Inv

LEMMA StopStep ==
  ASSUME Inv, NEW t \in Timer, Stop(t)
  PROVE  /\ Inv' /\ init' = init /\ InList(t)
         /\ \A u \in Timer : Remaining(u)' = IF u = t THEN Off ELSE Remaining(u)
<1>1. /\ InList(t) /\ list' = RemoveFirst(list, t) /\ before' = Keep(list')
      /\ UNCHANGED <<tick, due, timeout, init>>
  BY DEF Stop
<1>2. /\ list \in Seq(Timer) /\ Distinct(list)
      /\ \A u, v : Ahead(list, u, v) => InList(u) /\ InList(v) /\ u # v
  BY ListFacts DEF Inv
<1>3. /\ list' \in Seq(Timer) /\ Distinct(list')
      /\ \A u : InList(u)' <=> InList(u) /\ u # t
      /\ \A u, v : Ahead(list', u, v) <=> Ahead(list, u, v) /\ u # t /\ v # t
  BY <1>1, <1>2, RemoveFirstDrops DEF InList
<1>4. \A u, v : Ahead(list', u, v) <=> Ahead(list, u, v) /\ InList(u)' /\ InList(v)'
  BY <1>2, <1>3
<1>5. due' \in BOOLEAN /\ (~due' => ~due)
  BY <1>1 DEF Inv, TypeOK
<1>6. Inv' /\ \A u \in Timer : Remaining(u)' = IF InList(u)' THEN Remaining(u) ELSE Off
  BY <1>1, <1>3, <1>4, <1>5, DropsInv
<1>7. ASSUME NEW u \in Timer PROVE Remaining(u)' = IF u = t THEN Off ELSE Remaining(u)
  BY <1>3, <1>6, RemainingIs
<1>8. QED
  BY <1>1, <1>6, <1>7

LEMMA CheckStep ==
  ASSUME Inv, NEW cpu \in {0, 1}, Check(cpu)
  PROVE  /\ Inv' /\ init' = init
         /\ \A u \in Timer : Remaining(u)' = IF InList(u) /\ Remaining(u) <= 0 THEN Off
                                             ELSE Remaining(u)
<1>1. PICK k \in 0..Len(list) : /\ \A i \in 1..k : Expired(list[i])
                                /\ k < Len(list) => ~Expired(list[k + 1])
                                /\ list' = SubSeq(list, k + 1, Len(list))
  BY DEF Check
<1>2. before' = Keep(list') /\ UNCHANGED <<tick, timeout, init>> /\ due' = (due /\ cpu # 0)
  BY DEF Check
<1>3. /\ list \in Seq(Timer) /\ Distinct(list)
      /\ \A u : InList(u) => u \in Timer
      /\ \A u, v : Ahead(list, u, v) => InList(u) /\ InList(v) /\ u # v
  BY ListFacts DEF Inv
<1>4. /\ list' \in Seq(Timer) /\ Distinct(list')
      /\ \A u : InList(u)' <=> \E j \in (k + 1)..Len(list) : list[j] = u
      /\ \A u, v : Ahead(list', u, v) <=> Ahead(list, u, v) /\ InList(u)' /\ InList(v)'
  BY <1>1, <1>3, SuffixKeeps DEF InList
<1>5. Len(list) \in Nat /\ k \in Nat /\ k <= Len(list)
  BY <1>3, LenProperties
<1>6. ASSUME NEW j \in 1..Len(list)
      PROVE  /\ list[j] \in Timer /\ InList(list[j]) /\ Remaining(list[j]) \in Int
             /\ Expired(list[j]) <=> Remaining(list[j]) <= 0
  <2>1. InList(list[j])
    BY DEF InList, Contains
  <2>2. list[j] \in Timer
    BY <1>3, <2>1
  <2>3. InTime(list[j])
    BY <2>1, <2>2 DEF Inv, OnTime
  <2>4. QED
    BY <2>1, <2>2, <2>3, HalfRange DEF InTime, Left
<1>7. ASSUME NEW j \in 1..k PROVE Remaining(list[j]) <= 0
  BY <1>1, <1>5, <1>6
<1>8. ASSUME NEW j \in (k + 1)..Len(list) PROVE Remaining(list[j]) > 0
  <2>1. k + 1 \in 1..Len(list) /\ j \in 1..Len(list) /\ ~Expired(list[k + 1])
    BY <1>1, <1>5
  <2>2. Remaining(list[k + 1]) > 0
    BY <1>6, <2>1
  <2>3. CASE j = k + 1
    BY <2>2, <2>3
  <2>4. CASE j # k + 1
    <3>1. Ahead(list, list[k + 1], list[j])
      <4>1. k + 1 < j
        BY <1>5, <2>4
      <4>2. QED
        BY <2>1, <4>1 DEF Ahead
    <3>2. Remaining(list[k + 1]) <= Remaining(list[j])
      BY <1>6, <2>1, <3>1 DEF Inv, InOrder
    <3>3. QED
      BY <1>6, <2>1, <2>2, <3>2
  <2>5. QED
    BY <2>3, <2>4
<1>9. ASSUME NEW u PROVE InList(u)' <=> InList(u) /\ Remaining(u) > 0
  <2>1. ASSUME InList(u)' PROVE InList(u) /\ Remaining(u) > 0
    <3>1. PICK j \in (k + 1)..Len(list) : list[j] = u
      BY <1>4, <2>1
    <3>2. j \in 1..Len(list)
      BY <1>5
    <3>3. QED
      BY <1>6, <1>8, <3>1, <3>2
  <2>2. ASSUME InList(u), Remaining(u) > 0 PROVE InList(u)'
    <3>1. PICK j \in 1..Len(list) : list[j] = u
      BY <2>2 DEF InList, Contains
    <3>2. j \notin 1..k
      <4>1. ASSUME j \in 1..k PROVE FALSE
        <5>1. Remaining(u) <= 0 /\ Remaining(u) \in Int
          BY <1>6, <1>7, <3>1, <4>1
        <5>2. QED
          BY <2>2, <5>1
      <4>2. QED
        BY <4>1
    <3>3. j \in (k + 1)..Len(list)
      BY <1>5, <3>2
    <3>4. QED
      BY <1>4, <3>1, <3>3
  <2>3. QED
    BY <2>1, <2>2
<1>10. due' \in BOOLEAN
  BY <1>2
<1>11. /\ \A u : InList(u)' => InList(u)
       /\ \A u \in Timer : InList(u)' => Remaining(u) > 0
  BY <1>9
<1>12. Inv' /\ \A u \in Timer : Remaining(u)' = IF InList(u)' THEN Remaining(u) ELSE Off
  BY <1>2, <1>4, <1>10, <1>11, DropsInv
<1>13. ASSUME NEW u \in Timer
       PROVE  Remaining(u)' = IF InList(u) /\ Remaining(u) <= 0 THEN Off ELSE Remaining(u)
  <2>1. CASE InList(u)
    <3>1. Remaining(u) \in Int
      BY <2>1, HalfRange DEF Inv, OnTime, InTime, Left
    <3>2. QED
      BY <1>9, <1>12, <2>1, <3>1
  <2>2. CASE ~InList(u)
    BY <1>9, <1>12, <2>2, RemainingIs
  <2>3. QED
    BY <2>1, <2>2
<1>14. QED
  BY <1>2, <1>12, <1>13

LEMMA IncreaseStep ==
  ASSUME Inv, Increase
  PROVE  /\ Inv' /\ init' = init
         /\ \A u \in Timer : InList(u) => Remaining(u) > 0 \/ (Remaining(u) = 0 /\ init[u] = 0)
         /\ \A u \in Timer : Remaining(u)' = IF InList(u) THEN Remaining(u) - 1 ELSE Off
<1>1. /\ due = FALSE /\ due' = TRUE /\ tick' = (tick + 1) % RANGE
      /\ UNCHANGED <<list, timeout, init, before>>
  BY DEF Increase, Inv, TypeOK
<1>2. \A u : InList(u)' <=> InList(u)
  BY <1>1 DEF InList
<1>3. tick \in Tick /\ tick' \in Tick /\ tick' \in {tick + 1, tick + 1 - RANGE, tick + 1 + RANGE}
  <2>1. tick \in Tick /\ 1 \in -1..(Half - 1)
    BY HalfRange DEF Inv, TypeOK
  <2>2. QED
    BY <1>1, <2>1, SumOf
<1>4. ASSUME NEW u \in Timer, InList(u)
      PROVE  /\ InTime(u)' /\ Remaining(u)' = Remaining(u) - 1 /\ Remaining(u) \in Int
             /\ Remaining(u) > 0 \/ (Remaining(u) = 0 /\ init[u] = 0)
  <2> DEFINE r == Remaining(u)
  <2>1. InTime(u)
    BY <1>4 DEF Inv, OnTime
  <2>2. /\ r \in 0..(Half - 1) /\ timeout[u] = (tick + r) % RANGE
        /\ r = 0 => init[u] = 0
    BY <1>1, <2>1, HalfRange DEF InTime, Left
  <2> HIDE DEF r
  <2>3. r \in -1..(Half - 1) /\ r - 1 \in -1..(Half - 1) /\ r \in Int
    BY <2>2, HalfRange
  <2>4. timeout[u] = (tick' + (r - 1)) % RANGE
    <3>1. /\ (tick + r) % RANGE \in Tick
          /\ (tick + r) % RANGE \in {tick + r, tick + r - RANGE, tick + r + RANGE}
      BY <1>3, <2>3, SumOf
    <3>2. /\ (tick' + (r - 1)) % RANGE \in Tick
          /\ (tick' + (r - 1)) % RANGE \in {tick' + (r - 1), tick' + (r - 1) - RANGE,
                                            tick' + (r - 1) + RANGE}
      BY <1>3, <2>3, SumOf
    <3> DEFINE x == (tick + r) % RANGE  y == (tick' + (r - 1)) % RANGE
    <3>3. /\ tick \in Int /\ tick' \in Int /\ x \in Int /\ y \in Int /\ RANGE \in Int
          /\ 0 <= x /\ x < RANGE /\ 0 <= y /\ y < RANGE
      BY <1>3, <3>1, <3>2, HalfRange DEF Tick
    <3>4. /\ x \in {tick + r, tick + r - RANGE, tick + r + RANGE}
          /\ y \in {tick' + (r - 1), tick' + (r - 1) - RANGE, tick' + (r - 1) + RANGE}
      BY <3>1, <3>2
    <3> HIDE DEF x, y
    <3>5. x = y
      <4>1. r \in Int /\ tick' \in {tick + 1, tick + 1 - RANGE, tick + 1 + RANGE}
        BY <1>3, <2>3
      <4>2. CASE tick' = tick + 1
        BY <3>3, <3>4, <4>1, <4>2
      <4>3. CASE tick' = tick + 1 - RANGE
        BY <3>3, <3>4, <4>1, <4>3
      <4>4. CASE tick' = tick + 1 + RANGE
        BY <3>3, <3>4, <4>1, <4>4
      <4>5. QED
        BY <4>1, <4>2, <4>3, <4>4
    <3>6. QED
      BY <2>2, <3>5 DEF x, y
  <2>5. timeout'[u] = (tick' + (r - 1)) % RANGE
    BY <1>1, <2>4
  <2>6. Ticks(tick', timeout'[u]) = r - 1 /\ ((tick' - timeout'[u]) % RANGE < Half <=> r - 1 <= 0)
    BY <1>3, <2>3, <2>5, TicksIs
  <2>7. Remaining(u)' = r - 1 /\ (Expired(u)' <=> r - 1 <= 0)
    BY <1>2, <1>4, <2>6, RemainingIs
  <2>8. Left(u, Remaining(u))'
    BY <2>3, <2>5, <2>7 DEF Left
  <2>9. InTime(u)'
    BY <1>1, <2>7, <2>8 DEF InTime
  <2>10. r > 0 \/ (r = 0 /\ init[u] = 0)
    BY <2>2, <2>3
  <2>11. QED
    BY <2>3, <2>7, <2>9, <2>10 DEF r
<1>5. \A u \in Timer : Remaining(u)' = IF InList(u) THEN Remaining(u) - 1 ELSE Off
  BY <1>2, <1>4, RemainingIs
<1>6. OnTime'
  BY <1>2, <1>4 DEF OnTime
<1>7. InOrder'
  <2> SUFFICES ASSUME NEW u \in Timer, NEW v \in Timer, Ahead(list', u, v)
               PROVE  Remaining(u)' <= Remaining(v)'
    BY DEF InOrder
  <2>1. Ahead(list, u, v)
    BY <1>1
  <2>2. InList(u) /\ InList(v)
    BY <2>1, ListFacts DEF Inv
  <2>3. Remaining(u) <= Remaining(v)
    BY <2>1 DEF Inv, InOrder
  <2>4. QED
    BY <1>4, <2>2, <2>3
<1>8. Early'
  BY <1>1, <1>2 DEF Inv, Early
<1>9. TypeOK'
  BY <1>1, <1>3 DEF Inv, TypeOK
<1>10. QED
  BY <1>1, <1>4, <1>5, <1>6, <1>7, <1>8, <1>9 DEF Inv

-----------------------------------------------------------------------------
LEMMA InitInv == Init => Inv /\ \A t \in Timer : ~InList(t)
<1> SUFFICES ASSUME Init PROVE Inv /\ \A t \in Timer : ~InList(t)
  OBVIOUS
<1>1. /\ tick \in Tick /\ due = FALSE /\ list = <<>> /\ before = [t \in Timer |-> {}]
      /\ timeout = [t \in Timer |-> 0] /\ init = [t \in Timer |-> 0]
  BY DEF Init
<1>2. list \in Seq(Timer) /\ Len(list) = 0
  BY <1>1
<1>3. (\A t : ~InList(t)) /\ (\A u, v : ~Ahead(list, u, v)) /\ Distinct(list)
  BY <1>2 DEF InList, Contains, Ahead, Distinct
<1>4. 0 \in Tick /\ 0 \in Delay
  BY HalfRange DEF Tick, Delay
<1>5. due \in BOOLEAN
  BY <1>1, Zenon
<1>6. TypeOK
  BY <1>1, <1>2, <1>3, <1>4, <1>5 DEF TypeOK, Distinct
<1>7. QED
  BY <1>3, <1>6 DEF Inv, OnTime, InOrder, Early

LEMMA NextInv == Inv /\ [Next]_vars => Inv'
<1> SUFFICES ASSUME Inv, [Next]_vars PROVE Inv'
  OBVIOUS
<1>1. CASE Next
  BY <1>1, IncreaseStep, CheckStep, StopStep, StartStep DEF Next
<1>2. CASE UNCHANGED vars
  <2>1. \A u : /\ InList(u)' <=> InList(u)
               /\ Remaining(u)' = Remaining(u) /\ (InTime(u)' <=> InTime(u))
    BY <1>2 DEF vars, InList, Remaining, Expired, InTime, Left
  <2>2. QED
    BY <1>2, <2>1 DEF vars, Inv, TypeOK, OnTime, InOrder, Early
<1>3. QED
  BY <1>1, <1>2

(* timer.c: the invariant holds in every state, for every width of the tick. *)
THEOREM TimerInv == Spec => []Inv
BY InitInv, NextInv, PTL DEF Spec

(* rt_timer_start and rt_timer_check: the list of wrapping ticks stays       *)
(* sorted by the ticks that the timers have left, and every timer is in it   *)
(* at most once.                                                             *)
THEOREM TimerSorted == Spec => []Sorted
<1>1. Inv => Sorted
  <2> SUFFICES ASSUME Inv, NEW i \in 1..Len(list), NEW j \in 1..Len(list), i < j
               PROVE  Remaining(list[i]) <= Remaining(list[j])
    BY DEF Inv, Sorted
  <2>1. Ahead(list, list[i], list[j])
    BY DEF Ahead
  <2>2. list[i] \in Timer /\ list[j] \in Timer
    BY <2>1, ListFacts DEF Inv
  <2>3. QED
    BY <2>1, <2>2 DEF Inv, InOrder
<1>2. QED
  BY <1>1, TimerInv, PTL

(* rt_timer_start: timers of the same tick stand in the list in the order in *)
(* which they were started.                                                  *)
THEOREM TimerEarlyFirst == Spec => []EarlyFirst
<1>1. Inv => EarlyFirst
  <2> SUFFICES ASSUME Inv, NEW i \in 1..Len(list), NEW j \in 1..Len(list),
                      list[i] \in before[list[j]], timeout[list[i]] = timeout[list[j]]
               PROVE  i < j
    BY DEF EarlyFirst
  <2>1. InList(list[i]) /\ InList(list[j])
    BY DEF InList, Contains
  <2>2. list \in Seq(Timer) /\ Distinct(list) /\ list[i] \in Timer /\ list[j] \in Timer
    BY <2>1, ListFacts DEF Inv
  <2>3. Ahead(list, list[i], list[j])
    BY <2>1, <2>2 DEF Inv, Early
  <2>4. PICK p, q \in 1..Len(list) : p < q /\ list[p] = list[i] /\ list[q] = list[j]
    BY <2>3 DEF Ahead
  <2>5. p = i /\ q = j
    BY <2>2, <2>4 DEF Distinct
  <2>6. QED
    BY <2>4, <2>5
<1>2. QED
  BY <1>1, TimerInv, PTL

(* timer.c implements the timers of TimerPromise: a timer that is started    *)
(* for d ticks expires at the d-th tick, neither earlier nor later, however  *)
(* often the tick wraps and whatever else is started and stopped.            *)
THEOREM TimerKeepsPromise == Spec => Promise
<1> DEFINE left == [t \in Timer |-> Remaining(t)]
<1>1. Init => Abstract!PInit
  <2> SUFFICES ASSUME Init PROVE Abstract!PInit
    OBVIOUS
  <2>1. \A t \in Timer : Remaining(t) = Off
    BY InitInv, RemainingIs
  <2>2. left = [t \in Timer |-> Off] /\ init = [t \in Timer |-> 0]
    BY <2>1 DEF Init
  <2>3. QED
    BY <2>2 DEF Abstract!PInit
<1>2. Inv /\ [Next]_vars => [Abstract!PNext]_(Abstract!pvars)
  <2> SUFFICES ASSUME Inv, [Next]_vars PROVE [Abstract!PNext]_(Abstract!pvars)
    OBVIOUS
  <2>1. ASSUME NEW u \in Timer
        PROVE  /\ left[u] = Remaining(u)
               /\ InList(u) <=> left[u] # Off
               /\ InList(u) => left[u] \in Int
    <3>1. CASE InList(u)
      <4>1. Remaining(u) \in -1..(Half - 1)
        BY <3>1 DEF Inv, OnTime, InTime, Left
      <4>2. Remaining(u) # Off /\ Remaining(u) \in Int
        BY <4>1, HalfRange DEF Off
      <4>3. QED
        BY <3>1, <4>2
    <3>2. CASE ~InList(u)
      BY <3>2, RemainingIs
    <3>3. QED
      BY <3>1, <3>2
  <2>2. init \in [Timer -> Delay]
    BY DEF Inv, TypeOK
  <2>3. CASE Increase
    <3>1. /\ init' = init
          /\ \A u \in Timer : InList(u) => Remaining(u) > 0 \/ (Remaining(u) = 0 /\ init[u] = 0)
          /\ \A u \in Timer : Remaining(u)' = IF InList(u) THEN Remaining(u) - 1 ELSE Off
      BY <2>3, IncreaseStep
    <3>2. left' = [u \in Timer |-> IF left[u] # Off THEN left[u] - 1 ELSE Off]
      BY <2>1, <3>1
    <3>3. \A u \in Timer : left[u] # Off => left[u] > 0 \/ (left[u] = 0 /\ init[u] = 0)
      BY <2>1, <3>1
    <3>4. Abstract!PTick
      BY <3>1, <3>2, <3>3 DEF Abstract!PTick, Abstract!Running
    <3>5. QED
      BY <3>4 DEF Abstract!PNext
  <2>4. ASSUME NEW cpu \in {0, 1}, Check(cpu) PROVE Abstract!PExpire
    <3>1. /\ init' = init
          /\ \A u \in Timer : Remaining(u)' = IF InList(u) /\ Remaining(u) <= 0 THEN Off
                                              ELSE Remaining(u)
      BY <2>4, CheckStep
    <3>2. left' = [u \in Timer |-> IF left[u] # Off /\ left[u] <= 0 THEN Off ELSE left[u]]
      BY <2>1, <3>1
    <3>3. QED
      BY <3>1, <3>2 DEF Abstract!PExpire, Abstract!Running
  <2>5. ASSUME NEW t \in Timer, Stop(t) PROVE Abstract!PStop(t)
    <3>1. /\ init' = init /\ InList(t)
          /\ \A u \in Timer : Remaining(u)' = IF u = t THEN Off ELSE Remaining(u)
      BY <2>5, StopStep
    <3>2. left' = [left EXCEPT ![t] = Off] /\ left[t] # Off
      BY <2>1, <3>1
    <3>3. QED
      BY <3>1, <3>2 DEF Abstract!PStop, Abstract!Running
  <2>6. ASSUME NEW t \in Timer, NEW d \in Delay, Start(t, d) PROVE Abstract!PStart(t, d)
    <3>1. /\ init' = [init EXCEPT ![t] = d]
          /\ \A u \in Timer : Remaining(u)' = IF u = t THEN d ELSE Remaining(u)
      BY <2>6, StartStep
    <3>2. left' = [left EXCEPT ![t] = d]
      BY <2>1, <3>1
    <3>3. QED
      BY <3>1, <3>2 DEF Abstract!PStart
  <2>7. CASE UNCHANGED vars
    <3>1. init' = init /\ \A u \in Timer : Remaining(u)' = Remaining(u)
      BY <2>7 DEF vars, Remaining, Expired, InList
    <3>2. QED
      BY <3>1 DEF Abstract!pvars
  <2>8. QED
    BY <2>3, <2>4, <2>5, <2>6, <2>7 DEF Next, Abstract!PNext
<1>3. QED
  BY <1>1, <1>2, TimerInv, PTL DEF Spec, Promise, Abstract!PSpec
=============================================================================
