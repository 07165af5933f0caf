---------------------------- MODULE TouchProofs -----------------------------
(***************************************************************************)
(* Proofs about the touch screen: the driver's press state, its event and  *)
(* what LVGL is told agree after any sequence of readings and bus errors;  *)
(* and, for filters of any length, the running median is the middle of the *)
(* last samples and the running mean their average.                        *)
(***************************************************************************)
EXTENDS TouchPanel, AxisFilter, NaturalsInduction, WellFoundedInduction, FiniteSetTheorems, TLAPS

-----------------------------------------------------------------------------
(* The panel. *)

MedianFields == {"buffer", "index", "length", "position", "count"}
MeanFields == {"buffer", "length", "index", "count", "sum"}

(* The filters are C structs: their fields never change. *)
Structs ==
  /\ DOMAIN filter = {"mx", "my", "nx", "ny", "cal"}
  /\ DOMAIN filter.mx = MedianFields /\ DOMAIN filter.my = MedianFields
  /\ DOMAIN filter.nx = MeanFields /\ DOMAIN filter.ny = MeanFields

Cleared ==
  /\ filter.mx.count = 0 /\ filter.my.count = 0
  /\ filter.nx.count = 0 /\ filter.ny.count = 0
  /\ filter.nx.sum = 0 /\ filter.ny.sum = 0

(* The last event is about the press that the driver is in, and where it is. *)
EventFits ==
  /\ press = 1 => event.type \in {"NONE", "BEGIN", "MOVE"}
  /\ press = 0 => event.type \in {"NONE", "END"}
  /\ event.type # "NONE" => event.at = last

Told ==
  /\ touchDown <=> press = 1
  /\ report.state = IF press = 1 THEN "PR" ELSE "REL"
  /\ report.state = "PR" =>
       report.point = IF event.type = "NONE" THEN Origin ELSE last

PanelInv ==
  /\ press \in {0, 1} /\ touchDown \in BOOLEAN
  /\ Structs /\ (press = 0 => Cleared)
  /\ EventFits /\ Told

LEMMA PanelInit == Init => PanelInv
<1> SUFFICES ASSUME Init PROVE PanelInv
  OBVIOUS
<1>1. Structs
  BY DEF Init, Structs, tsfilter_alloc, median_alloc, mean_alloc, MedianFields, MeanFields
<1>2. Cleared
  BY DEF Init, Cleared, tsfilter_alloc, median_alloc, mean_alloc
<1>3. EventFits /\ Told
  BY DEF Init, EventFits, Told
<1>4. QED
  BY <1>1, <1>2, <1>3 DEF Init, PanelInv

(* An update gives structs again. *)
LEMMA UpdateStructs ==
  ASSUME Structs, NEW x, NEW y, filter' = tsfilter_update(filter, x, y).filter
  PROVE  Structs'
<1> DEFINE mx == median_update(filter.mx, x)
           my == median_update(filter.my, y)
           nx == mean_update(filter.nx, mx.result)
           ny == mean_update(filter.ny, my.result)
<1>1. DOMAIN mx.filter = MedianFields /\ DOMAIN my.filter = MedianFields
  BY DEF Structs, median_update
<1>2. DOMAIN nx.filter = MeanFields /\ DOMAIN ny.filter = MeanFields
  <2> HIDE DEF mx, my
  <2>1. QED
    BY DEF Structs, mean_update
<1>3. filter' = [filter EXCEPT !.mx = mx.filter, !.my = my.filter, !.nx = nx.filter, !.ny = ny.filter]
  BY DEF tsfilter_update
<1> HIDE DEF mx, my, nx, ny
<1>4. QED
  BY <1>1, <1>2, <1>3 DEF Structs

LEMMA ClearStructs ==
  ASSUME Structs, filter' = tsfilter_clear(filter)
  PROVE  Structs' /\ Cleared'
<1> DEFINE mx == median_clear(filter.mx)
           my == median_clear(filter.my)
           nx == mean_clear(filter.nx)
           ny == mean_clear(filter.ny)
<1>1. DOMAIN mx = MedianFields /\ DOMAIN my = MedianFields /\ mx.count = 0 /\ my.count = 0
  BY DEF Structs, median_clear, MedianFields
<1>2. /\ DOMAIN nx = MeanFields /\ DOMAIN ny = MeanFields
      /\ nx.count = 0 /\ ny.count = 0 /\ nx.sum = 0 /\ ny.sum = 0
  BY DEF Structs, mean_clear, MeanFields
<1>3. filter' = [filter EXCEPT !.mx = mx, !.my = my, !.nx = nx, !.ny = ny]
  BY DEF tsfilter_clear
<1> HIDE DEF mx, my, nx, ny
<1>4. QED
  BY <1>1, <1>2, <1>3 DEF Structs, Cleared

(* What input_read makes of the event that the poll left. *)
LEMMA DeliverTold ==
  ASSUME Deliver, EventFits', press' \in {0, 1},
         press' = 1 => (press = 1 /\ touchDown) \/ event'.type = "BEGIN",
         press' = 0 => (press = 0 /\ ~touchDown) \/ event'.type = "END",
         touchDown \in BOOLEAN
  PROVE  Told' /\ touchDown' \in BOOLEAN
<1>1. touchDown' = (press' = 1)
  BY DEF Deliver, EventFits
<1>2. report' = [point |-> IF event'.type = "NONE" THEN Origin ELSE event'.at,
                 state |-> IF touchDown' THEN "PR" ELSE "REL"]
  BY DEF Deliver
<1>3. QED
  BY <1>1, <1>2 DEF Told, EventFits

LEMMA PanelStep ==
  ASSUME PanelInv, [Next]_vars
  PROVE  PanelInv'
<1>1. /\ press \in {0, 1} /\ touchDown \in BOOLEAN /\ Structs /\ (press = 0 => Cleared)
      /\ EventFits /\ Told
  BY DEF PanelInv
<1>2. CASE MoveFinger \/ UNCHANGED vars
  <2>1. UNCHANGED <<filter, last, press, event, touchDown, report>>
    BY <1>2 DEF MoveFinger, vars
  <2>2. Structs' /\ (press' = 0 => Cleared')
    BY <1>1, <2>1 DEF Structs, Cleared
  <2>3. EventFits' /\ Told'
    BY <1>1, <2>1 DEF EventFits, Told
  <2>4. QED
    BY <1>1, <2>1, <2>2, <2>3 DEF PanelInv
<1>3. ASSUME PollTouched PROVE PanelInv'
  <2>1. PICK x \in ns2009_read(finger[1]), y \in ns2009_read(finger[2]) : Touched(x, y)
    BY <1>3 DEF PollTouched
  <2> DEFINE u == tsfilter_update(filter, x, y)
             at == <<u.x, u.y>>
  <2>2. /\ filter' = u.filter /\ press' = 1 /\ last' = at
        /\ event' = IF press = 0 THEN [type |-> "BEGIN", at |-> at]
                    ELSE IF at # last THEN [type |-> "MOVE", at |-> at]
                    ELSE event
    BY <2>1 DEF Touched
  <2>3. Structs'
    BY <1>1, <2>2, UpdateStructs
  <2> HIDE DEF u, at
  <2>4. EventFits'
    BY <1>1, <2>2 DEF EventFits
  <2>5. press = 0 => event'.type = "BEGIN"
    BY <2>2
  <2>6. press = 1 => touchDown
    BY <1>1 DEF Told
  <2>7. Told' /\ touchDown' \in BOOLEAN
    BY <1>1, <1>3, <2>2, <2>4, <2>5, <2>6, DeliverTold DEF PollTouched
  <2>8. QED
    BY <2>2, <2>3, <2>4, <2>7 DEF PanelInv
<1>4. ASSUME PollLifted PROVE PanelInv'
  <2>1. Released /\ Deliver
    BY <1>4 DEF PollLifted
  <2>2. CASE press = 1
    <3>1. filter' = tsfilter_clear(filter) /\ press' = 0 /\ last' = last
          /\ event' = [type |-> "END", at |-> last]
      BY <2>1, <2>2 DEF Released
    <3>2. Structs' /\ Cleared'
      BY <1>1, <3>1, ClearStructs
    <3>3. EventFits' /\ event'.type = "END"
      BY <3>1 DEF EventFits
    <3>4. Told' /\ touchDown' \in BOOLEAN
      BY <1>1, <2>1, <3>1, <3>3, DeliverTold
    <3>5. QED
      BY <3>1, <3>2, <3>3, <3>4 DEF PanelInv
  <2>3. CASE press = 0
    <3>1. UNCHANGED <<filter, last, press, event>>
      BY <2>1, <2>3 DEF Released
    <3>2. Structs' /\ Cleared'
      BY <1>1, <2>3, <3>1 DEF Structs, Cleared
    <3>3. EventFits' /\ ~touchDown
      BY <1>1, <2>3, <3>1 DEF EventFits, Told
    <3>4. Told' /\ touchDown' \in BOOLEAN
      BY <1>1, <2>1, <2>3, <3>1, <3>3, DeliverTold
    <3>5. QED
      BY <1>1, <3>1, <3>2, <3>3, <3>4 DEF PanelInv
  <2>4. QED
    BY <1>1, <2>2, <2>3
<1>5. ASSUME PollFails PROVE PanelInv'
  <2>1. UNCHANGED <<filter, last, press>> /\ event' = [type |-> "NONE", at |-> Origin] /\ Deliver
    BY <1>5 DEF PollFails
  <2>2. Structs' /\ (press' = 0 => Cleared')
    BY <1>1, <2>1 DEF Structs, Cleared
  <2>3. EventFits'
    BY <2>1 DEF EventFits
  <2>4. touchDown <=> press = 1
    BY <1>1 DEF Told
  <2>5. Told' /\ touchDown' \in BOOLEAN
    BY <1>1, <2>1, <2>3, <2>4, DeliverTold
  <2>6. QED
    BY <1>1, <2>1, <2>2, <2>3, <2>5 DEF PanelInv
<1>6. QED
  BY <1>2, <1>3, <1>4, <1>5 DEF Next

LEMMA PanelAlways == Spec => []PanelInv
BY PanelInit, PanelStep, PTL DEF Spec

(* Between two strokes nothing of the first is left in the filters: only     *)
(* ts_ns2009_poll ends a stroke, and then it clears all four of them.        *)
THEOREM StrokesAreIndependent == Spec => []StrokesIndependent
<1>1. PanelInv => StrokesIndependent
  BY DEF PanelInv, StrokesIndependent, TypeOK, Cleared, EventFits, Told
<1>2. QED
  BY <1>1, PanelAlways, PTL

(* input_read's touch_down and the driver's press never disagree, whichever  *)
(* transfers fail; a reported press is at the last point computed, and at    *)
(* (0, 0) from a failed read of the pressure to the next event.              *)
THEOREM PointAlwaysFollows == Spec => []PointFollows
<1>1. PanelInv => PointFollows
  BY DEF PanelInv, PointFollows, PressAgrees, Told
<1>2. QED
  BY <1>1, PanelAlways, PTL

-----------------------------------------------------------------------------
(* The filters of one axis. *)

Val == (-IntMax)..IntMax

LEMMA ValIs == IntMax \in Nat /\ Val \subseteq Int /\ 0 \in Val /\ \A v \in Val : v <= IntMax
<1>1. IntMax \in Nat
  BY DEF IntMax
<1> HIDE DEF IntMax
<1>2. QED
  BY <1>1 DEF Val

LEMMA AxisConstants ==
  /\ MedianLength \in Nat \ {0} /\ MeanLength \in Nat \ {0} /\ Samples \subseteq Val
BY AxisAssumption DEF Val

LEMMA ValSeq ==
  ASSUME NEW s \in Seq(Val)
  PROVE  s \in Seq(Int)
<1>1. Len(s) \in Nat /\ s \in [1..Len(s) -> Val]
  OBVIOUS
<1>2. s \in [1..Len(s) -> Int]
  BY <1>1, ValIs
<1>3. QED
  BY <1>1, <1>2

(* Every nonempty set of naturals has a least element. *)
LEMMA LeastOf ==
  ASSUME NEW S, S \subseteq Nat, S # {}
  PROVE  \E m \in S : \A k \in S : m <= k
<1>1. IsWellFoundedOn(OpToRel(<, Nat), Nat)
  BY NatLessThanWellFounded
<1>2. PICK m \in S : \A k \in S : ~(<<k, m>> \in OpToRel(<, Nat))
  BY <1>1, WFMin
<1>3. ASSUME NEW k \in S PROVE m <= k
  <2>1. m \in Nat /\ k \in Nat
    OBVIOUS
  <2>2. ~(k < m)
    BY <1>2, <2>1, Zenon DEF OpToRel
  <2>3. QED
    BY <2>1, <2>2
<1>4. QED
  BY <1>3

-----------------------------------------------------------------------------
(* The cyclic buffer that both filters keep: n of l places are in use, the    *)
(* next sample goes to pos, and s is what the buffer holds, oldest first.     *)

Slot(l, pos, n, m) ==
  IF n < l THEN m - 1
  ELSE IF pos + m - 1 < l THEN pos + m - 1
  ELSE pos + m - 1 - l

Ring(l, buf, pos, n, s) ==
  /\ buf \in [0..(l - 1) -> Val]
  /\ pos \in 0..(l - 1) /\ n \in 0..l /\ (n < l => pos = n)
  /\ s \in Seq(Val) /\ Len(s) = n
  /\ \A m \in 1..n : s[m] = buf[Slot(l, pos, n, m)]

Onward(l, pos) == IF pos + 1 = l THEN 0 ELSE pos + 1

Grown(l, n) == IF n < l THEN n + 1 ELSE n

LEMMA LastOfIs ==
  ASSUME NEW l \in Nat \ {0}, NEW s \in Seq(Val), NEW v \in Val, Len(s) <= l
  PROVE  LET e == LastOf(Append(s, v), l)
         IN  /\ e \in Seq(Val) /\ Len(e) = Grown(l, Len(s)) /\ e[Len(e)] = v
             /\ Len(s) < l => e = Append(s, v)
             /\ Len(s) < l => \A m \in 1..Len(s) : e[m] = s[m]
             /\ Len(s) = l => \A m \in 1..(l - 1) : e[m] = s[m + 1]
<1> DEFINE a == Append(s, v)
<1>1. /\ a \in Seq(Val) /\ Len(a) = Len(s) + 1 /\ Len(s) \in Nat
      /\ a[Len(s) + 1] = v /\ \A m \in 1..Len(s) : a[m] = s[m]
  OBVIOUS
<1> HIDE DEF a
<1>2. CASE Len(s) < l
  <2>1. LastOf(a, l) = a
    BY <1>1, <1>2 DEF LastOf
  <2>2. QED
    BY <1>1, <1>2, <2>1 DEF a, Grown
<1>3. CASE Len(s) = l
  <2>1. LastOf(a, l) = SubSeq(a, 2, l + 1)
    BY <1>1, <1>3 DEF LastOf
  <2> DEFINE e == SubSeq(a, 2, l + 1)
  <2>2. /\ e \in Seq(Val) /\ Len(e) = l
        /\ \A m \in 1..l : e[m] = a[m + 1]
    BY <1>1, <1>3
  <2> HIDE DEF e
  <2>3. e[l] = v /\ \A m \in 1..(l - 1) : e[m] = s[m + 1]
    BY <1>1, <1>3, <2>2
  <2>4. LastOf(a, l) = e
    BY <2>1 DEF e
  <2>5. Grown(l, Len(s)) = l
    BY <1>3 DEF Grown
  <2>6. QED
    BY <1>3, <2>2, <2>3, <2>4, <2>5 DEF a
<1>4. QED
  BY <1>1, <1>2, <1>3

(* A sample overwrites the oldest one when the buffer is full. *)
LEMMA RingTakes ==
  ASSUME NEW l \in Nat \ {0}, NEW buf, NEW pos, NEW n, NEW s, NEW v \in Val,
         Ring(l, buf, pos, n, s)
  PROVE  Ring(l, [buf EXCEPT ![pos] = v], Onward(l, pos), Grown(l, n), LastOf(Append(s, v), l))
<1>1. /\ buf \in [0..(l - 1) -> Val]
      /\ pos \in 0..(l - 1) /\ n \in 0..l /\ (n < l => pos = n)
      /\ s \in Seq(Val) /\ Len(s) = n
      /\ \A m \in 1..n : s[m] = buf[Slot(l, pos, n, m)]
  BY DEF Ring
<1> DEFINE e == LastOf(Append(s, v), l)
           b == [buf EXCEPT ![pos] = v]
           q == Onward(l, pos)
           k == Grown(l, n)
<1>2. /\ e \in Seq(Val) /\ Len(e) = k /\ e[k] = v
      /\ n < l => \A m \in 1..n : e[m] = s[m]
      /\ n = l => \A m \in 1..(l - 1) : e[m] = s[m + 1]
  <2>1. Len(s) <= l
    BY <1>1
  <2>2. /\ e \in Seq(Val) /\ Len(e) = Grown(l, Len(s)) /\ e[Len(e)] = v
        /\ Len(s) < l => \A m \in 1..Len(s) : e[m] = s[m]
        /\ Len(s) = l => \A m \in 1..(l - 1) : e[m] = s[m + 1]
    BY <1>1, <2>1, LastOfIs, ZenonT(30)
  <2> HIDE DEF e
  <2>3. QED
    BY <1>1, <2>2
<1>3. /\ b \in [0..(l - 1) -> Val] /\ b[pos] = v
      /\ \A i \in 0..(l - 1) : i # pos => b[i] = buf[i]
  BY <1>1
<1>4. /\ q \in 0..(l - 1) /\ k \in 0..l /\ (k < l => q = k)
      /\ q = IF pos + 1 = l THEN 0 ELSE pos + 1
      /\ k = IF n < l THEN n + 1 ELSE n
  BY <1>1 DEF Onward, Grown
<1> HIDE DEF e, b, q, k
<1>5. ASSUME NEW m \in 1..k PROVE e[m] = b[Slot(l, q, k, m)]
  <2>1. CASE n < l
    <3>1. Slot(l, q, k, m) = m - 1
      BY <1>1, <1>4, <2>1 DEF Slot
    <3>2. CASE m = k
      BY <1>1, <1>2, <1>3, <1>4, <2>1, <3>1, <3>2
    <3>3. CASE m # k
      <4>1. m \in 1..n /\ m - 1 \in 0..(l - 1) /\ m - 1 # pos
        BY <1>1, <1>4, <2>1, <3>3
      <4>2. Slot(l, pos, n, m) = m - 1
        BY <1>1, <2>1 DEF Slot
      <4>3. QED
        BY <1>1, <1>2, <1>3, <2>1, <3>1, <4>1, <4>2
    <3>4. QED
      BY <3>2, <3>3
  <2>2. CASE n = l
    <3>1. CASE m = l
      <4>1. Slot(l, q, k, m) = pos
        BY <1>1, <1>4, <2>2, <3>1 DEF Slot
      <4>2. QED
        BY <1>2, <1>3, <1>4, <2>2, <3>1, <4>1
    <3>2. CASE m # l
      <4>1. m \in 1..(l - 1) /\ m + 1 \in 1..n
        BY <1>1, <1>4, <2>2, <3>2
      <4>2. /\ Slot(l, q, k, m) = Slot(l, pos, n, m + 1)
            /\ Slot(l, q, k, m) \in 0..(l - 1) /\ Slot(l, q, k, m) # pos
        BY <1>1, <1>4, <2>2, <4>1 DEF Slot
      <4>3. e[m] = s[m + 1] /\ s[m + 1] = buf[Slot(l, pos, n, m + 1)]
        BY <1>1, <1>2, <2>2, <4>1
      <4>4. QED
        BY <1>3, <4>2, <4>3
    <3>3. QED
      BY <3>1, <3>2
  <2>3. QED
    BY <1>1, <2>1, <2>2
<1>6. Ring(l, b, q, k, e)
  BY <1>2, <1>3, <1>4, <1>5 DEF Ring
<1>7. QED
  BY <1>6 DEF b, q, k, e

(* A cleared filter holds nothing. *)
LEMMA RingEmpty ==
  ASSUME NEW l \in Nat \ {0}, NEW buf \in [0..(l - 1) -> Val]
  PROVE  Ring(l, buf, 0, 0, <<>>)
<1>1. <<>> \in Seq(Val) /\ Len(<<>>) = 0 /\ 0 \in 0..(l - 1) /\ 0 \in 0..l
  OBVIOUS
<1>2. QED
  BY <1>1 DEF Ring

(* Each place in use holds exactly one of the samples. *)
LEMMA SlotsAre ==
  ASSUME NEW l \in Nat \ {0}, NEW pos \in 0..(l - 1), NEW n \in 0..l
  PROVE  /\ \A m \in 1..n : Slot(l, pos, n, m) \in 0..(n - 1)
         /\ \A m, k \in 1..n : Slot(l, pos, n, m) = Slot(l, pos, n, k) => m = k
         /\ \A i \in 0..(n - 1) : \E m \in 1..n : Slot(l, pos, n, m) = i
<1>1. \A m \in 1..n : Slot(l, pos, n, m) \in 0..(n - 1)
  BY DEF Slot
<1>2. \A m, k \in 1..n : Slot(l, pos, n, m) = Slot(l, pos, n, k) => m = k
  BY DEF Slot
<1>3. ASSUME NEW i \in 0..(n - 1) PROVE \E m \in 1..n : Slot(l, pos, n, m) = i
  <2> DEFINE m == IF n < l THEN i + 1 ELSE IF pos <= i THEN i - pos + 1 ELSE i - pos + 1 + l
  <2>1. m \in 1..n /\ Slot(l, pos, n, m) = i
    BY DEF Slot
  <2>2. QED
    BY <2>1
<1>4. QED
  BY <1>1, <1>2, <1>3

-----------------------------------------------------------------------------
(* Sums. *)

(* h holds the sums of the first elements of s. *)
SumsOf(h, s) ==
  /\ h \in [0..Len(s) -> Int] /\ h[0] = 0
  /\ \A n \in 1..Len(s) : h[n] = h[n - 1] + s[n]

LEMMA SumsExist ==
  ASSUME NEW s \in Seq(Int)
  PROVE  \E h : SumsOf(h, s)
<1> DEFINE Has(k) == \E h \in [0..k -> Int] : h[0] = 0 /\ \A n \in 1..k : h[n] = h[n - 1] + s[n]
           Bad == {k \in 0..Len(s) : ~Has(k)}
<1>1. Len(s) \in Nat
  OBVIOUS
<1>2. Has(0)
  <2> DEFINE h == [i \in 0..0 |-> 0]
  <2>1. h \in [0..0 -> Int] /\ h[0] = 0
    OBVIOUS
  <2>2. \A n \in 1..0 : h[n] = h[n - 1] + s[n]
    OBVIOUS
  <2> HIDE DEF h
  <2>3. QED
    BY <2>1, <2>2
<1>3. ASSUME NEW k \in 1..Len(s), Has(k - 1) PROVE Has(k)
  <2>1. PICK h \in [0..(k - 1) -> Int] : h[0] = 0 /\ \A n \in 1..(k - 1) : h[n] = h[n - 1] + s[n]
    BY <1>3
  <2> DEFINE g == [i \in 0..k |-> IF i = k THEN h[k - 1] + s[k] ELSE h[i]]
  <2>2. g \in [0..k -> Int]
    <3>1. h[k - 1] \in Int /\ s[k] \in Int
      BY <1>1
    <3>2. \A i \in 0..k : i # k => h[i] \in Int
      OBVIOUS
    <3>3. QED
      BY <3>1, <3>2
  <2>3. g[0] = 0
    BY <2>1
  <2>4. ASSUME NEW n \in 1..k PROVE g[n] = g[n - 1] + s[n]
    BY <2>1
  <2> HIDE DEF g
  <2>5. QED
    BY <2>2, <2>3, <2>4
<1>4. Bad = {}
  <2> HIDE DEF Has
  <2> SUFFICES ASSUME Bad # {} PROVE FALSE
    OBVIOUS
  <2>1. Bad \subseteq Nat
    OBVIOUS
  <2> HIDE DEF Bad
  <2>2. PICK k \in Bad : \A j \in Bad : k <= j
    BY <2>1, LeastOf
  <2> USE DEF Bad
  <2>3. k \in 1..Len(s) /\ ~Has(k)
    BY <1>1, <1>2
  <2>4. Has(k - 1)
    BY <1>1, <2>2, <2>3
  <2>5. QED
    BY <1>3, <2>3, <2>4
<1>5. Has(Len(s))
  <2> HIDE DEF Has
  <2>1. QED
    BY <1>1, <1>4
<1>6. QED
  BY <1>5 DEF SumsOf

(* The sums are what Total adds up. *)
LEMMA TotalIs ==
  ASSUME NEW s \in Seq(Int), NEW h, SumsOf(h, s)
  PROVE  Total(s) = h[Len(s)]
<1> DEFINE G(u) == [n \in 0..Len(s) |-> IF n = 0 THEN 0 ELSE u[n - 1] + s[n]]
           u == CHOOSE u : u = G(u)
<1>1. Total(s) = u[Len(s)]
  BY DEF Total
<1>2. h = G(h)
  BY DEF SumsOf
<1>3. u = G(u)
  BY <1>2
<1> DEFINE Bad == {n \in 0..Len(s) : u[n] # h[n]}
<1>4. u[0] = 0 /\ \A n \in 1..Len(s) : u[n] = u[n - 1] + s[n]
  <2> HIDE DEF u
  <2>1. Len(s) \in Nat
    OBVIOUS
  <2>2. \A n \in 0..Len(s) : u[n] = IF n = 0 THEN 0 ELSE u[n - 1] + s[n]
    BY <1>3, Zenon
  <2>3. QED
    BY <2>1, <2>2
<1> HIDE DEF u
<1>5. Bad = {}
  <2> SUFFICES ASSUME Bad # {} PROVE FALSE
    OBVIOUS
  <2>1. Bad \subseteq Nat
    OBVIOUS
  <2> HIDE DEF Bad
  <2>2. PICK k \in Bad : \A j \in Bad : k <= j
    BY <2>1, LeastOf
  <2> USE DEF Bad
  <2>3. k \in 1..Len(s) /\ u[k] # h[k]
    BY <1>4 DEF SumsOf
  <2>4. u[k - 1] = h[k - 1]
    BY <2>2, <2>3
  <2>5. QED
    BY <1>4, <2>3, <2>4 DEF SumsOf
<1>6. QED
  BY <1>1, <1>5

(* Adding a value, and dropping the first one. *)
LEMMA TotalEmpty == Total(<<>>) = 0
<1>1. <<>> \in Seq(Int) /\ Len(<<>>) = 0
  OBVIOUS
<1>2. PICK h : SumsOf(h, <<>>)
  BY <1>1, SumsExist
<1>3. Total(<<>>) = h[0]
  BY <1>1, <1>2, TotalIs
<1>4. QED
  BY <1>2, <1>3 DEF SumsOf

LEMMA TotalInt ==
  ASSUME NEW s \in Seq(Int)
  PROVE  Total(s) \in Int
<1>1. PICK h : SumsOf(h, s)
  BY SumsExist
<1>2. Total(s) = h[Len(s)] /\ Len(s) \in 0..Len(s)
  BY <1>1, TotalIs
<1>3. QED
  BY <1>1, <1>2 DEF SumsOf

LEMMA TotalAppend ==
  ASSUME NEW s \in Seq(Int), NEW v \in Int
  PROVE  Total(Append(s, v)) = Total(s) + v
<1>1. PICK h : SumsOf(h, s)
  BY SumsExist
<1> DEFINE n == Len(s)
           a == Append(s, v)
           g == [i \in 0..(n + 1) |-> IF i = n + 1 THEN h[n] + v ELSE h[i]]
<1>2. n \in Nat /\ a \in Seq(Int) /\ Len(a) = n + 1 /\ a[n + 1] = v /\ \A i \in 1..n : a[i] = s[i]
  OBVIOUS
<1>3. h \in [0..n -> Int] /\ h[0] = 0 /\ \A i \in 1..n : h[i] = h[i - 1] + s[i]
  BY <1>1 DEF SumsOf
<1> HIDE DEF n, a
<1>4. g \in [0..(n + 1) -> Int] /\ g[0] = 0
  BY <1>2, <1>3
<1>5. ASSUME NEW i \in 1..(n + 1) PROVE g[i] = g[i - 1] + a[i]
  BY <1>2, <1>3
<1>6. SumsOf(g, a)
  BY <1>2, <1>4, <1>5 DEF SumsOf
<1>7. Total(a) = g[n + 1]
  BY <1>2, <1>6, TotalIs
<1>8. Total(s) = h[n]
  BY <1>1, TotalIs DEF n
<1>9. QED
  BY <1>2, <1>7, <1>8 DEF a

LEMMA TotalDrop ==
  ASSUME NEW s \in Seq(Int), NEW e \in Seq(Int), Len(s) = Len(e) + 1,
         \A m \in 1..Len(e) : e[m] = s[m + 1]
  PROVE  Total(e) = Total(s) - s[1]
<1>1. PICK h : SumsOf(h, s)
  BY SumsExist
<1> DEFINE n == Len(e)
           g == [i \in 0..n |-> h[i + 1] - s[1]]
<1>2. n \in Nat /\ Len(s) = n + 1 /\ \A i \in 1..(n + 1) : s[i] \in Int
  OBVIOUS
<1>3. h \in [0..(n + 1) -> Int] /\ h[0] = 0 /\ \A i \in 1..(n + 1) : h[i] = h[i - 1] + s[i]
  BY <1>1, <1>2 DEF SumsOf
<1>4. \A m \in 1..n : e[m] = s[m + 1]
  OBVIOUS
<1>a. e \in Seq(Int) /\ Len(e) = n
  OBVIOUS
<1> HIDE DEF n
<1>5. g \in [0..n -> Int]
  BY <1>2, <1>3
<1>6. g[0] = 0
  <2>1. h[1] = h[0] + s[1] /\ s[1] \in Int /\ g[0] = h[1] - s[1]
    BY <1>2, <1>3
  <2>2. QED
    BY <1>3, <2>1
<1>7. ASSUME NEW i \in 1..n PROVE g[i] = g[i - 1] + e[i]
  <2>1. i \in 0..n /\ i - 1 \in 0..n /\ (i - 1) + 1 = i /\ (i + 1) - 1 = i
    BY <1>2
  <2>2. i + 1 \in 1..(n + 1) /\ i \in 0..(n + 1) /\ 1 \in 1..(n + 1)
    BY <1>2
  <2>3. g[i] = h[i + 1] - s[1] /\ g[i - 1] = h[i] - s[1]
    BY <2>1
  <2>4. h[i + 1] = h[i] + s[i + 1] /\ h[i] \in Int /\ s[i + 1] \in Int /\ s[1] \in Int
    BY <1>2, <1>3, <2>1, <2>2
  <2>5. QED
    BY <1>4, <2>3, <2>4
<1> HIDE DEF g
<1>8. SumsOf(g, e)
  BY <1>a, <1>5, <1>6, <1>7 DEF SumsOf
<1>9. Total(e) = g[n] /\ Total(s) = h[n + 1]
  BY <1>1, <1>2, <1>8, <1>a, TotalIs
<1>10. QED
  BY <1>2, <1>9 DEF g

-----------------------------------------------------------------------------
(* The running mean. *)

(* The unused places hold 0, so that what is subtracted is what is replaced. *)
MeanInv(f, s) ==
  /\ DOMAIN f = MeanFields /\ f.length = MeanLength
  /\ Ring(MeanLength, f.buffer, f.index, f.count, s)
  /\ \A p \in 0..(MeanLength - 1) : f.count <= p => f.buffer[p] = 0
  /\ f.sum = Total(s)

LEMMA Wraps ==
  ASSUME NEW l \in Nat \ {0}, NEW i \in 0..(l - 1)
  PROVE  ((i + 1) % l) = Onward(l, i)
<1>1. CASE i + 1 = l
  BY <1>1 DEF Onward
<1>2. CASE i + 1 < l
  BY <1>2 DEF Onward
<1>3. QED
  BY <1>1, <1>2

LEMMA MeanTakes ==
  ASSUME NEW f, NEW s, NEW v \in Val, MeanInv(f, s)
  PROVE  LET u == mean_update(f, v)
             e == LastOf(Append(s, v), MeanLength)
         IN  /\ MeanInv(u.filter, e) /\ Len(e) > 0
             /\ u.result = CDiv(Total(e), Len(e))
<1> DEFINE u == mean_update(f, v)
           e == LastOf(Append(s, v), MeanLength)
           l == MeanLength
           b == [f.buffer EXCEPT ![f.index] = v]
<1>1. /\ l \in Nat \ {0} /\ Val \subseteq Int
  BY AxisConstants, ValIs
<1>2. /\ DOMAIN f = MeanFields /\ f.length = l
      /\ \A p \in 0..(l - 1) : f.count <= p => f.buffer[p] = 0
      /\ f.sum = Total(s)
  BY DEF MeanInv
<1>3. Ring(l, f.buffer, f.index, f.count, s)
  BY DEF MeanInv
<1>4. /\ f.buffer \in [0..(l - 1) -> Val]
      /\ f.index \in 0..(l - 1) /\ f.count \in 0..l /\ (f.count < l => f.index = f.count)
      /\ s \in Seq(Val) /\ Len(s) = f.count
      /\ \A m \in 1..f.count : s[m] = f.buffer[Slot(l, f.index, f.count, m)]
  BY <1>3 DEF Ring
<1> HIDE DEF l
<1>5. Ring(l, b, Onward(l, f.index), Grown(l, f.count), e)
  BY <1>1, <1>3, RingTakes DEF l
<1>6. /\ DOMAIN u.filter = MeanFields /\ u.filter.length = l
      /\ u.filter.buffer = b
      /\ u.filter.index = ((f.index + 1) % l)
      /\ u.filter.count = (IF f.count < l THEN f.count + 1 ELSE f.count)
      /\ u.filter.sum = f.sum - f.buffer[f.index] + v
      /\ u.result = CDiv(f.sum - f.buffer[f.index] + v, IF f.count < l THEN f.count + 1 ELSE f.count)
  BY <1>2 DEF mean_update, MeanFields
<1>7. u.filter.index = Onward(l, f.index) /\ u.filter.count = Grown(l, f.count)
  BY <1>1, <1>4, <1>6, Wraps DEF Grown
<1>8. s \in Seq(Int) /\ v \in Int /\ Total(s) \in Int
  BY <1>1, <1>4, ValSeq, TotalInt
<1>9. Total(e) = f.sum - f.buffer[f.index] + v
  <2>1. CASE f.count < l
    <3>1. e = Append(s, v)
      <4>1. Len(s) <= l /\ Len(s) < l
        BY <1>1, <1>4, <2>1
      <4>2. QED
        BY <1>1, <1>4, <4>1, LastOfIs DEF l
    <3>2. f.buffer[f.index] = 0
      BY <1>1, <1>2, <1>4, <2>1
    <3>3. Total(e) = Total(s) + v
      BY <1>8, <3>1, TotalAppend
    <3>4. QED
      BY <1>2, <1>8, <3>2, <3>3
  <2>2. CASE f.count = l
    <3> DEFINE a == Append(s, v)
    <3>1. /\ a \in Seq(Int) /\ Len(a) = l + 1 /\ a[l + 1] = v /\ a[1] = s[1]
          /\ \A m \in 1..l : a[m] = s[m]
      BY <1>1, <1>4, <1>8, <2>2
    <3>2. Len(e) = l /\ e \in Seq(Int)
      <4>1. Len(e) = l /\ e \in Seq(Val)
        BY <1>1, <1>4, <1>5, <2>2 DEF Ring, Grown
      <4>2. QED
        BY <4>1, ValSeq
    <3>3. e[l] = v /\ \A m \in 1..(l - 1) : e[m] = s[m + 1]
      <4>1. Len(s) <= l /\ Len(s) = l
        BY <1>1, <1>4, <2>2
      <4>2. e[Len(e)] = v /\ \A m \in 1..(l - 1) : e[m] = s[m + 1]
        BY <1>1, <1>4, <4>1, LastOfIs DEF l
      <4>3. QED
        BY <3>2, <4>2
    <3> HIDE DEF e
    <3>4. ASSUME NEW m \in 1..Len(e) PROVE e[m] = a[m + 1]
      <4>1. CASE m = l
        BY <3>1, <3>3, <4>1
      <4>2. CASE m # l
        <5>1. m \in 1..(l - 1) /\ m + 1 \in 1..l
          BY <1>1, <3>2, <4>2
        <5>2. QED
          BY <3>1, <3>3, <5>1
      <4>3. QED
        BY <4>1, <4>2
    <3>5. Total(e) = Total(a) - a[1]
      <4> HIDE DEF a
      <4>1. Len(a) = Len(e) + 1
        BY <3>1, <3>2
      <4>2. QED
        BY <3>1, <3>2, <3>4, <4>1, TotalDrop
    <3>6. Total(a) = Total(s) + v
      BY <1>8, TotalAppend
    <3>7. s[1] = f.buffer[f.index] /\ s[1] \in Int
      <4>1. 1 \in 1..f.count /\ Slot(l, f.index, f.count, 1) = f.index
        BY <1>1, <1>4, <2>2 DEF Slot
      <4>2. QED
        BY <1>1, <1>4, <1>8, <4>1
    <3>8. a[1] = s[1]
      BY <3>1
    <3> HIDE DEF a
    <3>9. QED
      BY <1>2, <1>8, <3>5, <3>6, <3>7, <3>8
  <2>3. QED
    BY <1>1, <1>4, <2>1, <2>2
<1> HIDE DEF e, b, u
<1>10. /\ Len(e) = Grown(l, f.count) /\ Len(e) > 0
  BY <1>1, <1>4, <1>5 DEF Ring, Grown
<1>11. ASSUME NEW p \in 0..(l - 1), Grown(l, f.count) <= p PROVE b[p] = 0
  <2>1. f.count < l /\ p # f.index /\ f.count <= p
    BY <1>1, <1>4, <1>11 DEF Grown
  <2>2. b[p] = f.buffer[p]
    BY <1>4, <2>1 DEF b
  <2>3. QED
    BY <1>2, <2>1, <2>2
<1>12. MeanInv(u.filter, e)
  BY <1>5, <1>6, <1>7, <1>9, <1>11 DEF MeanInv, l
<1>13. u.result = CDiv(Total(e), Len(e))
  BY <1>6, <1>7, <1>9, <1>10
<1>14. QED
  BY <1>10, <1>12, <1>13 DEF u, e

LEMMA MeanClears ==
  ASSUME NEW f, NEW s, MeanInv(f, s)
  PROVE  MeanInv(mean_clear(f), <<>>)
<1> DEFINE b == [i \in 0..(MeanLength - 1) |-> 0]
           c == mean_clear(f)
<1>1. DOMAIN f = MeanFields /\ f.length = MeanLength
  BY DEF MeanInv
<1>2. /\ DOMAIN c = MeanFields /\ c.length = MeanLength
      /\ c.buffer = b /\ c.index = 0 /\ c.count = 0 /\ c.sum = 0
  BY <1>1 DEF mean_clear, MeanFields
<1>3. b \in [0..(MeanLength - 1) -> Val] /\ \A p \in 0..(MeanLength - 1) : b[p] = 0
  BY ValIs
<1> HIDE DEF b, c
<1>4. Ring(MeanLength, b, 0, 0, <<>>)
  BY <1>3, AxisConstants, RingEmpty
<1>5. MeanInv(c, <<>>)
  BY <1>2, <1>3, <1>4, TotalEmpty DEF MeanInv
<1>6. QED
  BY <1>5 DEF c

LEMMA MeanStarts == MeanInv(mean_alloc(MeanLength), <<>>)
<1> DEFINE b == [i \in 0..(MeanLength - 1) |-> 0]
           c == mean_alloc(MeanLength)
<1>1. /\ DOMAIN c = MeanFields /\ c.length = MeanLength
      /\ c.buffer = b /\ c.index = 0 /\ c.count = 0 /\ c.sum = 0
  BY DEF mean_alloc, MeanFields
<1>2. b \in [0..(MeanLength - 1) -> Val] /\ \A p \in 0..(MeanLength - 1) : b[p] = 0
  BY ValIs
<1> HIDE DEF b, c
<1>3. Ring(MeanLength, b, 0, 0, <<>>)
  BY <1>2, AxisConstants, RingEmpty
<1>4. MeanInv(c, <<>>)
  BY <1>1, <1>2, <1>3, TotalEmpty DEF MeanInv
<1>5. QED
  BY <1>4 DEF c

-----------------------------------------------------------------------------
(* The order of the samples. *)

(* idx lists the first n places, each once. *)
Perm(idx, n) ==
  /\ \A i \in 0..(n - 1) : idx[i] \in 0..(n - 1)
  /\ \A i, j \in 0..(n - 1) : idx[i] = idx[j] => i = j
  /\ \A k \in 0..(n - 1) : \E i \in 0..(n - 1) : idx[i] = k

Sorted(buf, idx, n) ==
  \A i, j \in 0..(n - 1) : i < j => buf[idx[i]] <= buf[idx[j]]

(* Where the entry at place i was, before the one at o wandered to p. *)
Src(i, o, p) ==
  IF i = p THEN o
  ELSE IF o <= i /\ i < p THEN i + 1
  ELSE IF p < i /\ i <= o THEN i - 1
  ELSE i

LEMMA WanderIs ==
  ASSUME NEW l \in Nat, NEW idx \in [0..(l - 1) -> 0..(l - 1)],
         NEW n \in 0..l, NEW o \in 0..(n - 1), NEW p \in 0..(n - 1)
  PROVE  /\ Wander(idx, o, p) \in [0..(l - 1) -> 0..(l - 1)]
         /\ \A i \in 0..(l - 1) : Wander(idx, o, p)[i] = idx[Src(i, o, p)]
<1> DEFINE w == Wander(idx, o, p)
<1>1. w = [i \in 0..(l - 1) |-> idx[Src(i, o, p)]]
  BY DEF Wander, Src
<1>2. \A i \in 0..(l - 1) : Src(i, o, p) \in 0..(l - 1)
  BY DEF Src
<1> HIDE DEF w
<1>3. w \in [0..(l - 1) -> 0..(l - 1)] /\ \A i \in 0..(l - 1) : w[i] = idx[Src(i, o, p)]
  BY <1>1, <1>2
<1>4. QED
  BY <1>3 DEF w

LEMMA SrcIs ==
  ASSUME NEW n \in Nat, NEW o \in 0..(n - 1), NEW p \in 0..(n - 1), NEW i \in 0..(n - 1)
  PROVE  /\ Src(i, o, p) \in 0..(n - 1)
         /\ Src(Src(i, o, p), p, o) = i
         /\ Src(i, o, p) = o <=> i = p
BY DEF Src

LEMMA WanderPerm ==
  ASSUME NEW l \in Nat, NEW idx \in [0..(l - 1) -> 0..(l - 1)],
         NEW n \in 0..l, NEW o \in 0..(n - 1), NEW p \in 0..(n - 1), Perm(idx, n)
  PROVE  Perm(Wander(idx, o, p), n)
<1> DEFINE w == Wander(idx, o, p)
<1>1. \A i \in 0..(n - 1) : w[i] = idx[Src(i, o, p)]
  <2>1. \A i \in 0..(l - 1) : w[i] = idx[Src(i, o, p)]
    BY WanderIs
  <2> HIDE DEF w
  <2>2. QED
    BY <2>1
<1> HIDE DEF w
<1>2. n \in Nat
  OBVIOUS
<1>3. ASSUME NEW i \in 0..(n - 1) PROVE w[i] \in 0..(n - 1)
  BY <1>1, <1>2, SrcIs DEF Perm
<1>4. ASSUME NEW i \in 0..(n - 1), NEW j \in 0..(n - 1), w[i] = w[j] PROVE i = j
  <2>1. Src(i, o, p) \in 0..(n - 1) /\ Src(j, o, p) \in 0..(n - 1)
    BY <1>2, SrcIs
  <2>2. idx[Src(i, o, p)] = idx[Src(j, o, p)]
    BY <1>1, <1>4, Zenon
  <2>a. Src(i, o, p) = Src(j, o, p)
    BY <2>1, <2>2, Zenon DEF Perm
  <2>3. Src(Src(i, o, p), p, o) = i /\ Src(Src(j, o, p), p, o) = j
    BY <1>2 DEF Src
  <2>4. QED
    BY <2>a, <2>3
<1>5. ASSUME NEW k \in 0..(n - 1) PROVE \E i \in 0..(n - 1) : w[i] = k
  <2>1. PICK j \in 0..(n - 1) : idx[j] = k
    BY DEF Perm
  <2>2. /\ Src(j, p, o) \in 0..(n - 1) /\ Src(Src(j, p, o), o, p) = j
    BY <1>2 DEF Src
  <2>3. QED
    BY <1>1, <2>1, <2>2
<1>6. QED
  BY <1>3, <1>4, <1>5 DEF Perm, w

(* The moved entry is at a place that separates smaller from larger ones. *)
LEMMA WanderSorted ==
  ASSUME NEW l \in Nat, NEW idx \in [0..(l - 1) -> 0..(l - 1)],
         NEW n \in 0..l, NEW o \in 0..(n - 1), NEW p \in 0..(n - 1), NEW buf,
         \A i \in 0..(n - 1) : buf[idx[i]] \in Int,
         \A i, j \in 0..(n - 1) : i < j /\ i # o /\ j # o => buf[idx[i]] <= buf[idx[j]],
         \A i \in 0..(n - 1) : i < p => buf[idx[Src(i, o, p)]] <= buf[idx[o]],
         \A i \in 0..(n - 1) : i > p => buf[idx[Src(i, o, p)]] >= buf[idx[o]]
  PROVE  Sorted(buf, Wander(idx, o, p), n)
<1> DEFINE w == Wander(idx, o, p)
<1>1. \A i \in 0..(n - 1) : w[i] = idx[Src(i, o, p)]
  <2>1. \A i \in 0..(l - 1) : w[i] = idx[Src(i, o, p)]
    BY WanderIs
  <2> HIDE DEF w
  <2>2. QED
    BY <2>1
<1> HIDE DEF w
<1>2. ASSUME NEW i \in 0..(n - 1), NEW j \in 0..(n - 1), i < j PROVE buf[w[i]] <= buf[w[j]]
  <2>1. CASE i = p
    <3>1. w[i] = idx[o] /\ j > p
      BY <1>1, <1>2, <2>1 DEF Src
    <3>2. QED
      BY <1>1, <3>1
  <2>2. CASE j = p
    <3>1. w[j] = idx[o] /\ i < p
      BY <1>1, <1>2, <2>2 DEF Src
    <3>2. QED
      BY <1>1, <3>1
  <2>3. CASE i # p /\ j # p
    <3>1. /\ Src(i, o, p) \in 0..(n - 1) /\ Src(j, o, p) \in 0..(n - 1)
          /\ Src(i, o, p) # o /\ Src(j, o, p) # o /\ Src(i, o, p) < Src(j, o, p)
      BY <1>2, <2>3, SMTT(30) DEF Src
    <3>2. QED
      BY <1>1, <3>1
  <2>4. QED
    BY <2>1, <2>2, <2>3
<1>3. QED
  BY <1>2 DEF Sorted, w

(* The places where the two loops of median_update stop. *)
LEMMA RaiseIs ==
  ASSUME NEW idx, NEW buf, NEW n \in Nat, NEW o \in 0..(n - 1), NEW value \in Int,
         \A i \in 0..(n - 1) : buf[idx[i]] \in Int
  PROVE  \E p \in o..(n - 1) :
           /\ RaiseIndex(idx, buf, o, n, value) = Wander(idx, o, p)
           /\ p + 1 = n \/ buf[idx[p + 1]] >= value
           /\ \A q \in (o + 1)..p : buf[idx[q]] < value
<1> DEFINE Stop(p) == p + 1 = n \/ buf[idx[p + 1]] >= value
           S == {p \in o..(n - 1) : Stop(p)}
           Is(p) == Stop(p) /\ \A q \in o..(p - 1) : ~Stop(q)
<1>1. S \subseteq Nat /\ n - 1 \in S
  OBVIOUS
<1>2. PICK p \in S : \A q \in S : p <= q
  <2> HIDE DEF S
  <2>1. QED
    BY <1>1, LeastOf
<1>3. p \in o..(n - 1) /\ Is(p)
  <2> HIDE DEF Stop
  <2>1. QED
    BY <1>2
<1> DEFINE c == CHOOSE x \in o..(n - 1) : Is(x)
<1>4. c \in o..(n - 1) /\ Is(c)
  <2> HIDE DEF Is
  <2>1. QED
    BY <1>3
<1>5. RaiseIndex(idx, buf, o, n, value) = Wander(idx, o, c)
  BY DEF RaiseIndex
<1> HIDE DEF c
<1>6. ASSUME NEW q \in (o + 1)..c PROVE buf[idx[q]] < value
  <2>1. q - 1 \in o..(c - 1) /\ q \in 0..(n - 1) /\ (q - 1) + 1 = q
    BY <1>4
  <2>2. ~(buf[idx[q]] >= value)
    BY <1>4, <2>1
  <2>3. QED
    BY <2>1, <2>2
<1>7. QED
  BY <1>4, <1>5, <1>6

LEMMA LowerIs ==
  ASSUME NEW idx, NEW buf, NEW n \in Nat, NEW o \in 0..(n - 1), NEW value \in Int,
         \A i \in 0..(n - 1) : buf[idx[i]] \in Int
  PROVE  \E p \in 0..o :
           /\ LowerIndex(idx, buf, o, value) = Wander(idx, o, p)
           /\ p = 0 \/ buf[idx[p - 1]] <= value
           /\ \A q \in p..(o - 1) : buf[idx[q]] > value
<1> DEFINE Stop(p) == p = 0 \/ buf[idx[p - 1]] <= value
           S == {d \in 0..o : Stop(o - d)}
           Is(p) == Stop(p) /\ \A q \in (p + 1)..o : ~Stop(q)
<1>1. S \subseteq Nat /\ o \in S
  OBVIOUS
<1>2. PICK d \in S : \A e \in S : d <= e
  <2> HIDE DEF S
  <2>1. QED
    BY <1>1, LeastOf
<1>3. o - d \in 0..o /\ Is(o - d)
  <2> HIDE DEF Stop
  <2>1. d \in 0..o /\ Stop(o - d)
    OBVIOUS
  <2>2. ASSUME NEW q \in (o - d + 1)..o PROVE ~Stop(q)
    <3>1. o - q \in 0..o /\ o - q < d /\ o - (o - q) = q
      BY <2>1
    <3>2. o - q \notin S
      BY <1>2, <2>1, <3>1
    <3>3. QED
      BY <3>1, <3>2
  <2>3. QED
    BY <2>1, <2>2
<1> DEFINE c == CHOOSE x \in 0..o : Is(x)
<1>4. c \in 0..o /\ Is(c)
  <2> HIDE DEF Is
  <2>1. QED
    BY <1>3
<1>5. LowerIndex(idx, buf, o, value) = Wander(idx, o, c)
  BY DEF LowerIndex
<1> HIDE DEF c
<1>6. ASSUME NEW q \in c..(o - 1) PROVE buf[idx[q]] > value
  <2>1. q + 1 \in (c + 1)..o /\ q \in 0..(n - 1) /\ (q + 1) - 1 = q /\ q + 1 # 0
    BY <1>4
  <2>2. ~(buf[idx[q]] <= value)
    BY <1>4, <2>1
  <2>3. QED
    BY <2>1, <2>2
<1>7. QED
  BY <1>4, <1>5, <1>6

-----------------------------------------------------------------------------
(* The value of a rank. *)

(* r[i] is the place of s[i] in the order. *)
Places(r, s, n) ==
  /\ r \in [1..n -> 0..(n - 1)]
  /\ \A i, j \in 1..n : r[i] = r[j] => i = j
  /\ \A k \in 0..(n - 1) : \E i \in 1..n : r[i] = k
  /\ \A i, j \in 1..n : r[i] < r[j] => s[i] <= s[j]

(* The value of rank k is the one at place k. *)
LEMMA RankIs ==
  ASSUME NEW n \in Nat \ {0}, NEW s \in Seq(Int), Len(s) = n,
         NEW r, Places(r, s, n), NEW m \in 1..n
  PROVE  Rank(s, r[m]) = s[m]
<1>a. /\ r \in [1..n -> 0..(n - 1)]
      /\ \A i, j \in 1..n : r[i] = r[j] => i = j
      /\ \A k \in 0..(n - 1) : \E i \in 1..n : r[i] = k
      /\ \A i, j \in 1..n : r[i] < r[j] => s[i] <= s[j]
  BY DEF Places
<1> USE <1>a
<1> DEFINE Below(v) == {i \in 1..n : s[i] < v}
           UpTo(v) == {i \in 1..n : s[i] <= v}
           k == r[m]
           Fits(v) == Cardinality(Below(v)) <= k /\ Cardinality(UpTo(v)) > k
           Vals == {s[i] : i \in 1..n}
<1>1. DOMAIN s = 1..n /\ k \in 0..(n - 1) /\ n \in Nat /\ \A i \in 1..n : s[i] \in Int
  OBVIOUS
<1>2. Rank(s, k) = CHOOSE v \in Vals : Fits(v)
  BY <1>1 DEF Rank
<1>3. ASSUME NEW v
      PROVE  /\ IsFiniteSet(Below(v)) /\ Cardinality(Below(v)) \in Nat
             /\ IsFiniteSet(UpTo(v)) /\ Cardinality(UpTo(v)) \in Nat
  <2>1. IsFiniteSet(1..n)
    BY <1>1, FS_Interval
  <2>a. Below(v) \in SUBSET (1..n) /\ UpTo(v) \in SUBSET (1..n)
    OBVIOUS
  <2> HIDE DEF Below, UpTo
  <2>2. IsFiniteSet(Below(v)) /\ IsFiniteSet(UpTo(v))
    BY <2>1, <2>a, FS_Subset
  <2>3. QED
    BY <2>2, FS_CardinalityType
<1>4. Cardinality(Below(s[m])) <= k
  <2> DEFINE A == Below(s[m])
             f == [i \in A |-> r[i]]
  <2>1. ASSUME NEW i \in A PROVE r[i] \in 0..(k - 1)
    <3>1. i \in 1..n /\ s[i] < s[m] /\ s[i] \in Int /\ s[m] \in Int
      OBVIOUS
    <3>2. r[i] \in 0..(n - 1) /\ ~(r[m] < r[i]) /\ r[i] # r[m]
      BY <3>1
    <3>3. QED
      BY <1>1, <3>2
  <2>2. f \in Injection(A, 0..(k - 1))
    BY <2>1, SMTT(30) DEF Injection, IsInjective
  <2> HIDE DEF A, f, k
  <2>3. IsFiniteSet(0..(k - 1)) /\ Cardinality(0..(k - 1)) = k
    <3>1. k \in Nat /\ k - 1 \in Int /\ 0 \in Int
      BY <1>1
    <3>2. IsFiniteSet(0..(k - 1)) /\ Cardinality(0..(k - 1)) = IF 0 > k - 1 THEN 0 ELSE (k - 1) - 0 + 1
      BY <3>1, FS_Interval
    <3>3. QED
      BY <3>1, <3>2
  <2>4. Cardinality(A) <= Cardinality(0..(k - 1))
    BY <2>2, <2>3, FS_Injection
  <2>5. QED
    BY <2>3, <2>4 DEF A
<1>5. Cardinality(UpTo(s[m])) > k
  <2> DEFINE B == UpTo(s[m])
             t == [j \in 0..k |-> CHOOSE i \in 1..n : r[i] = j]
  <2>1. ASSUME NEW j \in 0..k PROVE t[j] \in 1..n /\ r[t[j]] = j
    <3>1. \E i \in 1..n : r[i] = j
      BY <1>1, SMTT(30)
    <3>2. QED
      BY <3>1
  <2> HIDE DEF t
  <2>2. ASSUME NEW j \in 0..k PROVE t[j] \in B
    <3>1. CASE j = k
      BY <1>1, <2>1, <3>1, SMTT(30)
    <3>2. CASE j < k
      <4>1. t[j] \in 1..n /\ r[t[j]] = j
        BY <2>1
      <4>2. r[t[j]] < r[m]
        BY <3>2, <4>1
      <4>3. s[t[j]] <= s[m]
        BY <4>1, <4>2
      <4>4. QED
        BY <4>1, <4>3
    <3>3. QED
      BY <1>1, <3>1, <3>2
  <2>3. t \in Injection(0..k, B)
    <3>1. t \in [0..k -> B]
      BY <2>2 DEF t
    <3>2. \A i, j \in 0..k : t[i] = t[j] => i = j
      <4> SUFFICES ASSUME NEW i \in 0..k, NEW j \in 0..k, t[i] = t[j] PROVE i = j
        OBVIOUS
      <4>1. r[t[i]] = i /\ r[t[j]] = j
        BY <2>1
      <4>2. QED
        BY <4>1
    <3> HIDE DEF B
    <3>3. QED
      BY <3>1, <3>2 DEF Injection, IsInjective
  <2>4. IsFiniteSet(B) /\ Cardinality(B) \in Nat
    BY <1>3
  <2>5. Cardinality(0..k) = k + 1
    BY <1>1, FS_Interval
  <2> HIDE DEF B, k
  <2>6. Cardinality(0..k) <= Cardinality(B)
    BY <2>3, <2>4, FS_Injection
  <2>7. QED
    BY <1>1, <2>4, <2>5, <2>6 DEF B
<1>6. ASSUME NEW v \in Int, NEW w \in Int, v < w, Fits(v), Fits(w) PROVE FALSE
  <2>1. UpTo(v) \in SUBSET Below(w)
    <3> SUFFICES ASSUME NEW i \in UpTo(v) PROVE i \in Below(w)
      OBVIOUS
    <3>1. i \in 1..n /\ s[i] <= v /\ s[i] \in Int
      BY <1>1
    <3>2. s[i] < w
      BY <1>6, <3>1
    <3>3. QED
      BY <3>1, <3>2
  <2>2. IsFiniteSet(Below(w)) /\ Cardinality(Below(w)) \in Nat /\ Cardinality(UpTo(v)) \in Nat
    BY <1>3
  <2>3. Cardinality(Below(w)) <= k /\ Cardinality(UpTo(v)) > k
    BY <1>6
  <2> HIDE DEF UpTo, Below, k
  <2>4. Cardinality(UpTo(v)) <= Cardinality(Below(w))
    BY <2>1, <2>2, FS_Subset
  <2>5. QED
    BY <1>1, <2>2, <2>3, <2>4
<1>7. Fits(s[m]) /\ s[m] \in Vals
  BY <1>4, <1>5
<1>8. Vals \subseteq Int
  BY <1>1
<1> HIDE DEF Fits, Vals
<1>9. \A w \in Vals : Fits(w) => w = s[m]
  <2> SUFFICES ASSUME NEW w \in Vals, Fits(w) PROVE w = s[m]
    OBVIOUS
  <2>1. w \in Int /\ s[m] \in Int
    BY <1>1, <1>8
  <2>2. ~(w < s[m]) /\ ~(s[m] < w)
    BY <1>6, <1>7, <2>1
  <2>3. QED
    BY <2>1, <2>2
<1>10. (CHOOSE v \in Vals : Fits(v)) = s[m]
  BY <1>7, <1>9
<1>11. QED
  BY <1>2, <1>10

(* At the place where a loop stops, smaller values are below, larger above. *)
LEMMA RaiseSeparates ==
  ASSUME NEW n \in Nat, NEW o \in 0..(n - 1), NEW v \in Int, NEW g \in [0..(n - 1) -> Int],
         \A i, j \in 0..(n - 1) : i < j /\ i # o /\ j # o => g[i] <= g[j],
         \A i \in 0..(n - 1) : i < o => g[i] <= v,
         NEW p \in o..(n - 1), p + 1 = n \/ g[p + 1] >= v,
         \A q \in (o + 1)..p : g[q] < v,
         NEW i \in 0..(n - 1)
  PROVE  /\ i < p => g[Src(i, o, p)] <= v
         /\ i > p => g[Src(i, o, p)] >= v
<1>1. ASSUME i < p PROVE g[Src(i, o, p)] <= v
  <2>1. CASE i < o
    <3>1. Src(i, o, p) = i
      BY <2>1 DEF Src
    <3>2. QED
      BY <2>1, <3>1
  <2>2. CASE i >= o
    <3>1. Src(i, o, p) = i + 1
      BY <1>1, <2>2 DEF Src
    <3>2. i + 1 \in (o + 1)..p /\ i + 1 \in 0..(n - 1)
      BY <1>1, <2>2
    <3>3. g[i + 1] < v /\ g[i + 1] \in Int
      BY <3>2
    <3>4. QED
      BY <3>1, <3>3
  <2>3. QED
    BY <2>1, <2>2
<1>2. ASSUME i > p PROVE g[Src(i, o, p)] >= v
  <2>1. Src(i, o, p) = i
    BY <1>2 DEF Src
  <2>2. p + 1 \in 0..(n - 1) /\ p + 1 # n /\ p + 1 # o /\ i # o
    BY <1>2
  <2>3. g[p + 1] >= v /\ g[p + 1] \in Int /\ g[i] \in Int
    BY <2>2
  <2>4. CASE i = p + 1
    BY <2>1, <2>3, <2>4
  <2>5. CASE i > p + 1
    <3>1. g[p + 1] <= g[i]
      BY <2>2, <2>5
    <3>2. QED
      BY <2>1, <2>3, <3>1
  <2>6. QED
    BY <1>2, <2>4, <2>5
<1>3. QED
  BY <1>1, <1>2

LEMMA LowerSeparates ==
  ASSUME NEW n \in Nat, NEW o \in 0..(n - 1), NEW v \in Int, NEW g \in [0..(n - 1) -> Int],
         \A i, j \in 0..(n - 1) : i < j /\ i # o /\ j # o => g[i] <= g[j],
         \A i \in 0..(n - 1) : i > o => g[i] >= v,
         NEW p \in 0..o, p = 0 \/ g[p - 1] <= v,
         \A q \in p..(o - 1) : g[q] > v,
         NEW i \in 0..(n - 1)
  PROVE  /\ i < p => g[Src(i, o, p)] <= v
         /\ i > p => g[Src(i, o, p)] >= v
<1>1. ASSUME i > p PROVE g[Src(i, o, p)] >= v
  <2>1. CASE i > o
    <3>1. Src(i, o, p) = i
      BY <2>1 DEF Src
    <3>2. QED
      BY <2>1, <3>1
  <2>2. CASE i <= o
    <3>1. Src(i, o, p) = i - 1
      BY <1>1, <2>2 DEF Src
    <3>2. i - 1 \in p..(o - 1) /\ i - 1 \in 0..(n - 1)
      BY <1>1, <2>2
    <3>3. g[i - 1] > v /\ g[i - 1] \in Int
      BY <3>2
    <3>4. QED
      BY <3>1, <3>3
  <2>3. QED
    BY <2>1, <2>2
<1>2. ASSUME i < p PROVE g[Src(i, o, p)] <= v
  <2>1. Src(i, o, p) = i
    BY <1>2 DEF Src
  <2>2. p - 1 \in 0..(n - 1) /\ p # 0 /\ p - 1 # o /\ i # o
    BY <1>2
  <2>3. g[p - 1] <= v /\ g[p - 1] \in Int /\ g[i] \in Int
    BY <2>2
  <2>4. CASE i = p - 1
    BY <2>1, <2>3, <2>4
  <2>5. CASE i < p - 1
    <3>1. g[i] <= g[p - 1]
      BY <2>2, <2>5
    <3>2. QED
      BY <2>1, <2>3, <3>1
  <2>6. QED
    BY <1>2, <2>4, <2>5
<1>3. QED
  BY <1>1, <1>2

(* One entry is out of order: the loop that fits puts it where it belongs. *)
Repaired(idx, b, o, n, v, w) ==
  \E p \in 0..(n - 1) :
    /\ w = Wander(idx, o, p)
    /\ \A i \in 0..(n - 1) : i < p => b[idx[Src(i, o, p)]] <= v
    /\ \A i \in 0..(n - 1) : i > p => b[idx[Src(i, o, p)]] >= v

LEMMA RaiseRepairs ==
  ASSUME NEW n \in Nat, NEW o \in 0..(n - 1), NEW v \in Int, NEW idx, NEW b,
         \A i \in 0..(n - 1) : b[idx[i]] \in Int,
         \A i, j \in 0..(n - 1) : i < j /\ i # o /\ j # o => b[idx[i]] <= b[idx[j]],
         \A i \in 0..(n - 1) : i < o => b[idx[i]] <= v
  PROVE  Repaired(idx, b, o, n, v, RaiseIndex(idx, b, o, n, v))
<1>1. PICK p \in o..(n - 1) :
         /\ RaiseIndex(idx, b, o, n, v) = Wander(idx, o, p)
         /\ p + 1 = n \/ b[idx[p + 1]] >= v
         /\ \A q \in (o + 1)..p : b[idx[q]] < v
  BY RaiseIs
<1> DEFINE g == [i \in 0..(n - 1) |-> b[idx[i]]]
<1>2. g \in [0..(n - 1) -> Int] /\ p \in 0..(n - 1)
  OBVIOUS
<1>3. \A i \in 0..(n - 1) : g[i] = b[idx[i]]
  OBVIOUS
<1> HIDE DEF g
<1>4. \A i, j \in 0..(n - 1) : i < j /\ i # o /\ j # o => g[i] <= g[j]
  BY <1>3
<1>5. \A i \in 0..(n - 1) : i < o => g[i] <= v
  BY <1>3
<1>6. p + 1 = n \/ g[p + 1] >= v
  <2>1. CASE p + 1 = n
    BY <2>1
  <2>2. CASE p + 1 # n
    <3>1. p + 1 \in 0..(n - 1)
      BY <2>2
    <3>2. QED
      BY <1>1, <1>3, <3>1
  <2>3. QED
    BY <2>1, <2>2
<1>7. \A q \in (o + 1)..p : g[q] < v
  <2> SUFFICES ASSUME NEW q \in (o + 1)..p PROVE g[q] < v
    OBVIOUS
  <2>1. q \in 0..(n - 1)
    OBVIOUS
  <2>2. QED
    BY <1>1, <1>3, <2>1
<1>8. ASSUME NEW i \in 0..(n - 1)
      PROVE  /\ i < p => b[idx[Src(i, o, p)]] <= v
             /\ i > p => b[idx[Src(i, o, p)]] >= v
  <2>1. /\ i < p => g[Src(i, o, p)] <= v
        /\ i > p => g[Src(i, o, p)] >= v
    BY <1>2, <1>4, <1>5, <1>6, <1>7, RaiseSeparates
  <2>2. Src(i, o, p) \in 0..(n - 1)
    BY <1>2, SrcIs
  <2>3. QED
    BY <1>3, <2>1, <2>2
<1>9. QED
  BY <1>1, <1>2, <1>8 DEF Repaired

LEMMA LowerRepairs ==
  ASSUME NEW n \in Nat, NEW o \in 0..(n - 1), NEW v \in Int, NEW idx, NEW b,
         \A i \in 0..(n - 1) : b[idx[i]] \in Int,
         \A i, j \in 0..(n - 1) : i < j /\ i # o /\ j # o => b[idx[i]] <= b[idx[j]],
         \A i \in 0..(n - 1) : i > o => b[idx[i]] >= v
  PROVE  Repaired(idx, b, o, n, v, LowerIndex(idx, b, o, v))
<1>1. PICK p \in 0..o :
         /\ LowerIndex(idx, b, o, v) = Wander(idx, o, p)
         /\ p = 0 \/ b[idx[p - 1]] <= v
         /\ \A q \in p..(o - 1) : b[idx[q]] > v
  BY LowerIs
<1> DEFINE g == [i \in 0..(n - 1) |-> b[idx[i]]]
<1>2. g \in [0..(n - 1) -> Int] /\ p \in 0..(n - 1)
  OBVIOUS
<1>3. \A i \in 0..(n - 1) : g[i] = b[idx[i]]
  OBVIOUS
<1> HIDE DEF g
<1>4. \A i, j \in 0..(n - 1) : i < j /\ i # o /\ j # o => g[i] <= g[j]
  BY <1>3
<1>5. \A i \in 0..(n - 1) : i > o => g[i] >= v
  BY <1>3
<1>6. p = 0 \/ g[p - 1] <= v
  <2>1. CASE p = 0
    BY <2>1
  <2>2. CASE p # 0
    <3>1. p - 1 \in 0..(n - 1)
      BY <2>2
    <3>2. QED
      BY <1>1, <1>3, <2>2, <3>1
  <2>3. QED
    BY <2>1, <2>2
<1>7. \A q \in p..(o - 1) : g[q] > v
  <2> SUFFICES ASSUME NEW q \in p..(o - 1) PROVE g[q] > v
    OBVIOUS
  <2>1. q \in 0..(n - 1)
    OBVIOUS
  <2>2. QED
    BY <1>1, <1>3, <2>1
<1>8. ASSUME NEW i \in 0..(n - 1)
      PROVE  /\ i < p => b[idx[Src(i, o, p)]] <= v
             /\ i > p => b[idx[Src(i, o, p)]] >= v
  <2>1. /\ i < p => g[Src(i, o, p)] <= v
        /\ i > p => g[Src(i, o, p)] >= v
    BY <1>2, <1>4, <1>5, <1>6, <1>7, LowerSeparates
  <2>2. Src(i, o, p) \in 0..(n - 1)
    BY <1>2, SrcIs
  <2>3. QED
    BY <1>3, <2>1, <2>2
<1>9. QED
  BY <1>1, <1>2, <1>8 DEF Repaired

LEMMA RepairedIs ==
  ASSUME NEW l \in Nat, NEW idx \in [0..(l - 1) -> 0..(l - 1)],
         NEW n \in 0..l, NEW o \in 0..(n - 1), NEW b, NEW v, NEW w,
         Perm(idx, n), b[idx[o]] = v,
         \A i \in 0..(n - 1) : b[idx[i]] \in Int,
         \A i, j \in 0..(n - 1) : i < j /\ i # o /\ j # o => b[idx[i]] <= b[idx[j]],
         Repaired(idx, b, o, n, v, w)
  PROVE  w \in [0..(l - 1) -> 0..(l - 1)] /\ Perm(w, n) /\ Sorted(b, w, n)
<1>1. PICK p \in 0..(n - 1) :
        /\ w = Wander(idx, o, p)
        /\ \A i \in 0..(n - 1) : i < p => b[idx[Src(i, o, p)]] <= b[idx[o]]
        /\ \A i \in 0..(n - 1) : i > p => b[idx[Src(i, o, p)]] >= b[idx[o]]
  BY DEF Repaired
<1>2. w \in [0..(l - 1) -> 0..(l - 1)]
  BY <1>1, WanderIs
<1>3. Perm(w, n)
  BY <1>1, WanderPerm
<1>4. Sorted(b, w, n)
  BY <1>1, WanderSorted
<1>5. QED
  BY <1>2, <1>3, <1>4

-----------------------------------------------------------------------------
(* The running median. *)

MedianInv(f, s) ==
  /\ DOMAIN f = MedianFields /\ f.length = MedianLength
  /\ f.index \in [0..(MedianLength - 1) -> 0..(MedianLength - 1)]
  /\ Ring(MedianLength, f.buffer, f.position, f.count, s)
  /\ Perm(f.index, f.count)
  /\ Sorted(f.buffer, f.index, f.count)

(* A full buffer: the entry of the overwritten sample finds its new place. *)
Replacing(l, idx, buf, pos, v, o, b, w) ==
  /\ b = [buf EXCEPT ![pos] = v]
  /\ o = CHOOSE x \in 0..(l - 1) : idx[x] = pos
  /\ w = IF buf[pos] < v THEN RaiseIndex(idx, b, o, l, v)
         ELSE IF buf[pos] > v THEN LowerIndex(idx, b, o, v)
         ELSE idx

LEMMA Replaced ==
  ASSUME NEW l \in Nat \ {0}, NEW idx \in [0..(l - 1) -> 0..(l - 1)],
         NEW buf \in [0..(l - 1) -> Val], Perm(idx, l), Sorted(buf, idx, l),
         NEW pos \in 0..(l - 1), NEW v \in Val, NEW o, NEW b, NEW w,
         Replacing(l, idx, buf, pos, v, o, b, w)
  PROVE  w \in [0..(l - 1) -> 0..(l - 1)] /\ Perm(w, l) /\ Sorted(b, w, l)
<1>1. o \in 0..(l - 1) /\ idx[o] = pos
  <2>1. \E x \in 0..(l - 1) : idx[x] = pos
    BY DEF Perm
  <2>2. QED
    BY <2>1 DEF Replacing
<1>a. b = [buf EXCEPT ![pos] = v]
  BY DEF Replacing
<1>2. v \in Int /\ buf[pos] \in Int /\ l \in Nat /\ l \in 0..l
  <2>1. v \in Int /\ buf[pos] \in Int
    BY ValIs
  <2>2. l \in Nat /\ l \in 0..l
    OBVIOUS
  <2>3. QED
    BY <2>1, <2>2
<1>3. \A i \in 0..(l - 1) : buf[idx[i]] \in Int
  BY ValIs
<1>4. b[idx[o]] = v
  BY <1>1, <1>a
<1>5. ASSUME NEW i \in 0..(l - 1), i # o PROVE b[idx[i]] = buf[idx[i]]
  <2>1. idx[i] \in 0..(l - 1) /\ idx[i] # pos
    BY <1>1, <1>5 DEF Perm
  <2>2. QED
    BY <1>a, <2>1
<1>6. \A i \in 0..(l - 1) : b[idx[i]] \in Int
  BY <1>2, <1>3, <1>4, <1>5
<1>7. \A i, j \in 0..(l - 1) : i < j => buf[idx[i]] <= buf[idx[j]]
  BY DEF Sorted
<1>8. \A i, j \in 0..(l - 1) : i < j /\ i # o /\ j # o => b[idx[i]] <= b[idx[j]]
  BY <1>5, <1>7
<1>9. CASE buf[pos] < v
  <2>1. ASSUME NEW i \in 0..(l - 1), i < o PROVE b[idx[i]] <= v
    <3>1. b[idx[i]] = buf[idx[i]] /\ buf[idx[i]] \in Int
      <4>1. i # o
        BY <1>1, <2>1
      <4>2. QED
        BY <1>3, <1>5, <4>1
    <3>2. buf[idx[i]] <= buf[idx[o]] /\ buf[idx[o]] = buf[pos]
      BY <1>1, <1>7, <2>1
    <3>3. QED
      BY <1>2, <1>9, <3>1, <3>2
  <2>2. w = RaiseIndex(idx, b, o, l, v)
    BY <1>9 DEF Replacing
  <2>3. Repaired(idx, b, o, l, v, w)
    BY <1>1, <1>2, <1>6, <1>8, <2>1, <2>2, RaiseRepairs
  <2>4. QED
    BY <1>1, <1>2, <1>4, <1>6, <1>8, <2>3, RepairedIs
<1>10. CASE buf[pos] > v
  <2>1. ASSUME NEW i \in 0..(l - 1), i > o PROVE b[idx[i]] >= v
    <3>1. b[idx[i]] = buf[idx[i]] /\ buf[idx[i]] \in Int
      <4>1. i # o
        BY <1>1, <2>1
      <4>2. QED
        BY <1>3, <1>5, <4>1
    <3>2. buf[idx[o]] <= buf[idx[i]] /\ buf[idx[o]] = buf[pos]
      BY <1>1, <1>7, <2>1
    <3>3. QED
      BY <1>2, <1>10, <3>1, <3>2
  <2>2. w = LowerIndex(idx, b, o, v)
    BY <1>2, <1>10 DEF Replacing
  <2>3. Repaired(idx, b, o, l, v, w)
    BY <1>1, <1>2, <1>6, <1>8, <2>1, <2>2, LowerRepairs
  <2>4. QED
    BY <1>1, <1>2, <1>4, <1>6, <1>8, <2>3, RepairedIs
<1>11. CASE buf[pos] = v
  <2>1. w = idx /\ b = buf
    BY <1>2, <1>11, <1>a DEF Replacing
  <2>2. QED
    BY <2>1
<1>12. buf[pos] < v \/ buf[pos] > v \/ buf[pos] = v
  BY <1>2
<1>13. QED
  BY <1>9, <1>10, <1>11, <1>12

(* A buffer that is not full: the new entry is put last and moves down. *)
Adding(idx, buf, n, v, b, d, w) ==
  /\ b = [buf EXCEPT ![n] = v] /\ d = [idx EXCEPT ![n] = n]
  /\ w = IF IntMax < v THEN RaiseIndex(d, b, n, n, v)
         ELSE IF IntMax > v THEN LowerIndex(d, b, n, v)
         ELSE d

LEMMA Added ==
  ASSUME NEW l \in Nat \ {0}, NEW idx \in [0..(l - 1) -> 0..(l - 1)],
         NEW buf \in [0..(l - 1) -> Val], NEW n \in 0..(l - 1),
         Perm(idx, n), Sorted(buf, idx, n), NEW v \in Val, NEW b, NEW d, NEW w,
         Adding(idx, buf, n, v, b, d, w)
  PROVE  w \in [0..(l - 1) -> 0..(l - 1)] /\ Perm(w, n + 1) /\ Sorted(b, w, n + 1)
<1>a. b = [buf EXCEPT ![n] = v] /\ d = [idx EXCEPT ![n] = n]
  BY DEF Adding
<1>1. v \in Int /\ IntMax \in Int /\ v <= IntMax
  BY ValIs
<1>2. (n + 1) - 1 = n /\ n + 1 \in Nat /\ n \in 0..((n + 1) - 1) /\ n + 1 \in 0..l /\ l \in Nat
  OBVIOUS
<1>3. d \in [0..(l - 1) -> 0..(l - 1)] /\ d[n] = n
  BY <1>a
<1>4. ASSUME NEW i \in 0..(n - 1)
      PROVE  /\ d[i] = idx[i] /\ idx[i] \in 0..(n - 1) /\ b[d[i]] = buf[idx[i]]
             /\ buf[idx[i]] \in Val
  <2>1. i \in 0..(l - 1) /\ i # n
    OBVIOUS
  <2>2. d[i] = idx[i]
    BY <1>a, <2>1
  <2>3. idx[i] \in 0..(n - 1)
    BY DEF Perm
  <2>4. idx[i] \in 0..(l - 1) /\ idx[i] # n
    BY <2>3
  <2>5. QED
    BY <1>a, <2>2, <2>3, <2>4
<1>5. b[d[n]] = v
  BY <1>a, <1>3
<1>6. ASSUME NEW i \in 0..n PROVE b[d[i]] \in Val
  <2>1. CASE i = n
    BY <1>5, <2>1
  <2>2. CASE i # n
    <3>1. i \in 0..(n - 1)
      BY <2>2
    <3>2. QED
      BY <1>4, <3>1
  <2>3. QED
    BY <2>1, <2>2
<1>7. ASSUME NEW i \in 0..n, NEW j \in 0..n, i < j, i # n, j # n PROVE b[d[i]] <= b[d[j]]
  <2>1. i \in 0..(n - 1) /\ j \in 0..(n - 1)
    BY <1>7
  <2>2. buf[idx[i]] <= buf[idx[j]]
    BY <1>7, <2>1 DEF Sorted
  <2>3. QED
    BY <1>4, <2>1, <2>2
<1>8. Perm(d, n + 1)
  <2>1. ASSUME NEW i \in 0..n PROVE d[i] \in 0..n /\ (i # n => i \in 0..(n - 1) /\ d[i] \in 0..(n - 1))
    <3>1. CASE i = n
      BY <1>3, <3>1
    <3>2. CASE i # n
      <4>1. i \in 0..(n - 1)
        BY <3>2
      <4>2. d[i] \in 0..(n - 1)
        BY <1>4, <4>1
      <4>3. QED
        BY <4>1, <4>2, SMTT(30)
    <3>3. QED
      BY <3>1, <3>2
  <2>2. ASSUME NEW i \in 0..n, NEW j \in 0..n, d[i] = d[j] PROVE i = j
    <3>1. CASE i # n /\ j # n
      <4>1. i \in 0..(n - 1) /\ j \in 0..(n - 1)
        BY <2>1, <3>1
      <4>2. idx[i] = idx[j]
        BY <1>4, <2>2, <4>1
      <4>3. QED
        BY <4>1, <4>2 DEF Perm
    <3>2. CASE i = n \/ j = n
      <4>1. ASSUME NEW x \in 0..n, x # n PROVE d[x] # n
        <5>1. d[x] \in 0..(n - 1)
          BY <2>1, <4>1
        <5>2. QED
          BY <5>1
      <4>2. QED
        BY <1>3, <2>2, <3>2, <4>1, Zenon
    <3>3. QED
      BY <3>1, <3>2
  <2>3. ASSUME NEW k \in 0..n PROVE \E i \in 0..n : d[i] = k
    <3>1. CASE k = n
      BY <1>3, <3>1
    <3>2. CASE k # n
      <4>1. k \in 0..(n - 1)
        BY <3>2
      <4>2. PICK i \in 0..(n - 1) : idx[i] = k
        BY <4>1 DEF Perm
      <4>3. i \in 0..n /\ d[i] = k
        BY <1>4, <4>2, SMTT(30)
      <4>4. QED
        BY <4>3
    <3>3. QED
      BY <3>1, <3>2
  <2>4. QED
    BY <1>2, <2>1, <2>2, <2>3 DEF Perm
<1>9. \A i \in 0..n : b[d[i]] \in Int /\ b[d[i]] <= IntMax
  BY <1>6, ValIs
<1>10. CASE IntMax > v
  <2>1. w = LowerIndex(d, b, n, v)
    BY <1>1, <1>10 DEF Adding
  <2>2. Repaired(d, b, n, n + 1, v, w)
    <3>1. \A i \in 0..((n + 1) - 1) : b[d[i]] \in Int
      BY <1>2, <1>9
    <3>2. \A i, j \in 0..((n + 1) - 1) : i < j /\ i # n /\ j # n => b[d[i]] <= b[d[j]]
      BY <1>2, <1>7
    <3>3. \A i \in 0..((n + 1) - 1) : i > n => b[d[i]] >= v
      BY <1>2
    <3>4. QED
      BY <1>1, <1>2, <2>1, <3>1, <3>2, <3>3, LowerRepairs
  <2>3. QED
    BY <1>2, <1>3, <1>5, <1>7, <1>8, <1>9, <2>2, RepairedIs
<1>11. CASE IntMax = v
  <2>1. w = d
    BY <1>1, <1>11 DEF Adding
  <2>2. ASSUME NEW i \in 0..n, NEW j \in 0..n, i < j PROVE b[d[i]] <= b[d[j]]
    <3>1. CASE j = n
      BY <1>5, <1>9, <1>11, <3>1
    <3>2. CASE j # n
      <4>1. i # n
        BY <2>2, <3>2
      <4>2. QED
        BY <1>7, <2>2, <3>2, <4>1
    <3>3. QED
      BY <3>1, <3>2
  <2>3. Sorted(b, d, n + 1)
    BY <1>2, <2>2 DEF Sorted
  <2>4. QED
    BY <1>3, <1>8, <2>1, <2>3
<1>12. IntMax > v \/ IntMax = v
  BY <1>1
<1>13. QED
  BY <1>10, <1>11, <1>12

(* The order gives the ranks of the samples. *)
LEMMA MiddleIs ==
  ASSUME NEW l \in Nat \ {0}, NEW b, NEW pos, NEW n \in Nat \ {0}, NEW s, NEW w,
         Ring(l, b, pos, n, s), Perm(w, n), Sorted(b, w, n), NEW k \in 0..(n - 1)
  PROVE  b[w[k]] = Rank(s, k)
<1>1. /\ b \in [0..(l - 1) -> Val] /\ pos \in 0..(l - 1) /\ n \in 0..l
      /\ s \in Seq(Val) /\ Len(s) = n
      /\ \A m \in 1..n : s[m] = b[Slot(l, pos, n, m)]
  BY DEF Ring
<1>2. s \in Seq(Int)
  BY <1>1, ValSeq
<1> DEFINE Sl(m) == Slot(l, pos, n, m)
           r == [m \in 1..n |-> CHOOSE i \in 0..(n - 1) : w[i] = Sl(m)]
<1>3. /\ \A m \in 1..n : Sl(m) \in 0..(n - 1)
      /\ \A m, j \in 1..n : Sl(m) = Sl(j) => m = j
      /\ \A i \in 0..(n - 1) : \E m \in 1..n : Sl(m) = i
  <2>1. /\ \A m \in 1..n : Slot(l, pos, n, m) \in 0..(n - 1)
        /\ \A m, j \in 1..n : Slot(l, pos, n, m) = Slot(l, pos, n, j) => m = j
        /\ \A i \in 0..(n - 1) : \E m \in 1..n : Slot(l, pos, n, m) = i
    <3>1. pos \in 0..(l - 1) /\ n \in 0..l
      BY <1>1
    <3>2. \A m \in 1..n : Slot(l, pos, n, m) \in 0..(n - 1)
      BY <3>1, SlotsAre
    <3>3. \A m, j \in 1..n : Slot(l, pos, n, m) = Slot(l, pos, n, j) => m = j
      BY <3>1, SlotsAre
    <3>4. \A i \in 0..(n - 1) : \E m \in 1..n : Slot(l, pos, n, m) = i
      BY <3>1, SlotsAre
    <3>5. QED
      BY <3>2, <3>3, <3>4
  <2>2. QED
    BY <2>1, Zenon
<1>4. \A m \in 1..n : s[m] = b[Sl(m)]
  BY <1>1
<1> HIDE DEF Sl
<1>5. ASSUME NEW m \in 1..n PROVE r[m] \in 0..(n - 1) /\ w[r[m]] = Sl(m)
  <2>1. \E i \in 0..(n - 1) : w[i] = Sl(m)
    BY <1>3 DEF Perm
  <2>2. QED
    BY <2>1
<1>6. r \in [1..n -> 0..(n - 1)]
  <2>1. \A m \in 1..n : r[m] \in 0..(n - 1)
    BY <1>5
  <2>2. r = [m \in 1..n |-> r[m]]
    OBVIOUS
  <2> HIDE DEF r
  <2>3. QED
    BY <2>1, <2>2
<1> HIDE DEF r
<1>7. ASSUME NEW i \in 1..n, NEW j \in 1..n, r[i] = r[j] PROVE i = j
  <2>1. Sl(i) = Sl(j)
    BY <1>5, <1>7
  <2>2. QED
    BY <1>3, <2>1
<1>8. ASSUME NEW x \in 0..(n - 1) PROVE \E m \in 1..n : r[m] = x
  <2>1. w[x] \in 0..(n - 1)
    BY DEF Perm
  <2>2. PICK m \in 1..n : Sl(m) = w[x]
    BY <1>3, <2>1
  <2>3. r[m] \in 0..(n - 1) /\ w[r[m]] = w[x]
    BY <1>5, <2>2
  <2>4. r[m] = x
    BY <2>3, Zenon DEF Perm
  <2>5. QED
    BY <2>4
<1>9. ASSUME NEW i \in 1..n, NEW j \in 1..n, r[i] < r[j] PROVE s[i] <= s[j]
  <2>1. b[w[r[i]]] <= b[w[r[j]]]
    BY <1>5, <1>9 DEF Sorted
  <2>2. w[r[i]] = Sl(i) /\ w[r[j]] = Sl(j)
    BY <1>5
  <2>3. QED
    BY <1>4, <2>1, <2>2
<1>10. PICK m \in 1..n : r[m] = k
  BY <1>8
<1>11. Rank(s, r[m]) = s[m]
  <2>1. Len(s) = n
    BY <1>1
  <2>2. \A i, j \in 1..n : r[i] = r[j] => i = j
    BY <1>7
  <2>3. \A x \in 0..(n - 1) : \E i \in 1..n : r[i] = x
    BY <1>8
  <2>4. \A i, j \in 1..n : r[i] < r[j] => s[i] <= s[j]
    BY <1>9
  <2>5. Places(r, s, n)
    BY <1>6, <2>2, <2>3, <2>4 DEF Places
  <2>6. QED
    BY <1>2, <2>1, <2>5, RankIs
<1>12. s[m] = b[w[k]]
  BY <1>4, <1>5, <1>10
<1>13. QED
  BY <1>10, <1>11, <1>12

LEMMA MedianTakes ==
  ASSUME NEW f, NEW s, NEW v \in Val, MedianInv(f, s)
  PROVE  LET u == median_update(f, v)
             e == LastOf(Append(s, v), MedianLength)
         IN  /\ MedianInv(u.filter, e) /\ Len(e) > 0 /\ u.result \in Val
             /\ u.result = Rank(e, (Len(e) - 1) \div 2)
<1> DEFINE u == median_update(f, v)
           e == LastOf(Append(s, v), MedianLength)
           l == MedianLength
           n == f.count
           pos == f.position
           b == [f.buffer EXCEPT ![pos] = v]
           w == u.filter.index
           k == Grown(l, n)
<1>1. l \in Nat \ {0} /\ l % 2 = 1
  BY AxisConstants, AxisAssumption
<1>2. /\ DOMAIN f = MedianFields /\ f.length = l
      /\ f.index \in [0..(l - 1) -> 0..(l - 1)]
      /\ Perm(f.index, n) /\ Sorted(f.buffer, f.index, n)
  BY DEF MedianInv
<1>3. Ring(l, f.buffer, pos, n, s)
  BY DEF MedianInv
<1>4. /\ f.buffer \in [0..(l - 1) -> Val] /\ pos \in 0..(l - 1) /\ n \in 0..l
      /\ (n < l => pos = n) /\ s \in Seq(Val) /\ Len(s) = n
  BY <1>3 DEF Ring
<1> HIDE DEF l
<1>5. Ring(l, b, Onward(l, pos), k, e)
  BY <1>1, <1>3, RingTakes DEF l
<1>6. /\ DOMAIN u.filter = MedianFields /\ u.filter.length = l
      /\ u.filter.buffer = b /\ u.filter.position = Onward(l, pos)
  BY <1>2 DEF median_update, MedianFields, Onward
<1>7. u.filter.count = IF n = l THEN n ELSE n + 1
  BY <1>2 DEF median_update, MedianFields
<1>8. u.filter.count = k
  BY <1>1, <1>4, <1>7 DEF Grown
<1> DEFINE idx0 == IF n = f.length THEN f.index ELSE [f.index EXCEPT ![pos] = pos]
           oidx == IF n = f.length THEN CHOOSE o \in 0..(n - 1) : f.index[o] = pos ELSE pos
           oval == IF n = f.length THEN f.buffer[pos] ELSE IntMax
           idx == IF oval < v THEN RaiseIndex(idx0, b, oidx, n, v)
                  ELSE IF oval > v THEN LowerIndex(idx0, b, oidx, v)
                  ELSE idx0
<1>a. w = idx
  <2> DEFINE p1 == IF pos + 1 = f.length THEN 0 ELSE pos + 1
             c1 == IF n = f.length THEN n ELSE n + 1
  <2>1. u.filter = [f EXCEPT !.buffer = b, !.index = idx, !.position = p1, !.count = c1]
    BY DEF median_update
  <2> HIDE DEF idx, b, u, p1, c1
  <2>2. QED
    BY <1>2, <2>1 DEF MedianFields
<1>9. u.result = IF n > 0 THEN b[w[n \div 2]] ELSE v
  <2>1. u.result = IF n > 0 THEN b[idx[n \div 2]] ELSE v
    BY <1>2 DEF median_update, MedianFields
  <2> HIDE DEF idx, w, u
  <2>2. QED
    BY <1>a, <2>1
<1> HIDE DEF w
<1>10. w \in [0..(l - 1) -> 0..(l - 1)] /\ Perm(w, k) /\ Sorted(b, w, k)
  <2>1. CASE n = l
    <3> DEFINE o == CHOOSE x \in 0..(l - 1) : f.index[x] = pos
    <3>1. w = IF f.buffer[pos] < v THEN RaiseIndex(f.index, b, o, l, v)
              ELSE IF f.buffer[pos] > v THEN LowerIndex(f.index, b, o, v)
              ELSE f.index
      <4>1. idx0 = f.index /\ oidx = o /\ oval = f.buffer[pos]
        BY <1>2, <2>1
      <4> HIDE DEF idx0, oidx, oval, o, b
      <4>2. QED
        BY <1>a, <2>1, <4>1
    <3> HIDE DEF b, o
    <3>2. Replacing(l, f.index, f.buffer, pos, v, o, b, w)
      BY <3>1 DEF Replacing, b, o
    <3>3. w \in [0..(l - 1) -> 0..(l - 1)] /\ Perm(w, l) /\ Sorted(b, w, l)
      BY <1>1, <1>2, <1>4, <2>1, <3>2, Replaced
    <3>4. k = l
      BY <1>1, <2>1 DEF Grown
    <3>5. QED
      BY <3>3, <3>4
  <2>2. CASE n < l
    <3> DEFINE d == [f.index EXCEPT ![n] = n]
    <3>1. n # l /\ pos = n /\ n \in 0..(l - 1) /\ k = n + 1
      BY <1>1, <1>4, <2>2 DEF Grown
    <3>2. w = IF IntMax < v THEN RaiseIndex(d, b, n, n, v)
              ELSE IF IntMax > v THEN LowerIndex(d, b, n, v)
              ELSE d
      <4>1. idx0 = d /\ oidx = n /\ oval = IntMax
        BY <1>2, <3>1
      <4> HIDE DEF idx0, oidx, oval, d, b, n
      <4>2. QED
        BY <1>a, <4>1
    <3>3. b = [f.buffer EXCEPT ![n] = v]
      BY <3>1
    <3> HIDE DEF b, d, pos, k, n
    <3>4. Adding(f.index, f.buffer, n, v, b, d, w)
      BY <3>2, <3>3 DEF Adding, d
    <3>5. w \in [0..(l - 1) -> 0..(l - 1)] /\ Perm(w, n + 1) /\ Sorted(b, w, n + 1)
      BY <1>1, <1>2, <1>4, <3>1, <3>4, Added
    <3>6. QED
      BY <3>1, <3>5
  <2>3. n = l \/ n < l
    BY <1>1, <1>4
  <2>4. QED
    BY <2>1, <2>2, <2>3
<1>11. MedianInv(u.filter, e)
  <2> HIDE DEF u, e, b, pos, n, k
  <2>1. u.filter.index = w
    BY DEF w
  <2>2. QED
    BY <1>5, <1>6, <1>8, <1>10, <2>1 DEF MedianInv, l
<1>12. k \in Nat \ {0} /\ Len(e) = k
  <2>1. k \in Nat \ {0}
    BY <1>1, <1>4 DEF Grown
  <2>2. Len(e) = k
    BY <1>5 DEF Ring
  <2>3. QED
    BY <2>1, <2>2
<1>13. (n > 0 => (k - 1) \div 2 = n \div 2) /\ (k - 1) \div 2 \in 0..(k - 1) /\ (n = 0 => k = 1)
  <2> HIDE DEF n
  <2>1. CASE n < l
    BY <1>1, <1>4, <2>1 DEF Grown
  <2>2. CASE n = l
    BY <1>1, <1>4, <2>2 DEF Grown
  <2>3. QED
    BY <1>1, <1>4, <2>1, <2>2
<1> HIDE DEF u, e, b, pos, n, k, w
<1>14. b[w[(k - 1) \div 2]] = Rank(e, (k - 1) \div 2)
  <2> DEFINE h == (k - 1) \div 2
  <2>1. h \in 0..(k - 1)
    BY <1>13
  <2> HIDE DEF h
  <2>2. b[w[h]] = Rank(e, h)
    <3>1. l \in Nat \ {0} /\ k \in Nat \ {0}
      BY <1>1, <1>12
    <3>2. Perm(w, k) /\ Sorted(b, w, k)
      BY <1>10
    <3> DEFINE next == Onward(l, pos)
    <3>3. Ring(l, b, next, k, e)
      BY <1>5
    <3> HIDE DEF l, next
    <3>4. QED
      BY <2>1, <3>1, <3>2, <3>3, MiddleIs
  <2>3. QED
    BY <2>2 DEF h
<1>15. u.result = b[w[(k - 1) \div 2]]
  <2>1. CASE n > 0
    BY <1>9, <1>13, <2>1
  <2>2. CASE n = 0
    <3>1. k = 1 /\ pos = 0
      BY <1>1, <1>4, <1>13, <2>2
    <3>2. w[0] = 0
      BY <1>10, <3>1 DEF Perm
    <3>3. b[0] = v
      BY <1>4, <3>1 DEF b
    <3>4. (k - 1) \div 2 = 0
      BY <3>1
    <3>5. QED
      BY <1>9, <2>2, <3>2, <3>3, <3>4
  <2>3. QED
    BY <1>4, <2>1, <2>2
<1>16. u.result \in Val
  <2>1. w[(k - 1) \div 2] \in 0..(l - 1) /\ b \in [0..(l - 1) -> Val]
    <3>1. k \in 0..l
      BY <1>5 DEF Ring
    <3>2. (k - 1) \div 2 \in 0..(l - 1)
      BY <1>1, <1>12, <1>13, <3>1
    <3>3. QED
      BY <1>5, <1>10, <3>2 DEF Ring
  <2>2. QED
    BY <1>15, <2>1
<1>17. u.result = Rank(e, (Len(e) - 1) \div 2) /\ Len(e) > 0
  BY <1>12, <1>14, <1>15
<1>18. QED
  BY <1>11, <1>16, <1>17 DEF u, e

LEMMA MedianClears ==
  ASSUME NEW f, NEW s, MedianInv(f, s)
  PROVE  MedianInv(median_clear(f), <<>>)
<1> DEFINE c == median_clear(f)
           l == MedianLength
<1>1. /\ DOMAIN f = MedianFields /\ f.length = l
      /\ f.index \in [0..(l - 1) -> 0..(l - 1)]
      /\ f.buffer \in [0..(l - 1) -> Val]
  BY DEF MedianInv, Ring
<1>2. /\ DOMAIN c = MedianFields /\ c.length = l /\ c.index = f.index
      /\ c.buffer = f.buffer /\ c.position = 0 /\ c.count = 0
  BY <1>1 DEF median_clear, MedianFields
<1> HIDE DEF c
<1>3. Ring(l, c.buffer, 0, 0, <<>>)
  BY <1>1, <1>2, AxisConstants, RingEmpty
<1>4. Perm(c.index, 0) /\ Sorted(c.buffer, c.index, 0)
  BY DEF Perm, Sorted
<1>5. MedianInv(c, <<>>)
  BY <1>1, <1>2, <1>3, <1>4 DEF MedianInv
<1>6. QED
  BY <1>5 DEF c

LEMMA MedianStarts == MedianInv(median_alloc(MedianLength), <<>>)
<1> DEFINE c == median_alloc(MedianLength)
           l == MedianLength
           b == [i \in 0..(l - 1) |-> 0]
<1>1. /\ DOMAIN c = MedianFields /\ c.length = l /\ c.index = b
      /\ c.buffer = b /\ c.position = 0 /\ c.count = 0
  BY DEF median_alloc, MedianFields
<1>2. b \in [0..(l - 1) -> Val] /\ b \in [0..(l - 1) -> 0..(l - 1)]
  BY ValIs, AxisConstants
<1> HIDE DEF b, c
<1>3. Ring(l, c.buffer, 0, 0, <<>>)
  BY <1>1, <1>2, AxisConstants, RingEmpty
<1>4. Perm(c.index, 0) /\ Sorted(c.buffer, c.index, 0)
  BY DEF Perm, Sorted
<1>5. MedianInv(c, <<>>)
  BY <1>1, <1>2, <1>3, <1>4 DEF MedianInv
<1>6. QED
  BY <1>5 DEF c

-----------------------------------------------------------------------------
(* The two filters in a row. *)

AxisInv ==
  /\ MedianInv(median, raw) /\ MeanInv(mean, mid)
  /\ mid # <<>> => /\ mid[Len(mid)] = Rank(raw, (Len(raw) - 1) \div 2)
                   /\ out = CDiv(Total(mid), Len(mid))

LEMMA AxisStarts == AxisInit => AxisInv
BY MedianStarts, MeanStarts DEF AxisInit, AxisInv

LEMMA AxisUpdates ==
  ASSUME AxisInv, NEW v \in Samples, Update(v)
  PROVE  AxisInv'
<1> DEFINE m == median_update(median, v)
           a == mean_update(mean, m.result)
           r1 == LastOf(Append(raw, v), MedianLength)
           m1 == LastOf(Append(mid, m.result), MeanLength)
<1>1. v \in Val
  BY AxisConstants
<1>2. MedianInv(median, raw) /\ MeanInv(mean, mid)
  BY DEF AxisInv
<1>3. /\ median' = m.filter /\ mean' = a.filter /\ out' = a.result
      /\ raw' = r1 /\ mid' = m1
  BY DEF Update
<1>4. /\ MedianInv(m.filter, r1) /\ m.result \in Val
      /\ m.result = Rank(r1, (Len(r1) - 1) \div 2)
  BY <1>1, <1>2, MedianTakes
<1>5. /\ MeanInv(a.filter, m1) /\ Len(m1) > 0
      /\ a.result = CDiv(Total(m1), Len(m1))
  <2> HIDE DEF m
  <2>1. QED
    BY <1>2, <1>4, MeanTakes
<1>6. m1[Len(m1)] = m.result
  <2> HIDE DEF m
  <2>1. mid \in Seq(Val) /\ Len(mid) <= MeanLength
    BY <1>2, AxisConstants DEF MeanInv, Ring
  <2>2. QED
    BY <1>4, <2>1, AxisConstants, LastOfIs
<1> HIDE DEF m, a, r1, m1
<1>7. /\ MedianInv(median', raw') /\ MeanInv(mean', mid')
      /\ mid'[Len(mid')] = Rank(raw', (Len(raw') - 1) \div 2)
      /\ out' = CDiv(Total(mid'), Len(mid'))
  BY <1>3, <1>4, <1>5, <1>6
<1>8. QED
  BY <1>7 DEF AxisInv

LEMMA AxisClears ==
  ASSUME AxisInv, Clear
  PROVE  AxisInv'
<1>1. MedianInv(median, raw) /\ MeanInv(mean, mid)
  BY DEF AxisInv
<1>2. MedianInv(median_clear(median), <<>>) /\ MeanInv(mean_clear(mean), <<>>)
  BY <1>1, MedianClears, MeanClears
<1>3. /\ median' = median_clear(median) /\ mean' = mean_clear(mean)
      /\ raw' = <<>> /\ mid' = <<>>
  BY DEF Clear
<1>4. QED
  BY <1>2, <1>3 DEF AxisInv

LEMMA AxisAlways == AxisSpec => []AxisInv
<1>1. AxisInv /\ [AxisNext]_axisVars => AxisInv'
  <2> SUFFICES ASSUME AxisInv, [AxisNext]_axisVars PROVE AxisInv'
    OBVIOUS
  <2>1. ASSUME UNCHANGED axisVars PROVE AxisInv'
    BY <2>1 DEF axisVars, AxisInv
  <2>2. QED
    BY <2>1, AxisUpdates, AxisClears DEF AxisNext
<1>2. QED
  BY <1>1, AxisStarts, PTL DEF AxisSpec

(* For filters of every (odd) length, median_update returns the middle of    *)
(* the last samples and its index stays a sorted permutation of them,        *)
(* although each call only moves the entry of the sample it overwrites.      *)
THEOREM MedianStaysMiddle == AxisSpec => []MedianIsMiddle
<1>1. AxisInv => MedianIsMiddle
  <2> SUFFICES ASSUME AxisInv PROVE MedianIsMiddle
    OBVIOUS
  <2> DEFINE n == median.count
  <2>1. Perm(median.index, n) /\ Sorted(median.buffer, median.index, n)
    BY DEF AxisInv, MedianInv
  <2>2. {median.index[i] : i \in 0..(n - 1)} = 0..(n - 1)
    <3> HIDE DEF n
    <3>1. QED
      BY <2>1 DEF Perm
  <2>3. IndexSorted
    BY <2>1, <2>2 DEF IndexSorted, Sorted
  <2>4. QED
    BY <2>3 DEF AxisInv, MedianIsMiddle
<1>2. QED
  BY <1>1, AxisAlways, PTL

(* For filters of every length, mean_update's incremental sum is the sum of  *)
(* the last values and its result their truncated average, also when the     *)
(* cyclic buffer wraps and after a clear.                                    *)
THEOREM MeanStaysAverage == AxisSpec => []MeanIsAverage
<1>1. AxisInv => MeanIsAverage
  BY DEF AxisInv, MeanInv, Ring, MeanIsAverage
<1>2. QED
  BY <1>1, AxisAlways, PTL
=============================================================================
