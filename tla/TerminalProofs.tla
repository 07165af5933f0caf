--------------------------- MODULE TerminalProofs ---------------------------
(***************************************************************************)
(* Proofs about the on-screen terminal, for every size of the ring buffer  *)
(* and all keys: the semaphore counts the characters of the ring, and      *)
(* until the page is cancelled or a character is stored over another one   *)
(* the ring is the bounded queue of CharQueue.                             *)
(***************************************************************************)
EXTENDS Terminal, TLAPS

-----------------------------------------------------------------------------
(* The positions without product and remainder. *)

Pos(m, i) == IF m = 0 THEN i ELSE Size + i

WPos == Pos(IF wpc = "wrap" THEN 1 - wm ELSE wm, wi)

RPos ==
  Pos(IF rpc = "wrap" THEN 1 - rm ELSE rm, ri) + (IF rpc \in {"flip", "wrap", "bump"} THEN 1 ELSE 0)

GapOf(w, r) == IF w >= r THEN w - r ELSE w - r + 2 * Size

Gap == GapOf(WPos, RPos)

One(b) == IF b THEN 1 ELSE 0

(* What always holds, also after the page was cancelled: types, and where    *)
(* the indices are when the mirror bit is about to turn.                     *)
Indices ==
  /\ wm \in {0, 1} /\ rm \in {0, 1} /\ wi \in 0..(Size - 1) /\ ri \in 0..(Size - 1)
  /\ wpc \in {"flip", "wrap"} => wi = Size - 1
  /\ wpc = "bump" => wi < Size - 1
  /\ rpc \in {"flip", "wrap"} => ri = Size - 1
  /\ rpc = "bump" => ri < Size - 1

Shape ==
  /\ buf \in [0..(Size - 1) -> Chars]
  /\ wpc \in {"idle", "check", "store", "flip", "wrap", "bump", "release", "indicate"}
  /\ rpc \in {"uart", "idle", "take", "wait", "get", "copy", "flip", "wrap", "bump", "handle"}
  /\ cpc \in {"open", "finsh", "detach", "free", "done"}
  /\ ch \in Chars \cup {"none"} /\ device \in {"tty", "uart"} /\ ind \in {0, 1}
  /\ fault \in {"none", "assert", "null call", "freed"}
  /\ torn \in BOOLEAN
  /\ rpc \in {"take", "wait", "get", "copy"} => ch = "none"

(* What is left of the key. *)
Rest ==
  /\ todo \in Seq(Chars)
  /\ wpc # "idle" => todo # <<>>
  /\ wpc \in {"flip", "wrap", "bump"} => buf[wi] = Head(todo)

(* The value of the semaphore, with the one character that may be stored     *)
(* over another one.                                                         *)
Bounded ==
  /\ sem \in Nat
  /\ ~torn => sem <= Size
  /\ torn => sem <= Size + 1
  /\ torn /\ wpc \in {"store", "flip", "wrap", "bump", "release"} => sem <= Size

(* The characters of the ring are those the semaphore counts, the one that   *)
(* was put and not counted yet and the one that was counted down and not     *)
(* taken yet; there is room for the one being put, also next to the one the  *)
(* shell has copied and not yet given up.                                    *)
Counted ==
  /\ Gap = sem + One(wpc = "release") + One(rpc \in {"get", "copy"})
  /\ rpc = "wait" => sem = 0
  /\ Gap + One(rpc \in {"flip", "bump"}) + One(wpc \in {"store", "flip", "wrap", "bump"}) <= Size

Inv == Shape /\ Indices /\ Rest /\ Bounded /\ (~torn /\ ~Detached => Counted)

-----------------------------------------------------------------------------
(* Positions and remainders. *)

LEMMA SizeIs == Size \in Nat /\ Size > 0 /\ Size \in Int
BY TerminalAssumption DEF TerminalAssumption

LEMMA Remainder ==
  ASSUME NEW n \in Nat \ {0}, NEW q \in Int, NEW r \in 0..(n - 1)
  PROVE  (n * q + r) % n = r
OBVIOUS

LEMMA Small ==
  ASSUME NEW n \in Nat \ {0}, NEW r \in 0..(n - 1)
  PROVE  r % n = r
OBVIOUS

LEMMA PosIs ==
  ASSUME NEW m \in {0, 1}, NEW i \in Int
  PROVE  m * Size + i = Pos(m, i)
<1>1. CASE m = 0
  BY <1>1, SizeIs DEF Pos
<1>2. CASE m = 1
  BY <1>2, SizeIs DEF Pos
<1>3. QED
  BY <1>1, <1>2

(* Positions of a ring of twice the size. *)
LEMMA GapIs ==
  ASSUME NEW w \in Int, NEW r \in Int, 0 <= w, w < 2 * Size, 0 <= r, r <= 2 * Size
  PROVE  (w - r) % (2 * Size) = GapOf(w, r)
<1> DEFINE n == 2 * Size
           g == GapOf(w, r)
<1>1. n \in Nat \ {0} /\ n = 2 * Size
  BY SizeIs
<1>2. g \in 0..(n - 1) /\ (w - r = g \/ w - r = n * (-1) + g)
  BY SizeIs DEF GapOf
<1> HIDE DEF n, g
<1>3. g % n = g
  BY <1>1, <1>2, Small
<1>4. (n * (-1) + g) % n = g
  BY <1>1, <1>2, Remainder
<1>5. (w - r) % n = g
  BY <1>2, <1>3, <1>4
<1>6. QED
  BY <1>1, <1>5 DEF g

(* Places of the ring. *)
Slot(x) == IF x < Size THEN x ELSE IF x < 2 * Size THEN x - Size ELSE x - 2 * Size

LEMMA SlotIs ==
  ASSUME NEW x \in Int, 0 <= x, x < 3 * Size
  PROVE  x % Size = Slot(x) /\ Slot(x) \in 0..(Size - 1)
<1> DEFINE s == Slot(x)
<1>1. Size \in Nat \ {0}
  BY SizeIs
<1>2. s \in 0..(Size - 1) /\ (x = s \/ x = Size * 1 + s \/ x = Size * 2 + s)
  BY SizeIs DEF Slot
<1> HIDE DEF s
<1>3. s % Size = s /\ (Size * 1 + s) % Size = s /\ (Size * 2 + s) % Size = s
  BY <1>1, <1>2, Small, Remainder
<1>4. x % Size = s
  BY <1>2, <1>3
<1>5. QED
  BY <1>2, <1>4 DEF s

LEMMA Ranges ==
  Indices => /\ WPos \in Int /\ 0 <= WPos /\ WPos < 2 * Size
             /\ RPos \in Int /\ 0 <= RPos /\ RPos <= 2 * Size
             /\ Gap \in Int /\ 0 <= Gap /\ Gap < 2 * Size
<1> SUFFICES ASSUME Indices
             PROVE  /\ WPos \in Int /\ 0 <= WPos /\ WPos < 2 * Size
                    /\ RPos \in Int /\ 0 <= RPos /\ RPos <= 2 * Size
                    /\ Gap \in Int /\ 0 <= Gap /\ Gap < 2 * Size
  OBVIOUS
<1>1. WPos \in Int /\ 0 <= WPos /\ WPos < 2 * Size
  BY SizeIs DEF Indices, WPos, Pos
<1>2. RPos \in Int /\ 0 <= RPos /\ RPos <= 2 * Size
  BY SizeIs DEF Indices, RPos, Pos
<1>3. Gap \in Int /\ 0 <= Gap /\ Gap < 2 * Size
  BY <1>1, <1>2, SizeIs DEF Gap, GapOf
<1>4. QED
  BY <1>1, <1>2, <1>3

LEMMA UnreadIs == Indices => WritePos = WPos /\ ReadPos = RPos /\ Unread = Gap
<1> SUFFICES ASSUME Indices PROVE WritePos = WPos /\ ReadPos = RPos /\ Unread = Gap
  OBVIOUS
<1>1. WritePos = WPos
  <2> DEFINE m == IF wpc = "wrap" THEN 1 - wm ELSE wm
  <2>1. m \in {0, 1} /\ wi \in Int
    BY SizeIs DEF Indices
  <2> HIDE DEF m
  <2>2. m * Size + wi = Pos(m, wi)
    BY <2>1, PosIs
  <2>3. QED
    BY <2>2 DEF WritePos, WPos, m
<1>2. ReadPos = RPos
  <2> DEFINE m == IF rpc = "wrap" THEN 1 - rm ELSE rm
  <2>1. m \in {0, 1} /\ ri \in Int
    BY SizeIs DEF Indices
  <2> HIDE DEF m
  <2>2. m * Size + ri = Pos(m, ri) /\ m * Size + ri \in Int
    BY <2>1, PosIs, SizeIs DEF Pos
  <2>3. QED
    BY <2>2 DEF ReadPos, RPos, m
<1>3. Unread = Gap
  BY <1>1, <1>2, Ranges, GapIs DEF Unread, Gap
<1>4. QED
  BY <1>1, <1>2, <1>3
-----------------------------------------------------------------------------
(* How the steps move the ends of the ring. *)

LEMMA SameGap ==
  ASSUME UNCHANGED <<wm, wi, rm, ri>>,
         (wpc = "wrap") <=> (wpc' = "wrap"),
         (rpc = "wrap") <=> (rpc' = "wrap"),
         (rpc \in {"flip", "wrap", "bump"}) <=> (rpc' \in {"flip", "wrap", "bump"})
  PROVE  WPos' = WPos /\ RPos' = RPos /\ Gap' = Gap
<1>1. WPos' = WPos
  BY DEF WPos, Pos
<1>2. RPos' = RPos
  BY DEF RPos, Pos
<1>3. QED
  BY <1>1, <1>2 DEF Gap, GapOf

LEMMA FlipGap ==
  ASSUME Indices, Flip
  PROVE  WPos' = WPos /\ RPos' = RPos /\ Gap' = Gap
<1>1. WPos' = WPos
  BY SizeIs DEF Indices, Flip, WPos, Pos
<1>2. RPos' = RPos
  BY DEF Flip, shell, RPos, Pos
<1>3. QED
  BY <1>1, <1>2 DEF Gap, GapOf

(* The write position moves by one, round the ring. *)
LEMMA AdvanceGap ==
  ASSUME Indices, Advance, Gap < Size
  PROVE  /\ WPos' = IF WPos = 2 * Size - 1 THEN 0 ELSE WPos + 1
         /\ RPos' = RPos /\ Gap' = Gap + 1
<1>1. WPos' = IF WPos = 2 * Size - 1 THEN 0 ELSE WPos + 1
  <2>1. CASE wpc = "wrap"
    BY <2>1, SizeIs DEF Indices, Advance, WPos, Pos
  <2>2. CASE wpc = "bump"
    BY <2>2, SizeIs DEF Indices, Advance, WPos, Pos
  <2>3. QED
    BY <2>1, <2>2 DEF Advance
<1>2. RPos' = RPos
  BY DEF Advance, shell, RPos, Pos
<1>3. Gap' = Gap + 1
  BY <1>1, <1>2, Ranges, SizeIs DEF Gap, GapOf
<1>4. QED
  BY <1>1, <1>2, <1>3

LEMMA CopyGap ==
  ASSUME Indices, Copy, Gap > 0
  PROVE  /\ RPos < 2 * Size /\ RPos' = RPos + 1
         /\ WPos' = WPos /\ Gap' = Gap - 1
<1>1. RPos < 2 * Size /\ RPos' = RPos + 1
  BY SizeIs DEF Indices, Copy, RPos, Pos
<1>2. WPos' = WPos
  BY DEF Copy, gui, WPos, Pos
<1>3. Gap' = Gap - 1
  BY <1>1, <1>2, Ranges, SizeIs DEF Gap, GapOf
<1>4. QED
  BY <1>1, <1>2, <1>3

LEMMA FlipReadGap ==
  ASSUME Indices, FlipRead
  PROVE  WPos' = WPos /\ RPos' = RPos /\ Gap' = Gap
<1>1. RPos' = RPos
  BY SizeIs DEF Indices, FlipRead, RPos, Pos
<1>2. WPos' = WPos
  BY DEF FlipRead, gui, WPos, Pos
<1>3. QED
  BY <1>1, <1>2 DEF Gap, GapOf

(* The read position at the end of the ring is the one at its beginning. *)
LEMMA AdvanceReadGap ==
  ASSUME Indices, AdvanceRead
  PROVE  /\ RPos' = IF RPos = 2 * Size THEN 0 ELSE RPos
         /\ WPos' = WPos /\ Gap' = Gap
<1>1. RPos' = IF RPos = 2 * Size THEN 0 ELSE RPos
  <2>1. CASE rpc = "wrap"
    BY <2>1, SizeIs DEF Indices, AdvanceRead, RPos, Pos
  <2>2. CASE rpc = "bump"
    BY <2>2, SizeIs DEF Indices, AdvanceRead, RPos, Pos
  <2>3. QED
    BY <2>1, <2>2 DEF AdvanceRead
<1>2. WPos' = WPos
  BY DEF AdvanceRead, gui, WPos, Pos
<1>3. Gap' = Gap
  BY <1>1, <1>2, Ranges, SizeIs DEF Gap, GapOf
<1>4. QED
  BY <1>1, <1>2, <1>3

(* putchar sees room only when there is some, but for the window between the *)
(* two stores that wrap the read position.                                   *)
LEMMA RoomSeen ==
  ASSUME Indices, Counted, wpc = "check", data_len # Size, ~LooksRoomy
  PROVE  Gap + One(rpc \in {"flip", "bump"}) < Size
<1>1. Unread = Gap
  BY UnreadIs
<1>2. Gap + One(rpc \in {"flip", "bump"}) <= Size
  BY Ranges DEF Counted, One
<1>3. CASE rpc \in {"flip", "bump"}
  <2>1. Gap + 1 <= Size
    BY <1>2, <1>3 DEF One
  <2>2. data_len = Gap + 1
    BY <1>3, <2>1, SizeIs DEF Indices, Gap, GapOf, WPos, RPos, Pos, data_len
  <2>3. QED
    BY <1>3, <2>1, <2>2, Ranges, SizeIs DEF One
<1>4. CASE rpc = "wrap"
  BY <1>1, <1>2, <1>4, Ranges, SizeIs DEF LooksRoomy, One
<1>5. CASE rpc \notin {"flip", "bump", "wrap"}
  <2>1. Gap <= Size
    BY <1>2, <1>5, Ranges DEF One
  <2>2. data_len = Gap
    BY <1>5, <2>1, SizeIs DEF Indices, Gap, GapOf, WPos, RPos, Pos, data_len
  <2>3. QED
    BY <1>5, <2>1, <2>2, Ranges, SizeIs DEF One
<1>6. QED
  BY <1>3, <1>4, <1>5

(* A shell that passed the semaphore sees a character. *)
LEMMA CharacterSeen ==
  ASSUME Indices, Bounded, Counted, rpc = "get"
  PROVE  data_len # 0
<1>1. 1 <= Gap /\ Gap + One(wpc \in {"store", "flip", "wrap", "bump"}) <= Size
  BY Ranges DEF Counted, Bounded, One
<1>2. CASE wpc = "wrap"
  <2>1. Gap < Size
    BY <1>1, <1>2, Ranges, SizeIs DEF One
  <2>2. QED
    BY <1>1, <1>2, <2>1, SizeIs DEF Indices, Gap, GapOf, WPos, RPos, Pos, data_len
<1>3. CASE wpc # "wrap"
  <2>1. Gap <= Size
    BY <1>1, Ranges, SizeIs DEF One
  <2>2. QED
    BY <1>1, <1>3, <2>1, SizeIs DEF Indices, Gap, GapOf, WPos, RPos, Pos, data_len
<1>4. QED
  BY <1>2, <1>3
-----------------------------------------------------------------------------
(* The invariant. *)

LEMMA InitInv == Init => Inv
<1> SUFFICES ASSUME Init PROVE Inv
  OBVIOUS
<1>1. Shape
  BY DEF Init, Shape
<1>2. Indices
  BY SizeIs DEF Init, Indices
<1>3. Rest
  BY DEF Init, Rest
<1>4. Bounded
  BY SizeIs DEF Init, Bounded
<1>5. Counted
  BY SizeIs DEF Init, Counted, Gap, GapOf, WPos, RPos, Pos, One
<1>6. QED
  BY <1>1, <1>2, <1>3, <1>4, <1>5 DEF Inv

LEMMA RestStep ==
  ASSUME Rest, NextChar, wpc # "idle", wpc' \in {"idle", "check"}
  PROVE  Rest'
<1>1. todo \in Seq(Chars) /\ todo # <<>>
  BY DEF Rest
<1>2. todo' = Tail(todo) /\ Len(todo) \in Nat /\ Len(todo) > 0
  BY <1>1 DEF NextChar
<1>3. todo' \in Seq(Chars) /\ Len(todo') = Len(todo) - 1
  BY <1>1, <1>2
<1>4. wpc' # "idle" => Len(todo') > 0
  BY <1>2, <1>3 DEF NextChar
<1>5. QED
  BY <1>3, <1>4 DEF Rest

LEMMA KeyPressInv ==
  ASSUME Inv, NEW k \in Keys, KeyPress(k)
  PROVE  Inv'
<1>1. Shape /\ Indices /\ Rest /\ Bounded /\ (~torn /\ ~Detached => Counted)
  BY DEF Inv
<1>2. Shape'
  BY <1>1, ZenonT(40) DEF KeyPress, shell, Shape
<1>3. Indices'
  BY <1>1, SizeIs DEF KeyPress, shell, Indices
<1>4. Rest'
  BY <1>1, TerminalAssumption DEF KeyPress, Rest, TerminalAssumption
<1>5. Bounded'
  BY <1>1, SizeIs DEF KeyPress, shell, Bounded
<1>6. ~torn' /\ ~Detached' => Counted'
  <2>1. Gap' = Gap
    BY SameGap DEF KeyPress, shell
  <2>2. QED
    BY <1>1, <2>1, Ranges, SizeIs DEF KeyPress, shell, Detached, Freed, Bounded, Counted, One
<1>7. QED
  BY <1>2, <1>3, <1>4, <1>5, <1>6 DEF Inv

LEMMA CheckInv ==
  ASSUME Inv, Check
  PROVE  Inv'
<1>1. Shape /\ Indices /\ Rest /\ Bounded /\ (~torn /\ ~Detached => Counted)
  BY DEF Inv
<1>2. Shape'
  BY <1>1, ZenonT(40) DEF Check, shell, Shape, NextChar
<1>3. Indices'
  BY <1>1, SizeIs DEF Check, shell, Indices, NextChar
<1>4. Rest'
  <2>1. CASE data_len = Size
    BY <1>1, <2>1, RestStep DEF Check, NextChar
  <2>2. CASE data_len # Size
    BY <1>1, <2>2 DEF Check, Rest
  <2>3. QED
    BY <2>1, <2>2
<1>5. Bounded'
  BY <1>1, SizeIs DEF Check, shell, Bounded, NextChar
<1>6. ~torn' /\ ~Detached' => Counted'
  <2> SUFFICES ASSUME ~torn', ~Detached' PROVE Counted'
    OBVIOUS
  <2>1. Gap' = Gap
    BY SameGap DEF Check, shell, NextChar
  <2>2. ~torn /\ ~Detached /\ ~LooksRoomy
    BY DEF Check, Detached
  <2>3. CASE data_len = Size
    BY <1>1, <2>1, <2>2, <2>3, Ranges, SizeIs DEF Check, shell, NextChar, Bounded, Counted, One
  <2>4. CASE data_len # Size
    <3>1. Gap + One(rpc \in {"flip", "bump"}) < Size
      BY <1>1, <2>2, <2>4, RoomSeen DEF Check
    <3>2. QED
      BY <1>1, <2>1, <2>2, <2>4, <3>1, Ranges, SizeIs DEF Check, shell, Bounded, Counted, One
  <2>5. QED
    BY <2>3, <2>4
<1>7. QED
  BY <1>2, <1>3, <1>4, <1>5, <1>6 DEF Inv

LEMMA StoreInv ==
  ASSUME Inv, Store
  PROVE  Inv'
<1>1. Shape /\ Indices /\ Rest /\ Bounded /\ (~torn /\ ~Detached => Counted)
  BY DEF Inv
<1>2. Shape'
  <2>1. Head(todo) \in Chars
    BY <1>1 DEF Rest, Store
  <2>2. QED
    BY <1>1, <2>1, ZenonT(40) DEF Store, shell, Shape
<1>3. Indices'
  BY <1>1, SizeIs DEF Store, shell, Indices
<1>4. Rest'
  <2>1. buf'[wi] = Head(todo)
    BY <1>1 DEF Store, Shape, Indices
  <2>2. QED
    BY <1>1, <2>1 DEF Store, Rest
<1>5. Bounded'
  BY <1>1, SizeIs DEF Store, shell, Bounded
<1>6. ~torn' /\ ~Detached' => Counted'
  <2>1. Gap' = Gap
    BY SameGap DEF Store, shell
  <2>2. QED
    BY <1>1, <2>1, Ranges, SizeIs DEF Store, shell, Detached, Freed, Bounded, Counted, One
<1>7. QED
  BY <1>2, <1>3, <1>4, <1>5, <1>6 DEF Inv

LEMMA FlipInv ==
  ASSUME Inv, Flip
  PROVE  Inv'
<1>1. Shape /\ Indices /\ Rest /\ Bounded /\ (~torn /\ ~Detached => Counted)
  BY DEF Inv
<1>2. Shape'
  BY <1>1, ZenonT(40) DEF Flip, shell, Shape
<1>3. Indices'
  BY <1>1, SizeIs DEF Flip, shell, Indices
<1>4. Rest'
  BY <1>1 DEF Flip, shell, Rest
<1>5. Bounded'
  BY <1>1, SizeIs DEF Flip, shell, Bounded
<1>6. ~torn' /\ ~Detached' => Counted'
  <2>1. Gap' = Gap
    BY <1>1, FlipGap
  <2>2. QED
    BY <1>1, <2>1, Ranges, SizeIs DEF Flip, shell, Detached, Bounded, Counted, One
<1>7. QED
  BY <1>2, <1>3, <1>4, <1>5, <1>6 DEF Inv

LEMMA AdvanceInv ==
  ASSUME Inv, Advance
  PROVE  Inv'
<1>1. Shape /\ Indices /\ Rest /\ Bounded /\ (~torn /\ ~Detached => Counted)
  BY DEF Inv
<1>2. Shape'
  BY <1>1, ZenonT(40) DEF Advance, shell, Shape
<1>3. Indices'
  BY <1>1, SizeIs DEF Advance, shell, Indices
<1>4. Rest'
  BY <1>1 DEF Advance, shell, Rest
<1>5. Bounded'
  BY <1>1, SizeIs DEF Advance, shell, Bounded
<1>6. ~torn' /\ ~Detached' => Counted'
  <2> SUFFICES ASSUME ~torn', ~Detached' PROVE Counted'
    OBVIOUS
  <2>1. Counted
    BY <1>1 DEF Advance, Detached
  <2>2. Gap + 1 <= Size
    BY <1>1, <2>1, Ranges, SizeIs DEF Counted, Advance, One
  <2>3. Gap' = Gap + 1
    BY <1>1, <2>2, AdvanceGap, Ranges, SizeIs
  <2>4. QED
    BY <1>1, <2>1, <2>3, Ranges, SizeIs DEF Advance, shell, Bounded, Counted, One
<1>7. QED
  BY <1>2, <1>3, <1>4, <1>5, <1>6 DEF Inv

LEMMA ReleaseInv ==
  ASSUME Inv, Release
  PROVE  Inv'
<1>1. Shape /\ Indices /\ Rest /\ Bounded /\ (~torn /\ ~Detached => Counted)
  BY DEF Inv
<1>2. Shape'
  BY <1>1, ZenonT(40) DEF Release, Shape
<1>3. Indices'
  BY <1>1, SizeIs DEF Release, Indices
<1>4. Rest'
  BY <1>1 DEF Release, Rest
<1>5. Bounded'
  <2>1. CASE torn
    BY <1>1, <2>1, SizeIs DEF Release, Bounded
  <2>2. CASE Detached
    BY <1>1, <2>2, SizeIs DEF Release, Bounded
  <2>3. CASE ~torn /\ ~Detached
    <3>1. sem + 1 <= Size
      BY <1>1, <2>3, Ranges, SizeIs DEF Release, Bounded, Counted, One
    <3>2. QED
      BY <1>1, <2>3, <3>1, SizeIs DEF Release, Bounded
  <2>4. QED
    BY <2>1, <2>2, <2>3
<1>6. ~torn' /\ ~Detached' => Counted'
  <2>1. Gap' = Gap
    BY SameGap DEF Release
  <2>2. QED
    BY <1>1, <2>1, Ranges, SizeIs DEF Release, Detached, Freed, Bounded, Counted, One
<1>7. QED
  BY <1>2, <1>3, <1>4, <1>5, <1>6 DEF Inv

LEMMA IndicateInv ==
  ASSUME Inv, Indicate
  PROVE  Inv'
<1>1. Shape /\ Indices /\ Rest /\ Bounded /\ (~torn /\ ~Detached => Counted)
  BY DEF Inv
<1>2. Shape'
  BY <1>1 DEF Indicate, NextChar, Shape
<1>3. Indices'
  BY <1>1, SizeIs DEF Indicate, NextChar, Indices
<1>4. Rest'
  BY <1>1, RestStep DEF Indicate, NextChar
<1>5. Bounded'
  BY <1>1, SizeIs DEF Indicate, NextChar, Bounded
<1>6. ~torn' /\ ~Detached' => Counted'
  <2>1. Gap' = Gap
    BY SameGap DEF Indicate, NextChar
  <2>2. QED
    BY <1>1, <2>1, Ranges, SizeIs DEF Indicate, NextChar, Detached, Freed, Bounded, Counted, One
<1>7. QED
  BY <1>2, <1>3, <1>4, <1>5, <1>6 DEF Inv

LEMMA SendFreedInv ==
  ASSUME Inv, SendFreed
  PROVE  Inv'
<1>1. Shape /\ Indices /\ Rest /\ Bounded /\ (~torn /\ ~Detached => Counted)
  BY DEF Inv
<1>2. Shape'
  BY <1>1, ZenonT(40) DEF SendFreed, gui, shell, Shape
<1>3. Indices'
  BY <1>1, SizeIs DEF SendFreed, gui, shell, Indices
<1>4. Rest'
  BY <1>1 DEF SendFreed, gui, shell, Rest
<1>5. Bounded'
  BY <1>1, SizeIs DEF SendFreed, gui, shell, Bounded
<1>6. ~torn' /\ ~Detached' => Counted'
  <2>1. Gap' = Gap
    BY SameGap DEF SendFreed, gui, shell
  <2>2. QED
    BY <1>1, <2>1, Ranges, SizeIs DEF SendFreed, gui, shell, Detached, Freed, Bounded, Counted, One
<1>7. QED
  BY <1>2, <1>3, <1>4, <1>5, <1>6 DEF Inv

LEMMA CallInv ==
  ASSUME Inv, Call
  PROVE  Inv'
<1>1. Shape /\ Indices /\ Rest /\ Bounded /\ (~torn /\ ~Detached => Counted)
  BY DEF Inv
<1>2. Shape'
  BY <1>1, ZenonT(40) DEF Call, gui, Shape
<1>3. Indices'
  BY <1>1, SizeIs DEF Call, gui, Indices
<1>4. Rest'
  BY <1>1 DEF Call, gui, Rest
<1>5. Bounded'
  BY <1>1, SizeIs DEF Call, gui, Bounded
<1>6. ~torn' /\ ~Detached' => Counted'
  <2>1. Gap' = Gap
    BY SameGap DEF Call, gui
  <2>2. QED
    BY <1>1, <2>1, Ranges, SizeIs DEF Call, gui, Detached, Freed, Bounded, Counted, One
<1>7. QED
  BY <1>2, <1>3, <1>4, <1>5, <1>6 DEF Inv

LEMMA TakeInv ==
  ASSUME Inv, Take
  PROVE  Inv'
<1>1. Shape /\ Indices /\ Rest /\ Bounded /\ (~torn /\ ~Detached => Counted)
  BY DEF Inv
<1>2. Shape'
  BY <1>1, ZenonT(40) DEF Take, gui, Shape
<1>3. Indices'
  BY <1>1, SizeIs DEF Take, gui, Indices
<1>4. Rest'
  BY <1>1 DEF Take, gui, Rest
<1>5. Bounded'
  BY <1>1, SizeIs DEF Take, gui, Bounded
<1>6. ~torn' /\ ~Detached' => Counted'
  <2>1. Gap' = Gap
    BY SameGap DEF Take, gui
  <2>2. QED
    BY <1>1, <2>1, Ranges, SizeIs DEF Take, gui, Detached, Freed, Bounded, Counted, One
<1>7. QED
  BY <1>2, <1>3, <1>4, <1>5, <1>6 DEF Inv

LEMMA GetInv ==
  ASSUME Inv, Get
  PROVE  Inv'
<1>1. Shape /\ Indices /\ Rest /\ Bounded /\ (~torn /\ ~Detached => Counted)
  BY DEF Inv
<1>2. Shape'
  BY <1>1, ZenonT(40) DEF Get, gui, Shape
<1>3. Indices'
  BY <1>1, SizeIs DEF Get, gui, Indices
<1>4. Rest'
  BY <1>1 DEF Get, gui, Rest
<1>5. Bounded'
  BY <1>1, SizeIs DEF Get, gui, Bounded
<1>6. ~torn' /\ ~Detached' => Counted'
  <2>1. Gap' = Gap
    BY SameGap DEF Get, gui
  <2>2. ~torn /\ ~Detached => data_len # 0
    BY <1>1, CharacterSeen DEF Get
  <2>3. QED
    BY <1>1, <2>1, <2>2, Ranges, SizeIs DEF Get, gui, Detached, Bounded, Counted, One
<1>7. QED
  BY <1>2, <1>3, <1>4, <1>5, <1>6 DEF Inv

LEMMA CopyInv ==
  ASSUME Inv, Copy
  PROVE  Inv'
<1>1. Shape /\ Indices /\ Rest /\ Bounded /\ (~torn /\ ~Detached => Counted)
  BY DEF Inv
<1>2. Shape'
  <2>1. buf[ri] \in Chars
    BY <1>1 DEF Shape, Indices
  <2>2. QED
    BY <1>1, <2>1, ZenonT(40) DEF Copy, gui, Shape
<1>3. Indices'
  BY <1>1, SizeIs DEF Copy, gui, Indices
<1>4. Rest'
  BY <1>1 DEF Copy, gui, Rest
<1>5. Bounded'
  BY <1>1, SizeIs DEF Copy, gui, Bounded
<1>6. ~torn' /\ ~Detached' => Counted'
  <2> SUFFICES ASSUME ~torn', ~Detached' PROVE Counted'
    OBVIOUS
  <2>1. Counted
    BY <1>1 DEF Copy, Detached
  <2>2. Gap > 0
    BY <1>1, <2>1, SizeIs DEF Counted, Copy, Bounded, One
  <2>3. Gap' = Gap - 1
    BY <1>1, <2>2, CopyGap
  <2>4. QED
    BY <1>1, <2>1, <2>3, Ranges, SizeIs DEF Copy, gui, Bounded, Counted, One
<1>7. QED
  BY <1>2, <1>3, <1>4, <1>5, <1>6 DEF Inv

LEMMA FlipReadInv ==
  ASSUME Inv, FlipRead
  PROVE  Inv'
<1>1. Shape /\ Indices /\ Rest /\ Bounded /\ (~torn /\ ~Detached => Counted)
  BY DEF Inv
<1>2. Shape'
  BY <1>1, ZenonT(40) DEF FlipRead, gui, Shape
<1>3. Indices'
  BY <1>1, SizeIs DEF FlipRead, gui, Indices
<1>4. Rest'
  BY <1>1 DEF FlipRead, gui, Rest
<1>5. Bounded'
  BY <1>1, SizeIs DEF FlipRead, gui, Bounded
<1>6. ~torn' /\ ~Detached' => Counted'
  <2>1. Gap' = Gap
    BY <1>1, FlipReadGap
  <2>2. QED
    BY <1>1, <2>1, Ranges, SizeIs DEF FlipRead, gui, Detached, Bounded, Counted, One
<1>7. QED
  BY <1>2, <1>3, <1>4, <1>5, <1>6 DEF Inv

LEMMA AdvanceReadInv ==
  ASSUME Inv, AdvanceRead
  PROVE  Inv'
<1>1. Shape /\ Indices /\ Rest /\ Bounded /\ (~torn /\ ~Detached => Counted)
  BY DEF Inv
<1>2. Shape'
  BY <1>1, ZenonT(40) DEF AdvanceRead, gui, Shape
<1>3. Indices'
  BY <1>1, SizeIs DEF AdvanceRead, gui, Indices
<1>4. Rest'
  BY <1>1 DEF AdvanceRead, gui, Rest
<1>5. Bounded'
  BY <1>1, SizeIs DEF AdvanceRead, gui, Bounded
<1>6. ~torn' /\ ~Detached' => Counted'
  <2>1. Gap' = Gap
    BY <1>1, AdvanceReadGap
  <2>2. QED
    BY <1>1, <2>1, Ranges, SizeIs DEF AdvanceRead, gui, Detached, Bounded, Counted, One
<1>7. QED
  BY <1>2, <1>3, <1>4, <1>5, <1>6 DEF Inv

LEMMA ReadFreedInv ==
  ASSUME Inv, ReadFreed
  PROVE  Inv'
<1>1. Shape /\ Indices /\ Rest /\ Bounded /\ (~torn /\ ~Detached => Counted)
  BY DEF Inv
<1>2. Shape'
  BY <1>1, ZenonT(40) DEF ReadFreed, gui, Shape
<1>3. Indices'
  BY <1>1, SizeIs DEF ReadFreed, gui, Indices
<1>4. Rest'
  BY <1>1 DEF ReadFreed, gui, Rest
<1>5. Bounded'
  BY <1>1, SizeIs DEF ReadFreed, gui, Bounded
<1>6. ~torn' /\ ~Detached' => Counted'
  BY DEF ReadFreed, Freed, Detached
<1>7. QED
  BY <1>2, <1>3, <1>4, <1>5, <1>6 DEF Inv

LEMMA HandleInv ==
  ASSUME Inv, Handle
  PROVE  Inv'
<1>1. Shape /\ Indices /\ Rest /\ Bounded /\ (~torn /\ ~Detached => Counted)
  BY DEF Inv
<1>2. Shape'
  BY <1>1, ZenonT(40) DEF Handle, gui, Shape
<1>3. Indices'
  BY <1>1, SizeIs DEF Handle, gui, Indices
<1>4. Rest'
  BY <1>1 DEF Handle, gui, Rest
<1>5. Bounded'
  BY <1>1, SizeIs DEF Handle, gui, Bounded
<1>6. ~torn' /\ ~Detached' => Counted'
  <2>1. Gap' = Gap
    BY SameGap DEF Handle, gui
  <2>2. QED
    BY <1>1, <2>1, Ranges, SizeIs DEF Handle, gui, Detached, Freed, Bounded, Counted, One
<1>7. QED
  BY <1>2, <1>3, <1>4, <1>5, <1>6 DEF Inv

LEMMA CancelInv ==
  ASSUME Inv, Cancel
  PROVE  Inv'
<1>1. Shape /\ Indices /\ Rest /\ Bounded /\ (~torn /\ ~Detached => Counted)
  BY DEF Inv
<1>2. Shape'
  BY <1>1, ZenonT(40) DEF Cancel, gui, shell, Shape
<1>3. Indices'
  BY <1>1, SizeIs DEF Cancel, gui, shell, Indices
<1>4. Rest'
  BY <1>1 DEF Cancel, gui, shell, Rest
<1>5. Bounded'
  BY <1>1, SizeIs DEF Cancel, gui, shell, Bounded
<1>6. ~torn' /\ ~Detached' => Counted'
  <2>1. Gap' = Gap
    BY SameGap DEF Cancel, gui, shell
  <2>2. QED
    BY <1>1, <2>1, Ranges, SizeIs DEF Cancel, gui, shell, Detached, Freed, Bounded, Counted, One
<1>7. QED
  BY <1>2, <1>3, <1>4, <1>5, <1>6 DEF Inv

LEMMA SetDeviceInv ==
  ASSUME Inv, SetDevice
  PROVE  Inv'
<1>1. Shape /\ Indices /\ Rest /\ Bounded /\ (~torn /\ ~Detached => Counted)
  BY DEF Inv
<1>2. Shape'
  BY <1>1 DEF SetDevice, gui, shell, Shape
<1>3. Indices'
  BY <1>1, SizeIs DEF SetDevice, gui, shell, Indices
<1>4. Rest'
  BY <1>1 DEF SetDevice, gui, shell, Rest
<1>5. Bounded'
  BY <1>1, SizeIs DEF SetDevice, gui, shell, Bounded
<1>6. ~torn' /\ ~Detached' => Counted'
  <2>1. Gap' = Gap
    BY SameGap DEF SetDevice, gui, shell
  <2>2. QED
    BY <1>1, <2>1, Ranges, SizeIs DEF SetDevice, gui, shell, Detached, Freed, Bounded, Counted, One
<1>7. QED
  BY <1>2, <1>3, <1>4, <1>5, <1>6 DEF Inv

LEMMA DetachInv ==
  ASSUME Inv, Detach
  PROVE  Inv'
<1>1. Shape /\ Indices /\ Rest /\ Bounded /\ (~torn /\ ~Detached => Counted)
  BY DEF Inv
<1>2. Shape'
  BY <1>1 DEF Detach, gui, Shape
<1>3. Indices'
  BY <1>1, SizeIs DEF Detach, gui, Indices
<1>4. Rest'
  BY <1>1 DEF Detach, gui, Rest
<1>5. Bounded'
  BY <1>1, SizeIs DEF Detach, gui, Bounded
<1>6. ~torn' /\ ~Detached' => Counted'
  BY DEF Detach, Detached
<1>7. QED
  BY <1>2, <1>3, <1>4, <1>5, <1>6 DEF Inv

LEMMA FreeInv ==
  ASSUME Inv, Free
  PROVE  Inv'
<1>1. Shape /\ Indices /\ Rest /\ Bounded /\ (~torn /\ ~Detached => Counted)
  BY DEF Inv
<1>2. Shape'
  BY <1>1, ZenonT(40) DEF Free, gui, shell, Shape
<1>3. Indices'
  BY <1>1, SizeIs DEF Free, gui, shell, Indices
<1>4. Rest'
  BY <1>1 DEF Free, gui, shell, Rest
<1>5. Bounded'
  BY <1>1, SizeIs DEF Free, gui, shell, Bounded
<1>6. ~torn' /\ ~Detached' => Counted'
  BY DEF Free, Detached
<1>7. QED
  BY <1>2, <1>3, <1>4, <1>5, <1>6 DEF Inv

LEMMA StutterInv ==
  ASSUME Inv, UNCHANGED vars
  PROVE  Inv'
<1>1. Shape /\ Indices /\ Rest /\ Bounded /\ (~torn /\ ~Detached => Counted)
  BY DEF Inv
<1>2. Shape'
  <2>1. buf' \in [0..(Size - 1) -> Chars]
    BY <1>1 DEF vars, Shape
  <2>2. cpc' \in {"open", "finsh", "detach", "free", "done"} /\ device' \in {"tty", "uart"}
    BY <1>1 DEF vars, Shape
  <2>3. wpc' \in {"idle", "check", "store", "flip", "wrap", "bump", "release", "indicate"}
    BY <1>1 DEF vars, gui, Shape
  <2>4. rpc' \in {"uart", "idle", "take", "wait", "get", "copy", "flip", "wrap", "bump", "handle"}
    BY <1>1 DEF vars, shell, Shape
  <2>5. ch' \in Chars \cup {"none"}
    BY <1>1 DEF vars, shell, Shape
  <2>6. ind' \in {0, 1}
    BY <1>1 DEF vars, shell, Shape
  <2>7. fault' \in {"none", "assert", "null call", "freed"} /\ torn' \in BOOLEAN
    BY <1>1 DEF vars, shell, Shape
  <2>8. QED
    BY <1>1, <2>1, <2>2, <2>3, <2>4, <2>5, <2>6, <2>7 DEF vars, shell, Shape
<1>3. Indices'
  BY <1>1 DEF vars, gui, shell, Indices
<1>4. Rest'
  BY <1>1 DEF vars, gui, shell, Rest
<1>5. Bounded'
  BY <1>1 DEF vars, gui, shell, Bounded
<1>6. ~torn' /\ ~Detached' => Counted'
  <2>1. Gap' = Gap
    BY SameGap DEF vars, gui, shell
  <2>2. QED
    BY <1>1, <2>1 DEF vars, gui, shell, Counted, One, Detached
<1>7. QED
  BY <1>2, <1>3, <1>4, <1>5, <1>6 DEF Inv

LEMMA NextInv ==
  ASSUME Inv, [Next]_vars
  PROVE  Inv'
<1>1. CASE UNCHANGED vars
  BY <1>1, StutterInv
<1>2. CASE Next
  BY <1>2, KeyPressInv, CheckInv, StoreInv, FlipInv, AdvanceInv, ReleaseInv, IndicateInv, SendFreedInv, CallInv, TakeInv, GetInv,
     CopyInv, FlipReadInv, AdvanceReadInv, ReadFreedInv, HandleInv, CancelInv, SetDeviceInv, DetachInv, FreeInv DEF Next, Send, Shell, Close
<1>3. QED
  BY <1>1, <1>2

LEMMA TerminalInv == Spec => []Inv
BY InitInv, NextInv, PTL DEF Spec

(* The semaphore counts the characters of the ring, whatever the keys and    *)
(* the size: send and read agree although neither takes a lock.              *)
THEOREM TerminalCounts == Spec => []SemaphoreCounts
<1>1. Inv => SemaphoreCounts
  <2> SUFFICES ASSUME Inv PROVE SemaphoreCounts
    OBVIOUS
  <2>1. TypeOK
    <3>1. sem \in 0..(IF torn THEN Size + 1 ELSE Size)
      BY SizeIs DEF Inv, Bounded
    <3>2. {wm, rm} \subseteq {0, 1} /\ {wi, ri} \subseteq 0..(Size - 1)
      BY DEF Inv, Indices
    <3>3. QED
      BY <3>1, <3>2 DEF Inv, Shape, TypeOK
  <2>2. ASSUME Sound
        PROVE  /\ Unread = sem + (IF wpc = "release" THEN 1 ELSE 0)
                               + (IF rpc \in {"get", "copy"} THEN 1 ELSE 0)
               /\ rpc = "wait" => sem = 0
    <3>1. Counted /\ Unread = Gap
      BY <2>2, UnreadIs DEF Inv, Sound, Detached
    <3>2. QED
      BY <3>1 DEF Counted, One
  <2>3. QED
    BY <2>1, <2>2 DEF SemaphoreCounts
<1>2. QED
  BY <1>1, TerminalInv, PTL
-----------------------------------------------------------------------------
(* The ring as a queue. *)

(* The k-th character of the ring. *)
CharAt(k) == buf[Slot(RPos + k - 1)]

Ring == [k \in 1..Gap |-> CharAt(k)]

LEMMA IsAppend ==
  ASSUME NEW S, NEW s \in Seq(S), NEW e \in S, NEW r \in Seq(S),
         Len(r) = Len(s) + 1, r[Len(s) + 1] = e,
         \A k \in 1..Len(s) : r[k] = s[k]
  PROVE  r = Append(s, e)
<1> DEFINE a == Append(s, e)
<1>1. a \in Seq(S) /\ Len(a) = Len(r) /\ Len(r) \in Nat
  OBVIOUS
<1>2. ASSUME NEW k \in 1..Len(r) PROVE r[k] = a[k]
  BY <1>2
<1> HIDE DEF a
<1>3. r = a
  BY <1>1, <1>2
<1>4. QED
  BY <1>3 DEF a

LEMMA IsTail ==
  ASSUME NEW S, NEW s \in Seq(S), s # <<>>, NEW r \in Seq(S),
         Len(r) = Len(s) - 1,
         \A k \in 1..Len(r) : r[k] = s[k + 1]
  PROVE  r = Tail(s)
<1> DEFINE a == Tail(s)
<1>1. a \in Seq(S) /\ Len(a) = Len(r) /\ Len(r) \in Nat
  OBVIOUS
<1>2. ASSUME NEW k \in 1..Len(r) PROVE r[k] = a[k]
  BY <1>2
<1> HIDE DEF a
<1>3. r = a
  BY <1>1, <1>2
<1>4. QED
  BY <1>3 DEF a

LEMMA RingIs ==
  ASSUME Shape, Indices, Gap <= Size
  PROVE  /\ [k \in 1..Unread |-> buf[(ReadPos + k - 1) % Size]] = Ring
         /\ Ring \in Seq(Chars) /\ Len(Ring) = Gap
<1>1. Unread = Gap /\ ReadPos = RPos /\ Gap \in Nat
  BY UnreadIs, Ranges
<1>2. ASSUME NEW k \in 1..Gap
      PROVE  buf[(RPos + k - 1) % Size] = CharAt(k) /\ CharAt(k) \in Chars
  <2>1. RPos + k - 1 \in Int /\ 0 <= RPos + k - 1 /\ RPos + k - 1 < 3 * Size
    BY Ranges, SizeIs
  <2>2. (RPos + k - 1) % Size = Slot(RPos + k - 1) /\ Slot(RPos + k - 1) \in 0..(Size - 1)
    BY <2>1, SlotIs
  <2>3. QED
    BY <2>2 DEF CharAt, Shape
<1>3. QED
  BY <1>1, <1>2 DEF Ring

(* A step that leaves the buffer alone moves the ends only. *)
LEMMA PutRing ==
  ASSUME Inv, Advance, ~torn, ~Detached
  PROVE  Len(Ring) < Size /\ Ring' = Append(Ring, Head(todo)) /\ Head(todo) \in Chars
<1>1. Shape /\ Indices /\ Rest /\ Counted
  BY DEF Inv
<1>2. Gap + 1 <= Size /\ Gap \in Nat
  BY <1>1, Ranges, SizeIs DEF Counted, Advance, One
<1>3. RPos' = RPos /\ Gap' = Gap + 1 /\ buf' = buf
  BY <1>1, <1>2, AdvanceGap, SizeIs DEF Advance
<1>4. Len(Ring) = Gap /\ Ring \in Seq(Chars)
  BY <1>1, <1>2, RingIs, SizeIs
<1>5. Slot(RPos + (Gap + 1) - 1) = wi
  <2>1. wpc \in {"wrap", "bump"}
    BY DEF Advance
  <2>2. WPos = wi \/ WPos = Size + wi
    BY <1>1 DEF WPos, Pos
  <2>3. RPos + Gap = WPos \/ RPos + Gap = WPos + 2 * Size
    BY <1>1, Ranges, SizeIs DEF Gap, GapOf
  <2>4. wi \in Int /\ 0 <= wi /\ wi < Size
    BY <1>1, SizeIs DEF Indices
  <2>5. RPos + Gap < 3 * Size /\ RPos + (Gap + 1) - 1 = RPos + Gap
    BY <1>1, <1>2, Ranges, SizeIs
  <2>6. QED
    BY <2>2, <2>3, <2>4, <2>5, SizeIs DEF Slot
<1>6. buf[wi] = Head(todo) /\ Head(todo) \in Chars
  BY <1>1 DEF Rest, Advance
<1>7. \A k \in Nat : CharAt(k)' = CharAt(k)
  BY <1>3 DEF CharAt, Slot
<1>8. CharAt(Gap + 1) = Head(todo)
  BY <1>5, <1>6 DEF CharAt
<1>9. Ring' = [k \in 1..(Gap + 1) |-> CharAt(k)]
  BY <1>2, <1>3, <1>7 DEF Ring
<1>10. Ring' = Append(Ring, Head(todo))
  <2>1. \A k \in 1..Gap : Ring[k] = CharAt(k) /\ Ring[k] \in Chars
    <3>1. \A k \in 1..Gap : Ring[k] = CharAt(k)
      BY DEF Ring
    <3>2. \A k \in 1..Gap : Ring[k] \in Chars
      BY <1>4
    <3>3. QED
      BY <3>1, <3>2
  <2>2. Ring' \in Seq(Chars)
    <3>1. \A k \in 1..(Gap + 1) : CharAt(k) \in Chars
      BY <1>2, <1>6, <1>8, <2>1
    <3>2. QED
      BY <1>2, <1>9, <3>1
  <2>3. Len(Ring') = Len(Ring) + 1 /\ Ring'[Len(Ring) + 1] = Head(todo)
    BY <1>2, <1>4, <1>8, <1>9
  <2>4. \A k \in 1..Len(Ring) : Ring'[k] = Ring[k]
    BY <1>2, <1>4, <1>9, <2>1
  <2>5. QED
    BY <1>4, <1>6, <2>2, <2>3, <2>4, IsAppend
<1>11. QED
  BY <1>2, <1>4, <1>6, <1>10, SizeIs

LEMMA GetRing ==
  ASSUME Inv, Copy, ~torn, ~Detached
  PROVE  Ring # <<>> /\ ch = "none" /\ ch' = Head(Ring) /\ Ring' = Tail(Ring) /\ ch' # "none"
<1>1. Shape /\ Indices /\ Bounded /\ Counted
  BY DEF Inv
<1>2. Gap > 0 /\ Gap <= Size /\ Gap \in Nat
  BY <1>1, Ranges, SizeIs DEF Counted, Copy, Bounded, One
<1>3. RPos < 2 * Size /\ RPos' = RPos + 1 /\ Gap' = Gap - 1 /\ buf' = buf
  BY <1>1, <1>2, CopyGap DEF Copy
<1>4. Len(Ring) = Gap /\ Ring \in Seq(Chars)
  BY <1>1, <1>2, RingIs
<1>5. Slot(RPos + 1 - 1) = ri
  BY <1>1, SizeIs DEF Copy, Indices, RPos, Pos, Slot
<1>6. Head(Ring) = buf[ri]
  BY <1>2, <1>4, <1>5 DEF Ring, CharAt
<1>7. \A k \in Nat : CharAt(k)' = CharAt(k + 1)
  <2> SUFFICES ASSUME NEW k \in Nat PROVE CharAt(k)' = CharAt(k + 1)
    OBVIOUS
  <2>1. RPos \in Int /\ RPos' + k - 1 = RPos + (k + 1) - 1
    BY <1>1, <1>3, Ranges
  <2>2. QED
    BY <1>3, <2>1 DEF CharAt, Slot
<1>8. Ring' = [k \in 1..(Gap - 1) |-> CharAt(k + 1)]
  BY <1>2, <1>3, <1>7 DEF Ring
<1>9. Ring' = Tail(Ring)
  <2>1. \A k \in 1..Gap : Ring[k] = CharAt(k) /\ Ring[k] \in Chars
    <3>1. \A k \in 1..Gap : Ring[k] = CharAt(k)
      BY DEF Ring
    <3>2. \A k \in 1..Gap : Ring[k] \in Chars
      BY <1>4
    <3>3. QED
      BY <3>1, <3>2
  <2>2. Ring' \in Seq(Chars)
    BY <1>2, <1>8, <2>1
  <2>3. Len(Ring') = Len(Ring) - 1 /\ Ring # <<>>
    BY <1>2, <1>4, <1>8
  <2>4. \A k \in 1..Len(Ring') : Ring'[k] = Ring[k + 1]
    BY <1>2, <1>4, <1>8, <2>1, <2>3
  <2>5. QED
    BY <1>4, <2>2, <2>3, <2>4, IsTail
<1>10. ch = "none" /\ ch' = buf[ri] /\ buf[ri] \in Chars
  BY <1>1 DEF Copy, Shape, Indices
<1>11. QED
  BY <1>2, <1>4, <1>6, <1>9, <1>10, TerminalAssumption DEF TerminalAssumption

(* The place a character is stored at is none of those to be read. *)
LEMMA StoreRing ==
  ASSUME Inv, Store, ~torn, ~Detached
  PROVE  Ring' = Ring
<1>1. Shape /\ Indices /\ Counted
  BY DEF Inv
<1>2. Gap + 1 <= Size /\ Gap \in Nat
  BY <1>1, Ranges, SizeIs DEF Counted, Store, One
<1>3. RPos' = RPos /\ Gap' = Gap
  BY SameGap DEF Store, shell
<1>4. ASSUME NEW k \in 1..Gap PROVE CharAt(k)' = CharAt(k)
  <2>1. WPos = wi \/ WPos = Size + wi
    BY <1>1 DEF WPos, Pos
  <2>2. RPos + Gap = WPos \/ RPos + Gap = WPos + 2 * Size
    BY <1>1, Ranges, SizeIs DEF Gap, GapOf
  <2>3. wi \in Int /\ 0 <= wi /\ wi < Size
    BY <1>1, SizeIs DEF Indices
  <2>4. RPos \in Int /\ 0 <= RPos /\ RPos <= 2 * Size
    BY <1>1, Ranges
  <2>5. Slot(RPos + k - 1) # wi
    BY <1>2, <2>1, <2>2, <2>3, <2>4, SizeIs DEF Slot
  <2>6. RPos + k - 1 \in Int /\ 0 <= RPos + k - 1 /\ RPos + k - 1 < 3 * Size
    BY <1>2, <2>4, SizeIs
  <2>7. Slot(RPos + k - 1) \in 0..(Size - 1)
    BY <2>6, SlotIs
  <2>8. buf'[Slot(RPos + k - 1)] = buf[Slot(RPos + k - 1)]
    BY <1>1, <2>5, <2>7 DEF Store, Shape
  <2>9. QED
    BY <1>3, <2>8 DEF CharAt, Slot
<1>5. QED
  BY <1>3, <1>4 DEF Ring

LEMMA AdvanceReadRing ==
  ASSUME Inv, AdvanceRead, ~torn, ~Detached
  PROVE  Ring' = Ring
<1>1. Shape /\ Indices /\ Counted
  BY DEF Inv
<1>2. Gap <= Size /\ Gap \in Nat
  BY <1>1, Ranges, SizeIs DEF Counted, One
<1>3. RPos' = (IF RPos = 2 * Size THEN 0 ELSE RPos) /\ Gap' = Gap /\ buf' = buf
  BY <1>1, AdvanceReadGap DEF AdvanceRead
<1>4. ASSUME NEW k \in 1..Gap PROVE CharAt(k)' = CharAt(k)
  <2>1. RPos \in Int /\ 0 <= RPos /\ RPos <= 2 * Size
    BY <1>1, Ranges
  <2>2. Slot(RPos' + k - 1) = Slot(RPos + k - 1)
    BY <1>2, <1>3, <2>1, SizeIs DEF Slot
  <2>3. QED
    BY <1>3, <2>2 DEF CharAt, Slot
<1>5. QED
  BY <1>3, <1>4 DEF Ring

LEMMA SameRing ==
  ASSUME RPos' = RPos, Gap' = Gap, buf' = buf
  PROVE  Ring' = Ring
BY DEF Ring, CharAt, Slot

-----------------------------------------------------------------------------
(* The terminal implements CharQueue. *)

Typed == IF Sound THEN Ring ELSE <<>>

Mapped ==
  Typed = IF Sound THEN [k \in 1..Unread |-> buf[(ReadPos + k - 1) % Size]] ELSE <<>>

LEMMA InvMapped == Inv => Mapped
<1> SUFFICES ASSUME Inv, Sound PROVE [k \in 1..Unread |-> buf[(ReadPos + k - 1) % Size]] = Ring
  BY DEF Mapped, Typed
<1>1. Shape /\ Indices /\ Counted
  BY DEF Inv, Sound, Detached
<1>2. Gap <= Size
  BY <1>1, Ranges, SizeIs DEF Counted, One
<1>3. QED
  BY <1>1, <1>2, RingIs

(* What a step does to the queue, while the terminal is sound. *)
LEMMA QueueStep ==
  ASSUME Inv, [Next]_vars, Sound, Sound'
  PROVE  \/ Advance /\ ch' = ch /\ Len(Ring) < Size /\ Ring' = Append(Ring, Head(todo)) /\ Head(todo) \in Chars
         \/ Copy /\ ch = "none" /\ Ring # <<>> /\ ch' = Head(Ring) /\ Ring' = Tail(Ring)
         \/ Ring' = Ring /\ ch' \in {ch, "none"}
<1>1. ~torn /\ ~Detached /\ ~Freed
  BY DEF Sound, Detached, Freed
<1>2. CASE Advance
  BY <1>1, <1>2, PutRing DEF Advance, shell
<1>3. CASE Copy
  BY <1>1, <1>3, GetRing
<1>4. CASE Store
  BY <1>1, <1>4, StoreRing DEF Store, shell
<1>5. CASE AdvanceRead
  BY <1>1, <1>5, AdvanceReadRing DEF AdvanceRead
<1>6. CASE Flip
  BY <1>6, FlipGap, SameRing DEF Inv, Flip, shell
<1>7. CASE FlipRead
  BY <1>7, FlipReadGap, SameRing DEF Inv, FlipRead
<1>8. CASE Check
  <2>1. RPos' = RPos /\ Gap' = Gap /\ buf' = buf /\ ch' = ch
    BY <1>8, SameGap DEF Check, shell, NextChar
  <2>2. QED
    BY <2>1, SameRing
<1>9. CASE Release
  <2>1. RPos' = RPos /\ Gap' = Gap /\ buf' = buf /\ ch' = ch
    BY <1>1, <1>9, SameGap DEF Release
  <2>2. QED
    BY <2>1, SameRing
<1>10. CASE Indicate
  <2>1. RPos' = RPos /\ Gap' = Gap /\ buf' = buf /\ ch' = ch
    BY <1>10, SameGap DEF Indicate, NextChar
  <2>2. QED
    BY <2>1, SameRing
<1>11. CASE Call
  <2>1. RPos' = RPos /\ Gap' = Gap /\ buf' = buf /\ ch' = "none"
    BY <1>11, SameGap DEF Call, gui
  <2>2. QED
    BY <2>1, SameRing
<1>12. CASE Take
  <2>1. RPos' = RPos /\ Gap' = Gap /\ buf' = buf /\ ch' = ch
    BY <1>1, <1>12, SameGap DEF Take, gui
  <2>2. QED
    BY <2>1, SameRing
<1>13. CASE Get
  <2>1. RPos' = RPos /\ Gap' = Gap /\ buf' = buf /\ ch' = ch
    BY <1>13, SameGap DEF Get, gui
  <2>2. QED
    BY <2>1, SameRing
<1>14. CASE Handle
  <2>1. RPos' = RPos /\ Gap' = Gap /\ buf' = buf /\ ch' = ch
    BY <1>14, SameGap DEF Handle, gui
  <2>2. QED
    BY <2>1, SameRing
<1>15. CASE Cancel \/ Close
  BY <1>15 DEF Cancel, Close, SetDevice, Detach, Free, Sound
<1>16. CASE SendFreed \/ ReadFreed
  BY <1>1, <1>16 DEF SendFreed, ReadFreed
<1>17. ASSUME NEW k \in Keys, KeyPress(k) PROVE Ring' = Ring /\ ch' = ch
  <2>1. RPos' = RPos /\ Gap' = Gap /\ buf' = buf /\ ch' = ch
    BY <1>17, SameGap DEF KeyPress, shell
  <2>2. QED
    BY <2>1, SameRing
<1>18. CASE UNCHANGED vars
  <2>1. RPos' = RPos /\ Gap' = Gap /\ buf' = buf /\ ch' = ch
    BY <1>18, SameGap DEF vars, gui, shell
  <2>2. QED
    BY <2>1, SameRing
<1>19. QED
  BY <1>2, <1>3, <1>4, <1>5, <1>6, <1>7, <1>8, <1>9, <1>10, <1>11, <1>12, <1>13,
     <1>14, <1>15, <1>16, <1>17, <1>18 DEF Next, Send, Shell

(* Once it is cancelled or has lost a character, the terminal is no more a   *)
(* queue.                                                                    *)
LEMMA StaysUnsound ==
  ASSUME Inv, [Next]_vars, ~Sound
  PROVE  ~Sound'
BY DEF Sound, Inv, Shape, Next, vars, gui, shell, Send, Shell, Close, KeyPress, Check, Store, Flip,
       Advance, Release, Indicate, SendFreed, Call, Take, Get, Copy, FlipRead, AdvanceRead,
       ReadFreed, Handle, Cancel, SetDevice, Detach, Free

(* send, read and the ring buffer implement the bounded queue of CharQueue:  *)
(* while the terminal is open, what the shell reads is what was put, in that *)
(* order, and nothing is lost, doubled or made up - unless putchar looks at  *)
(* a full ring between the two stores that wrap the read position.           *)
THEOREM TerminalIsQueue == Spec => IsQueue
<1> DEFINE held == IF Sound THEN ch ELSE "none"
<1>1. Init /\ Inv => Queue!Init
  <2> SUFFICES ASSUME Init, Inv PROVE Queue!Init
    OBVIOUS
  <2>1. Sound /\ ch = "none" /\ sem = 0 /\ wpc = "idle" /\ rpc \in {"uart", "idle"}
    BY DEF Init, Sound
  <2>2. Gap = 0
    BY SizeIs DEF Init, Gap, GapOf, WPos, RPos, Pos
  <2>3. Typed = <<>>
    BY <2>1, <2>2 DEF Typed, Ring
  <2>4. Mapped
    BY InvMapped
  <2>5. QED
    BY <2>1, <2>3, <2>4 DEF Queue!Init, Mapped
<1>2. Inv /\ Mapped /\ Mapped' /\ [Next]_vars => [Queue!Next]_(Queue!qvars)
  <2> SUFFICES ASSUME Inv, Mapped, Mapped', [Next]_vars
               PROVE  [Queue!Next]_(Queue!qvars)
    OBVIOUS
  <2>1. Sound \in BOOLEAN /\ Sound' \in BOOLEAN
    BY DEF Sound
  <2>2. CASE ~Sound
    BY <2>1, <2>2, StaysUnsound DEF Typed, Queue!qvars
  <2>3. CASE Sound /\ ~Sound'
    BY <2>1, <2>3 DEF Queue!Next, Queue!Close, Mapped, Typed
  <2>4. CASE Sound /\ Sound'
    <3>1. Typed = Ring /\ Typed' = Ring' /\ held = ch /\ held' = ch'
      BY <2>4 DEF Typed
    <3> HIDE DEF held
    <3>2. CASE Advance /\ ch' = ch /\ Len(Ring) < Size /\ Ring' = Append(Ring, Head(todo)) /\ Head(todo) \in Chars
      BY <2>4, <3>1, <3>2 DEF Queue!Next, Queue!Put, Mapped, held
    <3>3. CASE Copy /\ ch = "none" /\ Ring # <<>> /\ ch' = Head(Ring) /\ Ring' = Tail(Ring)
      BY <2>4, <3>1, <3>3 DEF Queue!Next, Queue!Get, Mapped, held
    <3>4. CASE Ring' = Ring /\ ch' \in {ch, "none"}
      BY <2>4, <3>1, <3>4 DEF Queue!Next, Queue!Done, Queue!qvars, Mapped, held
    <3>5. QED
      BY <2>4, <3>2, <3>3, <3>4, QueueStep
  <2>5. QED
    BY <2>2, <2>3, <2>4
<1>3. QED
  BY <1>1, <1>2, InvMapped, TerminalInv, PTL DEF Spec, IsQueue, Queue!Spec

(* What putchar adds to the queue is the next character of the key that was  *)
(* pressed, also when the shell reads and the key goes round the end of the  *)
(* ring in between: KeyPress, Store and Advance are steps of one send.       *)
THEOREM TypedIsPut ==
  Spec => [][Advance /\ Sound => Typed' = Append(Typed, Head(todo))]_vars
<1>1. Inv /\ [Next]_vars => [Advance /\ Sound => Typed' = Append(Typed, Head(todo))]_vars
  <2> SUFFICES ASSUME Inv, Advance, Sound
               PROVE  Typed' = Append(Typed, Head(todo))
    OBVIOUS
  <2>1. ~torn /\ ~Detached /\ Sound'
    BY DEF Sound, Detached, Advance
  <2>2. Ring' = Append(Ring, Head(todo))
    BY <2>1, PutRing
  <2>3. QED
    BY <2>1, <2>2 DEF Typed
<1>2. QED
  BY <1>1, TerminalInv, PTL DEF Spec
=============================================================================
