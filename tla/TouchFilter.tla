---------------------------- MODULE TouchFilter -----------------------------
(***************************************************************************)
(* The touch-screen filters (driver/touch/ns2009): a running median, a     *)
(* running mean and the affine calibration, as operators on the C structs. *)
(* Arrays are functions from 0, as in C.                                   *)
(***************************************************************************)
EXTENDS Integers, Sequences

(* C integer division truncates towards zero. *)
CDiv(a, b) ==
  LET q == (IF a < 0 THEN -a ELSE a) \div (IF b < 0 THEN -b ELSE b)
  IN  IF (a < 0) = (b < 0) THEN q ELSE -q

IntMax == 2147483647

-----------------------------------------------------------------------------
(* median.c.  buffer holds the samples, index the positions in the order of *)
(* their samples.                                                           *)

median_alloc(length) ==
  [buffer |-> [i \in 0..(length - 1) |-> 0],
   index  |-> [i \in 0..(length - 1) |-> 0],
   length |-> length, position |-> 0, count |-> 0]

(* Swapping neighbours, the entry at place o wanders to place p. *)
Wander(idx, o, p) ==
  [i \in DOMAIN idx |->
     IF i = p THEN idx[o]
     ELSE IF o <= i /\ i < p THEN idx[i + 1]
     ELSE IF p < i /\ i <= o THEN idx[i - 1]
     ELSE idx[i]]

(* Mutant: only one place is moved. *)
RaiseIndexOnce(idx, buf, o, cnt, value) ==
  IF o + 1 # cnt /\ buf[idx[o + 1]] < value THEN Wander(idx, o, o + 1) ELSE idx

(* The sample at place o of the order grew: move it up past smaller ones. *)
RaiseIndex(idx, buf, o, cnt, value) ==
  LET Stop(p) == p + 1 = cnt \/ buf[idx[p + 1]] >= value
  IN  Wander(idx, o, CHOOSE p \in o..(cnt - 1) : Stop(p) /\ \A q \in o..(p - 1) : ~Stop(q))

(* It shrank, or it is new and was put last: move it down past larger ones. *)
LowerIndex(idx, buf, o, value) ==
  LET Stop(p) == p = 0 \/ buf[idx[p - 1]] <= value
  IN  Wander(idx, o, CHOOSE p \in 0..o : Stop(p) /\ \A q \in (p + 1)..o : ~Stop(q))

median_update(f, value) ==
  LET pos  == f.position
      cnt  == f.count
      full == cnt = f.length
      buf  == [f.buffer EXCEPT ![pos] = value]
      idx0 == IF full THEN f.index ELSE [f.index EXCEPT ![pos] = pos]
      oidx == IF full THEN CHOOSE o \in 0..(cnt - 1) : f.index[o] = pos ELSE pos
      oval == IF full THEN f.buffer[pos] ELSE IntMax
      idx  == IF oval < value THEN RaiseIndex(idx0, buf, oidx, cnt, value)
              ELSE IF oval > value THEN LowerIndex(idx0, buf, oidx, value)
              ELSE idx0
  IN  [filter |-> [f EXCEPT !.buffer = buf, !.index = idx,
                            !.position = IF pos + 1 = f.length THEN 0 ELSE pos + 1,
                            !.count = IF full THEN cnt ELSE cnt + 1],
       result |-> IF cnt > 0 THEN buf[idx[cnt \div 2]] ELSE value]

median_clear(f) == [f EXCEPT !.position = 0, !.count = 0]

-----------------------------------------------------------------------------
(* mean.c.  sum is kept incrementally. *)

mean_alloc(length) ==
  [buffer |-> [i \in 0..(length - 1) |-> 0],
   length |-> length, index |-> 0, count |-> 0, sum |-> 0]

mean_update(f, value) ==
  LET sum   == f.sum - f.buffer[f.index] + value
      count == IF f.count < f.length THEN f.count + 1 ELSE f.count
  IN  [filter |-> [f EXCEPT !.buffer = [f.buffer EXCEPT ![f.index] = value], !.sum = sum,
                            !.index = (f.index + 1) % f.length, !.count = count],
       result |-> CDiv(sum, count)]

(* Mutant: the buffer is not zeroed, so old samples are subtracted later. *)
MeanClearKeepsBuffer(f) == [f EXCEPT !.index = 0, !.count = 0, !.sum = 0]

mean_clear(f) ==
  [f EXCEPT !.buffer = [i \in 0..(f.length - 1) |-> 0], !.index = 0, !.count = 0, !.sum = 0]

-----------------------------------------------------------------------------
(* tsfilter.c.  cal is the calibration, a function on 0..6. *)

tsfilter_alloc(ml, nl, cal) ==
  [mx |-> median_alloc(ml), my |-> median_alloc(ml),
   nx |-> mean_alloc(nl), ny |-> mean_alloc(nl), cal |-> cal]

tsfilter_update(f, x, y) ==
  LET mx == median_update(f.mx, x)
      my == median_update(f.my, y)
      nx == mean_update(f.nx, mx.result)
      ny == mean_update(f.ny, my.result)
      tx == nx.result
      ty == ny.result
      c  == f.cal
  IN  [filter |-> [f EXCEPT !.mx = mx.filter, !.my = my.filter,
                            !.nx = nx.filter, !.ny = ny.filter],
       x |-> CDiv(c[2] + c[0] * tx + c[1] * ty, c[6]),
       y |-> CDiv(c[5] + c[3] * tx + c[4] * ty, c[6])]

tsfilter_clear(f) ==
  [f EXCEPT !.mx = median_clear(f.mx), !.my = median_clear(f.my),
            !.nx = mean_clear(f.nx), !.ny = mean_clear(f.ny)]
=============================================================================
