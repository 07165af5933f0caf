----------------------------- MODULE AxisFilter -----------------------------
(***************************************************************************)
(* One axis of the touch screen: samples go through the running median and *)
(* then the running mean, and both are cleared when the finger is lifted.  *)
(* The filters are compared with reference definitions over the samples    *)
(* seen since the last clear.                                              *)
(***************************************************************************)
EXTENDS TouchFilter, FiniteSets

CONSTANTS
  MedianLength, MeanLength, \* the two arguments of tsfilter_alloc
  Samples                   \* raw readings

ASSUME AxisAssumption ==
  /\ MedianLength \in Nat /\ MedianLength % 2 = 1
  /\ MeanLength \in Nat \ {0}
  /\ Samples \subseteq (-IntMax)..IntMax

VARIABLES
  median, mean, \* the two filters
  out,          \* what the last update returned
  raw,          \* the samples that can still matter to the median (history)
  mid           \* the medians that can still matter to the mean (history)

axisVars == <<median, mean, out, raw, mid>>

(* The last n elements of a sequence. *)
LastOf(s, n) == IF Len(s) <= n THEN s ELSE SubSeq(s, Len(s) - n + 1, Len(s))

AxisInit ==
  /\ median = median_alloc(MedianLength) /\ mean = mean_alloc(MeanLength)
  /\ out = 0 /\ raw = <<>> /\ mid = <<>>

Update(v) ==
  LET m == median_update(median, v)
      a == mean_update(mean, m.result)
  IN  /\ median' = m.filter /\ mean' = a.filter /\ out' = a.result
      /\ raw' = LastOf(Append(raw, v), MedianLength)
      /\ mid' = LastOf(Append(mid, m.result), MeanLength)

Clear ==
  /\ median' = median_clear(median) /\ mean' = mean_clear(mean)
  /\ raw' = <<>> /\ mid' = <<>>
  /\ UNCHANGED out

AxisNext == Clear \/ \E v \in Samples : Update(v)

AxisSpec == AxisInit /\ [][AxisNext]_axisVars

-----------------------------------------------------------------------------
(* The value of rank k (from 0) of a sequence: k values are at most it.      *)
Rank(s, k) ==
  CHOOSE v \in {s[i] : i \in DOMAIN s} :
    /\ Cardinality({i \in DOMAIN s : s[i] < v}) <= k
    /\ Cardinality({i \in DOMAIN s : s[i] <= v}) > k

(* The sum of a sequence. *)
Total(s) ==
  LET upTo[n \in 0..Len(s)] == IF n = 0 THEN 0 ELSE upTo[n - 1] + s[n]
  IN  upTo[Len(s)]

(* The index orders exactly the valid samples of the buffer. *)
IndexSorted ==
  LET n == median.count
  IN  /\ {median.index[i] : i \in 0..(n - 1)} = 0..(n - 1)
      /\ \A i, j \in 0..(n - 1) :
           i < j => median.buffer[median.index[i]] <= median.buffer[median.index[j]]

(* median_update returns the middle of the last samples, the lower of the    *)
(* two middle ones while an even number has been seen, although the index is *)
(* only repaired at the place of the sample that was overwritten; and the    *)
(* index stays a sorted permutation of the valid samples.                    *)
MedianIsMiddle ==
  /\ IndexSorted
  /\ mid # <<>> => mid[Len(mid)] = Rank(raw, (Len(raw) - 1) \div 2)

(* mean_update's incremental sum is the sum of the last medians and its      *)
(* result their truncated average, also across a clear.                      *)
MeanIsAverage ==
  /\ mean.sum = Total(mid) /\ mean.count = Len(mid)
  /\ mid # <<>> => out = CDiv(Total(mid), Len(mid))
=============================================================================
