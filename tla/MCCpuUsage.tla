----------------------------- MODULE MCCpuUsage -----------------------------
(* Three threads on two cores: one of them is always waiting to run. *)
EXTENDS CpuUsage

CONSTANTS t1, t2, t3

MCList == <<t1, t2, t3>>
MCGarbage == {<<0, 20>>, <<20, 0>>}

(* Bound: in the last period threads are switched at its beginning only. *)
MCBound == \A c \in Cores : hooked[c] <= MaxClock - Reload
=============================================================================
