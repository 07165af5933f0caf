----------------------------- MODULE FramePacer -----------------------------
(***************************************************************************)
(* The self-adjusting delay of the two frame loops: tft_thread, which      *)
(* flushes the frame buffer to the panel, and lvgl_handle_thread, which    *)
(* runs the GUI tasks.  Both time one round with rt_tick_get, compute the  *)
(* frame rate times 100 and step the delay t by one tick to "keep 30fps".  *)
(*                                                                         *)
(* Every quantity is an unsigned 32-bit integer in the code; Word is the   *)
(* modulus 2^32, a parameter so that TLC can make the tick counter wrap.   *)
(***************************************************************************)
EXTENDS Integers

CONSTANTS
  Word,          \* modulus of rt_tick_t and uint32_t
  TickPerSecond, \* RT_TICK_PER_SECOND
  InitialDelay,  \* initial t: 10 in tft_thread, RT_TICK_PER_SECOND / 60 in lvgl
  Works,         \* ticks one round of work (tft_flush, lv_task_handler) may take
  Lates          \* ticks by which the scheduler may resume the thread late

ASSUME PacerAssumption ==
  /\ TickPerSecond \in Nat \ {0}
  /\ Word \in Nat /\ TickPerSecond + 1 < Word
  /\ InitialDelay \in 0..TickPerSecond
  /\ Works \subseteq Nat /\ Lates \subseteq Nat /\ Lates # {}
  \* a round is shorter than the 49 days after which the counter comes round
  /\ \A w \in Works, late \in Lates : w + TickPerSecond + late < Word

VARIABLES
  t,      \* the delay, in ticks
  now,    \* rt_tick_get(): the tick counter of cpu 0
  start,  \* tick at the start of the round
  load,   \* ticks of work in the round, or in the coming one before it starts
  spent,  \* true number of ticks the round has taken so far (history)
  fps,    \* frame rate times 100
  pc      \* "start", "sleep" or "measure"

pacerVars == <<t, now, start, load, spent, fps, pc>>

(* Mutant: the difference of two tick readings taken as a signed number. *)
PlusSigned(a, d) == IF d < 0 THEN a + d ELSE (a + d) % Word

(* Unsigned addition of a possibly negative amount. *)
Plus(a, d) == (a + d) % Word

(* RT_TICK_PER_SECOND * 100 / (end - start).  The divisor is zero when the *)
(* thread sleeps for 0 ticks and the timer list is checked by the tick     *)
(* interrupt of cpu 1, which does not advance the counter of cpu 0; the    *)
(* RISC-V divu instruction then yields all ones.                           *)
Rate(elapsed) ==
  IF elapsed = 0 THEN Word - 1 ELSE (TickPerSecond * 100) \div elapsed

(* Mutant: the range check after the step is missing. *)
AdjustNoClamp(d, rate) == IF rate > 3000 THEN Plus(d, 1) ELSE Plus(d, -1)

(* Mutant: the comparison is the wrong way round. *)
AdjustInverted(d, rate) ==
  LET stepped == IF rate > 3000 THEN Plus(d, -1) ELSE Plus(d, 1)
  IN  IF stepped > TickPerSecond THEN 0 ELSE stepped

(* "keep 30fps": one tick longer when too fast, one tick shorter otherwise, *)
(* and back to 0 when out of range, which is also how 0 - 1 is caught.      *)
Adjust(d, rate) ==
  LET stepped == IF rate > 3000 THEN Plus(d, 1) ELSE Plus(d, -1)
  IN  IF stepped > TickPerSecond THEN 0 ELSE stepped

-----------------------------------------------------------------------------
PacerInit ==
  /\ t = InitialDelay
  /\ now = 0 /\ load \in Works
  /\ start = 0 /\ spent = 0 /\ fps = 0
  /\ pc = "start"

(* start = rt_tick_get(); then the work of the round. *)
Work ==
  /\ pc = "start"
  /\ \E w \in Works :
       /\ start' = now
       /\ now' = Plus(now, w)
       /\ load' = w /\ spent' = w
  /\ pc' = "sleep"
  /\ UNCHANGED <<t, fps>>

(* rt_thread_mdelay(t) or rt_thread_delay(t). *)
Sleep ==
  /\ pc = "sleep"
  /\ \E late \in Lates :
       /\ now' = Plus(now, t + late)
       /\ spent' = spent + t + late
  /\ pc' = "measure"
  /\ UNCHANGED <<t, start, load, fps>>

(* end = rt_tick_get(), the new rate and the new delay. *)
Measure ==
  /\ pc = "measure"
  /\ fps' = Rate(Plus(now, -start))
  /\ t' = Adjust(t, fps')
  /\ pc' = "start"
  /\ UNCHANGED <<now, start, load, spent>>

PacerNext == Work \/ Sleep \/ Measure

PacerSpec == PacerInit /\ [][PacerNext]_pacerVars

(* The loop is never blocked for ever. *)
PacerFairSpec == PacerSpec /\ WF_pacerVars(PacerNext)

-----------------------------------------------------------------------------
(* The delay never leaves 0..RT_TICK_PER_SECOND although it is decremented  *)
(* as an unsigned number: a thread can never be put to sleep for 2^32 ticks *)
(* by the t-- of a loop that is too slow.                                   *)
PacerTypeOK ==
  /\ t \in 0..TickPerSecond
  /\ now \in 0..(Word - 1) /\ start \in 0..(Word - 1)
  /\ load \in Works /\ spent \in Nat /\ fps \in Nat
  /\ pc \in {"start", "sleep", "measure"}

(* end - start in unsigned arithmetic is the true length of the round, also *)
(* when the tick counter wraps between the two rt_tick_get calls.           *)
ElapsedExact == pc = "measure" => Plus(now, -start) = spent

(* "keep 30fps" (tft_thread, lvgl_handle_thread): once every round of work   *)
(* costs the same, the round settles at the length where 30 frames a second  *)
(* are just not reached and just passed (33 and 34 ticks on the board), give *)
(* or take the wake-up latency, or at the bare cost of the work when that    *)
(* alone takes longer, whatever the delay was before.                        *)
KeepsPace ==
  LET late == CHOOSE m \in Lates : \A n \in Lates : n <= m
      fast == (TickPerSecond * 100 - 1) \div 3000
      goal(w) == IF w <= fast THEN {fast, fast + 1} ELSE {w}
      Paced(w) == \E r \in goal(w) : spent \in (r - late)..(r + late)
  IN  \A w \in Works : <>[](load = w) => <>[](pc = "measure" => Paced(w))
=============================================================================
