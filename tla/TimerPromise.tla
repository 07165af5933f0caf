---------------------------- MODULE TimerPromise ----------------------------
(***************************************************************************)
(* What the timers of the kernel promise: a timer that is started for d    *)
(* ticks expires at the d-th tick, neither earlier nor later, unless it is *)
(* stopped or started anew.  Time has no width and timers have no order.   *)
(***************************************************************************)
EXTENDS Integers

CONSTANTS
  Timer,   \* the timers
  Delays,  \* the delays that are asked for
  Off      \* a timer that is not running

VARIABLES
  asked,   \* the delay a timer was started with
  remain   \* the ticks it has left, Off when it does not run

pvars == <<asked, remain>>

Running(t) == remain[t] # Off

PInit == asked = [t \in Timer |-> 0] /\ remain = [t \in Timer |-> Off]

PStart(t, d) ==
  asked' = [asked EXCEPT ![t] = d] /\ remain' = [remain EXCEPT ![t] = d]

PStop(t) == Running(t) /\ remain' = [remain EXCEPT ![t] = Off] /\ UNCHANGED asked

(* The next tick comes when all that were due have expired; only a delay of  *)
(* 0 that was asked for after the last tick waits for it.                    *)
PTick ==
  /\ \A t \in Timer : Running(t) => remain[t] > 0 \/ (remain[t] = 0 /\ asked[t] = 0)
  /\ remain' = [t \in Timer |-> IF Running(t) THEN remain[t] - 1 ELSE Off]
  /\ UNCHANGED asked

PExpire ==
  /\ remain' = [t \in Timer |-> IF Running(t) /\ remain[t] <= 0 THEN Off ELSE remain[t]]
  /\ UNCHANGED asked

PNext == PTick \/ PExpire \/ \E t \in Timer : PStop(t) \/ \E d \in Delays : PStart(t, d)

PSpec == PInit /\ [][PNext]_pvars
=============================================================================
