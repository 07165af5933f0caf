----------------------------- MODULE MultiButton ----------------------------
(***************************************************************************)
(* The button state machine button_handler of packages/MultiButton, as the *)
(* board configures it: key_thread (applications/key.c) calls it every     *)
(* 100 ms for each of its three buttons.  A button is a machine of its own, *)
(* so one button is modelled; the level read from the pin is arbitrary.    *)
(***************************************************************************)
EXTENDS Integers

CONSTANTS
  DebounceTicks, ShortTicks, LongTicks, \* the three thresholds
  TickMod,    \* modulus of the uint16_t ticks
  RepeatMod,  \* modulus of the 4-bit repeat
  MaxCount    \* the counters kept for the properties stop here

(* The counters of the properties pass the long press and the wrap of repeat. *)
ASSUME ButtonAssumption ==
  /\ DebounceTicks \in 0..7 /\ ShortTicks \in Nat \ {0} /\ LongTicks \in Nat
  /\ TickMod \in Nat /\ LongTicks + 1 < TickMod /\ ShortTicks + 1 < TickMod
  /\ RepeatMod \in Nat /\ RepeatMod > 2
  /\ MaxCount \in Nat /\ LongTicks + 2 < MaxCount /\ RepeatMod + 2 < MaxCount

VARIABLES
  level,    \* button_level: 1 when the debounced level is the active one
  debounce, \* debounce_cnt, 3 bits
  state, ticks, repeat,
  fired,    \* events whose callbacks the last call invoked
  down,     \* 1 when PRESS_DOWN was reported after the last PRESS_UP (history)
  held,     \* calls since the button went down, 0 when it is up (history)
  series    \* presses of this series of clicks (history)

buttonVars == <<level, debounce, state, ticks, repeat, fired, down, held, series>>

Up(n) == IF n < MaxCount THEN n + 1 ELSE n

(* button_init reads the level; the pin is chosen by the user field, which   *)
(* is still 0 then, so any level may be found.                              *)
ButtonInit ==
  /\ level \in {0, 1} /\ debounce = 0
  /\ state = 0 /\ ticks = 0 /\ repeat = 0
  /\ fired = {} /\ down = 0 /\ held = 0 /\ series = 0

-----------------------------------------------------------------------------
(* button_handler, first half: the debounced level for the level just read. *)
Debounce(read) ==
  LET cnt == (debounce + 1) % 8
  IN  IF read # level /\ cnt >= DebounceTicks
        THEN level' = read /\ debounce' = 0
        ELSE level' = level /\ debounce' = IF read # level THEN cnt ELSE 0

(* handle->ticks++ happens in every state but 0. *)
Ticked == (ticks + 1) % TickMod

Enter(s, t, r, events) ==
  /\ state' = s /\ ticks' = t /\ repeat' = r /\ fired' = events

(* The cases of the state machine, on the debounced level. *)
StateIdle ==
  /\ state = 0
  /\ IF level' = 1 THEN Enter(1, 0, 1, {"PRESS_DOWN"})
                   ELSE Enter(0, ticks, repeat, {})

(* Mutant: the threshold of a long press is off by one. *)
StatePressedEarly ==
  /\ state = 1
  /\ IF level' = 0 THEN Enter(2, 0, repeat, {"PRESS_UP"})
     ELSE IF Ticked >= LongTicks THEN Enter(5, Ticked, repeat, {"LONG_PRESS_START"})
     ELSE Enter(1, Ticked, repeat, {})

StatePressed ==
  /\ state = 1
  /\ IF level' = 0 THEN Enter(2, 0, repeat, {"PRESS_UP"})
     ELSE IF Ticked > LongTicks THEN Enter(5, Ticked, repeat, {"LONG_PRESS_START"})
     ELSE Enter(1, Ticked, repeat, {})

Click ==
  IF repeat = 1 THEN {"SINGLE_CLICK"}
  ELSE IF repeat = 2 THEN {"DOUBLE_CLICK"} ELSE {}

(* Mutant: a new press is not counted. *)
StateReleasedNoCount ==
  /\ state = 2
  /\ IF level' = 1
       THEN Enter(3, 0, repeat, {"PRESS_DOWN", "PRESS_REPEAT"})
     ELSE IF Ticked > ShortTicks THEN Enter(0, Ticked, repeat, Click)
     ELSE Enter(2, Ticked, repeat, {})

StateReleased ==
  /\ state = 2
  /\ IF level' = 1
       THEN Enter(3, 0, (repeat + 1) % RepeatMod, {"PRESS_DOWN", "PRESS_REPEAT"})
     ELSE IF Ticked > ShortTicks THEN Enter(0, Ticked, repeat, Click)
     ELSE Enter(2, Ticked, repeat, {})

(* Mutant: the release of a slow repeated press is not reported. *)
StateRepeatedNoUp ==
  /\ state = 3
  /\ IF level' = 1 THEN Enter(3, Ticked, repeat, {})
     ELSE IF Ticked < ShortTicks THEN Enter(2, 0, repeat, {"PRESS_UP"})
     ELSE Enter(0, Ticked, repeat, {})

StateRepeated ==
  /\ state = 3
  /\ IF level' = 1 THEN Enter(3, Ticked, repeat, {})
     ELSE IF Ticked < ShortTicks THEN Enter(2, 0, repeat, {"PRESS_UP"})
     ELSE Enter(0, Ticked, repeat, {"PRESS_UP"})

(* Mutant: the machine stays in the long press after the release. *)
StateLongStuck ==
  /\ state = 5
  /\ IF level' = 1 THEN Enter(5, Ticked, repeat, {"LONG_PRESS_HOLD"})
                   ELSE Enter(5, Ticked, repeat, {"PRESS_UP"})

StateLong ==
  /\ state = 5
  /\ IF level' = 1 THEN Enter(5, Ticked, repeat, {"LONG_PRESS_HOLD"})
                   ELSE Enter(0, Ticked, repeat, {"PRESS_UP"})

Fires(e) == e \in fired'

(* One call of button_handler, which finds the given level on the pin. *)
button_handler(read) ==
  /\ Debounce(read)
  /\ StateIdle \/ StatePressed \/ StateReleased \/ StateRepeated \/ StateLong
  /\ down' = IF Fires("PRESS_DOWN") THEN 1 ELSE IF Fires("PRESS_UP") THEN 0 ELSE down
  /\ held' = IF level' = 1 THEN Up(held) ELSE 0
  /\ series' = IF state = 0 THEN level' ELSE IF Fires("PRESS_REPEAT") THEN Up(series) ELSE series

ButtonNext == \E read \in {0, 1} : button_handler(read)

ButtonSpec == ButtonInit /\ [][ButtonNext]_buttonVars

(* key_thread never stops calling button_ticks. *)
ButtonFairSpec == ButtonSpec /\ WF_buttonVars(ButtonNext)

-----------------------------------------------------------------------------
ButtonTypeOK ==
  /\ level \in {0, 1} /\ debounce \in 0..7
  /\ state \in {0, 1, 2, 3, 5} /\ down \in {0, 1}
  /\ ticks \in 0..(TickMod - 1) /\ repeat \in 0..(RepeatMod - 1)

(* The machine is in a pressed state exactly when it has told its clients    *)
(* of a press and not of the release.                                        *)
StateIsReported == down = 1 <=> state \in {1, 3, 5}

(* PRESS_DOWN and PRESS_UP alternate and after every call the clients know   *)
(* the debounced level: no press and no release is lost or reported twice    *)
(* ("每次按下都触发", "每次松开都触发" in the README of MultiButton).          *)
DownUpAlternate ==
  [][ /\ Fires("PRESS_DOWN") => down = 0
      /\ Fires("PRESS_UP") => down = 1
      /\ down' = level' ]_buttonVars

(* On the first press of a series LONG_PRESS_START is reported exactly once, *)
(* at the call that finds the button down LONG_TICKS + 1 calls after the one *)
(* that saw it go down.  A repeated press gets none however long it is held  *)
(* (state 3 does not test LONG_TICKS), and nothing is claimed of it.         *)
LongPressTime ==
  [][ series' = 1 => (Fires("LONG_PRESS_START") <=> held' = LongTicks + 2) ]_buttonVars

(* The pause that ends a series reports one press as SINGLE_CLICK and two as *)
(* DOUBLE_CLICK, and no other call does; the presses are counted in 4 bits,  *)
(* so 17 of them are reported as a single click and 18 as a double one.      *)
ClickMeansCount ==
  [][ LET ended == state = 2 /\ state' = 0
      IN  series < MaxCount =>
            /\ Fires("SINGLE_CLICK") <=> ended /\ series % RepeatMod = 1
            /\ Fires("DOUBLE_CLICK") <=> ended /\ series % RepeatMod = 2 ]_buttonVars

(* Once the button stays up, the machine comes to rest. *)
ComesToRest == (<>[](level = 0)) => <>[](state = 0)
=============================================================================
