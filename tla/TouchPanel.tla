----------------------------- MODULE TouchPanel -----------------------------
(***************************************************************************)
(* The touch screen from the NS2009 controller to LVGL: every time LVGL    *)
(* polls, input_read (packages/lvgl/littlevgl2rtt.c) calls touchscreen_read *)
(* (driver/touch/ns2009/touchscreen.c), which polls the controller over I2C *)
(* (ns2009.c), filters the reading (TouchFilter) and keeps the last event. *)
(* All of it runs in the GUI thread; any of the three I2C reads may fail.  *)
(***************************************************************************)
EXTENDS TouchFilter

CONSTANTS
  Points,       \* places of the panel, raw readings <<x, y>>
  Calibration,  \* the seven numbers of the calibration
  FilterLength, \* length of the median and of the mean filter
  BusErrors     \* may an I2C transfer fail?

ASSUME TouchAssumption ==
  /\ Points \subseteq Nat \X Nat /\ BusErrors \in BOOLEAN
  /\ FilterLength \in Nat \ {0} /\ Calibration[6] # 0

VARIABLES
  finger,    \* where the finger is, <<x, y>>, or Lifted
  filter,    \* ts_ns2009_pdata->filter
  last,      \* ts_ns2009_pdata->x and y
  press,     \* ts_ns2009_pdata->press
  event,     \* *ts_ns2009_pdata->event: type, x and y
  touchDown, \* touch_down of input_read
  report     \* what input_read gave LVGL: point and state

vars == <<finger, filter, last, press, event, touchDown, report>>

Lifted == <<>>
Origin == <<0, 0>>

Init ==
  /\ finger = Lifted
  /\ filter = tsfilter_alloc(FilterLength, FilterLength, Calibration)
  /\ last = Origin /\ press = 0
  /\ event = [type |-> "NONE", at |-> Origin]
  /\ touchDown = FALSE
  /\ report = [point |-> Origin, state |-> "REL"]

(* The user touches, moves or lifts the finger. *)
MoveFinger ==
  /\ finger' \in {Lifted} \cup Points
  /\ finger' # finger
  /\ UNCHANGED <<filter, last, press, event, touchDown, report>>

(* What ns2009_read leaves in its variable: the reading, or, when the       *)
(* transfer fails, the 0 the variable was initialised with.                 *)
ns2009_read(v) == {v} \cup (IF BusErrors THEN {0} ELSE {})

(* Mutant: only a movement along the first axis makes an event. *)
TouchedOneAxis(x, y) ==
  LET u  == tsfilter_update(filter, x, y)
      at == <<u.x, u.y>>
  IN  /\ filter' = u.filter
      /\ event' = IF press = 0 THEN [type |-> "BEGIN", at |-> at]
                  ELSE IF at[1] # last[1] THEN [type |-> "MOVE", at |-> at]
                  ELSE event
      /\ press' = 1
      /\ last' = at

(* ts_ns2009_poll when the pressure says touched and x, y were read. *)
Touched(x, y) ==
  LET u  == tsfilter_update(filter, x, y)
      at == <<u.x, u.y>>
  IN  /\ filter' = u.filter
      /\ event' = IF press = 0 THEN [type |-> "BEGIN", at |-> at]
                  ELSE IF at # last THEN [type |-> "MOVE", at |-> at]
                  ELSE event
      /\ press' = 1
      /\ last' = at

(* Mutant: the filters keep the samples of the stroke that ended. *)
ReleasedNoClear ==
  IF press = 1
    THEN /\ event' = [type |-> "END", at |-> last]
         /\ press' = 0
         /\ UNCHANGED <<filter, last>>
    ELSE UNCHANGED <<filter, last, press, event>>

(* Mutant: the end of a stroke is not turned into an event. *)
ReleasedNoEvent ==
  IF press = 1
    THEN /\ filter' = tsfilter_clear(filter)
         /\ press' = 0
         /\ UNCHANGED <<event, last>>
    ELSE UNCHANGED <<filter, last, press, event>>

(* ts_ns2009_poll when the pressure says not touched. *)
Released ==
  IF press = 1
    THEN /\ filter' = tsfilter_clear(filter)
         /\ event' = [type |-> "END", at |-> last]
         /\ press' = 0
         /\ UNCHANGED last
    ELSE UNCHANGED <<filter, last, press, event>>

(* The rest of the call once the controller was polled: touchscreen_read    *)
(* maps the event to a status, or leaves the caller's IDLE and (0, 0), and   *)
(* input_read updates touch_down.                                           *)
Deliver ==
  /\ touchDown' = CASE event'.type = "BEGIN" -> TRUE
                    [] event'.type = "END"   -> FALSE
                    [] OTHER                 -> touchDown
  /\ report' = [point |-> IF event'.type = "NONE" THEN Origin ELSE event'.at,
                state |-> IF touchDown' THEN "PR" ELSE "REL"]
  /\ UNCHANGED finger

(* input_read with a successful read of the pressure. *)
PollTouched ==
  /\ finger # Lifted
  /\ \E x \in ns2009_read(finger[1]), y \in ns2009_read(finger[2]) : Touched(x, y)
  /\ Deliver

PollLifted == finger = Lifted /\ Released /\ Deliver

(* input_read when the read of the pressure fails: push_event_none. *)
PollFails ==
  /\ BusErrors
  /\ event' = [type |-> "NONE", at |-> Origin]
  /\ UNCHANGED <<filter, last, press>>
  /\ Deliver

Next == MoveFinger \/ PollTouched \/ PollLifted \/ PollFails

Spec == Init /\ [][Next]_vars

(* LVGL polls for ever and the bus does not fail for ever. *)
FairSpec == Spec /\ WF_vars(PollLifted)

-----------------------------------------------------------------------------
TypeOK ==
  /\ press \in {0, 1} /\ touchDown \in BOOLEAN
  /\ event.type \in {"NONE", "BEGIN", "MOVE", "END"}
  /\ report.state \in {"PR", "REL"}

(* Between strokes the filters are empty: the first point of a stroke is the *)
(* calibrated reading itself, never pulled towards the previous stroke.      *)
(* Variables keep their types.                                               *)
StrokesIndependent ==
  /\ TypeOK
  /\ press = 0 =>
    /\ filter.mx.count = 0 /\ filter.my.count = 0
    /\ filter.nx.count = 0 /\ filter.ny.count = 0
    /\ filter.nx.sum = 0 /\ filter.ny.sum = 0

(* LVGL and the driver agree on whether the screen is pressed, whatever      *)
(* transfers failed and although an event stays in place until the next one. *)
PressAgrees == touchDown <=> press = 1

(* While input_read reports a press, the point is the last one the driver    *)
(* computed, LVGL's "currently pressed point", after any failed reads of the *)
(* coordinates.  A failed read of the pressure wipes the event, and until    *)
(* the next one the press is reported at (0, 0), the point input_read starts *)
(* from; there is no other wrong point.  It reports a press exactly when the *)
(* driver has one.                                                           *)
PointFollows ==
  /\ PressAgrees
  /\ report.state = "PR" =>
       report.point = IF event.type = "NONE" THEN Origin ELSE last

(* Lifting the finger is reported in the end. *)
ReleaseReported == (finger = Lifted) ~> (report.state = "REL" \/ finger # Lifted)
=============================================================================
