---------------------------- MODULE BoardProofs -----------------------------
(***************************************************************************)
(* Proofs about the small board components, each a state machine of its    *)
(* own: the delay of the frame loops, the camera's frame buffers and a     *)
(* button.                                                                 *)
(***************************************************************************)
EXTENDS FramePacer, CameraBuffer, MultiButton, TLAPS

-----------------------------------------------------------------------------
(* The frame loops: the delay of tft_thread and lvgl_handle_thread. *)

(* Unsigned arithmetic stays below the modulus. *)
LEMMA PlusType == \A a, d \in Int : Plus(a, d) \in 0..(Word - 1)
  BY PacerAssumption DEF Plus, PacerAssumption

(* The rate is a natural number, also for a round of 0 ticks. *)
LEMMA RateType == \A e \in Nat : Rate(e) \in Nat
  BY PacerAssumption DEF Rate, PacerAssumption

(* Whatever the rate, the adjusted delay is in 0..RT_TICK_PER_SECOND. *)
LEMMA AdjustType == \A d \in Int, r \in Nat : Adjust(d, r) \in 0..TickPerSecond
<1> SUFFICES ASSUME NEW d \in Int, NEW r \in Nat
             PROVE  Adjust(d, r) \in 0..TickPerSecond
  OBVIOUS
<1>1. Plus(d, 1) \in 0..(Word - 1) /\ Plus(d, -1) \in 0..(Word - 1)
  BY PlusType
<1>2. QED
  BY <1>1, PacerAssumption DEF Adjust, PacerAssumption

(* tft_thread and lvgl_handle_thread: the delay never leaves the range     *)
(* although it is decremented as an unsigned number.                       *)
THEOREM PacerDelayInRange == PacerSpec => []PacerTypeOK
<1> USE PacerAssumption DEF PacerAssumption
<1>1. PacerInit => PacerTypeOK
  BY DEF PacerInit, PacerTypeOK
<1>2. PacerTypeOK /\ [PacerNext]_pacerVars => PacerTypeOK'
  <2> SUFFICES ASSUME PacerTypeOK, [PacerNext]_pacerVars PROVE PacerTypeOK'
    OBVIOUS
  <2>1. CASE Work
    <3> PICK w \in Works : start' = now /\ now' = Plus(now, w) /\ load' = w /\ spent' = w
      BY <2>1 DEF Work
    <3>1. now' \in 0..(Word - 1)
      BY PlusType DEF PacerTypeOK
    <3>2. QED
      BY <2>1, <3>1 DEF Work, PacerTypeOK
  <2>2. CASE Sleep
    <3> PICK late \in Lates : now' = Plus(now, t + late) /\ spent' = spent + t + late
      BY <2>2 DEF Sleep
    <3>1. now' \in 0..(Word - 1)
      BY PlusType DEF PacerTypeOK
    <3>2. QED
      BY <2>2, <3>1 DEF Sleep, PacerTypeOK
  <2>3. CASE Measure
    <3>1. Plus(now, -start) \in Nat
      <4>1. now \in Int /\ -start \in Int
        BY DEF PacerTypeOK
      <4>2. Plus(now, -start) \in 0..(Word - 1)
        BY <4>1, PlusType
      <4>3. QED
        BY <4>2
    <3>2. fps' \in Nat
      BY <2>3, <3>1, RateType DEF Measure
    <3>3. t' \in 0..TickPerSecond
      BY <2>3, <3>2, AdjustType DEF Measure, PacerTypeOK
    <3>4. QED
      BY <2>3, <3>2, <3>3 DEF Measure, PacerTypeOK
  <2>4. CASE UNCHANGED pacerVars
    BY <2>4 DEF pacerVars, PacerTypeOK
  <2>5. QED
    BY <2>1, <2>2, <2>3, <2>4 DEF PacerNext
<1>3. QED
  BY <1>1, <1>2, PTL DEF PacerSpec
-----------------------------------------------------------------------------
(* A number of the form n * q + r has the remainder r. *)
LEMMA ModUnique ==
  ASSUME NEW n \in Nat \ {0}, NEW q \in Int, NEW r \in 0..(n - 1)
  PROVE  (n * q + r) % n = r
OBVIOUS

(* Every integer has a quotient and a remainder. *)
LEMMA DivMod ==
  ASSUME NEW n \in Nat \ {0}, NEW x \in Int
  PROVE  \E q \in Int, r \in 0..(n - 1) : x = n * q + r /\ x % n = r
<1>1. x \div n \in Int /\ x % n \in 0..(n - 1)
  OBVIOUS
<1>2. x = n * (x \div n) + (x % n)
  OBVIOUS
<1>3. QED
  BY <1>1, <1>2

(* A wrap inside of a sum does not change the remainder of the sum. *)
LEMMA ModAdd ==
  ASSUME NEW n \in Nat \ {0}, NEW x \in Int, NEW y \in Int
  PROVE  ((x % n) + y) % n = (x + y) % n
<1>1. PICK p \in Int, s \in 0..(n - 1) : x = n * p + s /\ x % n = s
  BY DivMod
<1>2. PICK q \in Int, r \in 0..(n - 1) : s + y = n * q + r /\ (s + y) % n = r
  <2>1. s + y \in Int
    OBVIOUS
  <2>2. QED
    BY <2>1, DivMod
<1>3. n * (p + q) = n * p + n * q /\ n * p \in Int /\ n * q \in Int
  OBVIOUS
<1>4. x + y = n * (p + q) + r
  BY <1>1, <1>2, <1>3
<1>5. (x + y) % n = r
  <2>1. p + q \in Int
    OBVIOUS
  <2>2. QED
    BY <1>4, <2>1, ModUnique
<1>6. QED
  BY <1>1, <1>2, <1>5

(* Reading the counter, letting d ticks pass and subtracting in unsigned     *)
(* arithmetic gives what was there before and d more, wherever it wraps.     *)
LEMMA PlusCommutes ==
  ASSUME NEW a \in Int, NEW b \in Int, NEW d \in Int
  PROVE  Plus(Plus(a, d), -b) = Plus(Plus(a, -b), d)
<1> USE PacerAssumption DEF PacerAssumption
<1>1. Word \in Nat \ {0} /\ a + d \in Int /\ a + (-b) \in Int /\ -b \in Int
  OBVIOUS
<1>2. (((a + d) % Word) + (-b)) % Word = ((a + d) + (-b)) % Word
  BY <1>1, ModAdd
<1>3. (((a + (-b)) % Word) + d) % Word = ((a + (-b)) + d) % Word
  BY <1>1, ModAdd
<1>4. (a + d) + (-b) = (a + (-b)) + d
  OBVIOUS
<1>5. QED
  BY <1>2, <1>3, <1>4 DEF Plus

(* The inductive invariant of the measurement: the unsigned difference is    *)
(* the true length of the round so far, before the sleep and after it.       *)
Measured ==
  /\ pc = "sleep" => spent \in Works /\ Plus(now, -start) = spent
  /\ ElapsedExact

(* tft_thread and lvgl_handle_thread: end - start is the true length of the  *)
(* round, also when the tick counter wraps between the two readings.         *)
THEOREM PacerElapsedExact == PacerSpec => []ElapsedExact
<1> USE PacerAssumption DEF PacerAssumption
<1>1. PacerInit => Measured
  BY DEF PacerInit, Measured, ElapsedExact
<1>2. PacerTypeOK /\ Measured /\ [PacerNext]_pacerVars => Measured'
  <2> SUFFICES ASSUME PacerTypeOK, Measured, [PacerNext]_pacerVars PROVE Measured'
    OBVIOUS
  <2>1. CASE Work
    <3>1. PICK w \in Works : start' = now /\ now' = Plus(now, w) /\ spent' = w
      BY <2>1 DEF Work
    <3>2. now \in Int /\ w \in Int /\ w \in 0..(Word - 1) /\ pc' = "sleep"
      <4>1. PICK late \in Lates : w + TickPerSecond + late < Word
        OBVIOUS
      <4>2. QED
        BY <2>1, <4>1 DEF Work, PacerTypeOK
    <3>3. Plus(Plus(now, w), -now) = Plus(Plus(now, -now), w)
      BY <3>2, PlusCommutes
    <3>4. Plus(now, -now) = 0 /\ Plus(0, w) = w
      BY <3>2 DEF Plus
    <3>5. QED
      BY <3>1, <3>2, <3>3, <3>4 DEF Measured, ElapsedExact
  <2>2. CASE Sleep
    <3>1. PICK late \in Lates : now' = Plus(now, t + late) /\ spent' = spent + t + late
      BY <2>2 DEF Sleep
    <3>2. /\ start' = start /\ pc' = "measure" /\ spent \in Works
          /\ Plus(now, -start) = spent
      BY <2>2 DEF Sleep, Measured
    <3>3. /\ now \in Int /\ start \in Int /\ t + late \in Int
          /\ spent + (t + late) \in 0..(Word - 1)
      BY <3>2 DEF PacerTypeOK
    <3>4. Plus(Plus(now, t + late), -start) = Plus(spent, t + late)
      BY <3>2, <3>3, PlusCommutes
    <3>5. Plus(spent, t + late) = spent + t + late
      BY <3>2, <3>3 DEF Plus, PacerTypeOK
    <3>6. QED
      BY <3>1, <3>2, <3>4, <3>5 DEF Measured, ElapsedExact
  <2>3. CASE Measure
    BY <2>3 DEF Measure, Measured, ElapsedExact
  <2>4. CASE UNCHANGED pacerVars
    BY <2>4 DEF pacerVars, Measured, ElapsedExact, Plus
  <2>5. QED
    BY <2>1, <2>2, <2>3, <2>4 DEF PacerNext
<1>3. Measured => ElapsedExact
  BY DEF Measured
<1>4. QED
  BY <1>1, <1>2, <1>3, PacerDelayInRange, PTL DEF PacerSpec

-----------------------------------------------------------------------------
(* The camera: the hand-over of the frame buffers. *)

(* Every step of the sensor, the handler and the GUI thread keeps the types. *)
LEMMA CameraTypeStep == CameraTypeOK /\ [CameraNext]_cameraVars => CameraTypeOK'
<1> SUFFICES ASSUME CameraTypeOK, [CameraNext]_cameraVars PROVE CameraTypeOK'
  OBVIOUS
<1> USE DEF CameraTypeOK, dvp, history, NoBuf
<1>1. CASE FrameStart
  BY <1>1 DEF FrameStart
<1>2. CASE FrameEnd
  BY <1>2 DEF FrameEnd
<1>3. CASE IrqEnter
  BY <1>3 DEF IrqEnter
<1>4. CASE SwitchGram
  BY <1>4 DEF SwitchGram, Sel
<1>5. CASE ClearAll
  BY <1>5 DEF ClearAll
<1>6. CASE SetFlag
  BY <1>6 DEF SetFlag
<1>7. CASE Arm
  BY <1>7 DEF Arm
<1>8. CASE ClearStart
  BY <1>8 DEF ClearStart
<1>9. CASE Call
  BY <1>9 DEF Call
<1>10. CASE FrameReady
  BY <1>10 DEF FrameReady
<1>11. CASE ClearFlag
  BY <1>11 DEF ClearFlag
<1>12. CASE ToggleMux
  BY <1>12 DEF ToggleMux
<1>13. CASE Return
  BY <1>13 DEF Return, Sel
<1>14. CASE Close
  BY <1>14 DEF Close
<1>15. CASE UNCHANGED cameraVars
  BY <1>15 DEF cameraVars
<1>16. QED
  BY <1>1, <1>2, <1>3, <1>4, <1>5, <1>6, <1>7, <1>8, <1>9, <1>10, <1>11, <1>12, <1>13, <1>14, <1>15
     DEF CameraNext, Sensor, Handler, GetBuff

(* The types hold in every reachable state, stalled or not. *)
THEOREM CameraTypes == CameraSpec => []CameraTypeOK
<1>1. CameraInit => CameraTypeOK
  BY DEF CameraInit, CameraTypeOK, NoBuf
<1>2. QED
  BY <1>1, CameraTypeStep, PTL DEF CameraSpec

(* The hand-over invariant is inductive. *)
LEMMA HandoverStep ==
  ASSUME CameraTypeOK, Handover, [CameraNext]_cameraVars
  PROVE  Handover'
<1> USE DEF CameraTypeOK, Handover, Switched, InWindow, Sel, dvp, history, NoBuf
<1>1. CASE FrameStart
  BY <1>1 DEF FrameStart
<1>2. CASE FrameEnd
  <2>1. CASE stalled' = 1
    BY <2>1
  <2>2. CASE stalled' = 0
    <3>1. stalled = 0 /\ ~InWindow
      BY <1>2, <2>2 DEF FrameEnd
    <3>2. QED
      BY <1>2, <3>1 DEF FrameEnd
  <2>3. QED
    BY <2>1, <2>2, CameraTypeStep
<1>3. CASE IrqEnter
  BY <1>3 DEF IrqEnter
<1>4. CASE SwitchGram
  BY <1>4 DEF SwitchGram
<1>5. CASE ClearAll
  BY <1>5 DEF ClearAll
<1>6. CASE SetFlag
  BY <1>6 DEF SetFlag
<1>7. CASE Arm
  BY <1>7 DEF Arm
<1>8. CASE ClearStart
  BY <1>8 DEF ClearStart
<1>9. CASE Call \/ Close \/ FrameReady
  BY <1>9 DEF Call, Close, FrameReady
<1>10. CASE ClearFlag
  BY <1>10 DEF ClearFlag
<1>11. CASE ToggleMux
  BY <1>11 DEF ToggleMux
<1>12. CASE Return
  BY <1>12 DEF Return
<1>13. CASE UNCHANGED cameraVars
  BY <1>13 DEF cameraVars
<1>14. QED
  BY <1>1, <1>2, <1>3, <1>4, <1>5, <1>6, <1>7, <1>8, <1>9, <1>10, <1>11, <1>12,
     <1>13 DEF CameraNext, Sensor, Handler, GetBuff

(* camera_get_buff and on_irq_dvp keep the hand-over invariant as long as    *)
(* the GUI thread is not stalled in the window for a whole frame.           *)
THEOREM CameraHandover ==
  CameraSpec => [](CameraTypeOK /\ Handover)
<1>1. CameraInit => CameraTypeOK /\ Handover
  BY DEF CameraInit, CameraTypeOK, Handover, Switched, InWindow, Sel, NoBuf
<1>2. CameraTypeOK /\ Handover /\ [CameraNext]_cameraVars => (CameraTypeOK /\ Handover)'
  BY CameraTypeStep, HandoverStep
<1>3. QED
  BY <1>1, <1>2, PTL DEF CameraSpec

(* The buffer the GUI renders is never the one the DVP captures into. *)
THEOREM CameraNoTearing ==
  CameraSpec => []NoTearing
<1>1. CameraTypeOK /\ Handover => NoTearing
  BY DEF CameraTypeOK, Handover, Switched, Sel, NoBuf, NoTearing
<1>2. QED
  BY <1>1, CameraHandover, PTL

(* camera_get_buff returns the buffer of the newest frame, once. *)
THEOREM CameraHandsOutNewest ==
  CameraSpec => HandsOutNewest
<1>1. CameraTypeOK /\ Handover /\ [CameraNext]_cameraVars =>
        [Return /\ stalled = 0 => newest = view' /\ unseen = 1]_cameraVars
  BY DEF Handover, Return
<1>2. QED
  BY <1>1, CameraHandover, PTL DEF CameraSpec, HandsOutNewest

-----------------------------------------------------------------------------
(* The buttons: one machine of MultiButton. *)

ButtonInv == ButtonTypeOK /\ StateIsReported

(* The debounced level stays a level. *)
LEMMA DebounceType ==
  ASSUME ButtonTypeOK, NEW read \in {0, 1}, Debounce(read)
  PROVE  level' \in {0, 1} /\ debounce' \in 0..7
BY DEF ButtonTypeOK, Debounce

(* The counter of calls stays below its modulus. *)
LEMMA TickedType == ButtonTypeOK => Ticked \in 0..(TickMod - 1)
BY ButtonAssumption DEF ButtonTypeOK, Ticked, ButtonAssumption

(* One call of button_handler: the invariant is kept and the reported       *)
(* events alternate.                                                        *)
LEMMA ButtonStep ==
  ASSUME ButtonInv, NEW read \in {0, 1}, button_handler(read)
  PROVE  /\ ButtonInv'
         /\ Fires("PRESS_DOWN") => down = 0
         /\ Fires("PRESS_UP") => down = 1
         /\ down' = level'
<1> USE ButtonAssumption DEF ButtonAssumption, ButtonInv, ButtonTypeOK, StateIsReported, Fires
<1>1. level' \in {0, 1} /\ debounce' \in 0..7
  BY DebounceType DEF button_handler
<1>2. Ticked \in 0..(TickMod - 1)
  BY TickedType
<1>3. down' = IF Fires("PRESS_DOWN") THEN 1 ELSE IF Fires("PRESS_UP") THEN 0 ELSE down
  BY DEF button_handler
<1>4. down \in {0, 1}
  OBVIOUS
<1>5. CASE StateIdle
  BY <1>1, <1>3, <1>4, <1>5 DEF StateIdle, Enter
<1>6. CASE StatePressed
  BY <1>1, <1>2, <1>3, <1>4, <1>6 DEF StatePressed, Enter
<1>7. CASE StateReleased
  <2>1. (repeat + 1) % RepeatMod \in 0..(RepeatMod - 1)
    OBVIOUS
  <2>2. Click \in {{"SINGLE_CLICK"}, {"DOUBLE_CLICK"}, {}}
    BY DEF Click
  <2>3. QED
    BY <1>1, <1>2, <1>3, <1>4, <1>7, <2>1, <2>2 DEF StateReleased, Enter
<1>8. CASE StateRepeated
  BY <1>1, <1>2, <1>3, <1>4, <1>8 DEF StateRepeated, Enter
<1>9. CASE StateLong
  BY <1>1, <1>2, <1>3, <1>4, <1>9 DEF StateLong, Enter
<1>10. QED
  BY <1>5, <1>6, <1>7, <1>8, <1>9 DEF button_handler

(* The types, and the agreement of the state with what was reported. *)
THEOREM ButtonInvariant == ButtonSpec => [](ButtonTypeOK /\ StateIsReported)
<1>1. ButtonInit => ButtonInv
  BY ButtonAssumption DEF ButtonAssumption, ButtonInit, ButtonInv, ButtonTypeOK, StateIsReported
<1>2. ButtonInv /\ [ButtonNext]_buttonVars => ButtonInv'
  <2> SUFFICES ASSUME ButtonInv, [ButtonNext]_buttonVars PROVE ButtonInv'
    OBVIOUS
  <2>1. CASE ButtonNext
    BY <2>1, ButtonStep DEF ButtonNext
  <2>2. CASE UNCHANGED buttonVars
    BY <2>2 DEF buttonVars, ButtonInv, ButtonTypeOK, StateIsReported
  <2>3. QED
    BY <2>1, <2>2
<1>3. QED
  BY <1>1, <1>2, PTL DEF ButtonSpec, ButtonInv

(* PRESS_DOWN and PRESS_UP alternate, whatever levels are read from the pin. *)
THEOREM ButtonAlternates == ButtonSpec => DownUpAlternate
<1> DEFINE Alternates == /\ Fires("PRESS_DOWN") => down = 0
                         /\ Fires("PRESS_UP") => down = 1
                         /\ down' = level'
<1>1. ButtonInv /\ [ButtonNext]_buttonVars => [Alternates]_buttonVars
  <2> SUFFICES ASSUME ButtonInv, ButtonNext PROVE Alternates
    OBVIOUS
  <2>1. QED
    BY ButtonStep DEF ButtonNext
<1>2. ButtonSpec => []ButtonInv
  BY ButtonInvariant DEF ButtonInv
<1>3. QED
  BY <1>1, <1>2, PTL DEF ButtonSpec, DownUpAlternate

-----------------------------------------------------------------------------
(* In the first press of a series ticks counts the calls since the button    *)
(* went down; once the long press has started it is past the threshold, and  *)
(* a press seen in state 3 is never the first.                               *)
PressTimed ==
  /\ state = 0 => held = 0
  /\ state = 1 => ticks <= LongTicks /\ held = ticks + 1 /\ series = 1
  /\ state = 2 => series > 0
  /\ state = 3 => series > 1
  /\ state = 5 => held >= LongTicks + 2

(* repeat counts the presses of the series modulo its width. *)
RepeatCounts ==
  /\ held \in 0..MaxCount /\ series \in 0..MaxCount
  /\ state # 0 /\ series < MaxCount => repeat = series % RepeatMod

ButtonTimedInv == ButtonInv /\ PressTimed /\ RepeatCounts

(* What a long press and the clicks mean in one call. *)
LongTimed ==
  series' = 1 => (Fires("LONG_PRESS_START") <=> held' = LongTicks + 2)
ClickCounted ==
  LET ended == state = 2 /\ state' = 0
  IN  series < MaxCount =>
        /\ Fires("SINGLE_CLICK") <=> ended /\ series % RepeatMod = 1
        /\ Fires("DOUBLE_CLICK") <=> ended /\ series % RepeatMod = 2

LEMMA ButtonTimes ==
  ASSUME ButtonTimedInv, NEW read \in {0, 1}, button_handler(read)
  PROVE  PressTimed' /\ RepeatCounts' /\ LongTimed /\ ClickCounted
<1> USE ButtonAssumption DEF ButtonAssumption
<1>1. /\ level' \in {0, 1} /\ state \in {0, 1, 2, 3, 5}
      /\ ticks \in 0..(TickMod - 1) /\ repeat \in 0..(RepeatMod - 1)
  BY DebounceType DEF button_handler, ButtonTimedInv, ButtonInv, ButtonTypeOK
<1>2. /\ held' = IF level' = 1 THEN Up(held) ELSE 0
      /\ series' = IF state = 0 THEN level'
                   ELSE IF Fires("PRESS_REPEAT") THEN Up(series) ELSE series
  BY DEF button_handler
<1>3. PressTimed /\ RepeatCounts
  BY DEF ButtonTimedInv
<1>4. held' \in 0..MaxCount /\ series' \in 0..MaxCount
  BY <1>1, <1>2, <1>3 DEF RepeatCounts, Up
<1>5. Ticked \in 0..(TickMod - 1) /\ (ticks <= LongTicks => Ticked = ticks + 1)
  BY <1>1 DEF Ticked
<1>6. CASE StateIdle
  BY <1>1, <1>2, <1>3, <1>4, <1>6
     DEF StateIdle, Enter, Fires, Up, PressTimed, RepeatCounts, LongTimed, ClickCounted
<1>7. CASE StatePressed
  BY <1>1, <1>2, <1>3, <1>4, <1>5, <1>7
     DEF StatePressed, Enter, Fires, Up, PressTimed, RepeatCounts, LongTimed, ClickCounted
<1>8. CASE StateReleased
  <2>1. ((series % RepeatMod) + 1) % RepeatMod = (series + 1) % RepeatMod
    <3>1. RepeatMod \in Nat \ {0} /\ series \in Int /\ 1 \in Int
      BY <1>3 DEF RepeatCounts
    <3>2. QED
      BY <3>1, ModAdd
  <2>2. CASE level' = 1
    <3>1. /\ state' = 3 /\ repeat' = (repeat + 1) % RepeatMod
          /\ fired' = {"PRESS_DOWN", "PRESS_REPEAT"} /\ state # 0
      BY <1>8, <2>2 DEF StateReleased, Enter
    <3>2. series' = Up(series)
      BY <1>2, <3>1 DEF Fires
    <3>3. series' < MaxCount => repeat' = series' % RepeatMod
      BY <1>1, <1>3, <2>1, <3>1, <3>2 DEF Up, RepeatCounts
    <3>4. series' > 1
      BY <1>3, <1>8, <3>2 DEF StateReleased, PressTimed, RepeatCounts, Up
    <3>5. PressTimed' /\ RepeatCounts'
      BY <1>4, <3>1, <3>3, <3>4 DEF PressTimed, RepeatCounts
    <3>6. LongTimed /\ ClickCounted
      BY <1>4, <3>1, <3>4 DEF Fires, LongTimed, ClickCounted
    <3>7. QED
      BY <3>5, <3>6
  <2>3. CASE level' # 1
    BY <1>1, <1>2, <1>3, <1>4, <1>8, <2>3
       DEF StateReleased, Click, Enter, Fires, PressTimed, RepeatCounts, LongTimed, ClickCounted
  <2>4. QED
    BY <2>2, <2>3
<1>9. CASE StateRepeated
  BY <1>1, <1>2, <1>3, <1>4, <1>9
     DEF StateRepeated, Enter, Fires, Up, PressTimed, RepeatCounts, LongTimed, ClickCounted
<1>10. CASE StateLong
  BY <1>1, <1>2, <1>3, <1>4, <1>10
     DEF StateLong, Enter, Fires, Up, PressTimed, RepeatCounts, LongTimed, ClickCounted
<1>11. QED
  BY <1>6, <1>7, <1>8, <1>9, <1>10 DEF button_handler

LEMMA ButtonTimedHolds == ButtonSpec => []ButtonTimedInv
<1>1. ButtonInit => ButtonTimedInv
  BY ButtonAssumption
     DEF ButtonAssumption, ButtonInit, ButtonTimedInv, ButtonInv, ButtonTypeOK,
         StateIsReported, PressTimed, RepeatCounts
<1>2. ButtonTimedInv /\ [ButtonNext]_buttonVars => ButtonTimedInv'
  <2> SUFFICES ASSUME ButtonTimedInv, [ButtonNext]_buttonVars PROVE ButtonTimedInv'
    OBVIOUS
  <2>1. CASE ButtonNext
    BY <2>1, ButtonStep, ButtonTimes DEF ButtonNext, ButtonTimedInv
  <2>2. CASE UNCHANGED buttonVars
    BY <2>2 DEF buttonVars, ButtonTimedInv, ButtonInv, ButtonTypeOK, StateIsReported,
                PressTimed, RepeatCounts
  <2>3. QED
    BY <2>1, <2>2
<1>3. QED
  BY <1>1, <1>2, PTL DEF ButtonSpec

(* button_handler reports the long press of the first press of a series once, *)
(* exactly at the call LONG_TICKS + 1 calls after the one that saw the button *)
(* go down, for every threshold below the width of ticks; of a later press of *)
(* a series it says nothing.                                                  *)
THEOREM ButtonLongPressTime == ButtonSpec => LongPressTime
<1>1. ButtonTimedInv /\ [ButtonNext]_buttonVars => [LongTimed]_buttonVars
  BY ButtonTimes DEF ButtonNext
<1>2. [][LongTimed]_buttonVars => LongPressTime
  BY PTL DEF LongTimed, LongPressTime
<1>3. QED
  BY <1>1, <1>2, ButtonTimedHolds, PTL DEF ButtonSpec

(* The pause that ends a series, and nothing else, reports SINGLE_CLICK for  *)
(* one press and DOUBLE_CLICK for two, modulo the width of repeat.           *)
THEOREM ButtonClickMeansCount == ButtonSpec => ClickMeansCount
<1>1. ButtonTimedInv /\ [ButtonNext]_buttonVars => [ClickCounted]_buttonVars
  BY ButtonTimes DEF ButtonNext
<1>2. [][ClickCounted]_buttonVars => ClickMeansCount
  BY PTL DEF ClickCounted, ClickMeansCount
<1>3. QED
  BY <1>1, <1>2, ButtonTimedHolds, PTL DEF ButtonSpec

=============================================================================
