---------------------------- MODULE CameraBuffer ----------------------------
(***************************************************************************)
(* The double-buffered camera: the DVP peripheral captures frames into one *)
(* of two frame buffers, on_irq_dvp (driver/camera/drv_ov2640.c) arms it   *)
(* and switches buffers, and the GUI thread takes a frame with             *)
(* camera_get_buff.  The interrupt is served on one core while the GUI     *)
(* thread may run on the other one, so the handler and camera_get_buff     *)
(* interleave at every access to g_ram_mux and g_dvp_finish_flag.          *)
(***************************************************************************)
EXTENDS Integers

NoBuf == 2 \* no buffer: nothing on display, nothing captured

VARIABLES
  mux,        \* g_ram_mux
  flag,       \* g_dvp_finish_flag
  addr,       \* display address of the DVP: 0 is g_camera_gram0, 1 is g_camera_gram1
  sts,        \* pending DVP_STS_FRAME_START and DVP_STS_FRAME_FINISH
  active,     \* the sensor is sending the lines of a frame
  converting, \* dvp_start_convert has armed the capture of the frame
  hpc,        \* where on_irq_dvp is
  gpc,        \* where the GUI thread is in camera_get_buff
  view,       \* buffer the GUI image shows (buff.data), NoBuf when no page is open
  newest,     \* buffer holding the frame captured last (history)
  unseen,     \* that frame has not been handed out yet (history)
  stalled     \* 1 when a frame ended while the GUI thread was in camera_get_buff after
              \* it cleared the flag: it was kept there for long (history)

dvp == <<addr, sts, active, converting>>
history == <<newest, unseen, stalled>>
cameraVars == <<mux, flag, dvp, hpc, gpc, view, history>>

(* g_ram_mux ? g_camera_gram0 : g_camera_gram1 *)
Sel(m) == 1 - m

(* The GUI thread has cleared the flag and not returned yet. *)
InWindow == gpc \in {"toggle", "select"}

(* hw_ov2640_init: the DVP starts in gram0, both interrupts enabled, auto off. *)
CameraInit ==
  /\ mux = 0 /\ flag = 0
  /\ addr = 0 /\ sts = {} /\ active = 0 /\ converting = 0
  /\ hpc = "idle" /\ gpc = "show" /\ view = NoBuf
  /\ newest = NoBuf /\ unseen = 0 /\ stalled = 0

-----------------------------------------------------------------------------
(* The sensor and the DVP peripheral (not in the repository). *)

FrameStart ==
  /\ active = 0
  /\ active' = 1
  /\ sts' = sts \cup {"START"}
  /\ UNCHANGED <<mux, flag, addr, converting, hpc, gpc, view, history>>

(* The frame ends; FRAME_FINISH is raised only for a frame that was armed.  *)
(* The handler is assumed to serve an interrupt before the frame is over.   *)
FrameEnd ==
  /\ active = 1 /\ sts = {} /\ hpc = "idle"
  /\ stalled' = IF InWindow THEN 1 ELSE stalled
  /\ active' = 0
  /\ converting' = 0
  /\ IF converting = 1
       THEN sts' = {"FINISH"} /\ newest' = addr /\ unseen' = 1
       ELSE UNCHANGED <<sts, newest, unseen>>
  /\ UNCHANGED <<mux, flag, addr, hpc, gpc, view>>

-----------------------------------------------------------------------------
(* on_irq_dvp *)

(* Entry: dvp_get_interrupt(DVP_STS_FRAME_FINISH) chooses the branch. *)
IrqEnter ==
  /\ hpc = "idle" /\ sts # {}
  /\ hpc' = IF "FINISH" \in sts THEN "switch" ELSE "arm"
  /\ UNCHANGED <<mux, flag, dvp, gpc, view, history>>

(* switch gram *)
SwitchGram ==
  /\ hpc = "switch"
  /\ addr' = Sel(mux)
  /\ hpc' = "clearall"
  /\ UNCHANGED <<mux, flag, sts, active, converting, gpc, view, history>>

ClearAll ==
  /\ hpc = "clearall"
  /\ sts' = {}
  /\ hpc' = "flag"
  /\ UNCHANGED <<mux, flag, addr, active, converting, gpc, view, history>>

SetFlag ==
  /\ hpc = "flag"
  /\ flag' = 1
  /\ hpc' = "idle"
  /\ UNCHANGED <<mux, dvp, gpc, view, history>>

(* Mutant: the capture is armed whether or not the last frame was taken. *)
ArmAlways ==
  /\ hpc = "arm"
  /\ converting' = 1
  /\ hpc' = "clearstart"
  /\ UNCHANGED <<mux, flag, addr, sts, active, gpc, view, history>>

(* Mutant: the test of the flag is inverted. *)
ArmInverted ==
  /\ hpc = "arm"
  /\ converting' = IF flag = 1 THEN 1 ELSE converting
  /\ hpc' = "clearstart"
  /\ UNCHANGED <<mux, flag, addr, sts, active, gpc, view, history>>

(* if (g_dvp_finish_flag == 0) dvp_start_convert(); *)
Arm ==
  /\ hpc = "arm"
  /\ converting' = IF flag = 0 THEN 1 ELSE converting
  /\ hpc' = "clearstart"
  /\ UNCHANGED <<mux, flag, addr, sts, active, gpc, view, history>>

ClearStart ==
  /\ hpc = "clearstart"
  /\ sts' = sts \ {"START"}
  /\ hpc' = "idle"
  /\ UNCHANGED <<mux, flag, addr, active, converting, gpc, view, history>>

-----------------------------------------------------------------------------
(* camera_get_buff, called by lvgl_camera_press_cb when the page opens and  *)
(* by camera_task every 50 ms while it is open; both run in the GUI thread. *)

Call ==
  /\ gpc = "show"
  /\ gpc' = "wait"
  /\ UNCHANGED <<mux, flag, dvp, hpc, view, history>>

(* The loop on g_dvp_finish_flag ends. *)
FrameReady ==
  /\ gpc = "wait" /\ flag = 1
  /\ gpc' = "clear"
  /\ UNCHANGED <<mux, flag, dvp, hpc, view, history>>

ClearFlag ==
  /\ gpc = "clear"
  /\ flag' = 0
  /\ gpc' = "toggle"
  /\ UNCHANGED <<mux, dvp, hpc, view, history>>

(* Mutant: the buffers are not switched. *)
NoToggle ==
  /\ gpc = "toggle"
  /\ gpc' = "select"
  /\ UNCHANGED <<mux, flag, dvp, hpc, view, history>>

ToggleMux ==
  /\ gpc = "toggle"
  /\ mux' = 1 - mux
  /\ gpc' = "select"
  /\ UNCHANGED <<flag, dvp, hpc, view, history>>

(* The pointer is computed and stored in buff.data. *)
Return ==
  /\ gpc = "select"
  /\ view' = Sel(mux)
  /\ unseen' = IF newest = Sel(mux) THEN 0 ELSE unseen
  /\ gpc' = "show"
  /\ UNCHANGED <<mux, flag, dvp, hpc, newest, stalled>>

(* The page is closed and its image and task deleted. *)
Close ==
  /\ gpc = "show" /\ view # NoBuf
  /\ view' = NoBuf
  /\ UNCHANGED <<mux, flag, dvp, hpc, gpc, history>>

Sensor  == FrameStart \/ FrameEnd
Handler == IrqEnter \/ SwitchGram \/ ClearAll \/ SetFlag \/ Arm \/ ClearStart
GetBuff == FrameReady \/ ClearFlag \/ ToggleMux \/ Return

CameraNext == Sensor \/ Handler \/ GetBuff \/ Call \/ Close

CameraSpec == CameraInit /\ [][CameraNext]_cameraVars

(* The sensor keeps streaming, the interrupt is served and the GUI thread,  *)
(* which polls with rt_thread_delay(1), is scheduled again and again.       *)
CameraFairSpec ==
  CameraSpec /\ WF_cameraVars(Sensor) /\ WF_cameraVars(Handler) /\ WF_cameraVars(GetBuff)

-----------------------------------------------------------------------------
CameraTypeOK ==
  /\ mux \in {0, 1} /\ flag \in {0, 1} /\ addr \in {0, 1}
  /\ sts \in SUBSET {"START", "FINISH"}
  /\ active \in {0, 1} /\ converting \in {0, 1}
  /\ hpc \in {"idle", "switch", "clearall", "flag", "arm", "clearstart"}
  /\ gpc \in {"show", "wait", "clear", "toggle", "select"}
  /\ view \in {0, 1, NoBuf} /\ newest \in {0, 1, NoBuf} /\ unseen \in {0, 1}
  /\ stalled \in {0, 1}

(* While the GUI renders the buffer camera_get_buff handed out, the DVP is   *)
(* not capturing into it: the picture is not torn before the GUI thread was  *)
(* kept in camera_get_buff, after it cleared the flag, till a frame's end.   *)
NoTearing == stalled = 0 => ~(gpc = "show" /\ converting = 1 /\ addr = view)

(* camera_get_buff hands out the frame captured last, and never one that it  *)
(* handed out before, as long as it was not stalled.                        *)
HandsOutNewest == [][Return /\ stalled = 0 => newest = view' /\ unseen = 1]_cameraVars

(* camera_get_buff returns: the wait for a frame never hangs the GUI thread. *)
FrameArrives == gpc = "wait" ~> gpc = "show"

(* The inductive invariant of the hand-over while nobody was stalled.  The   *)
(* switched states are the ones where a frame is complete and the address    *)
(* already points to the buffer of the next one.                             *)
Switched == flag = 1 \/ hpc \in {"clearall", "flag"} \/ gpc = "toggle"

Handover == stalled = 0 =>
  /\ addr = IF Switched THEN Sel(mux) ELSE 1 - Sel(mux)
  /\ ("FINISH" \in sts \/ flag = 1 \/ hpc \in {"switch", "clearall", "flag"}) =>
       newest = 1 - Sel(mux) /\ unseen = 1 /\ converting = 0
  /\ hpc = "switch" => "FINISH" \in sts
  /\ hpc = "clearall" => "FINISH" \in sts
  /\ flag = 1 => "FINISH" \notin sts /\ hpc \in {"idle", "arm", "clearstart"}
  /\ hpc \in {"arm", "clearstart", "flag"} => "FINISH" \notin sts
  /\ gpc = "clear" => flag = 1
  /\ InWindow =>
       flag = 0 /\ "FINISH" \notin sts /\ hpc \in {"idle", "arm", "clearstart"}
  /\ gpc = "toggle" => newest = 1 - Sel(mux) /\ unseen = 1
  /\ gpc = "select" => newest = Sel(mux) /\ unseen = 1
  /\ gpc = "show" => view \in {NoBuf, Sel(mux)}
=============================================================================
