------------------------------ MODULE GuiPages ------------------------------
(***************************************************************************)
(* The pages of the GUI, applications/gui: the list of open pages in       *)
(* lvgl_tools.c, the menu and the cancel key of lvgl_page.c, and the CPU   *)
(* page of lvgl_cpu_usage.c, whose task walks the accounts of all threads. *)
(* Two threads work on them without a lock: the GUI thread handles clicks  *)
(* and tasks, the key thread closes the top page (cancel_cb).              *)
(*                                                                         *)
(* A page covers the menu until it is deleted, so the GUI thread opens one *)
(* only when none is shown.  LVGL itself (objects, events, tasks) is       *)
(* external.                                                               *)
(***************************************************************************)
EXTENDS Integers, Sequences, FiniteSets, SequencesExt

CONSTANTS
  Thread,    \* threads of the system, seen by the CPU page
  MaxOpen,   \* bound on the pages that are opened
  MaxChart   \* bound on the charts a thread's button opens

ASSUME GuiPagesAssumption == MaxOpen \in Nat /\ MaxChart \in Nat

Page == 1..MaxOpen
Kind == {"cpu", "camera", "terminal"}
Actor == {"gui", "key"}
Null == 0
Wild == -1   \* an uninitialised pointer

VARIABLES
  opened,  \* pages opened so far; the last one is shown or gone
  kind,    \* kind of a page
  shown,   \* pages whose object exists
  dels,    \* how often lv_obj_del was called on a page
  list,    \* the list of lvgl_tools.c, first entry first
  half,    \* the first entry is linked but its prev is not written yet
  task,    \* the page whose LVGL task exists, or Null
  infos,   \* <<page, thread>>: the btn_info that exist
  acct,    \* account of a thread: "none", "live", "freed" or "unlinked"
  udata,   \* user_data of an account: the page of its btn_info, Null or Wild
  chart,   \* chart of a thread's btn_info, or Null
  charts,  \* <<thread, chart>>: the charts that exist
  pc,      \* where an actor is
  obj,     \* the page that an actor is working on
  todo,    \* threads that the walk of add_thread_list or refresh_cpu_task has still to visit
  row,     \* the thread, if any, for which add_thread_list is making a button
  fresh,   \* accounts made since the CPU page was filled
  same,    \* have both actors removed the same entry?
  cut,     \* did the key thread delete while the GUI thread was at work?
  failed   \* was there no memory for the entry of a page?

objects == <<opened, kind, shown, dels>>
entries == <<list, half>>
cpu == <<infos, udata, chart, charts>>
ghost == <<fresh, same, cut, failed>>
vars == <<objects, entries, task, cpu, acct, pc, obj, todo, row, ghost>>

Init ==
  /\ opened = 0 /\ kind = [p \in Page |-> "terminal"] /\ shown = {}
  /\ dels = [p \in Page |-> 0] /\ list = <<>> /\ half = FALSE /\ task = Null
  /\ infos = {} /\ chart = [t \in Thread |-> Null] /\ charts = {}
  /\ acct = [t \in Thread |-> "none"] /\ udata = [t \in Thread |-> Null]
  /\ pc = [a \in Actor |-> "idle"] /\ obj = [a \in Actor |-> Null] /\ todo = {}
  /\ row = {}
  /\ fresh = {} /\ same = FALSE /\ cut = FALSE /\ failed = FALSE

At(a, p) == pc[a] = p
Goes(a, p) == pc' = [pc EXCEPT ![a] = p]
Holds(a, p) == obj' = [obj EXCEPT ![a] = p]

-----------------------------------------------------------------------------
(* Accounts of threads, cpu_usage.c and idle.c. *)

(* schedule_hook makes an account; its user_data is what the heap held.      *)
Account(t) ==
  /\ acct[t] = "none" /\ acct' = [acct EXCEPT ![t] = "live"]
  /\ \E u \in {Null, Wild} : udata' = [udata EXCEPT ![t] = u]
  /\ fresh' = fresh \cup {t}
  /\ UNCHANGED <<objects, entries, task, infos, chart, charts, pc, obj, todo, row,
                 same, cut, failed>>

(* The idle thread frees the account (clean_up_call) and later takes the     *)
(* thread off the list of threads.  In between magic does not match, because *)
(* the allocator uses the freed block.                                       *)
Cleanup(t) ==
  /\ acct[t] = "live" /\ acct' = [acct EXCEPT ![t] = "freed"]
  /\ UNCHANGED <<objects, entries, task, cpu, pc, obj, todo, row, ghost>>

Unlink(t) ==
  /\ acct[t] = "freed" /\ acct' = [acct EXCEPT ![t] = "unlinked"]
  /\ UNCHANGED <<objects, entries, task, cpu, pc, obj, todo, row, ghost>>

Accounts == {t \in Thread : acct[t] = "live"}
Listed == {t \in Thread : acct[t] # "unlinked"}

-----------------------------------------------------------------------------
(* A click on the menu: the page is built, with its task ...  The list of    *)
(* threads that add_thread_list walks has every thread with an account, and  *)
(* others.                                                                   *)
Open(k) ==
  LET p == opened + 1 IN
  /\ At("gui", "idle") /\ shown = {} /\ opened < MaxOpen
  /\ opened' = p /\ kind' = [kind EXCEPT ![p] = k] /\ shown' = {p} /\ UNCHANGED dels
  /\ task' = IF k = "camera" THEN p ELSE task
  /\ IF k = "cpu" THEN \E S \in SUBSET Listed : todo' = Accounts \cup S ELSE UNCHANGED todo
  /\ Goes("gui", IF k = "cpu" THEN "fill" ELSE "add") /\ Holds("gui", p)
  /\ UNCHANGED <<entries, cpu, acct, row, ghost>>

(* ... the CPU page gets a button with a btn_info for every account.  The    *)
(* block may have to be waited for, and is cleared without a test for NULL.  *)
TakeRow(t) ==
  /\ At("gui", "fill") /\ t \in todo /\ todo' = todo \ {t}
  /\ \/ acct[t] # "live" /\ UNCHANGED <<pc, row>>
     \/ acct[t] = "live" /\ Goes("gui", "row") /\ row' = {t}
     \/ acct[t] = "live" /\ Goes("gui", "wild") /\ UNCHANGED row
  /\ UNCHANGED <<objects, entries, task, cpu, acct, obj, ghost>>

(* The account is told its btn_info - or the block that was the account when *)
(* the walk came to it.                                                      *)
EndRow(t) ==
  /\ At("gui", "row") /\ t \in row /\ row' = {}
  /\ IF acct[t] = "live"
     THEN /\ Goes("gui", "fill") /\ infos' = infos \cup {<<obj["gui"], t>>}
          /\ udata' = [udata EXCEPT ![t] = obj["gui"]]
          /\ chart' = [chart EXCEPT ![t] = Null] /\ fresh' = fresh \ {t}
     ELSE Goes("gui", "wild") /\ UNCHANGED <<infos, udata, chart, fresh>>
  /\ UNCHANGED <<objects, entries, task, charts, acct, obj, todo, same, cut, failed>>

(* The task of the CPU page is made last. *)
EndFill ==
  /\ At("gui", "fill") /\ todo = {} /\ task' = obj["gui"] /\ Goes("gui", "add")
  /\ UNCHANGED <<objects, entries, cpu, acct, obj, todo, row, ghost>>

(* Mutant: the page is not put on the list. *)
LinkForgets ==
  /\ At("gui", "add") /\ Goes("gui", "idle")
  /\ UNCHANGED <<objects, entries, task, cpu, acct, obj, todo, row, ghost>>

(* ... and lv_add_activity_obj links an entry for it.  Its result is not     *)
(* looked at when there is no memory for the entry.                          *)
Link ==
  /\ At("gui", "add")
  /\ \/ list' = <<obj["gui"]>> \o list /\ half' = TRUE /\ Goes("gui", "link") /\ UNCHANGED failed
     \/ failed' = TRUE /\ Goes("gui", "idle") /\ UNCHANGED entries
  /\ UNCHANGED <<objects, task, cpu, acct, obj, todo, row, fresh, same, cut>>

Linked ==
  /\ At("gui", "link") /\ half' = FALSE /\ Goes("gui", "idle")
  /\ UNCHANGED <<objects, list, task, cpu, acct, obj, todo, row, ghost>>

-----------------------------------------------------------------------------
(* Closing.  A single click of MEDIUM runs cancel_cb in the key thread; the  *)
(* close button of the CPU page runs close_press_cb in the GUI thread.       *)
Cancel ==
  /\ At("key", "idle") /\ Goes("key", "remove")
  /\ UNCHANGED <<objects, entries, task, cpu, acct, obj, todo, row, ghost>>

CloseClick ==
  /\ At("gui", "idle")
  /\ \E p \in shown : kind[p] = "cpu" /\ dels[p] = 0 /\ Holds("gui", p)
  /\ Goes("gui", "remove")
  /\ UNCHANGED <<objects, entries, task, cpu, acct, todo, row, ghost>>

(* lv_remove_activity_obj tests whether the list is empty.  cancel_cb tests   *)
(* the result, close_press_cb hands it to lv_obj_del, which asserts ...      *)
TestEmpty(a) ==
  /\ At(a, "remove")
  /\ IF list # <<>> THEN Goes(a, "first") /\ UNCHANGED obj
     ELSE Goes(a, IF a = "gui" THEN "null" ELSE "idle") /\ Holds(a, Null)
  /\ UNCHANGED <<objects, entries, task, cpu, acct, todo, row, ghost>>

(* ... and reads the first entry.  If that is the header by now, the header  *)
(* is unlinked and freed; an entry that is just being linked has no prev:    *)
(* what its removal writes is wild.                                          *)
ReadFirst(a) ==
  /\ At(a, "first")
  /\ IF list = <<>> THEN Goes(a, "wild") /\ Holds(a, Null)
     ELSE Goes(a, IF half THEN "wild" ELSE "unlink") /\ Holds(a, Head(list))
  /\ UNCHANGED <<objects, entries, task, cpu, acct, todo, row, ghost>>

Other(a) == IF a = "gui" THEN "key" ELSE "gui"

(* ... and takes it off and frees it; if the other actor has read it too, it *)
(* will do so again.                                                         *)
RemoveEntry(a) ==
  /\ At(a, "unlink") /\ Goes(a, "delete")
  /\ list' = RemoveFirst(list, obj[a])
  /\ same' = (same \/ (pc[Other(a)] = "unlink" /\ obj[Other(a)] = obj[a]))
  /\ UNCHANGED <<objects, half, task, cpu, acct, obj, todo, row, fresh, cut, failed>>

(* Where an actor is when it deletes the children of a page. *)
Deleting(a) == pc[a] \in {"charts", "rows", "free"}

(* lv_obj_del: the children of the page go first, and the handler of one     *)
(* deletes the task of the camera page; the terminal has none.  What a       *)
(* second call does to a page is not known: the actor is not followed.       *)
DeleteBegin(a) ==
  LET p == obj[a] IN
  /\ At(a, "delete") /\ dels' = [dels EXCEPT ![p] = @ + 1]
  /\ Goes(a, IF dels[p] > 0 THEN "wild" ELSE IF kind[p] = "cpu" THEN "charts" ELSE "free")
  /\ task' = IF dels[p] = 0 /\ kind[p] # "cpu" /\ task = p THEN Null ELSE task
  /\ cut' = (cut \/ (a = "key" /\ ~At("gui", "idle")))
  /\ UNCHANGED <<opened, kind, shown, entries, cpu, acct, obj, todo, row, fresh, same, failed>>

(* The CPU page, newest child first: the charts ...                          *)
DeleteChart(a) ==
  /\ At(a, "charts")
  /\ IF charts = {} THEN Goes(a, "rows") /\ UNCHANGED charts
                    ELSE (\E c \in charts : charts' = charts \ {c}) /\ UNCHANGED pc
  /\ UNCHANGED <<objects, entries, task, infos, udata, chart, acct, obj, todo, row, ghost>>

(* ... the button of each thread, whose handler frees the btn_info ...       *)
DeleteRow(a) ==
  /\ At(a, "rows")
  /\ \E i \in infos : i[1] = obj[a] /\ infos' = infos \ {i}
  /\ UNCHANGED <<objects, entries, task, udata, chart, charts, acct, pc, obj, todo, row, ghost>>

(* Mutant: the task of a page outlives it. *)
DeleteCloseLeavesTask(a) ==
  /\ At(a, "rows") /\ (\A i \in infos : i[1] # obj[a]) /\ Goes(a, "free")
  /\ UNCHANGED <<objects, entries, task, cpu, acct, obj, todo, row, ghost>>

(* ... and the close button, whose handler deletes the task ...              *)
DeleteClose(a) ==
  /\ At(a, "rows") /\ (\A i \in infos : i[1] # obj[a]) /\ Goes(a, "free")
  /\ task' = IF task = obj[a] THEN Null ELSE task
  /\ UNCHANGED <<objects, entries, cpu, acct, obj, todo, row, ghost>>

(* Mutant: the handler of the page deletes it once more. *)
DeleteAgain(a) ==
  /\ At(a, "free") /\ Goes(a, "delete")
  /\ UNCHANGED <<objects, entries, task, cpu, acct, obj, todo, row, ghost>>

(* ... then the page itself. *)
DeletePage(a) ==
  /\ At(a, "free") /\ shown' = shown \ {obj[a]} /\ Goes(a, "idle")
  /\ UNCHANGED <<opened, kind, dels, entries, task, cpu, acct, obj, todo, row, ghost>>

-----------------------------------------------------------------------------
(* The task of a page.  camera_task uses its page at once; refresh_cpu_task  *)
(* visits the accounts one by one.                                           *)
RunTask ==
  /\ At("gui", "idle") /\ task # Null /\ Goes("gui", "refresh") /\ Holds("gui", task)
  /\ todo' = (IF kind[task] = "cpu" THEN Accounts ELSE {}) /\ cut' = Deleting("key")
  /\ UNCHANGED <<objects, entries, task, cpu, acct, row, fresh, same, failed>>

Visit(t) ==
  /\ At("gui", "refresh") /\ t \in todo /\ todo' = todo \ {t}
  /\ UNCHANGED <<objects, entries, task, cpu, acct, pc, obj, row, ghost>>

EndTask ==
  /\ At("gui", "refresh") /\ todo = {} /\ Goes("gui", "idle")
  /\ UNCHANGED <<objects, entries, task, cpu, acct, obj, todo, row, ghost>>

(* What a click on a page does that the key thread is deleting is not known. *)
ClickDying ==
  /\ At("gui", "idle") /\ Deleting("key") /\ Goes("gui", "wild")
  /\ UNCHANGED <<objects, entries, task, cpu, acct, obj, todo, row, ghost>>

(* cpu_list_btn_cb: a click on the button of a thread opens a chart ...      *)
OpenChart(t) ==
  /\ At("gui", "idle") /\ ~Deleting("key")
  /\ \E p \in shown : <<p, t>> \in infos
  /\ \E c \in 1..MaxChart : /\ <<t, c>> \notin charts
                            /\ charts' = charts \cup {<<t, c>>}
                            /\ chart' = [chart EXCEPT ![t] = c]
  /\ UNCHANGED <<objects, entries, task, infos, udata, acct, pc, obj, todo, row, ghost>>

(* Mutant: the pointer to the chart is kept. *)
CloseChartKeeps(t) ==
  /\ At("gui", "idle") /\ ~Deleting("key")
  /\ \E c \in 1..MaxChart : <<t, c>> \in charts /\ charts' = charts \ {<<t, c>>}
  /\ UNCHANGED <<objects, entries, task, infos, udata, chart, acct, pc, obj, todo, row, ghost>>

(* ... chart_close_btn_cb closes it; an older chart of the same thread makes *)
(* the newer one forgotten too.                                              *)
CloseChart(t) ==
  /\ At("gui", "idle") /\ ~Deleting("key")
  /\ \E c \in 1..MaxChart : <<t, c>> \in charts /\ charts' = charts \ {<<t, c>>}
  /\ chart' = [chart EXCEPT ![t] = Null]
  /\ UNCHANGED <<objects, entries, task, infos, udata, acct, pc, obj, todo, row, ghost>>

-----------------------------------------------------------------------------
Next ==
  \/ \E t \in Thread : \/ Account(t) \/ Cleanup(t) \/ Unlink(t) \/ TakeRow(t) \/ EndRow(t)
                       \/ Visit(t) \/ OpenChart(t) \/ CloseChart(t)
  \/ \E k \in Kind : Open(k)
  \/ EndFill \/ Link \/ Linked \/ Cancel \/ CloseClick \/ ClickDying
  \/ RunTask \/ EndTask
  \/ \E a \in Actor : \/ TestEmpty(a) \/ ReadFirst(a) \/ RemoveEntry(a) \/ DeleteBegin(a)
                      \/ DeleteChart(a) \/ DeleteRow(a) \/ DeleteClose(a) \/ DeletePage(a)

Spec == Init /\ [][Next]_vars

-----------------------------------------------------------------------------
PagesOK ==
  /\ opened \in 0..MaxOpen /\ kind \in [Page -> Kind] /\ shown \subseteq Page
  /\ dels \in [Page -> Nat] /\ half \in BOOLEAN
  /\ task \in {Null} \cup Page
  /\ pc \in [Actor -> {"idle", "fill", "row", "add", "link", "remove", "first", "unlink", "null",
                        "wild", "delete", "charts", "rows", "free", "refresh"}]
  /\ obj \in [Actor -> {Null} \cup Page]
  /\ same \in BOOLEAN /\ cut \in BOOLEAN /\ failed \in BOOLEAN

CpuOK ==
  /\ infos \subseteq Page \X Thread
  /\ acct \in [Thread -> {"none", "live", "freed", "unlinked"}]
  /\ udata \in [Thread -> {Null, Wild} \cup Page]
  /\ chart \in [Thread -> {Null} \cup 1..MaxChart] /\ charts \subseteq Thread \X (1..MaxChart)
  /\ todo \subseteq Thread /\ row \subseteq Thread /\ fresh \subseteq Thread

TypeOK == PagesOK /\ list \in Seq(Page) /\ CpuOK

(* A page is deleted once - unless the key thread and the GUI thread have    *)
(* both read its entry before either took it off the list.                   *)
DeletedOnce == \A p \in Page : dels[p] <= 1 \/ same

(* The close button never closes a page that is not its own, and finds no    *)
(* page at all only if the key thread was faster or the page had no entry.   *)
ClosesOwn ==
  /\ pc["gui"] \in {"unlink", "delete", "charts", "rows"} =>
       kind[obj["gui"]] = "cpu" /\ obj["gui"] = opened
  /\ At("gui", "null") => failed \/ ~At("key", "idle") \/ shown = {}

(* Every page that is shown can be closed: it is in the list once, or it is  *)
(* being opened or deleted - unless there was no memory for its entry; and   *)
(* the close button closes no other page.                                    *)
Closable ==
  /\ ClosesOwn
  /\ \A p \in shown :
       \/ failed \/ (pc["gui"] \in {"fill", "row", "add", "wild"} /\ obj["gui"] = p)
       \/ Cardinality({i \in 1..Len(list) : list[i] = p}) = 1
       \/ \E a \in Actor : obj[a] = p /\ (At(a, "delete") \/ Deleting(a))

(* What the task of a page is about to use exists: its page, and for every   *)
(* account that it has still to visit the btn_info and the chart - unless    *)
(* the key thread deletes the page meanwhile, or the account is newer than   *)
(* the page, so that its user_data was never written.                        *)
RefreshLive ==
  At("gui", "refresh") /\ ~cut =>
    /\ obj["gui"] \in shown
    /\ \A t \in todo :
         \/ acct[t] # "live" \/ t \in fresh \/ udata[t] = Null
         \/ /\ <<udata[t], t>> \in infos
            /\ chart[t] # Null => <<t, chart[t]>> \in charts

(* Variables keep their types, and when a page is gone nothing of it is left. *)
NothingLeft ==
  /\ TypeOK
  /\ task # Null => task \in shown
  /\ \A i \in infos : i[1] \in shown
  /\ charts # {} => \E p \in shown : kind[p] = "cpu"
=============================================================================
