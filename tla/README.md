# A verification project for the K210 board support package

This directory holds TLA+ modules that model the program's own logic in
`src/driver`, `src/applications` and the parts of `src/packages` and
`src/rt-thread` that the board depends on, the TLC configurations that check
them, and proofs checked by TLAPS. The program is an RT-Thread 4.0.2 SMP
application for the two cores of the Kendryte K210 (1000 ticks a second): a TFT
panel and a touch screen under LVGL, a camera, three buttons, an on-screen
terminal for the shell and a CPU usage meter.

Of the RT-Thread kernel the parts on which the two cores meet are modelled too:
the scheduler, the mutex, the semaphore and the timers. The rest of it, LVGL and
the other vendored packages are taken as given. The Kendryte SDK (DVP, FPIOA,
PLIC, timers) is not in the repository; it is modelled from how the drivers use
it and marked external in `PROJECT.json`.

## Inventory

Threads that matter here: the **GUI thread** (`lvgl_handle_thread`: LVGL tasks,
the touch poll, `camera_task`, the keyboard of the terminal), the **TFT thread**
(`tft_thread`), the **key thread** (`key_thread`: `button_ticks`, which also
cancels pages), the **shell** (`finsh_thread_entry`), and two interrupt
handlers, `on_irq_dvp` and `timer_irq`. LVGL, the activity list, the ring buffer
and the pin driver have no locks.

| component | state | operations | interacts with | what is hard, what must hold |
| --- | --- | --- | --- | --- |
| frame pacing, `drv_tft.c`, `littlevgl2rtt.c` | delay `t`, `start`, `fps` | one round: work, sleep, measure | tick counter of cpu 0, scheduler | unsigned `t--` at 0, tick wrap, a divisor that may be 0; must settle at 30 fps |
| camera double buffer, `drv_ov2640.c`, `lvgl_camera.c` | `g_ram_mux`, `g_dvp_finish_flag`, DVP address | `on_irq_dvp`, `camera_get_buff`, open and close of the page | DVP interrupt on one core, GUI thread on the other | order of flag, mux and address; no torn picture, newest frame, no hang |
| touch filters, `median.c`, `mean.c`, `tsfilter.c` | sample rings, order index, running sum | alloc, update, clear | touch panel | incremental repair of an index; must equal median and mean |
| touch panel, `ns2009.c`, `touchscreen.c`, `input_read` | filter, `press`, `x`, `y`, last event, `touch_down` | poll, event, delivery to LVGL | I2C bus (may fail), LVGL | sticky events, failed reads; strokes independent, release reported |
| CPU usage, `cpu_usage.c` | per-thread enter/leave/count/cost ticks, `timer_tick` | `schedule_hook`, `timer_irq`, `clean_up_call` | scheduler on both cores, timer interrupt on core 0 | handler without lock, uncleared memory, unsigned differences |
| buttons, `multi_button.c`, `key.c` | level, debounce count, state, ticks, repeat | `button_handler` every 100 ms | pins, callbacks of pages | bit-field counters, event order over long sequences |
| GPIO channels, `drv_gpio.c`, `drv_io_config.*` | static wiring; `pin_alloc_table`, `free_pin` | `drv_pin_mode`, read, write, interrupts | nothing in the built program calls `rt_pin_mode` | not modelled (see below) |
| on-screen terminal, `lvgl_terminal.cpp`, `ringbuffer.c`, `shell.c` | ring buffer, `rx_count`, shell device | `send`, `read`, destructor | GUI, shell and key thread | lock-free ring, lost wake-ups, deletion under a reader |
| pages and activity stack, `lvgl_tools.c`, `lvgl_page.c`, `lvgl_cpu_usage.c`, `key.c` | list of open pages, LVGL objects and tasks, `btn_info` and chart of every thread, callbacks of the buttons | open, `lv_add_activity_obj`, `lv_remove_activity_obj`, `cancel_cb`, `close_press_cb`, `refresh_cpu_task` | GUI and key thread, accounts of `cpu_usage.c`, idle thread | unlocked list and objects, memory that another thread frees part by part; a page is deleted once and leaves nothing behind |
| thread pool, `thread_pool.c`, used by `command.c` | task list, 8-bit count, lock, semaphore | `add_task`, `del_all`, `destroy`, `thread_job` | kernel mutex and semaphore | announcement after the unlock, take of the semaphore with the lock held, shutdown order; tasks are conserved and served |
| kernel scheduler, `scheduler.c`, `thread.c`, `cpu.c`, `clock.c`, `idle.c` | ready queues and bitmaps, state and CPU of every thread, `_cpus_lock` and `_rt_critical_lock` with their counts, pending interrupts | `rt_schedule`, `rt_scheduler_do_irq_switch`, suspend, resume, sleep, yield, start, exit, reaping, `rt_sem_take`, `rt_sem_release` | both CPUs, clock and inter-processor interrupts | lock handed over through a switch, resume before the sleeper left its CPU, unlocked update of `stat`, a schedule hook that allocates inside the switch; one place for a thread, no lost wake-up, preemption, no other way to stop than those named |
| kernel mutex, `ipc.c` | owner, hold count, waiters, lent priority | `rt_mutex_take`, `rt_mutex_release` | scheduler, thread pool | nesting of two mutexes; who holds nothing has its own priority |
| kernel timers, `timer.c`, `clock.c` | sorted list, ticks | start, stop, tick, `rt_timer_check` | `rt_thread_sleep`, time-outs | wrap of the tick, equal time-outs; a timer expires when it was asked to |
| UART test, `command.c` | mailbox of 16 | receive callback, thread | UART interrupt | full mailbox |

Everything hard to test is listed in `PROJECT.json` under `hazards`, each at the
line where it bites with the properties about it. Where the code is right, these
properties would catch it going wrong. Where the code itself has the fault, they
delimit it: an exception of the property (a history variable or a position) names
the fault, the property says that there is no other way to the same harm, and the
hazard's note says so.

## Modules

| module | models | role |
| --- | --- | --- |
| `FramePacer` | `tft_thread`, `lvgl_handle_thread` | component |
| `CameraBuffer` | `on_irq_dvp`, `camera_get_buff`, the DVP as environment | component |
| `TouchFilter` | `median.c`, `mean.c`, `tsfilter.c` as operators on the C structs | pure algorithms |
| `AxisFilter` | one axis of `TouchFilter` against reference definitions | reference check |
| `TouchPanel` | `ts_ns2009_poll`, `touchscreen_read`, `input_read`, composed with `TouchFilter` | component |
| `TouchProofs` | | the filters equal median and mean; the panel's invariant |
| `CpuUsage`, `CpuUsageProofs` | `schedule_hook` and `timer_irq` | component, proofs |
| `MultiButton` | `button_handler` | component |
| `BoardProofs` | | frame pacing, camera and buttons: invariants and what follows |
| `CharQueue` | what the terminal promises the shell | abstract specification |
| `Terminal` | `LvglTerminal` send, read and destructor with the ring buffer and `finsh_getchar` | component, implements `CharQueue` |
| `TerminalProofs` | | the semaphore counts, and the refinement |
| `ReadyQueue` | the ready queues of `scheduler.c` as operators | pure operators |
| `Scheduler` | `scheduler.c`, `thread.c`, `cpu.c`, `clock.c`, `idle.c`, the semaphore of the heap and the hook that uses it in a switch, the trap entry; composed with `ReadyQueue` | component |
| `SchedulerProofs` | | the scheduler's invariant and its safety properties |
| `KernelMutex` | `rt_mutex_take`, `rt_mutex_release` | component, used by `ThreadPool` |
| `ThreadPool`, `ThreadPoolProofs` | `thread_pool.c` on `KernelMutex` and the kernel's semaphore | composition, proofs |
| `GuiPages`, `GuiPagesProofs` | the list of open pages, the CPU page, the cancel key | component, proofs |
| `TimerPromise` | what a kernel timer promises, without wrapping ticks or a list | abstract specification |
| `Timer` | `rt_timer_start`, `rt_timer_stop`, `rt_timer_check`, `rt_tick_increase` | component, implements `TimerPromise` |
| `TimerProofs` | | the list stays sorted, and the refinement |
| `MC...` | | instances for TLC |

Definitions named "Mutant" in a comment are faulty variants of the definition
that follows them. They belong to no specification; they document what each
property can detect.

### How the state corresponds to the code

*FramePacer.* `t`, `start`, `fps` are the locals of the thread, `now` is
`rt_tick_get()`. All are unsigned modulo `Word` (2^32 on the board). `Rate`
includes the division by zero that can happen when a thread sleeping 0 ticks is
resumed by the timer of the other core: RISC-V `divu` yields all ones.
`spent` is a history variable with the true length of the round.

*CameraBuffer.* Each access to `g_ram_mux`, `g_dvp_finish_flag` or the DVP is a
step. `addr` is the display address (0 for `g_camera_gram0`), `sts` the pending
status bits, `hpc` and `gpc` the positions in the handler and in
`camera_get_buff`. The sensor starts and ends frames; a frame raises FINISH only
when it was armed. Assumed: the handler ends before the frame it belongs to
does. `stalled` records that a frame ended while the GUI thread was between
clearing the flag (:27) and its return; the safety properties hold until then.

*TouchFilter, AxisFilter, TouchPanel.* Structs are records, arrays functions
from 0. The loops of `median_update` move an entry of `index` along its
neighbours; they are stated by the place where they stop and what then lies where
(`Wander`). C division truncates.
A failed I2C read of a coordinate leaves the 0 its variable was initialised
with, which goes into the filter; a failed read of the pressure pushes an event
without a type, which makes `touchscreen_read` leave the caller's (0, 0).

*CpuUsage.* `enter`, `leave`, `count`, `cost` are the arrays of
`struct thread_usage`. A new account holds arbitrary values (`Garbage`), as the
memory from `rt_malloc` does. Hooks do not overlap, for the scheduler calls them
under the kernel lock, but `timer_irq` takes no lock and may run between any two
loads and stores of a hook on core 1 (on core 0 it waits until the kernel lets
interrupts in again). So the hook on core 1 has one step per access to an account
(`HookBegin` to `HookEnter`) whenever the period ends or the interrupt is served
before it is done, and is one step (`Switch`) otherwise; `timer_irq` likewise takes
one step per access to an account on which the hook is at work (`IrqTest` to
`IrqEntered`), and closes every other account in one step (`IrqClose`), which nobody
else touches. `reg` is a sum that a core has loaded and not stored yet. `crashed` is the
NULL dereference after a failed `rt_malloc`. The hook is installed by the main
thread (`rt_components_init`) before the second core is started, and is taken as
there from the first switch on. No other code sets `user_data` of a thread, so the
tests of the magic number fail for freed accounts only.
`left` and `exact` are history variables of every account: its stamps are right
since the thread left the core, and were so when this period began.

*MultiButton.* One call of `button_handler` is one step, with an arbitrary
level on the pin. `debounce_cnt` has 3 bits, `repeat` 4, `ticks` 16.

*Terminal.* `wm, wi, rm, ri` are the mirror bits and indices of the ring, and
each store is a step of its own. The ring's check, store and index updates of
the GUI thread (`wpc`), those of the shell (`rpc`) and the destructor in the key
thread (`cpc`) interleave. `fault` is what stops the system: an assertion of
the kernel on a detached semaphore, a call through a NULL `rx_indicate`, a use
of freed memory by the GUI thread. A shell that is inside `read` when the memory
is freed goes on with an arbitrary character. `torn` is set when `putchar` looks
at the length of a full ring between the two stores that wrap the read position
and takes it for one with room; the shell then reads what is left.

*ReadyQueue, Scheduler.* `rt_hw_interrupt_disable` is `rt_cpus_lock` on this
board: a section between it and its `rt_hw_interrupt_enable` is one step, and
what interleaves is what the kernel does between sections. `lock` is the CPU that
holds `_cpus_lock`, `nest` and `snest` are `cpus_lock_nest` and
`scheduler_lock_nest` of every thread. `sched` says whether a thread is about to
call `rt_schedule` or was switched out inside of it; a thread switched out by an
interrupt has `nest` 0 and finds the lock freed by
`rt_cpus_lock_status_restore`. `trap` is the position of a CPU in a trap
(its entry, where it waits for the lock unseen, is one step with what follows),
`reg` the value of `stat` the clock interrupt has loaded and not stored yet. A
clock interrupt ends with `rt_timer_check`: it finds no timer (`NoTimer`), or it
takes the lock (`Timers`), resumes threads whose timers are due one after the
other (`Expire`, `rt_thread_timeout`) and frees it (`TimersEnd`). A thread that is
suspended already is not suspended again (`Suspended`), a resumed one has its
timer stopped (`Release`), and one that exits leaves the lists it is in (`Exit`).
The heap stands for all blocking calls: `rt_sem_take` on `heap_sem`, waited for by
threads and by the idle thread. A switch calls the schedule hook, which allocates an
account for each of the two threads that has none (`acct`): with `heap_sem` free it
returns within the switch (`HookReturns`), otherwise the switch starts over inside of
itself and the CPU is lost (`Hang`, `hung`). `raced` and `broken` record two more ways in
which the code leaves its own rules (see below). `NoLostResume` holds until `raced`,
`HeapExclusive` until one of them, `NoInversion` until `broken`; `LockHandedOver`
and `OnePlace` hold always, and `StopsOnlySo` says of every state whether the system
goes on.

*KernelMutex, ThreadPool.* A mutex is a record with the fields of
`struct rt_mutex`. Priorities are numbers, smaller is better: the shell has 20
and the workers 10. Tasks are numbered as they are added. `pc` tells where a
thread is; a blocked thread waits in the list of a mutex or of `queue_ready` and
goes on when it is taken off. `lent` records, per mutex, whose loan of priority
the owner still has. `Clear` frees and counts the tasks of `del_all`; the `next`
it reads in a freed block is the old one, or 0 when the block was reused
(`reused`). `assert` is an `RT_ASSERT` that failed. `destroy` deletes the workers one
by one. One that does not run leaves the list it is in (`Delete`); one that runs on
the other CPU is only marked (`Mark`) and goes on until it would have to wait or its
CPU switches (`Stop`), or until the pool is freed under it: from there on, as `stray`,
it is not followed.

*GuiPages.* Pages are numbered as they are opened. `infos` are the `btn_info`
blocks that exist, `udata` where the account of a thread says that its own is,
`Wild` for a pointer that was never written. `pc` and `obj` are what the GUI and
the key thread are doing and with which page. The CPU page is filled thread by
thread, with the allocation and what is written after it in separate steps
(`TakeRow`, `EndRow`), since accounts come and go meanwhile. To close a page the list
is tested, its first entry read and removed, and the page deleted in separate steps:
the charts, the buttons with their `btn_info` blocks one by one, the close button
with the task, and the page itself (`DeleteBegin` to `DeletePage`). `wild` is an actor
whose next step would write through a dangling or NULL pointer: it is not followed.

*Timer.* `tick` and `timeout` are modulo `RANGE` (2^32 on the board); comparisons
are the unsigned differences of the code. `before`, a history variable, holds for
every active timer those that were active when it was started. The mapping to
`TimerPromise` gives every running timer the ticks it has left.

## Runs

Eleven runs pass and one, `thread_pool_block`, shows a comment of the code violated. A component's `TypeOK` is a conjunct of one of the invariants
named here (`SemaphoreCounts`, `LockHandedOver`, `AssertionsHold`, `NothingLeft`,
`Sorted`, `StrokesIndependent`, `UsageExact`), or proved (see Proofs), and in the pacer
it is checked by itself (`PacerTypeOK`). `MedianIsMiddle` includes `IndexSorted`, `PointFollows`
includes `PressAgrees`, and `Closable` includes `ClosesOwn`.

| run | states | what it shows |
| --- | --- | --- |
| `pacer` | 924,000 | delay in range, round measured exactly across the wrap, pace kept |
| `camera` | 1,714 | no tearing, newest frame handed out once, a frame always arrives |
| `axis_filter` | 149,453 | median and mean equal their definitions |
| `touch` | 28,390 | strokes independent, press follows, point follows or is the (0, 0) of a failed read, release reported |
| `cpu_usage` | 4.5 million | the usage of an account exact unless it was spoiled itself, and again a period after |
| `button` | 2,071 | events alternate, long press and click events come exactly when they should, comes to rest |
| `terminal` | 220,800 | implements `CharQueue` but for one window, semaphore exact, no lost wake-up, shell gets back |
| `scheduler` | 822,208 | lock follows the switch, one place per thread, no lost wake-up, one user of the heap, preemption, two ways to stop |
| `thread_pool` | 279,185 | tasks conserved and in order, assertions hold, priorities lent and given back, tasks served |
| `thread_pool_block` | violation | a worker blocks with the lock of the queue held |
| `gui_pages` | 5.7 million | pages deleted once, closable, leave nothing; tasks use live objects |
| `timer` | 436,128 | list sorted across the wrap, equal time-outs in order, implements `TimerPromise` |

### Bounds

* `pacer`: 300 ticks a second make a frame 10 ticks; the counter wraps at 3072,
  larger than the longest round, as 2^32 is (`PacerAssumption` says so). Work of 0
  and of 12 ticks lies on either side of a frame, so the delay both grows and
  falls to 0.
* `camera`: nothing is bounded; the model is finite.
* `axis_filter`: the lengths 5 and 5 of `ts_ns2009_probe`, three sample values
  (ties and all orders of three ranks), any number of samples and clears.
* `touch`: filters of two samples, four places, a calibration that swaps and
  inverts the axes like the board's. The lengths of the filters do not enter
  the events; the filters at full length are `axis_filter`'s subject.
* `cpu_usage`: three threads on two cores, a period of 2 ticks, three periods. An
  account depends on the period before at most, which three cover. Switches meet the
  first interrupt and begin before the second (`MaxLate`), and in the last period
  threads are switched at its beginning only (`MCBound`); uncleared memory has the
  enter tick above the leave tick or below it.
* `button`: the thresholds of `multi_button.h`; `ticks` wraps at 16 instead of
  65536, which lets the wrap happen within a held press; the history counters go to
  20 (`MaxCount`), past the wrap of `repeat` and past 18 presses, the second double
  click.
* `terminal`: 3 places instead of 64, a plain key and a cursor key of three
  characters, so that the ring fills inside a key and the indices wrap at every
  phase.
* `scheduler`: two CPUs with their idle threads and two threads of different
  priority, three priorities. `MCBound` stops the search where the main thread ends
  (`main.c` loops for ever), where `raced` or `broken` is set, and where a critical
  section is entered while a thread has no account yet: the hook can hang before
  that, the embrace of the two spin locks comes after. Without `MCBound` there are
  2.9 million states, in which all six properties hold too; the five proved ones do
  not depend on it. Two threads and two idle
  threads are enough for a waiter, an owner, a sleeper and a reaper to meet on
  two CPUs, and for a thread to become ready on either side of the running ones.
* `thread_pool`: two workers and four tasks; the counter wraps at 4 instead of
  256, so that it does so with the tasks that are added.
* `gui_pages`: three openings (a page that follows one that follows one), two
  threads that come and go, two charts for each, which is one to be forgotten.
* `timer`: three timers and a tick that wraps at 8, so delays of 0 to 2, as on
  the board those below half of the range. The clock starts anywhere.

Deadlock is checked except in `cpu_usage`, which ends at its last tick, in
`terminal`, where a fault stops the system, in `scheduler`, where `StopsOnlySo` takes
its place: it says in which states there is no next step, and why; in
`thread_pool` and `thread_pool_block`, as a pool may be destroyed or block, and in
`gui_pages`, where an actor that met a dangling pointer is not followed.

### Fairness

Liveness is checked under weak fairness of: the pacer's loop and `button_ticks`
(their threads only sleep); the sensor's stream, the served interrupt and the
GUI thread in `camera_get_buff`, which polls with `rt_thread_delay(1)`; LVGL's
poll of a lifted panel, which says that the bus does not fail for ever; and the
three threads of the terminal, since the two of higher priority sleep in every
round; and, in the thread pool, the calls that the shell has begun and every
worker that is not blocked, which the scheduler's time slices give them. Typing,
opening, closing, switching threads, adding tasks and a task's use of the user
lock are never assumed.

### Where the code leaves its own rules

Some properties hold up to an event that a history variable or a position
records. In these places the exception is real: with it removed TLC finds a
behaviour of the code that violates the property. Such a property does not catch the
event itself; it says that nothing else leads to the same harm.

* Camera (`stalled`): if a frame ends while `camera_get_buff` is between
  `drv_ov2640.c` :27 and :29, the handler's "switch gram" (:39) selects the
  buffer the DVP already has. The window is a few instructions long.
* Touch (`event.type`): `push_event_none` after a failed read of the pressure
  makes `input_read` report LVGL's pressed state with the point (0, 0), until the
  finger moves or is lifted. `PointFollows` states this point.
* CPU usage (`left`, `exact`): `timer_irq` sets `enter_tick` and `leave_tick` to the same
  tick; at the next interrupt a thread still running fails `enter > leave`
  (:114) and is published with no ticks. A switch between the end of a period and
  its interrupt is stamped a period too early, since `timer_tick` is counted in
  software; and when hook and interrupt meet on an account, a count or a stamp of one
  of them is lost. In each case the accounts concerned are wrong, and only they,
  until a period begins after their thread has left the core.
* Buttons: `repeat` has 4 bits, so 17 quick presses are reported as a single click
  and 18 as a double one; `ClickMeansCount` states that. On a repeated press state 3
  does not look at `LONG_TICKS`, so it never becomes a long press, although
  `MultiButton-v1.0.2/README.md:72` says of `LONG_RRESS_START` without a condition that
  it is triggered once when the threshold of a long press is reached;
  `LongPressTime` is about first presses only.
* Terminal (`torn`): `rt_ringbuffer_getchar` stores `read_mirror` and
  `read_index` one after the other (`ringbuffer.c` :277). Between them a ring
  that was just filled up looks nearly empty to `rt_ringbuffer_putchar`, and a
  key is stored over an unread character. `IsQueue` says that this window is the
  only one.
* Scheduler (`raced`): `thread->stat |= RT_THREAD_STAT_YIELD` in
  `rt_tick_increase` (`clock.c` :92) is a load and a store without the lock; a
  thread that is resumed by the other CPU in between is suspended again, with
  nobody left to resume it.
* Scheduler (`broken`): `clean_up_call` frees memory inside the idle thread's
  critical section (`idle.c` :187). When the heap is in use `rt_sem_take` marks
  the idle thread as suspended, `rt_schedule` does nothing because the scheduler
  is locked, and `rt_free` goes on without the semaphore. The same happens to an
  idle thread that has to wait for the heap at `idle.c` :224 with no other thread
  ready.
* Scheduler (`hung`): `schedule_hook` allocates (`cpu_usage.c` :50, :74) inside the
  switch. If another thread is in the heap then, `rt_sem_take` suspends the thread
  being switched and calls `rt_schedule`, which starts the same switch again, with
  the kernel lock held that the other CPU needs to give the heap back.
* Scheduler (`Embraced`): `rt_thread_idle_excute` waits for `_rt_critical_lock` with
  `_cpus_lock` held (`idle.c` :163-183). A thread in a critical section on the other
  CPU (`rt_object_find`) that is hit by an interrupt waits for `_cpus_lock` in
  `rt_interrupt_enter` (`interrupt_gcc.S` :73). Both spin for ever.
* Thread pool (`Stuck`, the run `thread_pool_block`): the comment at `thread_pool.c` :202 says "Before thread
  block the queueLock will unlock.", but a worker that saw a positive count at
  :206 takes it at :211 with the lock held, and may find that a worker which
  waits outside of the lock was faster. It then holds the lock until the next
  `add_task`, which needs the lock: the pool stops.
* Thread pool (`reused`, `Len(queue) >= UINT8`, "freed"): `del_all` reads `next`
  in a freed block (:134); the 256th waiting task wraps the count to 0; and
  `destroy` calls `rt_thread_delete` on a worker that has seen the flag, returned
  and was freed.
* Thread pool (`marked`, "stray"): the comment "wait all thread exit" (:162)
  describes something else: nobody waits, the threads are deleted where they are. A
  worker that runs on the other CPU goes on with the mutex, the semaphore and the
  tasks that `destroy` frees, and may meet the assertion at :219.
* Mutex (`lent`): when an owner releases one of two mutexes,
  `original_priority` of that one is restored (`ipc.c` :827-835), so the loan of
  a waiter of the other is lost; and when a mutex is handed to a waiter, those
  still in the list have lent the new owner nothing.
* Pages (`same`, `cut`, `failed`, `fresh`, "wild"): the key thread and the close button
  can remove the same entry; the key thread can delete a page in the middle of
  the GUI thread's task, and the GUI thread can start the task while the key thread is
  freeing the `btn_info` blocks, for the task is deleted last; the result of
  `lv_add_activity_obj` is ignored; and
  `thread_usage.user_data` of an account made after the page was opened was never
  written, yet `refresh_cpu_task` follows it (`lvgl_cpu_usage.c` :36).
  `close_press_cb` hands NULL to `lv_obj_del` when the key thread was faster; an entry
  removed between the test of the list and the read of its first entry makes the
  header be unlinked and freed; and the `btn_info` of a page is cleared without a test
  for NULL (:135-136).

Noted while modelling, and not stated as runs: `DEBOUNCE_TICKS` is 0, although the
comment at `multi_button.c:83` speaks of three equal reads; the cancel key works
only if `default_page_init` finds the button (after `button_create`) and attaches its
callback after `key_thread` did (`key.c` :42, `lvgl_page.c` :102), which nothing
orders; the allocator of `drv_gpio.c` can hand out GPIOHS2, 21 and 22, which
`drv_io_config.c:37` and `drv_tft.c` :38, :49 use; the schedule
hook follows NULL after it has logged "No memory"; and closing the terminal
makes a waiting `read` return 1 without a character, or lets a thread meet the
detached semaphore and the kernel's assertion. The comment of `rt_thread_yield`
(`thread.c` :466-472) says that the thread goes to the end of its ready queue;
it only calls `rt_schedule`, which keeps a thread whose slice is not over unless
a better one is ready. `drv_pin_attach_irq` maps the rising mode to the falling
edge and the high level to the low one (`drv_gpio.c` :182-197); nothing in the
program attaches a pin interrupt.

## Proofs

All theorems are about every value of the constants that meets the named
`ASSUME` of the component's module. Each safety property below is an invariant or
an action property of a run as well; TLC evaluated the inductive invariants on the
runs' instances before they were proved.

### Frame pacing

`PacerDelayInRange`: `PacerTypeOK` is inductive as it stands; the point is `AdjustType`: whatever the
unsigned step does, the range test brings the delay back into
0..RT_TICK_PER_SECOND. `PacerElapsedExact` says that `rt_tick_get() - start` is the
true length of the round although the counter may wrap within it. Its invariant
relates `now`, `start` and the history variable `spent` modulo the word, with a
bound for `spent` at every position of the loop. From `PacerAssumption`: the word
exceeds a second of ticks and the longest round, which on the board is 49 days.

### Camera

`CameraTypes`, `CameraHandover`, `CameraNoTearing`, `CameraHandsOutNewest` (no
assumption). `NoTearing` is not inductive: it needs to know which buffer `addr` is
relative to `mux` at every position of handler and caller. `Handover` says that:
in the `Switched` states (a frame complete, the address already moved) `addr` is
the buffer `mux` selects, otherwise it is the other one; a complete frame is in the
unselected buffer until the toggle; the handler and the caller are never both in
their critical part. `HandoverStep` has one case per action.

### Touch filters

`MedianStaysMiddle` and `MeanStaysAverage`, for buffers of any length and any
samples: what `median_update` and `mean_update` return is the median and the mean
of the last samples, defined without the structs (`Rank`, `Total`). Both buffers are
rings (`Ring`): the place of the m-th last sample is computed from the position and
the count (`Slot`), also across the end of the buffer.

* `MeanInv`: the running sum is the sum of the samples in the ring, and places not
  used yet hold 0, so that subtracting the replaced sample is right from the first
  one on. The sum is a recursive function of the number of samples; what appending
  and dropping one does to it (`TotalAppend`, `TotalDrop`) is shown by taking the
  least prefix for which it would fail.
* `MedianInv`: the first `count` entries of `index` are a permutation of the places
  in use (`Perm`) that lists the samples in order (`Sorted`). An update disturbs the
  order at one entry only; `RaiseRepairs` and `LowerRepairs` say that the loops
  which move that entry up or down restore it, `Replaced` and `Added` that so does
  an update of a full buffer and of one that still fills. That the entry in the
  middle of a sorted index has the rank in the middle (`RankIs`, `MiddleIs`) is a
  statement on cardinalities: the entries below it map one to one to the samples
  below.

`AxisAssumption` asks for an odd length of the median, as 5 is on the board, and for
samples in the range of `int`.

### Touch panel

`StrokesAreIndependent` and `PointAlwaysFollows`, for any filter length, calibration
and points, with a bus that may fail at any read. `PanelInv`: while nothing presses,
all counts and sums are 0 (`Cleared`), which is why a stroke starts with empty
filters; the last event fits the press the driver is in and is about the last point
(`EventFits`); and `touch_down` and what LVGL was told agree with `press`, with the
last point or, when the event lost its type, with (0, 0) (`Told`).

### CPU usage

`UsageIsExact`, for any list of threads that holds each once, any period and any
uncleared memory. The invariant `Inv` speaks of every account, a thread and a core, by
itself, which is what makes the theorem one about accounts:

* `Base`: where the clock, the loop of `timer_irq` and the hook on core 1 are, and what
  they hold (`Clocked`, `Served`, `Hooking`, `Running`), and the types;
* `Account`, for every thread and core, while its history is trusted: the stamps of a
  thread that is not on the core are in order, a running one was entered at its last
  switch or was closed by an interrupt since (`Stamped`), and what is counted, with the
  ticks it was not charged for yet, is what it used in the period (`Counted`). When an
  account is closed depends on how far the loop has come (`Closed`, `Begun`);
* `AtHand`: the account between two statements of the loop.

A hook that meets the interrupt works on two accounts, both distrusted from its first
step on; `Apart` and `Aside` say that its loads and stores leave every other account
alone, which is why none of the interleavings has to be followed for them.

`UsageAssumption` says that a period and the modelled time are shorter than the
word of the tick counter.

### Buttons

`ButtonInvariant`, `ButtonAlternates` from `ButtonTypeOK /\ StateIsReported`, which is
inductive, by a case split over the five states. `ButtonLongPressTime` needs that
`ticks` counts the calls of the first press and has not passed the threshold, that
the threshold has been passed once the long press has started, and that a press in
state 3 is never the first (`PressTimed`); `ButtonClickMeansCount` needs that `repeat` is
the number of presses modulo its width (`RepeatCounts`). `ButtonAssumption` says that the thresholds lie
below the width of `ticks` and that the bound `MaxCount` of the two history
counters lies above what the properties compare them with.

### Terminal

`TerminalCounts`, `TerminalIsQueue` and `TypedIsPut`, for any size of the ring and
any keys. `TerminalIsQueue` is the refinement of `CharQueue`: initial states map to
initial states, and every step of the GUI thread, the shell and the destructor to a
step of the queue or a stutter, until a character is stored over another one
(`torn`) or the page is cancelled. `TypedIsPut` says that what is appended is the
next character of the key that was pressed.

`SemaphoreCounts` is not inductive: mirror and index are stored one after the other,
so between the two stores the ring has a length that was never meant. `Inv` counts
with the positions the stores are on the way to (`WPos`, `RPos`, `Gap`). `Counted`
says that this length is the value of the semaphore, the character put and not
announced yet and the one announced and not taken yet, and that there is room for
the character being put next to one that the shell has copied and not given up.
`Indices` says where the indices are when a mirror bit is about to turn, `Rest` that
the stored character is the one to announce, and `Bounded` that also after `torn`
the semaphore exceeds the ring by one at most.

### Pages

`GuiDeletedOnce`, `GuiClosable`, `GuiRefreshLive` and `GuiNothingLeft`, for any number of openings, threads and charts. None of them
is inductive. `GuiPagesInv` adds that the activity list is empty or holds the page
opened last and nothing else (`Stack`: a page is opened from the default page, so
the list never grows beyond one); how often a page was deleted (`Once`); who holds a
page that is shown (`Held`); that tasks, `btn_info` blocks and charts belong to a page
nobody has deleted or that is at the step of its deletion which has still to come to
them (`Owned`); the row being made (`Rows`); and where the accounts point (`Filled`).

### Scheduler

For any number of CPUs, priorities and threads: `SchedulerLockHandedOver`,
`SchedulerOnePlace`, `SchedulerNoLostResume`, `SchedulerHeapExclusive`,
`SchedulerNoInversion`, and `SchedulerTimeoutSuspended`, the `RT_ASSERT` of
`rt_thread_timeout`. Their invariant `Inv` consists of

* `Sound` and `Places`: lists, bitmaps, `oncpu` and `current` agree, and a thread on
  a CPU is running or suspended. The ready queues are used through lemmas on
  `InsertThread`, `RemoveThread` and `Highest` only;
* `Waits`: who waits in a list or has its timer running is suspended, also after
  `raced`, which is why a timer never resumes a thread that is not;
* `Locked`: who holds the two locks and how often threads count them, at every
  position of a trap. `LockHandedOver` needs it because a thread takes the lock
  and another one, the one switched to, frees it;
* `Parked` and `OneOwner`, until `raced` or `broken`: a suspended thread leaves
  its CPU before it does anything else, and `heap_sem` is 1 or has exactly one
  owner;
* `Preempts`, until `broken`: for every CPU, the thread it runs is as good as every
  ready one it could run, or the CPU will look again (an interrupt is pending or
  handled with the flag set, the thread is about to call `rt_schedule`, or it is
  in a critical section). `NoInversion` is what this says of a settled CPU;
* `Frees`: only the first idle thread frees.

The schedule hook enters as one more condition of a switch and one more way to stop;
the theorems hold of every state up to a hang, and in it.

Assumed (`SchedulerAssumption`): every CPU has its own idle thread of the lowest
priority, bound to it, and the main thread is bound to none, as `rt_thread_init`
leaves it; without that, `rt_system_scheduler_start` on the first CPU might not
find it.

### Thread pool and mutex

For any number of workers and tasks and any width of the counter, with workers deleted
where they wait or marked while they run: `ThreadPoolAssertionsHold`, `ThreadPoolTasksConserved`, `ThreadPoolInheritance`,
and `ThreadPoolExclusion`, by which no two threads are inside sections of
`queue_lock`, so that a section may be a step of the model. The invariant has the
positions of the threads; the count against the length of the list modulo its
width (`Counted`, from which a worker that saw a positive count finds a task);
tasks in three disjoint places with growing numbers (`Placed`); and for the locks
who owns, who waits, what position goes with it, and what a release gives back
(`GivesBack`: `original_priority` is the owner's own, except for a shell that took
`queue_lock` with the lock of the users held). Lemmas about `rt_mutex_take` and
`rt_mutex_release` carry the part on locks through the actions that call them.
`Inheritance` needs that all workers have the same priority, as `init_thread_pool`
creates them (`ThreadPoolAssumption`).

### Timers

For any set of timers and any width of the tick: `TimerSorted`, `TimerEarlyFirst`
and `TimerKeepsPromise`, the refinement of `TimerPromise`: initial states map to
initial states and every action of `Timer` to an action of the promise or a
stutter. The invariant bounds what a timer has left (`InTime`): at most its delay,
which is below half of the range, and at least -1, and that only between the tick of
CPU 0 and its check. From the two bounds the unsigned comparisons of the code
order two timers as their remaining ticks do (`InOrder`), across any wrap.
`TimerAssumption` asks for a range of at least 5. The proof does not go through
with 4, and TLC finds the violation there: half of the range is then 1, so a timer
that is one tick late does not count as expired.

### Only model-checked

Liveness under fairness, which is out of the prover's reach: `KeepsPace`,
`FrameArrives`, `ReleaseReported`, `ComesToRest`, `TypedIsRead`, `ShellReturns`,
`TaskServed`. And `StopsOnlySo`, which is about `ENABLED`. Every other property of the
passing runs is stated by a theorem.

## Not modelled

* Register set-up and pure I/O: `drv_uart.c`, `drv_interrupt.c`, `board.c`,
  `heap.c`, the command bytes and DMA of `drv_tft.c`, the sensor tables
  `ov2640.c`, `drv_ov5640.c`; `drv_lcd.c` and `drv_spi.c` are not built.
* Demonstrations: `lvgl_test_*.c`, `test_cpp.cpp`, `main.c`, `mnt.c`, and the
  commands of `command.c` other than `thread_pool_sample`. The mailbox of the
  UART test (`command.c` :362) ignores a full mailbox and feeds a thread that
  discards what it receives.
* The pin driver `drv_gpio.c`: nothing in the built program calls `rt_pin_mode` or
  attaches a pin interrupt, so its table of channels never changes; reading and
  writing a pin are single register accesses.
* The attaching of the callbacks of the buttons at start-up, and the state of a worker
  in a thread pool that was destroyed under it.
* Probe failure and removal of the touch panel, which happen at start-up or never;
  `tsfilter_alloc` returns the freed filter when one of its parts could not be
  allocated (`tsfilter.c` :25).
* The output side of the terminal and the drawing of every page: LVGL calls. The
  shell changes the text area while the GUI thread may draw it
  (`lvgl_terminal.cpp` :307), and LVGL has no lock; what that does to the
  widget is inside LVGL.
* In the kernel: signals, events, mailboxes and message queues, soft and periodic
  timers, and time-outs of `rt_sem_take` and `rt_mutex_take`. The program does not use
  them, or only in vendored code. Of the calls that change another running thread the
  one in `thread_pool.c` :164 (`rt_thread_delete`) is modelled in `ThreadPool`, not in
  `Scheduler`: what its second link into the list of the dead does to the lists of
  the kernel, and a worker that the idle thread frees while it runs, are left out.
* What happens after memory was used that had been freed, beyond the first such
  use.
* Vendored code that is not built for this board (file systems, network stacks,
  other boards), which is most of the repository by size.

## What is left

The model covers the program's own logic and the kernel below it. All invariants,
action properties and refinements that the passing runs check are proved; liveness and
`StopsOnlySo` are model-checked. An extension would take up, in this order, the time-outs of
`rt_sem_take` and `rt_mutex_take`, which join `Scheduler`, `KernelMutex` and `Timer`;
a version of the thread pool that waits for the semaphore outside of the lock; and
probe failure and removal of the touch panel.
