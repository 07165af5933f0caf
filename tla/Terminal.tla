------------------------------ MODULE Terminal ------------------------------
(***************************************************************************)
(* The on-screen terminal, applications/gui/lvgl_terminal.cpp.  It is a    *)
(* device v_tty0 that the shell reads: a key of the on-screen keyboard is  *)
(* sent by the GUI thread through a ring buffer and counted by the         *)
(* semaphore rx_count; the shell thread waits for the semaphore and takes  *)
(* the character.  The key thread destroys the terminal when its page is   *)
(* cancelled.  The ring buffer (rt-thread ringbuffer.c) has no lock, so    *)
(* the three threads interleave at every access to it.                     *)
(***************************************************************************)
EXTENDS Integers, Sequences

CONSTANTS
  Size,   \* places of the ring buffer, 64
  Chars,  \* characters
  Keys    \* what the keys send: sequences of characters

ASSUME TerminalAssumption ==
  /\ Size \in Nat \ {0}
  /\ Keys \subseteq Seq(Chars) /\ "none" \notin Chars

VARIABLES
  buf,    \* the buffer
  wm, wi, \* write_mirror, write_index
  rm, ri, \* read_mirror, read_index
  sem,    \* value of rx_count
  wpc,    \* where the GUI thread is in send
  todo,   \* characters of the key still to be sent
  rpc,    \* where the shell thread is in finsh_getchar
  ch,     \* the character finsh_getchar will return, "none" before it is read
  cpc,    \* where the key thread is in the destructor
  device, \* shell->device
  ind,    \* 1 when serial.rx_indicate is set
  fault,  \* "none", or what stopped the system
  torn    \* has a key been stored over a character that was not read?

gui == <<wm, wi, wpc, todo>>
shell == <<rm, ri, rpc, ch>>
vars == <<buf, gui, shell, sem, cpc, device, ind, fault, torn>>

-----------------------------------------------------------------------------
(* rt_ringbuffer_data_len, from the mirror bits and the indices. *)
data_len ==
  IF wi = ri THEN (IF wm = rm THEN 0 ELSE Size)
  ELSE IF wi > ri THEN wi - ri ELSE Size - (ri - wi)

(* The constructor has registered the device and given it to the shell,      *)
(* which still waits for rx_sem, for a character of the serial port ("uart"), *)
(* or is just done with the command that it was running.                     *)
Init ==
  /\ buf \in [0..(Size - 1) -> Chars]
  /\ wm = 0 /\ wi = 0 /\ rm = 0 /\ ri = 0 /\ sem = 0
  /\ wpc = "idle" /\ todo = <<>>
  /\ rpc \in {"uart", "idle"} /\ ch = "none"
  /\ cpc = "open" /\ device = "tty" /\ ind = 1 /\ fault = "none" /\ torn = FALSE

Running == fault = "none"
Freed == cpc = "done"
Detached == cpc \in {"free", "done"}

(* The characters between the two ends of the ring, as positions in a buffer *)
(* of twice the size.  A character counts as put when the write index moves,  *)
(* and as taken when it is copied.                                           *)
WritePos == (IF wpc = "wrap" THEN 1 - wm ELSE wm) * Size + wi
ReadPos ==
  LET p == (IF rpc = "wrap" THEN 1 - rm ELSE rm) * Size + ri
  IN  IF rpc \in {"flip", "wrap", "bump"} THEN p + 1 ELSE p
Unread == (WritePos - ReadPos) % (2 * Size)

(* The rest of the key once a character was dealt with. *)
NextChar == todo' = Tail(todo) /\ wpc' = IF Len(todo) = 1 THEN "idle" ELSE "check"

-----------------------------------------------------------------------------
(* The GUI thread: on_kb_value_changed, send and rt_ringbuffer_putchar. *)

KeyPress(k) ==
  /\ Running /\ wpc = "idle" /\ k # <<>> /\ ~Freed
  /\ todo' = k /\ wpc' = "check"
  /\ UNCHANGED <<buf, wm, wi, shell, sem, cpc, device, ind, fault, torn>>

(* The shell has stored read_mirror and not yet read_index, and a full        *)
(* buffer looks as if it had room.                                           *)
LooksRoomy == rpc = "wrap" /\ Unread = Size /\ data_len # Size

(* Mutant: the character is stored whether or not there is room. *)
CheckNothing ==
  /\ Running /\ ~Freed /\ wpc = "check"
  /\ wpc' = "store"
  /\ UNCHANGED <<buf, wm, wi, todo, shell, sem, cpc, device, ind, fault, torn>>

(* Without room send returns -1, which nobody looks at.  After a loss the    *)
(* shell reads what is left; what is typed then is not followed.             *)
Check ==
  /\ Running /\ ~Freed /\ wpc = "check" /\ ~torn
  /\ IF data_len = Size THEN NextChar ELSE wpc' = "store" /\ UNCHANGED todo
  /\ torn' = (torn \/ LooksRoomy)
  /\ UNCHANGED <<buf, wm, wi, shell, sem, cpc, device, ind, fault>>

Store ==
  /\ Running /\ ~Freed /\ wpc = "store"
  /\ buf' = [buf EXCEPT ![wi] = Head(todo)]
  /\ wpc' = IF wi = Size - 1 THEN "flip" ELSE "bump"
  /\ UNCHANGED <<wm, wi, todo, shell, sem, cpc, device, ind, fault, torn>>

(* The mirror bit and the index are stored one after the other. *)
Flip ==
  /\ Running /\ ~Freed /\ wpc = "flip"
  /\ wm' = 1 - wm /\ wpc' = "wrap"
  /\ UNCHANGED <<buf, wi, todo, shell, sem, cpc, device, ind, fault, torn>>

Advance ==
  /\ Running /\ ~Freed /\ wpc \in {"wrap", "bump"}
  /\ wi' = IF wpc = "wrap" THEN 0 ELSE wi + 1
  /\ wpc' = "release"
  /\ UNCHANGED <<buf, wm, todo, shell, sem, cpc, device, ind, fault, torn>>

(* Mutant: the value grows but a waiting shell is not resumed. *)
ReleaseQuietly ==
  /\ Running /\ ~Freed /\ wpc = "release"
  /\ IF Detached THEN fault' = "assert" /\ UNCHANGED sem
     ELSE sem' = sem + 1 /\ UNCHANGED fault
  /\ wpc' = "indicate"
  /\ UNCHANGED <<buf, wm, wi, todo, shell, cpc, device, ind, torn>>

(* rx_count.release(): a waiting shell is resumed, otherwise the value grows. *)
Release ==
  /\ Running /\ ~Freed /\ wpc = "release"
  /\ IF Detached THEN fault' = "assert" /\ UNCHANGED <<rpc, sem>>
     ELSE IF rpc = "wait" THEN rpc' = "get" /\ UNCHANGED <<sem, fault>>
     ELSE sem' = sem + 1 /\ UNCHANGED <<rpc, fault>>
  /\ wpc' = "indicate"
  /\ UNCHANGED <<buf, wm, wi, todo, rm, ri, ch, cpc, device, ind, torn>>

(* serial.rx_indicate(&serial, 1): finsh_rx_ind releases rx_sem, so that the *)
(* shell looks at its device again; once it is unset, a call of NULL.        *)
Indicate ==
  /\ Running /\ ~Freed /\ wpc = "indicate"
  /\ fault' = IF ind = 1 THEN "none" ELSE "null call"
  /\ rpc' = IF ind = 1 /\ rpc = "uart" THEN "idle" ELSE rpc
  /\ NextChar
  /\ UNCHANGED <<buf, wm, wi, rm, ri, ch, sem, cpc, device, ind, torn>>

(* The terminal was deleted in the middle of send. *)
SendFreed ==
  /\ Running /\ Freed /\ wpc # "idle"
  /\ fault' = "freed"
  /\ UNCHANGED <<buf, gui, shell, sem, cpc, device, ind, torn>>

Send == Check \/ Store \/ Flip \/ Advance \/ Release \/ Indicate \/ SendFreed

-----------------------------------------------------------------------------
(* The shell thread: finsh_getchar, read and rt_ringbuffer_getchar. *)

(* rt_device_read of the device the shell has now. *)
Call ==
  /\ Running /\ rpc = "idle"
  /\ rpc' = IF device = "tty" THEN "take" ELSE "uart"
  /\ ch' = "none"
  /\ UNCHANGED <<buf, gui, rm, ri, sem, cpc, device, ind, fault, torn>>

(* Mutant: the shell looks into the buffer without waiting. *)
TakeNothing ==
  /\ Running /\ rpc = "take"
  /\ rpc' = "get"
  /\ UNCHANGED <<buf, gui, rm, ri, ch, sem, cpc, device, ind, fault, torn>>

(* rx_count.wait(); rt_sem_take asserts that the semaphore exists. *)
Take ==
  /\ Running /\ rpc = "take"
  /\ IF Detached THEN fault' = "assert" /\ UNCHANGED <<rpc, sem>>
     ELSE IF sem > 0 THEN sem' = sem - 1 /\ rpc' = "get" /\ UNCHANGED fault
     ELSE rpc' = "wait" /\ UNCHANGED <<sem, fault>>
  /\ UNCHANGED <<buf, gui, rm, ri, ch, cpc, device, ind, torn>>

(* read ignores what wait and rt_ringbuffer_getchar return. *)
Get ==
  /\ Running /\ ~Freed /\ rpc = "get"
  /\ rpc' = IF data_len = 0 THEN "handle" ELSE "copy"
  /\ UNCHANGED <<buf, gui, rm, ri, ch, sem, cpc, device, ind, fault, torn>>

Copy ==
  /\ Running /\ ~Freed /\ rpc = "copy"
  /\ ch' = buf[ri]
  /\ rpc' = IF ri = Size - 1 THEN "flip" ELSE "bump"
  /\ UNCHANGED <<buf, gui, rm, ri, sem, cpc, device, ind, fault, torn>>

FlipRead ==
  /\ Running /\ ~Freed /\ rpc = "flip"
  /\ rm' = 1 - rm /\ rpc' = "wrap"
  /\ UNCHANGED <<buf, gui, ri, ch, sem, cpc, device, ind, fault, torn>>

AdvanceRead ==
  /\ Running /\ ~Freed /\ rpc \in {"wrap", "bump"}
  /\ ri' = IF rpc = "wrap" THEN 0 ELSE ri + 1
  /\ rpc' = "handle"
  /\ UNCHANGED <<buf, gui, rm, ch, sem, cpc, device, ind, fault, torn>>

(* The terminal was deleted under the shell: it goes on in freed memory. *)
ReadFreed ==
  /\ Running /\ Freed /\ rpc \in {"get", "copy", "flip", "wrap", "bump"}
  /\ ch' \in Chars \cup {"none"}
  /\ rpc' = "handle"
  /\ UNCHANGED <<buf, gui, rm, ri, sem, cpc, device, ind, fault, torn>>

(* finsh_thread_entry deals with the character and asks for the next one. *)
Handle ==
  /\ Running /\ rpc = "handle"
  /\ rpc' = "idle"
  /\ UNCHANGED <<buf, gui, rm, ri, ch, sem, cpc, device, ind, fault, torn>>

Shell ==
  \/ Call \/ Take \/ Get \/ Copy \/ FlipRead \/ AdvanceRead \/ ReadFreed \/ Handle

-----------------------------------------------------------------------------
(* The key thread: cancel_cb deletes the page, whose event deletes this. *)

Cancel ==
  /\ Running /\ cpc = "open"
  /\ cpc' = "finsh"
  /\ UNCHANGED <<buf, gui, shell, sem, device, ind, fault, torn>>

(* finsh_set_device back to the serial port. *)
SetDevice ==
  /\ Running /\ cpc = "finsh"
  /\ device' = "uart" /\ ind' = 0
  /\ cpc' = "detach"
  /\ UNCHANGED <<buf, gui, shell, sem, fault, torn>>

(* Mutant: the semaphore goes without waking its waiter. *)
DetachQuietly ==
  /\ Running /\ cpc = "detach"
  /\ cpc' = "free"
  /\ UNCHANGED <<buf, gui, shell, sem, device, ind, fault, torn>>

(* The device is unregistered and rx_count detached, which wakes the shell. *)
Detach ==
  /\ Running /\ cpc = "detach"
  /\ rpc' = IF rpc = "wait" THEN "get" ELSE rpc
  /\ cpc' = "free"
  /\ UNCHANGED <<buf, gui, rm, ri, ch, sem, device, ind, fault, torn>>

(* The memory is given back. *)
Free ==
  /\ Running /\ cpc = "free"
  /\ cpc' = "done"
  /\ UNCHANGED <<buf, gui, shell, sem, device, ind, fault, torn>>

Close == SetDevice \/ Detach \/ Free

Next == Send \/ Shell \/ Cancel \/ Close \/ \E k \in Keys : KeyPress(k)

Spec == Init /\ [][Next]_vars

(* Every thread is scheduled again and again: the GUI and the key thread     *)
(* sleep in every round, so the shell, the lowest of them, runs too.  The    *)
(* user need neither type nor cancel the page.                               *)
FairSpec == Spec /\ WF_vars(Send) /\ WF_vars(Shell) /\ WF_vars(Close)

-----------------------------------------------------------------------------
TypeOK ==
  /\ buf \in [0..(Size - 1) -> Chars]
  /\ {wm, rm} \subseteq {0, 1} /\ {wi, ri} \subseteq 0..(Size - 1)
  /\ sem \in 0..(IF torn THEN Size + 1 ELSE Size) /\ torn \in BOOLEAN
  /\ ch \in Chars \cup {"none"} /\ device \in {"tty", "uart"} /\ ind \in {0, 1}
  /\ fault \in {"none", "assert", "null call", "freed"}

(* The terminal is open and no character was lost. *)
Sound == cpc = "open" /\ ~torn

Queue == INSTANCE CharQueue WITH
  Capacity <- Size,
  open <- Sound,
  queue <- IF Sound THEN [k \in 1..Unread |-> buf[(ReadPos + k - 1) % Size]]
           ELSE <<>>,
  held <- IF Sound THEN ch ELSE "none",
  None <- "none"

(* Until its page is cancelled, the terminal is the bounded queue of         *)
(* characters: what the shell reads is what was typed, in that order,        *)
(* nothing lost, doubled or made up, although the ring is shared by two      *)
(* cores without a lock - unless putchar looks at the length of the full     *)
(* ring just between the two stores that wrap the read position.             *)
IsQueue == Queue!Spec

(* Variables keep their types, and the semaphore counts the characters: a    *)
(* shell that passed wait finds one, and one that waits has none to read.    *)
SemaphoreCounts ==
  /\ TypeOK
  /\ Sound =>
    /\ Unread = sem + (IF wpc = "release" THEN 1 ELSE 0)
                    + (IF rpc \in {"get", "copy"} THEN 1 ELSE 0)
    /\ rpc = "wait" => sem = 0

(* A typed character is read in the end, unless the page is cancelled or a   *)
(* character was lost: no wake-up is lost.                                   *)
TypedIsRead == (Unread > 0 /\ Sound) ~> (rpc = "handle" \/ ~Sound)

(* Closing the terminal takes the shell back to the serial port, even when   *)
(* it was waiting for a key of the terminal (unless the system stopped).     *)
ShellReturns == (cpc = "done") ~> (rpc = "uart" \/ ~Running)
=============================================================================
