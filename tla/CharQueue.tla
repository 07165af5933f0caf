----------------------------- MODULE CharQueue ------------------------------
(***************************************************************************)
(* What the virtual console promises the shell: a bounded queue of         *)
(* characters.  The keyboard appends, the shell takes the oldest one and   *)
(* deals with it before it takes the next, until the console is closed and *)
(* what is left in it is gone.                                             *)
(***************************************************************************)
EXTENDS Integers, Sequences

CONSTANTS Capacity, Chars, None

VARIABLES
  open,  \* the console is open
  queue, \* characters typed and not read yet
  held   \* the character the shell has read and is dealing with, or None

qvars == <<open, queue, held>>

Init == open = TRUE /\ queue = <<>> /\ held = None

Put(c) ==
  /\ open /\ Len(queue) < Capacity
  /\ queue' = Append(queue, c)
  /\ UNCHANGED <<open, held>>

Get ==
  /\ open /\ queue # <<>> /\ held = None
  /\ held' = Head(queue)
  /\ queue' = Tail(queue)
  /\ UNCHANGED open

Done ==
  /\ open /\ held # None
  /\ held' = None
  /\ UNCHANGED <<open, queue>>

Close == open /\ open' = FALSE /\ queue' = <<>> /\ held' = None

Next == Get \/ Done \/ Close \/ \E c \in Chars : Put(c)

Spec == Init /\ [][Next]_qvars
=============================================================================
