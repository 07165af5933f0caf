----------------------------- MODULE MCScheduler ----------------------------
EXTENDS Scheduler, TLC

MCIdle == <<"idle1">> @@ (0 :> "idle0")
MCAll == Thread \cup {"idle0", "idle1"}
MCBind == [t \in MCAll |-> IF t = "idle0" THEN 0 ELSE IF t = "idle1" THEN 1 ELSE 2]
MCPriority == [t \in MCAll |-> IF t \in {"idle0", "idle1"} THEN 2 ELSE IF t = "a" THEN 0 ELSE 1]

(* Bound: the main thread does not end (main.c loops for ever), no critical  *)
(* section is entered before every thread has its account, and nothing is    *)
(* followed after a race on stat or a heap taken without its semaphore.      *)
MCBound ==
  /\ ~raced /\ ~broken /\ stat[main] # "CLOSE"
  /\ acct = AllThreads \/ crit = none
=============================================================================
