---------------------------- MODULE MCScheduler ----------------------------
(* The instance of Scheduler for TLC: two threads meet in run; one also     *)
(* calls run_one, the other the two that poll.                              *)
EXTENDS Scheduler

CONSTANTS t1, t2

MCThreads == {t1, t2}
MCCallsOf == [t \in MCThreads |-> IF t = t1 THEN {"run", "run_one"} ELSE {"run", "poll", "poll_one"}]
=============================================================================
