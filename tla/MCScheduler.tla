---------------------------- MODULE MCScheduler ----------------------------
(* Small instances of the scheduler: two worker threads, process 1 with    *)
(* the threads t1 and t2, process 2 with t3.                               *)
EXTENDS Scheduler

CONSTANTS w0, w1, t1, t2, t3, f1

MCWorkers == {w0, w1}
MCThreads == {t1, t2, t3}
MCTwoThreads == {t1, t2}
MCGroup == [t \in {t1, t2, t3} |-> IF t = t3 THEN 2 ELSE 1]
MCClearTid == [t \in Threads |-> IF t = t2 THEN f1 ELSE NoWord]
=============================================================================
