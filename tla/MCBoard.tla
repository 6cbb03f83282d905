------------------------------ MODULE MCBoard ------------------------------
(***************************************************************************)
(* Each part at the least size at which its hazards occur: a heap with     *)
(* room for more timers and queues than the kernel has, a third task that  *)
(* overtakes a wake-up, a text longer than the FIFO, a task pool the       *)
(* platform can exhaust.                                                   *)
(***************************************************************************)
EXTENDS Board
CONSTANTS t1, t2, t3, c1, c2, c3, fault

MCTasks == {t1, t2}
MCThreeTasks == {t1, t2, t3}
MCCells == {c1, c2, c3}
=============================================================================
