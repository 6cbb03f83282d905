------------------------ MODULE MCCriticalSection ------------------------
(* Two tasks, a less urgent and a more urgent handler.                     *)
EXTENDS CriticalSection, TLC
CONSTANTS t1, t2, i1, i2

MCTasks == {t1, t2}
MCIsrs == {i1, i2}
MCPrio == (i1 :> 2) @@ (i2 :> 1)
==========================================================================
