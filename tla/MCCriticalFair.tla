------------------------- MODULE MCCriticalFair -------------------------
(* Two tasks and one handler, for the runs with fairness or misuse.        *)
EXTENDS CriticalSection, TLC
CONSTANTS t1, t2, i1

FairTasks == {t1, t2}
FairIsrs == {i1}
FairPrio == i1 :> 1
Rogues == FairTasks \cup FairIsrs
==========================================================================
