---------------------------- MODULE GlobalLock ----------------------------
(***************************************************************************)
(* What enter_critical / leave_critical promise to their callers           *)
(* (port_gen_os_driver.h: "enter a global critical section"): a re-entrant *)
(* lock that one context of execution holds at a time, and while it is     *)
(* held the processor changes hands to no other context.                   *)
(***************************************************************************)
EXTENDS Naturals

CONSTANTS Contexts, MaxNestDepth

VARIABLES
    hold,     \* hold[c]: how many times c has entered and not left
    running   \* the context the processor executes

vars == <<hold, running>>

Free == \A c \in Contexts : hold[c] = 0

Init ==
    /\ hold = [c \in Contexts |-> 0]
    /\ running \in Contexts

Enter(c) ==
    /\ running = c
    /\ \A d \in Contexts \ {c} : hold[d] = 0
    /\ hold[c] < MaxNestDepth
    /\ hold' = [hold EXCEPT ![c] = @ + 1]
    /\ UNCHANGED running

Leave(c) ==
    /\ running = c
    /\ hold[c] > 0
    /\ hold' = [hold EXCEPT ![c] = @ - 1]
    /\ UNCHANGED running

Dispatch(c) ==
    /\ Free
    /\ running' = c
    /\ UNCHANGED hold

Next == \E c \in Contexts : Enter(c) \/ Leave(c) \/ Dispatch(c)

Spec == Init /\ [][Next]_vars
===========================================================================
