------------------------- MODULE CriticalSection -------------------------
(***************************************************************************)
(* port_enter_critical / port_leave_critical of hal_liteos/gen_os_impl.c,  *)
(* instruction by instruction, called by tasks and interrupt handlers that *)
(* preempt each other whenever PRIMASK lets them.                          *)
(*                                                                         *)
(* nest_level and interrupt_states are plain globals read and written in   *)
(* several steps.  Nothing but PRIMASK keeps two contexts apart, and the   *)
(* depth check of port_enter_critical runs before PRIMASK is set.          *)
(***************************************************************************)
EXTENDS Integers

CONSTANTS
    Tasks,          \* LiteOS tasks that call the driver
    Isrs,           \* interrupt handlers that call it
    Prio,           \* NVIC priority of a handler, lower is more urgent
    MaxNestDepth,   \* LOS_MAX_NEST_DEPTH
    Unbalanced      \* contexts that may leave a section they never entered

Contexts == Tasks \cup Isrs

ASSUME ContextsAssumption == Tasks # {} /\ Tasks \cap Isrs = {}
ASSUME PrioAssumption == Prio \in [Isrs -> Nat]
ASSUME DepthAssumption == MaxNestDepth \in Nat \ {0}
ASSUME UnbalancedAssumption == Unbalanced \subseteq Contexts

VARIABLES
    primask,            \* 1: the processor takes no exception
    pendsv,             \* the PendSV exception is pending
    running,            \* the context the processor executes
    under,              \* the context an active handler returns to
    ctxmask,            \* PRIMASK in the saved frame of a task (r12)
    nest_level,
    interrupt_states,
    pc,                 \* where each context is
    level,              \* its last read of nest_level (a register)
    mask,               \* what its last LOS_IntLock returned (r0)
    depth               \* how many enters of it are still to be left

cpu  == <<primask, pendsv, running, under, ctxmask>>
mem  == <<nest_level, interrupt_states>>
regs == <<level, mask>>
vars == <<cpu, mem, pc, regs, depth>>

Slots == 0 .. MaxNestDepth - 1

Goto(c, from, to) ==
    /\ running = c
    /\ pc[c] = from
    /\ pc' = [pc EXCEPT ![c] = to]

\* Mutants: the index one past the end, the last slot refused.
TooDeepOffByOne(n) == n < 0 \/ n > MaxNestDepth
TooDeepEarly(n) == n < 0 \/ n >= MaxNestDepth - 1

\* `nest_level >= sizeof(..)/sizeof(..)` compares as unsigned: a negative
\* nest_level is too deep as well.
TooDeep(n) == n < 0 \/ n >= MaxNestDepth

Init ==
    /\ primask = 0
    /\ pendsv = FALSE
    /\ running \in Tasks
    /\ under = [i \in Isrs |-> running]
    /\ ctxmask = [t \in Tasks |-> 0]
    /\ nest_level = 0
    /\ interrupt_states = [k \in Slots |-> 0]
    /\ pc = [c \in Contexts |-> IF c \in Tasks THEN "app" ELSE "idle"]
    /\ level = [c \in Contexts |-> 0]
    /\ mask = [c \in Contexts |-> 0]
    /\ depth = [c \in Contexts |-> 0]

--------------------------------------------------------------------------
(* The caller's choices.                                                   *)

CallEnter(c) == Goto(c, "app", "enter") /\ UNCHANGED <<cpu, mem, regs, depth>>

\* Mutant: a leave that no enter precedes.
CallLeaveAnyTime(c) == Goto(c, "app", "dec") /\ UNCHANGED <<cpu, mem, regs, depth>>

CallLeave(c) ==
    /\ depth[c] > 0 \/ c \in Unbalanced
    /\ Goto(c, "app", "dec")
    /\ UNCHANGED <<cpu, mem, regs, depth>>

(* port_enter_critical.                                                    *)

CheckDepth(c) ==
    /\ Goto(c, "enter", IF TooDeep(nest_level) THEN "assert" ELSE "lock")
    /\ level' = [level EXCEPT ![c] = nest_level]
    /\ UNCHANGED <<cpu, mem, mask, depth>>

\* Mutant: the state is read, interrupts stay enabled.
IntLockNoMask(c) ==
    /\ Goto(c, "lock", "store")
    /\ mask' = [mask EXCEPT ![c] = primask]
    /\ UNCHANGED <<cpu, mem, level, depth>>

IntLock(c) ==
    /\ Goto(c, "lock", "store")
    /\ mask' = [mask EXCEPT ![c] = primask]
    /\ primask' = 1
    /\ UNCHANGED <<pendsv, running, under, ctxmask, mem, level, depth>>

\* Mutant: one slot for all nesting depths.
SaveStateInFirstSlot(c) ==
    /\ Goto(c, "store", "inc")
    /\ interrupt_states' = [interrupt_states EXCEPT ![0] = mask[c]]
    /\ UNCHANGED <<cpu, nest_level, regs, depth>>

\* C does not say whether the subscript of `interrupt_states[nest_level] =
\* LOS_IntLock()` is read before or after the call: the register of the depth
\* check or a fresh read.  An index out of bounds is undefined behaviour, and
\* the model stops there.
SaveState(c) ==
    /\ Goto(c, "store", "inc")
    /\ \E k \in {level[c], nest_level} \cap Slots :
          interrupt_states' = [interrupt_states EXCEPT ![k] = mask[c]]
    /\ UNCHANGED <<cpu, nest_level, regs, depth>>

LoadInc(c) ==
    /\ Goto(c, "inc", "inc_store")
    /\ level' = [level EXCEPT ![c] = nest_level]
    /\ UNCHANGED <<cpu, mem, mask, depth>>

StoreInc(c) ==
    /\ Goto(c, "inc_store", "app")
    /\ nest_level' = level[c] + 1
    /\ depth' = [depth EXCEPT ![c] = @ + 1]
    /\ UNCHANGED <<cpu, interrupt_states, regs>>

(* port_leave_critical.                                                    *)

LoadDec(c) ==
    /\ Goto(c, "dec", "dec_store")
    /\ level' = [level EXCEPT ![c] = nest_level]
    /\ UNCHANGED <<cpu, mem, mask, depth>>

\* Mutant: the decrement stays in the register.
StoreDecForgotten(c) ==
    /\ Goto(c, "dec_store", "check")
    /\ level' = [level EXCEPT ![c] = @ - 1]
    /\ UNCHANGED <<cpu, mem, mask, depth>>

StoreDec(c) ==
    /\ Goto(c, "dec_store", "check")
    /\ nest_level' = level[c] - 1
    /\ level' = [level EXCEPT ![c] = @ - 1]
    /\ UNCHANGED <<cpu, interrupt_states, mask, depth>>

\* The compiler may test the register it stored or read nest_level again.
CheckLevel(c) ==
    \E n \in {level[c], nest_level} :
       /\ Goto(c, "check", IF n < 0 THEN "assert" ELSE "restore")
       /\ level' = [level EXCEPT ![c] = n]
       /\ UNCHANGED <<cpu, mem, mask, depth>>

\* Mutants: LOS_IntUnLock for LOS_IntRestore; no restore at all.
RestoreUnlocks(c) ==
    /\ Goto(c, "restore", "app")
    /\ primask' = 0
    /\ depth' = [depth EXCEPT ![c] = IF @ > 0 THEN @ - 1 ELSE 0]
    /\ UNCHANGED <<pendsv, running, under, ctxmask, mem, regs>>

RestoreForgotten(c) ==
    /\ Goto(c, "restore", "app")
    /\ depth' = [depth EXCEPT ![c] = IF @ > 0 THEN @ - 1 ELSE 0]
    /\ UNCHANGED <<cpu, mem, regs>>

RestoreState(c) ==
    /\ Goto(c, "restore", "app")
    /\ level[c] \in Slots
    /\ primask' = interrupt_states[level[c]]
    /\ depth' = [depth EXCEPT ![c] = IF @ > 0 THEN @ - 1 ELSE 0]
    /\ UNCHANGED <<pendsv, running, under, ctxmask, mem, regs>>

\* cb_assertion prints and loops for ever, PRIMASK as it was.
Spin(c) == Goto(c, "assert", "assert") /\ UNCHANGED <<cpu, mem, regs, depth>>

--------------------------------------------------------------------------
(* A kernel service (LOS_IntLock .. LOS_IntRestore) called by a task, or   *)
(* the tick handler.  It may ask for a reschedule (ArchTaskSchedule).      *)

KernelLock(c) ==
    /\ Goto(c, "app", "kernel")
    /\ mask' = [mask EXCEPT ![c] = primask]
    /\ primask' = 1
    /\ UNCHANGED <<pendsv, running, under, ctxmask, mem, level, depth>>

KernelSchedule(c) ==
    /\ Goto(c, "kernel", "kernel")
    /\ pendsv' = TRUE
    /\ UNCHANGED <<primask, running, under, ctxmask, mem, regs, depth>>

\* Mutant: the service unlocks instead of restoring.
KernelUnlocks(c) ==
    /\ Goto(c, "kernel", "app")
    /\ primask' = 0
    /\ UNCHANGED <<pendsv, running, under, ctxmask, mem, regs, depth>>

KernelRestore(c) ==
    /\ Goto(c, "kernel", "app")
    /\ primask' = mask[c]
    /\ UNCHANGED <<pendsv, running, under, ctxmask, mem, regs, depth>>

--------------------------------------------------------------------------
(* The processor.                                                          *)

\* HalPendSV, HalTaskSwitch, TaskContextSwitch: one exception with interrupts
\* masked.  PRIMASK travels with the frame of the task.
SwitchTask(t) ==
    /\ pendsv
    /\ primask = 0
    /\ running \in Tasks
    /\ pendsv' = FALSE
    /\ ctxmask' = [ctxmask EXCEPT ![running] = primask]
    /\ primask' = ctxmask'[t]
    /\ running' = t
    /\ UNCHANGED <<under, mem, pc, regs, depth>>

\* The NVIC starts a handler that is more urgent than the running context.
Preempt(i) ==
    /\ primask = 0
    /\ pc[i] = "idle"
    /\ running \in Isrs => Prio[i] < Prio[running]
    /\ running' = i
    /\ under' = [under EXCEPT ![i] = running]
    /\ pc' = [pc EXCEPT ![i] = "app"]
    /\ UNCHANGED <<primask, pendsv, ctxmask, mem, regs, depth>>

\* A handler returns with its sections left.
Return(i) ==
    /\ depth[i] = 0
    /\ Goto(i, "app", "idle")
    /\ running' = under[i]
    /\ UNCHANGED <<primask, pendsv, under, ctxmask, mem, regs, depth>>

--------------------------------------------------------------------------

\* The steps a context takes on its own once it has called a function.
Step(c) ==
    \/ CheckDepth(c) \/ IntLock(c) \/ SaveState(c) \/ LoadInc(c) \/ StoreInc(c)
    \/ LoadDec(c) \/ StoreDec(c) \/ CheckLevel(c) \/ RestoreState(c)
    \/ KernelRestore(c)

\* What the caller decides.
Choice(c) == CallEnter(c) \/ CallLeave(c) \/ KernelLock(c) \/ KernelSchedule(c)

Next ==
    \/ \E c \in Contexts : Step(c) \/ Choice(c) \/ Spin(c)
    \/ \E t \in Tasks : SwitchTask(t)
    \/ \E i \in Isrs : Preempt(i) \/ Return(i)

Spec == Init /\ [][Next]_vars

LeaveFrom(c, n) == depth[c] = n /\ CallLeave(c)

\* The processor executes what it runs; callers do not stay at a nesting
\* depth for ever; handlers return; no interrupt storm starves PendSV.
Fairness ==
    /\ \A c \in Contexts :
          /\ WF_vars(Step(c))
          /\ \A n \in 1 .. MaxNestDepth : SF_vars(LeaveFrom(c, n))
    /\ \A i \in Isrs : SF_vars(Return(i))
    /\ SF_vars(\E t \in Tasks : SwitchTask(t))

FairSpec == Spec /\ Fairness

--------------------------------------------------------------------------
(* Properties.                                                             *)

Labels == {"idle", "app", "enter", "lock", "store", "inc", "inc_store",
           "dec", "dec_store", "check", "restore", "kernel", "assert"}

TypeOK ==
    /\ primask \in {0, 1}
    /\ pendsv \in BOOLEAN
    /\ running \in Contexts
    /\ under \in [Isrs -> Contexts]
    /\ ctxmask \in [Tasks -> {0, 1}]
    /\ nest_level \in 0 .. MaxNestDepth
    /\ interrupt_states \in [Slots -> {0, 1}]
    /\ pc \in [Contexts -> Labels]
    /\ level \in [Contexts -> Int]
    /\ mask \in [Contexts -> {0, 1}]
    /\ depth \in [Contexts -> Nat]

\* c relies on nobody else running: it is in a critical section, between the
\* lock and the return of port_enter_critical, or in a kernel service.
Inside(c) ==
    \/ depth[c] > 0
    \/ pc[c] \in {"store", "inc", "inc_store", "kernel"}

\* Two contexts are never inside at once, whatever preempts whatever.
MutualExclusion ==
    \A c, d \in Contexts : Inside(c) /\ Inside(d) => c = d

\* PRIMASK is set exactly while the running context is inside: no leave or
\* restore lets interrupts back in too early, none forgets to.
MaskedIffInside ==
    (primask = 1) <=> \E c \in Contexts : Inside(c)

\* Between calls, the global nest_level is the nesting depth of the one
\* context that holds the section, and 0 when nobody does.
NestMatchesDepth ==
    /\ pc[running] \in {"app", "kernel"} => nest_level = depth[running]
    /\ (\A c \in Contexts : ~Inside(c)) => nest_level = 0

\* The index the store uses is in bounds and the same whichever way the
\* compiler orders the subscript and the call, although the check that
\* guards it ran before interrupts were locked.
IndexSafe ==
    \A c \in Contexts :
       pc[c] = "store" => level[c] = nest_level /\ level[c] \in Slots

\* The assertions of both functions blame only a caller that nests too deep.
NoSpuriousAssertion ==
    \A c \in Contexts : pc[c] = "assert" => depth[c] = MaxNestDepth

\* Only the context that is inside moves: nothing preempts it and no task
\* switch replaces it before its outermost leave.
NoDispatchInside ==
    [][running' # running => \A c \in Contexts : depth[c] = 0]_vars

\* The lock is the abstract re-entrant lock.
Lock == INSTANCE GlobalLock WITH hold <- depth
ImplementsGlobalLock == Lock!Spec

Asserted == \E c \in Contexts : pc[c] = "assert"

\* Interrupts come back: whoever masked them lets them in again, or an
\* assertion has stopped the system.
InterruptsComeBack == (primask = 1) ~> (primask = 0 \/ Asserted)

\* A reschedule asked for inside a section is not lost: it is served once
\* the section is left.
RescheduleServed == pendsv ~> (~pendsv \/ Asserted)
==========================================================================
