---------------------- MODULE CriticalSectionProofs ----------------------
(***************************************************************************)
(* Proofs about CriticalSection, for any tasks, handlers, priorities and   *)
(* nesting limit.  LockInv needs nothing of the callers: exclusion and     *)
(* masking survive any of them that leaves what it never entered.  IInv    *)
(* adds what balanced callers keep.                                        *)
(***************************************************************************)
EXTENDS CriticalSection, TLAPS

\* The sections c holds as far as nest_level tells: one less once c has
\* stored the decrement of a section that it does hold.
Held(c) == IF pc[c] \in {"check", "restore"} /\ depth[c] > 0
           THEN depth[c] - 1 ELSE depth[c]

\* How many slots of interrupt_states c has filled.
Filled(c) == IF pc[c] \in {"inc", "inc_store"} THEN depth[c] + 1 ELSE depth[c]

\* PRIMASK as saved at nesting depth n.
SavedAt(n) == IF n = 0 THEN 0 ELSE 1

\* By how much leaves without an enter have lowered nest_level.
Lapse == Held(running) - nest_level

\* What the registers of each context hold.  A register read inside is
\* nest_level still; one read outside may be stale, but is not above 0.
RegisterInv ==
    \A c \in Contexts :
       /\ pc[c] \in {"lock", "store"} => level[c] \in Slots
       /\ pc[c] \in {"lock", "store"} /\ depth[c] = 0 => level[c] = 0
       /\ pc[c] \in {"lock", "store", "dec_store", "check", "restore"} /\ depth[c] > 0 =>
             level[c] = nest_level
       /\ pc[c] = "inc_store" => level[c] = nest_level
       /\ pc[c] = "dec_store" /\ depth[c] = 0 => level[c] <= 0
       /\ pc[c] = "check" /\ depth[c] = 0 => level[c] < 0
       /\ pc[c] = "restore" => depth[c] > 0 /\ level[c] >= 0
       /\ pc[c] \in {"store", "kernel"} => mask[c] = SavedAt(depth[c])

\* Only the running context can be inside, and then PRIMASK is set.
ExclusionInv ==
    /\ \A c \in Contexts : Inside(c) => c = running
    /\ primask = 1 <=> Inside(running)

\* The globals belong to the running context.  A leave without an enter that
\* is not yet found out has left nest_level negative.
MemoryInv ==
    /\ Lapse >= 0
    /\ (\E c \in Contexts : pc[c] = "check" /\ depth[c] = 0) => Lapse > 0
    /\ \A k \in Slots :
          k + Lapse < Filled(running) => interrupt_states[k] = SavedAt(k + Lapse)

\* No saved frame has interrupts masked.
FrameInv == \A t \in Tasks : ctxmask[t] = 0

\* Types of the variables; that nest_level stays within its bounds follows
\* from the whole of IInv.
Typed ==
    /\ primask \in {0, 1}
    /\ pendsv \in BOOLEAN
    /\ running \in Contexts
    /\ under \in [Isrs -> Contexts]
    /\ ctxmask \in [Tasks -> {0, 1}]
    /\ nest_level \in Int
    /\ interrupt_states \in [Slots -> {0, 1}]
    /\ pc \in [Contexts -> Labels]
    /\ level \in [Contexts -> Int]
    /\ mask \in [Contexts -> {0, 1}]
    /\ depth \in [Contexts -> Nat]

LockInv ==
    /\ Typed
    /\ RegisterInv
    /\ ExclusionInv
    /\ MemoryInv
    /\ FrameInv

Entering == {"lock", "store", "inc", "inc_store"}
Leaving  == {"dec", "dec_store", "check", "restore"}

\* Where each context may be at the depth it has, if callers are balanced.
DepthInv ==
    \A c \in Contexts :
       /\ depth[c] <= MaxNestDepth
       /\ pc[c] \in Entering => depth[c] < MaxNestDepth
       /\ pc[c] \in Leaving => depth[c] > 0
       /\ pc[c] = "assert" => depth[c] = MaxNestDepth

\* Then nest_level is the nesting of the running context.
BalanceInv == DepthInv /\ Lapse = 0

IInv == LockInv /\ BalanceInv

--------------------------------------------------------------------------
(* The invariants hold initially and imply the properties.                 *)

LEMMA InitInv == Init => LockInv /\ BalanceInv
<1> SUFFICES ASSUME Init PROVE LockInv /\ BalanceInv
    OBVIOUS
<1> USE ContextsAssumption, DepthAssumption
<1>1. Typed
    <2>1. running \in Contexts
        BY DEF Init, Contexts
    <2>2. pc \in [Contexts -> Labels]
        BY DEF Init, Labels
    <2>3. under \in [Isrs -> Contexts]
        BY <2>1 DEF Init
    <2>4. ctxmask \in [Tasks -> {0, 1}] /\ interrupt_states \in [Slots -> {0, 1}]
        BY DEF Init
    <2>5. /\ level \in [Contexts -> Int]
          /\ mask \in [Contexts -> {0, 1}]
          /\ depth \in [Contexts -> Nat]
        BY DEF Init
    <2>6. primask \in {0, 1} /\ nest_level \in Int
        BY DEF Init
    <2>7. pendsv \in BOOLEAN
        BY Zenon DEF Init
    <2> QED BY <2>1, <2>2, <2>3, <2>4, <2>5, <2>6, <2>7 DEF Typed
<1>2. \A c \in Contexts : depth[c] = 0 /\ pc[c] \in {"app", "idle"}
    BY DEF Init
<1>3. DepthInv /\ RegisterInv
    BY <1>2 DEF DepthInv, RegisterInv, Leaving
<1>4. ExclusionInv
    BY <1>1, <1>2 DEF Init, Typed, ExclusionInv, Inside
<1>5. Lapse = 0 /\ Filled(running) = 0
    BY <1>1, <1>2 DEF Init, Typed, Lapse, Held, Filled
<1>6. MemoryInv
    BY <1>2, <1>5 DEF MemoryInv, Slots
<1>7. FrameInv
    BY DEF Init, FrameInv
<1> QED BY <1>1, <1>3, <1>4, <1>5, <1>6, <1>7 DEF LockInv, BalanceInv

LEMMA LockInvImplies == LockInv => MutualExclusion /\ MaskedIffInside
BY DEF LockInv, Typed, ExclusionInv, MutualExclusion, MaskedIffInside

\* Where nobody is inside, nothing is held.
LEMMA NobodyInside ==
    ASSUME LockInv, primask = 0
    PROVE  \A c \in Contexts : ~Inside(c) /\ depth[c] = 0 /\ Held(c) = 0 /\ Filled(c) = 0
BY DEF LockInv, Typed, ExclusionInv, Inside, Held, Filled

LEMMA IInvImplies ==
    IInv => /\ TypeOK
            /\ NestMatchesDepth
            /\ IndexSafe
            /\ NoSpuriousAssertion
<1> SUFFICES ASSUME IInv
             PROVE  /\ TypeOK
                    /\ NestMatchesDepth
                    /\ IndexSafe
                    /\ NoSpuriousAssertion
    OBVIOUS
<1> USE DEF IInv, LockInv, BalanceInv
<1>0. nest_level = Held(running)
    BY DEF Typed, Lapse, Held
<1>1. TypeOK
    <2>1. nest_level \in 0 .. MaxNestDepth
        BY <1>0, DepthAssumption DEF Held, DepthInv, Typed
    <2> QED BY <2>1 DEF Typed, TypeOK
<1>2. NestMatchesDepth
    <2>1. pc[running] \in {"app", "kernel"} => nest_level = depth[running]
        BY <1>0 DEF Held
    <2>2. ~Inside(running) => nest_level = 0
        BY <1>0 DEF Held, Inside, Typed
    <2> QED BY <2>1, <2>2 DEF NestMatchesDepth, Typed
<1>3. IndexSafe
    <2> SUFFICES ASSUME NEW c \in Contexts, pc[c] = "store"
                 PROVE  level[c] = nest_level /\ level[c] \in Slots
        BY DEF IndexSafe
    <2>1. c = running
        BY DEF ExclusionInv, Inside
    <2>2. depth[c] = 0 => nest_level = 0
        BY <1>0, <2>1 DEF Held
    <2> QED BY <2>2 DEF RegisterInv, Typed
<1>4. NoSpuriousAssertion
    BY DEF DepthInv, NoSpuriousAssertion
<1> QED BY <1>1, <1>2, <1>3, <1>4

--------------------------------------------------------------------------
(* The steps of port_enter_critical.                                       *)

LEMMA CallEnterInv ==
    ASSUME LockInv, NEW c \in Contexts, CallEnter(c)
    PROVE  LockInv'
<1> USE DepthAssumption DEF LockInv, CallEnter, Goto, cpu, mem, regs
<1>1. Typed'
    BY DEF Typed, Labels
<1>2. RegisterInv'
    BY DEF RegisterInv
<1>3. ExclusionInv'
    BY DEF ExclusionInv, Inside
<1>4. MemoryInv'
    BY DEF MemoryInv, Lapse, Held, Filled
<1>5. FrameInv'
    BY DEF FrameInv
<1> QED BY <1>1, <1>2, <1>3, <1>4, <1>5

LEMMA CheckDepthInv ==
    ASSUME LockInv, NEW c \in Contexts, CheckDepth(c)
    PROVE  LockInv'
<1> USE DepthAssumption DEF LockInv, CheckDepth, Goto, cpu, mem, regs
<1>1. Typed'
    BY DEF Typed, Labels
<1>2. RegisterInv'
    BY DEF Typed, RegisterInv, MemoryInv, Lapse, Held, TooDeep, Slots
<1>3. ExclusionInv'
    BY DEF ExclusionInv, Inside
<1>4. MemoryInv'
    BY DEF MemoryInv, Lapse, Held, Filled
<1>5. FrameInv'
    BY DEF FrameInv
<1> QED BY <1>1, <1>2, <1>3, <1>4, <1>5

LEMMA IntLockInv ==
    ASSUME LockInv, NEW c \in Contexts, IntLock(c)
    PROVE  LockInv'
<1> USE DepthAssumption DEF LockInv, IntLock, Goto, cpu, mem, regs
<1>1. Typed'
    BY DEF Typed, Labels
<1>2. RegisterInv'
    BY DEF Typed, RegisterInv, ExclusionInv, Inside, SavedAt
<1>3. ExclusionInv'
    BY DEF Typed, ExclusionInv, Inside
<1>4. MemoryInv'
    BY DEF MemoryInv, Lapse, Held, Filled
<1>5. FrameInv'
    BY DEF FrameInv
<1> QED BY <1>1, <1>2, <1>3, <1>4, <1>5

LEMMA SaveStateInv ==
    ASSUME LockInv, NEW c \in Contexts, SaveState(c)
    PROVE  LockInv'
<1> USE DepthAssumption DEF LockInv, SaveState, Goto, cpu, mem, regs
<1>1. Typed'
    BY DEF Typed, Labels
<1>2. RegisterInv'
    BY DEF RegisterInv
<1>3. ExclusionInv'
    BY DEF ExclusionInv, Inside
<1>4. MemoryInv'
    BY DEF Typed, MemoryInv, RegisterInv, Lapse, Held, Filled, SavedAt, Slots
<1>5. FrameInv'
    BY DEF FrameInv
<1> QED BY <1>1, <1>2, <1>3, <1>4, <1>5

LEMMA LoadIncInv ==
    ASSUME LockInv, NEW c \in Contexts, LoadInc(c)
    PROVE  LockInv'
<1> USE DepthAssumption DEF LockInv, LoadInc, Goto, cpu, mem, regs
<1>1. Typed'
    BY DEF Typed, Labels
<1>2. RegisterInv'
    BY DEF Typed, RegisterInv
<1>3. ExclusionInv'
    BY DEF ExclusionInv, Inside
<1>4. MemoryInv'
    BY DEF MemoryInv, Lapse, Held, Filled
<1>5. FrameInv'
    BY DEF FrameInv
<1> QED BY <1>1, <1>2, <1>3, <1>4, <1>5

LEMMA StoreIncInv ==
    ASSUME LockInv, NEW c \in Contexts, StoreInc(c)
    PROVE  LockInv'
<1> USE DepthAssumption DEF LockInv, StoreInc, Goto, cpu, mem, regs
<1>1. Typed'
    BY DEF Typed, Labels
<1>2. RegisterInv'
    BY DEF Typed, RegisterInv, ExclusionInv, Inside
<1>3. ExclusionInv'
    BY DEF Typed, ExclusionInv, Inside
<1>4. MemoryInv'
    BY DEF Typed, MemoryInv, RegisterInv, Lapse, Held, Filled
<1>5. FrameInv'
    BY DEF FrameInv
<1> QED BY <1>1, <1>2, <1>3, <1>4, <1>5

--------------------------------------------------------------------------
(* The steps of port_leave_critical.                                       *)

LEMMA CallLeaveInv ==
    ASSUME LockInv, NEW c \in Contexts, CallLeave(c)
    PROVE  LockInv'
<1> USE DepthAssumption DEF LockInv, CallLeave, Goto, cpu, mem, regs
<1>1. Typed'
    BY DEF Typed, Labels
<1>2. RegisterInv'
    BY DEF RegisterInv
<1>3. ExclusionInv'
    BY DEF ExclusionInv, Inside
<1>4. MemoryInv'
    BY DEF MemoryInv, Lapse, Held, Filled
<1>5. FrameInv'
    BY DEF FrameInv
<1> QED BY <1>1, <1>2, <1>3, <1>4, <1>5

LEMMA LoadDecInv ==
    ASSUME LockInv, NEW c \in Contexts, LoadDec(c)
    PROVE  LockInv'
<1> USE DepthAssumption DEF LockInv, LoadDec, Goto, cpu, mem, regs
<1>1. Typed'
    BY DEF Typed, Labels
<1>2. RegisterInv'
    BY DEF Typed, RegisterInv, MemoryInv, Lapse, Held
<1>3. ExclusionInv'
    BY DEF ExclusionInv, Inside
<1>4. MemoryInv'
    BY DEF MemoryInv, Lapse, Held, Filled
<1>5. FrameInv'
    BY DEF FrameInv
<1> QED BY <1>1, <1>2, <1>3, <1>4, <1>5

LEMMA StoreDecInv ==
    ASSUME LockInv, NEW c \in Contexts, StoreDec(c)
    PROVE  LockInv'
<1> USE DepthAssumption DEF LockInv, StoreDec, Goto, cpu, mem, regs
<1>1. Typed'
    BY DEF Typed, Labels
<1>2. RegisterInv'
    BY DEF Typed, RegisterInv, ExclusionInv, Inside
<1>3. ExclusionInv'
    BY DEF ExclusionInv, Inside
<1>4. MemoryInv'
    BY DEF Typed, MemoryInv, RegisterInv, Lapse, Held, Filled, Slots
<1>5. FrameInv'
    BY DEF FrameInv
<1> QED BY <1>1, <1>2, <1>3, <1>4, <1>5

LEMMA CheckLevelInv ==
    ASSUME LockInv, NEW c \in Contexts, CheckLevel(c)
    PROVE  LockInv'
<1> USE DepthAssumption DEF LockInv, CheckLevel, Goto, cpu, mem, regs
<1>1. Typed'
    BY DEF Typed, Labels
<1>2. RegisterInv'
    BY DEF Typed, RegisterInv, MemoryInv, Lapse, Held
<1>3. ExclusionInv'
    BY DEF ExclusionInv, Inside
<1>4. MemoryInv'
    BY DEF Typed, MemoryInv, RegisterInv, Lapse, Held, Filled, Slots
<1>5. FrameInv'
    BY DEF FrameInv
<1> QED BY <1>1, <1>2, <1>3, <1>4, <1>5

LEMMA RestoreStateInv ==
    ASSUME LockInv, NEW c \in Contexts, RestoreState(c)
    PROVE  LockInv'
<1> USE DepthAssumption DEF LockInv, RestoreState, Goto, cpu, mem, regs
<1>1. Typed'
    BY DEF Typed, Labels
<1>2. RegisterInv'
    BY DEF Typed, RegisterInv
<1>3. ExclusionInv'
    BY DEF Typed, ExclusionInv, RegisterInv, MemoryInv, Inside, Lapse, Held, Filled,
           SavedAt
<1>4. MemoryInv'
    BY DEF Typed, MemoryInv, Lapse, Held, Filled, Slots
<1>5. FrameInv'
    BY DEF FrameInv
<1> QED BY <1>1, <1>2, <1>3, <1>4, <1>5

--------------------------------------------------------------------------
(* The assertion, kernel services and the processor.                       *)

LEMMA SpinInv ==
    ASSUME LockInv, NEW c \in Contexts, Spin(c)
    PROVE  LockInv'
<1> USE DepthAssumption DEF LockInv, Spin, Goto, cpu, mem, regs
<1>1. Typed'
    BY DEF Typed, Labels
<1>2. RegisterInv'
    BY DEF RegisterInv
<1>3. ExclusionInv'
    BY DEF ExclusionInv, Inside
<1>4. MemoryInv'
    BY DEF MemoryInv, Lapse, Held, Filled
<1>5. FrameInv'
    BY DEF FrameInv
<1> QED BY <1>1, <1>2, <1>3, <1>4, <1>5

LEMMA KernelLockInv ==
    ASSUME LockInv, NEW c \in Contexts, KernelLock(c)
    PROVE  LockInv'
<1> USE DepthAssumption DEF LockInv, KernelLock, Goto, cpu, mem, regs
<1>1. Typed'
    BY DEF Typed, Labels
<1>2. RegisterInv'
    BY DEF Typed, RegisterInv, ExclusionInv, Inside, SavedAt
<1>3. ExclusionInv'
    BY DEF Typed, ExclusionInv, Inside
<1>4. MemoryInv'
    BY DEF MemoryInv, Lapse, Held, Filled
<1>5. FrameInv'
    BY DEF FrameInv
<1> QED BY <1>1, <1>2, <1>3, <1>4, <1>5

LEMMA KernelScheduleInv ==
    ASSUME LockInv, NEW c \in Contexts, KernelSchedule(c)
    PROVE  LockInv'
<1> USE DepthAssumption DEF LockInv, KernelSchedule, Goto, cpu, mem, regs
<1>1. Typed'
    BY DEF Typed, Labels
<1>2. RegisterInv'
    BY DEF RegisterInv
<1>3. ExclusionInv'
    BY DEF ExclusionInv, Inside
<1>4. MemoryInv'
    BY DEF MemoryInv, Lapse, Held, Filled
<1>5. FrameInv'
    BY DEF FrameInv
<1> QED BY <1>1, <1>2, <1>3, <1>4, <1>5

LEMMA KernelRestoreInv ==
    ASSUME LockInv, NEW c \in Contexts, KernelRestore(c)
    PROVE  LockInv'
<1> USE DepthAssumption DEF LockInv, KernelRestore, Goto, cpu, mem, regs
<1>1. Typed'
    BY DEF Typed, Labels
<1>2. RegisterInv'
    BY DEF RegisterInv
<1>3. ExclusionInv'
    BY DEF Typed, ExclusionInv, RegisterInv, Inside, SavedAt
<1>4. MemoryInv'
    BY DEF MemoryInv, Lapse, Held, Filled
<1>5. FrameInv'
    BY DEF FrameInv
<1> QED BY <1>1, <1>2, <1>3, <1>4, <1>5

LEMMA SwitchTaskInv ==
    ASSUME LockInv, NEW t \in Tasks, SwitchTask(t)
    PROVE  LockInv'
<1> USE DEF LockInv, SwitchTask
<1>1. t \in Contexts /\ UNCHANGED <<mem, regs, depth>>
    BY DEF Contexts
<1>2. primask = 0 /\ primask' = 0 /\ running' = t
    BY DEF FrameInv
<1>3. Typed'
    BY <1>1, <1>2 DEF Typed, mem, regs
<1>4. RegisterInv'
    BY <1>1 DEF RegisterInv, mem, regs
<1>5. \A c \in Contexts : ~Inside(c) /\ depth[c] = 0 /\ Held(c) = 0 /\ Filled(c) = 0
    BY <1>2, NobodyInside
<1>6. ExclusionInv'
    BY <1>1, <1>2, <1>5 DEF ExclusionInv, Inside
<1>7. MemoryInv'
    <2>1. Lapse' = Lapse /\ Filled(running)' = 0
        BY <1>1, <1>2, <1>5 DEF Typed, Lapse, Held, Filled, mem
    <2>2. \A c \in Contexts : pc'[c] = "check" /\ depth'[c] = 0 => pc[c] = "check" /\ depth[c] = 0
        BY <1>1 DEF Typed
    <2> QED BY <2>1, <2>2 DEF Typed, MemoryInv, Slots, Lapse, Held
<1>8. FrameInv'
    BY <1>2 DEF FrameInv
<1> QED BY <1>3, <1>4, <1>6, <1>7, <1>8

LEMMA PreemptInv ==
    ASSUME LockInv, NEW i \in Isrs, Preempt(i)
    PROVE  LockInv'
<1> USE DEF LockInv, Preempt
<1>1. i \in Contexts /\ UNCHANGED <<mem, regs, depth>>
    BY DEF Contexts
<1>2. primask = 0 /\ primask' = 0 /\ running' = i
    BY DEF FrameInv
<1>3. Typed'
    BY <1>1, <1>2 DEF Typed, Labels, mem, regs
<1>4. RegisterInv'
    BY <1>1 DEF RegisterInv, mem, regs
<1>5. \A c \in Contexts : ~Inside(c) /\ depth[c] = 0 /\ Held(c) = 0 /\ Filled(c) = 0
    BY <1>2, NobodyInside
<1>6. ExclusionInv'
    BY <1>1, <1>2, <1>5 DEF ExclusionInv, Inside
<1>7. MemoryInv'
    <2>1. Lapse' = Lapse /\ Filled(running)' = 0
        BY <1>1, <1>2, <1>5 DEF Typed, Lapse, Held, Filled, mem
    <2>2. \A c \in Contexts : pc'[c] = "check" /\ depth'[c] = 0 => pc[c] = "check" /\ depth[c] = 0
        BY <1>1 DEF Typed
    <2> QED BY <2>1, <2>2 DEF Typed, MemoryInv, Slots, Lapse, Held
<1>8. FrameInv'
    BY <1>2 DEF FrameInv
<1> QED BY <1>3, <1>4, <1>6, <1>7, <1>8

LEMMA ReturnInv ==
    ASSUME LockInv, NEW i \in Isrs, Return(i)
    PROVE  LockInv'
<1> USE DEF LockInv, Return, Goto
<1>1. i \in Contexts /\ running = i /\ running' \in Contexts /\ UNCHANGED <<primask, mem, regs, depth>>
    BY DEF Typed, Contexts
<1>2. primask = 0
    BY <1>1 DEF Typed, ExclusionInv, Inside
<1>3. Typed'
    BY <1>1 DEF Typed, Labels, mem, regs
<1>4. RegisterInv'
    BY <1>1 DEF Typed, RegisterInv, mem, regs
<1>5. \A c \in Contexts : ~Inside(c) /\ depth[c] = 0 /\ Held(c) = 0 /\ Filled(c) = 0
    BY <1>2, NobodyInside
<1>6. ExclusionInv'
    BY <1>1, <1>2, <1>5 DEF Typed, ExclusionInv, Inside
<1>7. MemoryInv'
    <2>1. Lapse' = Lapse /\ Filled(running)' = 0
        BY <1>1, <1>2, <1>5 DEF Typed, Lapse, Held, Filled, mem
    <2>2. \A c \in Contexts : pc'[c] = "check" /\ depth'[c] = 0 => pc[c] = "check" /\ depth[c] = 0
        BY <1>1 DEF Typed
    <2> QED BY <2>1, <2>2 DEF Typed, MemoryInv, Slots, Lapse, Held
<1>8. FrameInv'
    BY DEF FrameInv
<1> QED BY <1>3, <1>4, <1>6, <1>7, <1>8

LEMMA NextInv ==
    ASSUME LockInv, [Next]_vars
    PROVE  LockInv'
<1>1. ASSUME NEW c \in Contexts, Step(c) PROVE LockInv'
    BY <1>1, CheckDepthInv, IntLockInv, SaveStateInv, LoadIncInv, StoreIncInv,
       LoadDecInv, StoreDecInv, CheckLevelInv, RestoreStateInv, KernelRestoreInv
    DEF Step
<1>2. ASSUME NEW c \in Contexts, Choice(c) PROVE LockInv'
    BY <1>2, CallEnterInv, CallLeaveInv, KernelLockInv, KernelScheduleInv DEF Choice
<1>3. ASSUME NEW c \in Contexts, Spin(c) PROVE LockInv'
    BY <1>3, SpinInv
<1>4. ASSUME NEW t \in Tasks, SwitchTask(t) PROVE LockInv'
    BY <1>4, SwitchTaskInv
<1>5. ASSUME NEW i \in Isrs, Preempt(i) \/ Return(i) PROVE LockInv'
    BY <1>5, PreemptInv, ReturnInv
<1>6. CASE UNCHANGED vars
    <2> USE <1>6 DEF vars, cpu, mem, regs
    <2>1. Typed' /\ RegisterInv' /\ FrameInv'
        BY DEF LockInv, Typed, RegisterInv, FrameInv
    <2>2. ExclusionInv' /\ MemoryInv'
        BY DEF LockInv, ExclusionInv, MemoryInv, Inside, Lapse, Held, Filled
    <2> QED BY <2>1, <2>2 DEF LockInv
<1> QED BY <1>1, <1>2, <1>3, <1>4, <1>5, <1>6 DEF Next

--------------------------------------------------------------------------
(* What balanced callers keep besides.                                     *)

LEMMA StepBalance ==
    ASSUME IInv, NEW c \in Contexts, Step(c) \/ Spin(c)
    PROVE  BalanceInv'
<1> USE DepthAssumption DEF IInv, LockInv, BalanceInv, Goto, cpu, mem, regs
<1>1. nest_level = Held(running)
    BY DEF Typed, Lapse, Held
<1>2. CASE CheckDepth(c)
    BY <1>1, <1>2 DEF CheckDepth, Typed, DepthInv, Lapse, Held, Entering, Leaving, TooDeep
<1>3. CASE IntLock(c) \/ SaveState(c) \/ LoadInc(c) \/ KernelRestore(c) \/ Spin(c) \/ LoadDec(c)
    BY <1>3 DEF IntLock, SaveState, LoadInc, KernelRestore, Spin, LoadDec, Typed, DepthInv, Lapse, Held,
                Entering, Leaving
<1>4. CASE StoreInc(c)
    BY <1>4 DEF StoreInc, Typed, RegisterInv, DepthInv, Lapse, Held, Entering, Leaving
<1>5. CASE StoreDec(c)
    BY <1>5 DEF StoreDec, Typed, RegisterInv, DepthInv, Lapse, Held, Entering, Leaving
<1>6. CASE CheckLevel(c)
    BY <1>1, <1>6 DEF CheckLevel, Typed, RegisterInv, DepthInv, Lapse, Held, Entering, Leaving
<1>7. CASE RestoreState(c)
    BY <1>7 DEF RestoreState, Typed, DepthInv, Lapse, Held, Entering, Leaving
<1> QED BY <1>2, <1>3, <1>4, <1>5, <1>6, <1>7 DEF Step

LEMMA ChoiceBalance ==
    ASSUME Unbalanced = {}, IInv, NEW c \in Contexts, Choice(c)
    PROVE  BalanceInv'
BY DEF IInv, LockInv, BalanceInv, Choice, CallEnter, CallLeave, KernelLock, KernelSchedule,
       Goto, cpu, mem, regs, Typed, DepthInv, Lapse, Held, Entering, Leaving

LEMMA DispatchBalance ==
    ASSUME IInv,
           \/ \E t \in Tasks : SwitchTask(t)
           \/ \E i \in Isrs : Preempt(i) \/ Return(i)
    PROVE  BalanceInv'
<1> USE DEF IInv, LockInv, BalanceInv
<1>1. PICK d \in Contexts : running' = d
    BY DEF SwitchTask, Preempt, Return, Typed, Contexts
<1>2. UNCHANGED <<mem, depth>> /\ primask = 0
    <2>1. CASE \E t \in Tasks : SwitchTask(t)
        BY <2>1 DEF SwitchTask
    <2>2. CASE \E i \in Isrs : Preempt(i)
        BY <2>2 DEF Preempt
    <2>3. CASE \E i \in Isrs : Return(i)
        BY <2>3 DEF Return, Goto, Typed, ExclusionInv, Inside
    <2> QED BY <2>1, <2>2, <2>3
<1>3. \A c \in Contexts : depth[c] = 0 /\ Held(c) = 0
    BY <1>2, NobodyInside
<1>4. \A c \in Contexts : pc'[c] = pc[c] \/ pc'[c] \in {"app", "idle"}
    BY DEF SwitchTask, Preempt, Return, Goto, Typed
<1>5. DepthInv'
    BY <1>2, <1>4 DEF DepthInv, Entering, Leaving
<1>6. Lapse' = Lapse
    BY <1>1, <1>2, <1>3 DEF Typed, Lapse, Held, mem
<1> QED BY <1>5, <1>6

LEMMA NextIInv ==
    ASSUME Unbalanced = {}, IInv, [Next]_vars
    PROVE  IInv'
<1>1. LockInv'
    BY NextInv DEF IInv
<1>2. CASE UNCHANGED vars
    BY <1>1, <1>2 DEF vars, cpu, mem, regs, IInv, BalanceInv, DepthInv, Lapse, Held
<1>3. CASE Next
    BY <1>1, <1>3, StepBalance, ChoiceBalance, DispatchBalance DEF Next, IInv
<1> QED BY <1>2, <1>3

--------------------------------------------------------------------------
(* The theorems.                                                           *)

\* What holds whatever the callers do.
THEOREM LockInvariance == Spec => []LockInv
<1>1. LockInv /\ [Next]_vars => LockInv'
    BY NextInv
<1> QED BY InitInv, <1>1, PTL DEF Spec

\* No two contexts are ever inside a critical section or a kernel service at
\* once, for any tasks, handlers, priorities and nesting limit, and any
\* callers, those included that leave sections they never entered (as long
\* as no access goes out of the array, where C says nothing more).
THEOREM Exclusion == Spec => []MutualExclusion
BY LockInvariance, LockInvImplies, PTL

\* Interrupts are masked exactly while some context is inside, for the same
\* callers.
THEOREM Masking == Spec => []MaskedIffInside
BY LockInvariance, LockInvImplies, PTL

\* The processor never changes hands inside a critical section.
THEOREM Atomicity == Spec => NoDispatchInside
<1>1. LockInv /\ [Next]_vars => [running' # running => \A c \in Contexts : depth[c] = 0]_vars
    <2> SUFFICES ASSUME LockInv, Next, running' # running
                 PROVE  \A c \in Contexts : depth[c] = 0
        BY DEF vars, cpu
    <2>1. PICK d \in Contexts : (\E t \in Tasks : SwitchTask(t)) \/ Preempt(d) \/ Return(d)
        BY DEF Next, Step, Choice, Spin, CallEnter, CallLeave, CheckDepth, IntLock,
               SaveState, LoadInc, StoreInc, LoadDec, StoreDec, CheckLevel, RestoreState,
               KernelLock, KernelSchedule, KernelRestore, Contexts, cpu
    <2>2. CASE (\E t \in Tasks : SwitchTask(t)) \/ Preempt(d)
        BY <2>2, NobodyInside DEF SwitchTask, Preempt
    <2>3. CASE Return(d)
        BY <2>3 DEF Return, Goto, LockInv, ExclusionInv, Typed, Inside
    <2> QED BY <2>1, <2>2, <2>3
<1> QED BY LockInvariance, <1>1, PTL DEF Spec, NoDispatchInside

\* The inductive invariant of every system of balanced callers.
THEOREM Invariance ==
    ASSUME Unbalanced = {}
    PROVE  Spec => []IInv
<1>1. IInv /\ [Next]_vars => IInv'
    BY NextIInv
<1>2. Init => IInv
    BY InitInv DEF IInv
<1> QED BY <1>1, <1>2, PTL DEF Spec

\* Every variable keeps its type; nest_level never leaves 0 .. MaxNestDepth.
THEOREM TypeCorrect ==
    ASSUME Unbalanced = {}
    PROVE  Spec => []TypeOK
BY Invariance, IInvImplies, PTL

\* nest_level counts the nesting of the holder and of nobody else.
THEOREM Nesting ==
    ASSUME Unbalanced = {}
    PROVE  Spec => []NestMatchesDepth
BY Invariance, IInvImplies, PTL

\* The store to interrupt_states is in bounds and does not depend on the
\* evaluation order, although its guard runs with interrupts enabled.
THEOREM StoreInBounds ==
    ASSUME Unbalanced = {}
    PROVE  Spec => []IndexSafe
BY Invariance, IInvImplies, PTL

\* platform_raise_assertion is reached only by nesting past the limit.
THEOREM AssertionsAreFair ==
    ASSUME Unbalanced = {}
    PROVE  Spec => []NoSpuriousAssertion
BY Invariance, IInvImplies, PTL

--------------------------------------------------------------------------
(* The code implements the abstract lock.                                  *)

LEMMA StepRefines ==
    ASSUME IInv, NEW c \in Contexts, Step(c) \/ Choice(c) \/ Spin(c)
    PROVE  [Lock!Next]_(Lock!vars)
<1> USE DEF IInv, LockInv, BalanceInv
<1>1. CASE StoreInc(c)
    <2>1. depth[c] < MaxNestDepth
        BY <1>1 DEF StoreInc, Goto, DepthInv, Entering
    <2>2. \A d \in Contexts \ {c} : depth[d] = 0
        BY <1>1 DEF StoreInc, Goto, Typed, ExclusionInv, Inside
    <2>3. Lock!Enter(c)
        BY <1>1, <2>1, <2>2 DEF StoreInc, Goto, Lock!Enter, cpu
    <2> QED BY <2>3 DEF Lock!Next
<1>2. CASE RestoreState(c)
    <2>1. depth[c] > 0
        BY <1>2 DEF RestoreState, Goto, DepthInv, Leaving
    <2>2. Lock!Leave(c)
        BY <1>2, <2>1 DEF RestoreState, Goto, Typed, Lock!Leave
    <2> QED BY <2>2 DEF Lock!Next
<1>3. CASE ~StoreInc(c) /\ ~RestoreState(c)
    <2>1. UNCHANGED <<depth, running>>
        BY <1>3 DEF Step, Choice, Spin, CallEnter, CallLeave, CheckDepth, IntLock,
               SaveState, LoadInc, LoadDec, StoreDec, CheckLevel,
               KernelLock, KernelSchedule, KernelRestore, cpu
    <2> QED BY <2>1 DEF Lock!vars
<1> QED BY <1>1, <1>2, <1>3

LEMMA DispatchRefines ==
    ASSUME IInv,
           \/ \E t \in Tasks : SwitchTask(t)
           \/ \E i \in Isrs : Preempt(i) \/ Return(i)
    PROVE  Lock!Next
<1> USE DEF IInv, LockInv
<1>1. UNCHANGED depth /\ primask = 0
    <2>1. CASE \E t \in Tasks : SwitchTask(t)
        BY <2>1 DEF SwitchTask
    <2>2. CASE \E i \in Isrs : Preempt(i)
        BY <2>2 DEF Preempt
    <2>3. CASE \E i \in Isrs : Return(i)
        BY <2>3 DEF Return, Goto, Typed, ExclusionInv, Inside
    <2> QED BY <2>1, <2>2, <2>3
<1>2. PICK d \in Contexts : running' = d
    BY DEF SwitchTask, Preempt, Return, Typed, Contexts
<1>3. Lock!Dispatch(d)
    BY <1>1, <1>2, NobodyInside DEF Lock!Dispatch, Lock!Free
<1> QED BY <1>3 DEF Lock!Next

\* port_enter_critical and port_leave_critical are one re-entrant lock that a
\* single context holds, and that keeps the processor while it is held.
THEOREM Refinement ==
    ASSUME Unbalanced = {}
    PROVE  Spec => ImplementsGlobalLock
<1>1. Init => Lock!Init
    BY DEF Init, Lock!Init, Contexts
<1>2. IInv /\ [Next]_vars => [Lock!Next]_(Lock!vars)
    <2> SUFFICES ASSUME IInv, [Next]_vars PROVE [Lock!Next]_(Lock!vars)
        OBVIOUS
    <2>1. CASE \E c \in Contexts : Step(c) \/ Choice(c) \/ Spin(c)
        BY <2>1, StepRefines
    <2>2. CASE \/ \E t \in Tasks : SwitchTask(t)
               \/ \E i \in Isrs : Preempt(i) \/ Return(i)
        BY <2>2, DispatchRefines
    <2>3. CASE UNCHANGED vars
        BY <2>3 DEF vars, cpu, Lock!vars
    <2> QED BY <2>1, <2>2, <2>3 DEF Next
<1> QED BY Invariance, <1>1, <1>2, PTL DEF Spec, ImplementsGlobalLock, Lock!Spec
==========================================================================
