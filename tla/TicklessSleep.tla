--------------------------- MODULE TicklessSleep ---------------------------
(***************************************************************************)
(* The LOSCFG_KERNEL_LOWPOWER code of hal_liteos/gen_os_impl.c: how long   *)
(* the idle task sleeps, what the SysTick counter is made to do meanwhile, *)
(* and how much time the kernel is told has passed.                        *)
(*                                                                         *)
(* The SysTick counter, the power manager that calls these functions and   *)
(* the sleep itself are external.  The counter runs from the slow clock;   *)
(* it takes a written LOAD at its next clock, and wraps after LOAD + 1.    *)
(* A tick that comes under the interrupt lock stays pending, and a pending *)
(* tick ends the sleep at once; the locked code takes less than a tick.    *)
(***************************************************************************)
EXTENDS Integers

CONSTANTS
    CyclesPerTick,  \* RTC_CYCLES_PER_TICK
    TicksPerSecond, \* LOSCFG_BASE_CORE_TICK_PER_SECOND
    Missed,         \* MISSED_COUNTS_FACTOR
    ClockRatio,     \* SYSCTRL_GetPLLClk() / RTC_CLK_FREQ
    LoadSize,       \* 2^24: LOAD has 24 bits
    WordSize,       \* 2^32
    Requests,       \* values of nextResponseTime
    Latency,        \* bound of the model: clocks from the wake-up to its code
    MaxTicked       \* bound of the model: ticks taken before the counter is armed

\* STOPPED_TIMER_COMPENSATION: slow clocks that pass while the counter is stopped.
Compensation == Missed \div ClockRatio

ASSUME ClockAssumption ==
    /\ CyclesPerTick \in Nat \ {0, 1} /\ TicksPerSecond \in Nat \ {0}
    /\ CyclesPerTick < LoadSize
    /\ Missed \in Nat \ {0} /\ ClockRatio \in Nat \ {0}
    /\ 2 * Compensation < CyclesPerTick
    /\ LoadSize \in Nat /\ WordSize \in Nat /\ 2 * LoadSize <= WordSize
    /\ Requests \subseteq Nat /\ Latency \in Nat /\ MaxTicked \in Nat \ {0}

VARIABLES
    sleepTime,      \* g_SleepTime
    load,           \* SysTick LOAD
    current,        \* SysTick CURRENT, while the counter is stopped
    flag,           \* COUNTFLAG, and with it the tick interrupt of this sleep
    reload,         \* ulReloadValue
    primask,
    saved,          \* intSave
    pc,
    request,        \* nextResponseTime of this sleep
    caller,         \* PRIMASK when UserLpTimeStart was called
    ticked,         \* ticks taken since then, before the counter was armed
    pending,        \* a tick waits for the lock, its interrupt pending
    armed,          \* g_SleepTime when the counter was armed
    clocks,         \* clocks since the last tick boundary, once asleep
    phase,          \* CURRENT when the counter was stopped, -1 until then
    period,         \* what the counter loads first after the sleep
    report          \* what UserLpTimeGet returned

systick == <<load, current, flag, reload>>
lock == <<primask, saved>>
ticks == <<ticked, pending>>
ghost == <<request, caller, armed, clocks, phase, period>>
vars == <<sleepTime, systick, lock, pc, ticks, ghost, report>>

Word(n) == n % WordSize

\* The order in which the power manager calls the functions it is given.
LpGoto(from, to) == pc = from /\ pc' = to

Init ==
    /\ sleepTime = 0
    /\ load = CyclesPerTick - 1
    /\ current = 0 /\ flag = FALSE /\ reload = 0
    /\ primask \in {0, 1}
    /\ saved = 0
    /\ pc = "idle"
    /\ request = 0 /\ caller = primask /\ ticked = 0 /\ pending = FALSE
    /\ armed = 0 /\ clocks = 0 /\ phase = -1 /\ period = load
    /\ report = 0

--------------------------------------------------------------------------
(* UserLpTimeStart.                                                        *)

\* The kernel's next response time, in clocks, becomes ticks.
TimeStart(next) ==
    /\ LpGoto("idle", "start")
    /\ saved' = primask
    /\ primask' = 1
    /\ sleepTime' = Word(next \div CyclesPerTick)
    /\ request' = next /\ caller' = primask /\ ticked' = 0 /\ pending' = FALSE
    /\ armed' = 0 /\ clocks' = 0 /\ phase' = -1 /\ report' = 0
    /\ UNCHANGED <<systick, period>>

\* Too short to suppress ticks: WFI, and a return without LOS_IntRestore.
WaitForInterrupt ==
    /\ sleepTime < Missed
    /\ LpGoto("start", "suspend")
    /\ sleepTime' = 0
    /\ UNCHANGED <<systick, lock, ticks, ghost, report>>

\* LOS_IntRestore: a pending tick is taken where it unmasks interrupts.
TakePending ==
    \/ primask' = 0 /\ pending /\ pending' = FALSE /\ ticked' = ticked + 1
    \/ (primask' = 1 \/ ~pending) /\ UNCHANGED ticks

\* Mutant: the lock is not restored here either.
PreSuppressTicksLocked ==
    /\ sleepTime >= Missed
    /\ LpGoto("start", "suspend")
    /\ sleepTime' \in 0 .. sleepTime
    /\ UNCHANGED <<systick, lock, ticks, ghost, report>>

\* Mutant: interrupts are enabled whatever they were.
PreSuppressTicksUnlocked ==
    /\ sleepTime >= Missed
    /\ LpGoto("start", "suspend")
    /\ sleepTime' \in 0 .. sleepTime
    /\ primask' = 0
    /\ TakePending
    /\ UNCHANGED <<systick, saved, ghost, report>>

\* The platform answers how many of the ticks it lets be suppressed.
PreSuppressTicks ==
    /\ sleepTime >= Missed
    /\ LpGoto("start", "suspend")
    /\ sleepTime' \in 0 .. sleepTime
    /\ primask' = saved
    /\ TakePending
    /\ UNCHANGED <<systick, saved, ghost, report>>

\* A tick comes while interrupts are masked.
TickPends ==
    /\ pc \in {"start", "suspend"} /\ primask = 1
    /\ pending' = TRUE
    /\ UNCHANGED <<sleepTime, systick, lock, pc, ticked, ghost, report>>

\* port_systick_handler, between the two functions: the kernel counts the tick
\* itself, and g_SleepTime is that much older.
TickTaken ==
    /\ pc = "suspend" /\ primask = 0
    /\ ticked < MaxTicked
    /\ ticked' = ticked + 1
    /\ UNCHANGED <<sleepTime, systick, lock, pc, pending, ghost, report>>

--------------------------------------------------------------------------
(* UserDeepSleepSuspend.                                                   *)

NothingToSuspend ==
    /\ sleepTime = 0
    /\ LpGoto("suspend", "get")
    /\ UNCHANGED <<sleepTime, systick, lock, ticks, ghost, report>>

\* Mutants: the current tick is counted twice; the compensation subtracted
\* from a reload value it exceeds.
ReloadWholeTicks(c) ==
    LET r == Word(c + CyclesPerTick * sleepTime)
    IN  IF r > Compensation THEN r - Compensation ELSE r

ReloadUnchecked(c) == Word(c + CyclesPerTick * (sleepTime - 1)) - Compensation

\* ulReloadValue: the rest of this tick and the whole ticks after it.
Reload(c) ==
    LET r == Word(c + CyclesPerTick * (sleepTime - 1))
    IN  IF r > Compensation THEN r - Compensation ELSE r

\* The counter is stopped, read, loaded and started.  The interrupt lock is
\* taken again first: a caller that had it open has ticked in between, and
\* between the lock and the stop a tick still becomes pending.
ArmCounter ==
    /\ sleepTime # 0
    /\ LpGoto("suspend", "asleep")
    /\ saved' = primask
    /\ primask' = 1
    /\ \E c \in 0 .. CyclesPerTick - 1 :
          /\ phase' = c
          /\ reload' = Reload(c)
          /\ clocks' = IF c = 0 THEN 0 ELSE CyclesPerTick - c
    /\ load' = reload' % LoadSize
    /\ current' = 0
    /\ flag' = FALSE
    /\ pending' \in {pending, TRUE}
    /\ armed' = sleepTime
    /\ UNCHANGED <<sleepTime, request, caller, ticked, period, report>>

\* e clocks after it was started the counter is stopped again.  Its own
\* interrupt, another one or a tick already pending ended the sleep; a LOAD of
\* 0 never counts.
Sleep(e) ==
    /\ LpGoto("asleep", "awake")
    /\ load = 0 \/ e <= load + 1 + Latency
    /\ pending => e <= Latency
    /\ clocks' = clocks + e
    /\ flag' = (load # 0 /\ e > load)
    /\ current' = IF e = 0 THEN 0 ELSE load - ((e - 1) % (load + 1))
    /\ UNCHANGED <<sleepTime, load, reload, lock, ticks, request, caller, armed, phase, period,
                   report>>

\* What the counter loads first: the rest of the tick, or already the
\* CyclesPerTick - 1 written after it if the slow clock did not come between.
Restart(rest) ==
    /\ period' \in {Word(rest) % LoadSize, CyclesPerTick - 1}
    /\ load' = CyclesPerTick - 1
    /\ current' = 0
    /\ primask' = saved
    /\ UNCHANGED <<reload, saved, ticks, request, caller, armed, clocks, phase, report>>

\* ulCalculatedLoadValue: the rest of the tick that began when the counter
\* wrapped, or a whole tick if that is not plausible.
RestOfTick ==
    LET rest == Word(CyclesPerTick - 1 - (reload - current))
    IN  IF rest < Compensation \/ rest > CyclesPerTick THEN CyclesPerTick - 1 ELSE rest

\* Mutant: the tick of the pending interrupt is counted here as well.
WokenByCounterAllTicks ==
    /\ flag
    /\ LpGoto("awake", "get")
    /\ Restart(RestOfTick)
    /\ UNCHANGED <<sleepTime, flag>>

\* The counter reached 0: its interrupt is pending and will count one tick.
WokenByCounter ==
    /\ flag
    /\ LpGoto("awake", "get")
    /\ Restart(RestOfTick)
    /\ sleepTime' = sleepTime - 1
    /\ UNCHANGED flag

\* Mutant: without the tick the sleep began in.
PassedFromReload == Word(reload - current)

\* ulCompletedSysTickDecrements.
Passed == Word(sleepTime * CyclesPerTick - current)

\* Mutant: g_SleepTime is left as it was.
WokenEarlyNotCounted ==
    /\ ~flag
    /\ LpGoto("awake", "get")
    /\ Restart((Passed \div CyclesPerTick + 1) * CyclesPerTick - Passed)
    /\ UNCHANGED <<sleepTime, flag>>

\* Something else ended the sleep: whole ticks passed, and a part of one.
WokenEarly ==
    /\ ~flag
    /\ LpGoto("awake", "get")
    /\ sleepTime' = Passed \div CyclesPerTick
    /\ Restart((sleepTime' + 1) * CyclesPerTick - Passed)
    /\ UNCHANGED flag

--------------------------------------------------------------------------
(* UserLpTimeGet and UserDeepSleepResume.                                  *)

\* g_SleepTime * OS_SYS_CLOCK / LOSCFG_BASE_CORE_TICK_PER_SECOND, in 32 bits:
\* the macro has no parentheses.
TimeGet ==
    /\ LpGoto("get", "resume")
    /\ report' = Word(sleepTime * (CyclesPerTick * TicksPerSecond)) \div TicksPerSecond
    /\ UNCHANGED <<sleepTime, systick, lock, ticks, ghost>>

\* LOS_IntLock, the platform's hook, LOS_IntRestore.
Resume ==
    /\ LpGoto("resume", "idle")
    /\ saved' = primask
    /\ UNCHANGED <<sleepTime, systick, primask, ticks, ghost, report>>

Next ==
    \/ \E next \in Requests : TimeStart(next)
    \/ WaitForInterrupt \/ PreSuppressTicks \/ TickPends \/ TickTaken
    \/ NothingToSuspend \/ ArmCounter
    \/ \E e \in 0 .. LoadSize + Latency : Sleep(e)
    \/ WokenByCounter \/ WokenEarly
    \/ TimeGet \/ Resume

Spec == Init /\ [][Next]_vars

--------------------------------------------------------------------------
(* Properties.                                                             *)

Labels == {"idle", "start", "suspend", "asleep", "awake", "get", "resume"}

TypeOK ==
    /\ sleepTime \in 0 .. WordSize - 1
    /\ load \in 0 .. LoadSize - 1 /\ current \in 0 .. LoadSize - 1
    /\ flag \in BOOLEAN
    /\ reload \in 0 .. WordSize - 1
    /\ primask \in {0, 1} /\ saved \in {0, 1} /\ caller \in {0, 1}
    /\ pc \in Labels
    /\ request \in Requests \cup {0}
    /\ clocks \in Nat /\ ticked \in 0 .. MaxTicked /\ pending \in BOOLEAN
    /\ armed \in 0 .. WordSize - 1
    /\ phase \in -1 .. CyclesPerTick - 1
    /\ period \in 0 .. LoadSize - 1
    /\ report \in 0 .. WordSize - 1

Asleep == phase # -1

\* The clocks the counter is asked to count: the rest of the tick it was
\* stopped in and the ticks after it.
Asked == phase + CyclesPerTick * (armed - 1)

\* They fit the counter: no more than MAXIMUM_SUPPRESSED_TICKS were allowed.
ReloadPossible == Asleep => Asked < LoadSize

\* Clocks the counter was started for.
Slept == clocks - (IF phase = 0 THEN 0 ELSE CyclesPerTick - phase)

\* CURRENT tells how long: the counter was loaded with what was asked for, a
\* tick or more, has taken it (before that CURRENT reads 0), has not wrapped a
\* second time, and was stopped within a tick of its interrupt.
Readable ==
    /\ Asked < LoadSize /\ reload >= CyclesPerTick - Compensation
    /\ Slept \in 1 .. 2 * (reload + 1)
    /\ Slept <= reload + 1 + CyclesPerTick

\* The ticks the kernel counts for the sleep: those it is told of and the one
\* of the counter's interrupt, unless that is the interrupt of a tick already
\* pending.
Counted == sleepTime + (IF flag /\ ~pending THEN 1 ELSE 0)

\* The clocks lost where two ticks are one interrupt.
Lost == IF flag /\ pending THEN CyclesPerTick ELSE 0

\* How far the kernel's clock is ahead at the tick that follows the sleep.
Drift == (Counted + 1) * CyclesPerTick - (clocks + period + 1)

Ahead == IF phase = 0 THEN CyclesPerTick ELSE 0

\* After a sleep the kernel's clock is right to the compensation and two
\* clocks, whatever ended the sleep; it is one tick ahead when the counter was
\* stopped on a tick boundary, up to a tick behind when the restarted counter
\* did not see the rest of the tick, and wrong by more only when CURRENT cannot
\* tell: the sleep was too long or too short for the counter.  A tick is lost
\* only where it came while another was pending.
ClockKept ==
    pc = "get" /\ Asleep /\ Readable =>
       LET error == (Drift + Lost) - Ahead
       IN  /\ error \in -(CyclesPerTick + 1) .. Compensation - 1
           /\ period # CyclesPerTick - 1 => error \in Compensation - 2 .. Compensation - 1

\* Nor is it wrong by more than a tick in the direction that delays a timer:
\* where LOAD was cut to the counter's width, or the sleep ended before the
\* counter took it, time is counted that did not pass, never the other way.
ClockNotBehind ==
    pc = "get" /\ Asleep /\ armed * CyclesPerTick < WordSize /\ reload % LoadSize # 0
       /\ Slept <= (reload % LoadSize) + 1 + CyclesPerTick =>
          Drift + Lost >= -(CyclesPerTick + 1)

\* The counter ends the sleep by the response time the kernel asked for,
\* measured from the last tick, unless the platform allows one tick and that
\* tick has just begun.  It is late by the ticks taken before it was armed, and
\* those take an unlocked caller: UserLpTimeStart does not open the lock of a
\* caller that holds it, whose tick stays pending and ends the sleep at once.
WakesByDeadline ==
    pc = "asleep" =>
       /\ (IF caller = 1 THEN ticked * CyclesPerTick ELSE 0) + clocks + load <= request
       /\ load = 0 /\ ReloadPossible => sleepTime = 1 /\ phase = 0

\* Interrupts are left masked by the short sleep and by nothing else: the
\* ticks of the response time, in the 32 bits of g_SleepTime, were too few.
LockBalanced ==
    pc = "idle" /\ primask # caller => Word(request \div CyclesPerTick) < Missed

\* The kernel is never told of more time than it asked to sleep, nor, as long
\* as the product fits 32 bits, of more or less than has passed by a tick (two
\* when the counter's interrupt ended the sleep a tick ago).
TimeReported ==
    pc = "resume" /\ Asleep =>
       /\ report <= request
       /\ Readable /\ sleepTime * CyclesPerTick * TicksPerSecond < WordSize =>
             report - clocks \in -(2 * CyclesPerTick + 1) .. CyclesPerTick + Compensation - 1
==========================================================================
