------------------------ MODULE TicklessSleepProofs ------------------------
(***************************************************************************)
(* Proofs about TicklessSleep, for any clock, counter and word width, any  *)
(* sequence of sleeps and any interruption of them.                        *)
(***************************************************************************)
EXTENDS TicklessSleep, TLAPS

\* What UserLpTimeStart and UserDeepSleepSuspend save and restore.  A lock
\* that differs from the caller's is the one the short sleep leaves.
LockOK ==
    /\ pc \in {"start", "asleep", "awake"} => primask = 1 /\ saved = caller
    /\ pc = "suspend" /\ sleepTime # 0 => primask = caller
    /\ pc \in {"suspend", "get", "resume", "idle"} /\ primask # caller =>
          Word(request \div CyclesPerTick) < Missed
    /\ pc = "suspend" /\ caller = 1 => primask = 1
    /\ pc \in {"start", "suspend", "asleep"} /\ caller = 1 => ticked = 0
    /\ pc = "start" => ticked = 0

\* The ticks slept are never more than was asked for, and the counter is
\* armed for them.
SleepOK ==
    /\ pc = "start" => sleepTime = Word(request \div CyclesPerTick)
    /\ pc \in {"start", "suspend", "asleep", "awake"} => sleepTime * CyclesPerTick <= request
    /\ pc \in {"start", "suspend"} => phase = -1
    /\ pc \in {"asleep", "awake"} =>
          /\ sleepTime # 0
          /\ phase \in 0 .. CyclesPerTick - 1
          /\ reload = Reload(phase)
          /\ load = reload % LoadSize
          /\ armed = sleepTime
    /\ pc = "asleep" => Slept = 0

\* What the stopped counter shows of the sleep.
AwakeOK ==
    pc = "awake" =>
       /\ Slept \in Nat
       /\ flag <=> load # 0 /\ Slept > load
       /\ current = IF Slept = 0 THEN 0 ELSE load - ((Slept - 1) % (load + 1))

IInv == TypeOK /\ LockOK /\ SleepOK /\ AwakeOK

--------------------------------------------------------------------------
(* Arithmetic.                                                             *)

\* What is assumed of the constants, and that the compensation is a number of
\* clocks.
LEMMA ClockFacts ==
    /\ CyclesPerTick \in Nat \ {0, 1} /\ TicksPerSecond \in Nat \ {0}
    /\ CyclesPerTick < LoadSize
    /\ Missed \in Nat \ {0} /\ Compensation \in 0 .. CyclesPerTick - 1
    /\ 2 * Compensation < CyclesPerTick
    /\ LoadSize \in Nat /\ WordSize \in Nat /\ 2 * LoadSize <= WordSize
    /\ Requests \subseteq Nat /\ Latency \in Nat /\ MaxTicked \in Nat \ {0}
<1>1. Compensation \in Nat
    <2>1. \A m \in Nat, r \in Nat \ {0} : m \div r \in Nat
        BY SMT
    <2> QED BY <2>1, ClockAssumption DEF Compensation
<1> QED BY <1>1, ClockAssumption

\* A number is its quotient and its remainder.
LEMMA DivMod ==
    ASSUME NEW a \in Int, NEW p \in Nat \ {0}
    PROVE  a \div p \in Int /\ a % p \in 0 .. p - 1 /\ a = p * (a \div p) + (a % p)
BY SMT

\* They are the only ones.
LEMMA UniqueDiv ==
    ASSUME NEW q \in Int, NEW p \in Nat \ {0}, NEW r \in 0 .. p - 1
    PROVE  (p * q + r) % p = r /\ (p * q + r) \div p = q
BY SMT

\* A word is not more than what it was cut from, which is itself if it fits.
LEMMA WordOf ==
    ASSUME NEW n \in Nat
    PROVE  /\ Word(n) \in 0 .. WordSize - 1
           /\ Word(n) <= n
           /\ n < WordSize => Word(n) = n
BY ClockFacts DEF Word

\* Ticks, one more and one less, in clocks.
LEMMA Ticks ==
    ASSUME NEW s \in Nat
    PROVE  LET clks == s * CyclesPerTick
           IN  /\ clks \in Nat
               /\ CyclesPerTick * (s - 1) = clks - CyclesPerTick
               /\ (s - 1) * CyclesPerTick = clks - CyclesPerTick
               /\ (s + 1) * CyclesPerTick = clks + CyclesPerTick
               /\ CyclesPerTick * s = clks
               /\ s # 0 => clks >= CyclesPerTick
BY ClockFacts

\* More ticks, more clocks.
LEMMA MoreTicks ==
    ASSUME NEW s \in Nat, NEW t \in Nat, s <= t, NEW n \in Nat,
           t * CyclesPerTick <= n
    PROVE  s * CyclesPerTick <= t * CyclesPerTick /\ s * CyclesPerTick <= n
<1>1. PICK d \in Nat : t = s + d
    BY SMT
<1>2. t * CyclesPerTick = s * CyclesPerTick + d * CyclesPerTick
    BY <1>1, ClockFacts
<1>3. /\ s * CyclesPerTick \in Nat /\ d * CyclesPerTick \in Nat
    BY <1>1, ClockFacts
<1> QED BY <1>2, <1>3

\* The reload value is a word that is less than the ticks to sleep.
LEMMA ReloadBound ==
    ASSUME NEW c \in 0 .. CyclesPerTick - 1, sleepTime \in Nat \ {0}
    PROVE  /\ Reload(c) \in 0 .. WordSize - 1
           /\ Reload(c) + 1 <= sleepTime * CyclesPerTick
           /\ Reload(c) + CyclesPerTick - c <= sleepTime * CyclesPerTick
<1> DEFINE clks == sleepTime * CyclesPerTick
           n == c + CyclesPerTick * (sleepTime - 1)
<1>1. n = c + (clks - CyclesPerTick) /\ clks \in Nat /\ clks >= CyclesPerTick
    BY Ticks
<1> HIDE DEF clks
<1>2. n \in Nat /\ n + 1 <= clks
    BY <1>1, ClockFacts
<1> HIDE DEF n
<1>3. Word(n) \in 0 .. WordSize - 1 /\ Word(n) <= n
    BY <1>2, WordOf
<1>4. Reload(c) = IF Word(n) > Compensation THEN Word(n) - Compensation ELSE Word(n)
    BY DEF Reload, n
<1> DEFINE w == Word(n)
<1> HIDE DEF w
<1>5. Reload(c) \in 0 .. w
    BY <1>3, <1>4, ClockFacts DEF w
<1>6. /\ Reload(c) \in 0 .. WordSize - 1 /\ Reload(c) + 1 <= clks
      /\ Reload(c) + CyclesPerTick - c <= clks
    <2>1. /\ w \in 0 .. WordSize - 1 /\ w + 1 <= clks /\ clks \in Nat
          /\ w + CyclesPerTick - c <= clks
        BY <1>1, <1>2, <1>3, ClockFacts DEF w, n
    <2> QED BY <1>5, <2>1, ClockFacts
<1> QED BY <1>6 DEF clks

--------------------------------------------------------------------------
(* The invariant holds initially and every step keeps it.                  *)

\* The idle system satisfies it.
LEMMA InitIInv == Init => IInv
<1> SUFFICES ASSUME Init PROVE IInv
    OBVIOUS
<1>1. flag \in BOOLEAN /\ pending \in BOOLEAN
    BY Zenon DEF Init
<1>2. TypeOK
    BY <1>1, ClockFacts DEF Init, TypeOK, Labels
<1>3. LockOK /\ SleepOK /\ AwakeOK
    BY DEF Init, LockOK, SleepOK, AwakeOK
<1> QED BY <1>2, <1>3 DEF IInv

\* UserLpTimeStart locks, and turns a response time into no more ticks than fit in it.
LEMMA StepTimeStart ==
    ASSUME IInv, NEW next \in Requests, TimeStart(next)
    PROVE  IInv'
<1> DEFINE q == next \div CyclesPerTick
<1>1. /\ pc = "idle" /\ pc' = "start" /\ saved' = primask /\ primask' = 1
      /\ sleepTime' = Word(q) /\ request' = next /\ caller' = primask /\ ticked' = 0
      /\ pending' = FALSE /\ armed' = 0 /\ clocks' = 0 /\ phase' = -1 /\ report' = 0
      /\ UNCHANGED <<load, current, flag, reload, period>>
    BY DEF TimeStart, LpGoto, systick
<1>2. next \in Nat
    BY ClockFacts
<1>3. q \in Nat /\ q * CyclesPerTick <= next
    <2>1. q \in Int /\ next % CyclesPerTick \in 0 .. CyclesPerTick - 1
          /\ next = CyclesPerTick * q + (next % CyclesPerTick)
        BY <1>2, ClockFacts, DivMod
    <2>2. q \in Nat
        BY <1>2, ClockFacts
    <2> QED BY <1>2, <2>1, <2>2, Ticks, ClockFacts
<1> HIDE DEF q
<1>4. Word(q) \in 0 .. WordSize - 1 /\ Word(q) <= q
    BY <1>3, WordOf
<1>5. Word(q) * CyclesPerTick <= next
    BY <1>2, <1>3, <1>4, MoreTicks, ClockFacts
<1>6. pending' \in BOOLEAN
    BY <1>1, Zenon
<1>7. TypeOK'
    BY <1>1, <1>2, <1>4, <1>6, ClockFacts DEF IInv, TypeOK, Labels
<1>8. LockOK'
    BY <1>1 DEF LockOK
<1>9. SleepOK' /\ AwakeOK'
    BY <1>1, <1>5 DEF SleepOK, AwakeOK, q
<1> QED BY <1>7, <1>8, <1>9 DEF IInv

\* The short sleep keeps the lock, the long one gives it back and with it, to an
\* unlocked caller, the tick that was pending.
LEMMA StepSuspend ==
    ASSUME IInv, WaitForInterrupt \/ PreSuppressTicks
    PROVE  IInv'
<1>1. /\ pc = "start" /\ pc' = "suspend"
      /\ UNCHANGED <<load, current, flag, reload, saved, request, caller, armed, clocks,
                     phase, period, report>>
    BY DEF WaitForInterrupt, PreSuppressTicks, LpGoto, systick, lock, ghost
<1>2. sleepTime' \in 0 .. sleepTime /\ sleepTime \in 0 .. WordSize - 1 /\ primask' \in {0, 1}
    BY ClockFacts DEF WaitForInterrupt, PreSuppressTicks, IInv, TypeOK, lock
<1>3. /\ sleepTime' \in Nat /\ sleepTime \in Nat /\ request \in Nat
      /\ sleepTime' <= sleepTime
    BY <1>2, ClockFacts DEF IInv, TypeOK
<1>4. sleepTime * CyclesPerTick <= request
    BY <1>1 DEF IInv, SleepOK
<1>5. sleepTime' * CyclesPerTick <= request
    BY <1>3, <1>4, MoreTicks
<1>6. /\ ticked = 0 /\ pending \in BOOLEAN
      /\ \/ primask' = 0 /\ pending' = FALSE /\ ticked' = 1
         \/ pending' = pending /\ ticked' = 0
    BY <1>1 DEF IInv, LockOK, TypeOK, WaitForInterrupt, PreSuppressTicks, TakePending, ticks
<1>7. pending' \in BOOLEAN
    BY <1>6, Zenon
<1>8. ticked' \in 0 .. MaxTicked
    BY <1>6, ClockFacts
<1>9. TypeOK'
    BY <1>1, <1>2, <1>7, <1>8, ClockFacts DEF IInv, TypeOK, Labels
<1>10. LockOK'
    BY <1>1, <1>2, <1>6, ClockFacts DEF WaitForInterrupt, PreSuppressTicks, lock, IInv, TypeOK,
                                        LockOK, SleepOK
<1>11. SleepOK' /\ AwakeOK'
    BY <1>1, <1>5 DEF IInv, SleepOK, AwakeOK
<1> QED BY <1>9, <1>10, <1>11 DEF IInv

\* A tick under the lock, or between the two functions of a caller that had
\* interrupts enabled.
LEMMA StepTick ==
    ASSUME IInv, TickPends \/ TickTaken
    PROVE  IInv'
<1>1. /\ pc \in {"start", "suspend"}
      /\ UNCHANGED <<sleepTime, load, current, flag, reload, primask, saved, pc, request, caller,
                     armed, clocks, phase, period, report>>
    BY DEF TickPends, TickTaken, systick, lock, ghost
<1>2. \/ ticked' = ticked /\ pending' = TRUE
      \/ /\ pc = "suspend" /\ primask = 0 /\ ticked < MaxTicked
         /\ ticked' = ticked + 1 /\ pending' = pending
    BY DEF TickPends, TickTaken
<1>3. pending' \in BOOLEAN
    BY <1>2, Zenon DEF IInv, TypeOK
<1>4. ticked' \in 0 .. MaxTicked
    BY <1>2, ClockFacts DEF IInv, TypeOK
<1>5. TypeOK'
    BY <1>1, <1>3, <1>4 DEF IInv, TypeOK
<1>6. LockOK' /\ SleepOK' /\ AwakeOK'
    BY <1>1, <1>2 DEF IInv, LockOK, SleepOK, AwakeOK
<1> QED BY <1>5, <1>6 DEF IInv

\* The short sleep goes past the counter.
LEMMA StepNothingToSuspend ==
    ASSUME IInv, NothingToSuspend
    PROVE  IInv'
<1>1. /\ pc = "suspend" /\ pc' = "get" /\ sleepTime = 0
      /\ UNCHANGED <<sleepTime, load, current, flag, reload, primask, saved, request, caller,
                     ticked, pending, armed, clocks, phase, period, report>>
    BY DEF NothingToSuspend, LpGoto, systick, lock, ticks, ghost
<1>2. TypeOK'
    BY <1>1 DEF IInv, TypeOK, Labels
<1>3. LockOK' /\ SleepOK' /\ AwakeOK'
    BY <1>1 DEF IInv, LockOK, SleepOK, AwakeOK
<1> QED BY <1>2, <1>3 DEF IInv

\* The counter is loaded for the ticks to sleep, under a lock of its own.
LEMMA StepArmCounter ==
    ASSUME IInv, ArmCounter
    PROVE  IInv'
<1>1. PICK c \in 0 .. CyclesPerTick - 1 :
         /\ phase' = c /\ reload' = Reload(c)
         /\ clocks' = IF c = 0 THEN 0 ELSE CyclesPerTick - c
    BY DEF ArmCounter
<1>2. /\ pc = "suspend" /\ pc' = "asleep" /\ sleepTime # 0
      /\ saved' = primask /\ primask' = 1
      /\ load' = reload' % LoadSize /\ current' = 0 /\ flag' = FALSE
      /\ pending' \in {pending, TRUE} /\ armed' = sleepTime
      /\ UNCHANGED <<sleepTime, request, caller, ticked, period, report>>
    BY DEF ArmCounter, LpGoto
<1>3. sleepTime \in Nat \ {0}
    BY <1>2, ClockFacts DEF IInv, TypeOK
<1>4. Reload(c) \in 0 .. WordSize - 1
    BY <1>3, ReloadBound
<1>5. load' \in 0 .. LoadSize - 1
    BY <1>1, <1>2, <1>4, ClockFacts
<1>6. flag' \in BOOLEAN /\ pending' \in BOOLEAN
    BY <1>2, Zenon DEF IInv, TypeOK
<1>7. clocks' \in Nat
    BY <1>1, ClockFacts
<1>8. TypeOK'
    BY <1>1, <1>2, <1>4, <1>5, <1>6, <1>7, ClockFacts DEF IInv, TypeOK, Labels
<1>9. LockOK'
    BY <1>2 DEF IInv, LockOK
<1>10. Slept' = 0
    BY <1>1, ClockFacts DEF Slept
<1>11. reload' = Reload(phase)'
    BY <1>1, <1>2 DEF Reload
<1>12. SleepOK' /\ AwakeOK'
    BY <1>1, <1>2, <1>10, <1>11 DEF IInv, SleepOK, AwakeOK
<1> QED BY <1>8, <1>9, <1>12 DEF IInv

\* Any number of clocks pass; CURRENT stays within LOAD.
LEMMA StepSleep ==
    ASSUME IInv, NEW e \in 0 .. LoadSize + Latency, Sleep(e)
    PROVE  IInv'
<1>1. /\ pc = "asleep" /\ pc' = "awake"
      /\ clocks' = clocks + e
      /\ flag' = (load # 0 /\ e > load)
      /\ current' = IF e = 0 THEN 0 ELSE load - ((e - 1) % (load + 1))
      /\ UNCHANGED <<sleepTime, load, reload, primask, saved, request, caller, ticked, pending,
                     armed, phase, period, report>>
    BY DEF Sleep, LpGoto, lock, ticks
<1>2. e \in Nat /\ load \in 0 .. LoadSize - 1 /\ LoadSize \in Nat /\ clocks \in Nat
    BY ClockFacts DEF IInv, TypeOK
<1>3. current' \in 0 .. LoadSize - 1
    <2> DEFINE n == e - 1
               m == load + 1
    <2>1. n \in Int /\ m \in Nat \ {0} /\ m - 1 = load
        BY <1>2
    <2> HIDE DEF n, m
    <2>2. n % m \in 0 .. load
        BY <2>1, DivMod
    <2> QED BY <1>1, <1>2, <2>2 DEF n, m
<1>4. flag' \in BOOLEAN
    BY <1>1, Zenon
<1>5. TypeOK'
    BY <1>1, <1>2, <1>3, <1>4 DEF IInv, TypeOK, Labels
<1>6. LockOK'
    BY <1>1 DEF IInv, LockOK
<1>7. Reload(phase)' = Reload(phase)
    BY <1>1 DEF Reload
<1>8. SleepOK'
    BY <1>1, <1>7 DEF IInv, SleepOK
<1>9. Slept' = e
    <2>1. phase \in 0 .. CyclesPerTick - 1 /\ Slept = 0
        BY <1>1 DEF IInv, SleepOK
    <2> QED BY <1>1, <1>2, <2>1, ClockFacts DEF Slept
<1>10. AwakeOK'
    BY <1>1, <1>2, <1>9 DEF AwakeOK
<1> QED BY <1>5, <1>6, <1>8, <1>10 DEF IInv

\* Both ways to restart the counter.
LEMMA StepRestart ==
    ASSUME IInv, WokenByCounter \/ WokenEarly
    PROVE  IInv'
<1>1. /\ pc = "awake" /\ pc' = "get"
      /\ load' = CyclesPerTick - 1 /\ current' = 0 /\ primask' = saved
      /\ UNCHANGED <<flag, reload, saved, request, caller, ticked, pending, armed, clocks,
                     phase, report>>
    BY DEF WokenByCounter, WokenEarly, Restart, LpGoto, ticks
<1>2. \A n \in Int : Word(n) \in 0 .. WordSize - 1 /\ Word(n) % LoadSize \in 0 .. LoadSize - 1
    BY ClockFacts DEF Word
<1>3. sleepTime \in 1 .. WordSize - 1
    BY <1>1, ClockFacts DEF IInv, TypeOK, SleepOK
<1>4. Passed \in 0 .. WordSize - 1
    <2>1. sleepTime * CyclesPerTick - current \in Int
        BY <1>3, Ticks, ClockFacts DEF IInv, TypeOK
    <2> QED BY <1>2, <2>1 DEF Passed
<1>5. Passed \div CyclesPerTick \in 0 .. Passed
    BY <1>4, ClockFacts
<1>6. sleepTime' \in 0 .. WordSize - 1
    BY <1>3, <1>4, <1>5, ClockFacts DEF WokenByCounter, WokenEarly
<1>7. period' \in 0 .. LoadSize - 1
    <2>1. RestOfTick \in Int
        BY ClockFacts DEF RestOfTick, Word, IInv, TypeOK
    <2>2. (sleepTime' + 1) * CyclesPerTick - Passed \in Int
        BY <1>4, <1>6, Ticks, ClockFacts
    <2> QED BY <1>2, <2>1, <2>2, ClockFacts DEF WokenByCounter, WokenEarly, Restart
<1>8. TypeOK'
    BY <1>1, <1>6, <1>7, ClockFacts DEF IInv, TypeOK, Labels
<1>9. LockOK' /\ SleepOK' /\ AwakeOK'
    BY <1>1 DEF IInv, LockOK, SleepOK, AwakeOK
<1> QED BY <1>8, <1>9 DEF IInv

\* The end of the sleep.
LEMMA StepReport ==
    ASSUME IInv, TimeGet \/ Resume
    PROVE  IInv'
<1>1. /\ pc \in {"get", "resume"} /\ pc' \in {"resume", "idle"}
      /\ UNCHANGED <<sleepTime, load, current, flag, reload, primask, request, caller, ticked,
                     pending, armed, clocks, phase, period>>
      /\ saved' \in {saved, primask}
    BY DEF TimeGet, Resume, LpGoto, systick, lock, ticks, ghost
<1>2. report' \in 0 .. WordSize - 1
    <2>1. sleepTime * (CyclesPerTick * TicksPerSecond) \in Nat
        BY ClockFacts DEF IInv, TypeOK
    <2>2. Word(sleepTime * (CyclesPerTick * TicksPerSecond)) \in 0 .. WordSize - 1
        BY <2>1, WordOf
    <2>3. \A n \in 0 .. WordSize - 1 : n \div TicksPerSecond \in 0 .. WordSize - 1
        BY ClockFacts
    <2> QED BY <2>2, <2>3 DEF TimeGet, Resume, IInv, TypeOK
<1>3. TypeOK'
    BY <1>1, <1>2 DEF IInv, TypeOK, Labels
<1>4. LockOK' /\ SleepOK' /\ AwakeOK'
    BY <1>1 DEF IInv, LockOK, SleepOK, AwakeOK
<1> QED BY <1>3, <1>4 DEF IInv

\* No step breaks the invariant.
LEMMA NextIInv == IInv /\ [Next]_vars => IInv'
<1> SUFFICES ASSUME IInv, [Next]_vars PROVE IInv'
    OBVIOUS
<1>1. CASE UNCHANGED vars
    <2>1. UNCHANGED <<sleepTime, load, current, flag, reload, primask, saved, pc, request, caller,
                      ticked, pending, armed, clocks, phase, period, report>>
        BY <1>1 DEF vars, systick, lock, ticks, ghost
    <2>2. Slept' = Slept /\ Reload(phase)' = Reload(phase)
        BY <2>1 DEF Slept, Reload
    <2>3. TypeOK' /\ LockOK' /\ SleepOK' /\ AwakeOK'
        BY <2>1, <2>2 DEF IInv, TypeOK, LockOK, SleepOK, AwakeOK
    <2> QED BY <2>3 DEF IInv
<1>2. CASE Next
    BY <1>2, StepTimeStart, StepSuspend, StepTick, StepNothingToSuspend, StepArmCounter,
       StepSleep, StepRestart, StepReport DEF Next
<1> QED BY <1>1, <1>2

\* The inductive invariant.
THEOREM Invariance == Spec => []IInv
BY InitIInv, NextIInv, PTL DEF Spec

\* Types, and with them that no difference of the code goes below 0 or past
\* its word.
THEOREM Typing == Spec => []TypeOK
<1>1. IInv => TypeOK
    BY DEF IInv
<1> QED BY <1>1, Invariance, PTL
--------------------------------------------------------------------------
(* Locks and deadlines.                                                    *)

\* Only the short sleep leaves interrupts masked, whatever the response time.
THEOREM LocksBalance == Spec => []LockBalanced
<1>1. IInv => LockBalanced
    BY DEF IInv, LockOK, LockBalanced
<1> QED BY <1>1, Invariance, PTL

\* The reload value when the counter can hold what it is asked for.
LEMMA ReloadValue ==
    ASSUME IInv, pc \in {"asleep", "awake"}, Asked < LoadSize
    PROVE  /\ Asked \in Nat
           /\ Asked = phase + armed * CyclesPerTick - CyclesPerTick
           /\ reload = IF Asked > Compensation THEN Asked - Compensation ELSE Asked
<1> DEFINE clks == armed * CyclesPerTick
<1>1. /\ armed \in Nat \ {0} /\ armed = sleepTime /\ phase \in 0 .. CyclesPerTick - 1
      /\ reload = Reload(phase)
    BY ClockFacts DEF IInv, TypeOK, SleepOK
<1>2. Asked = phase + (clks - CyclesPerTick) /\ clks \in Nat /\ clks >= CyclesPerTick
    BY <1>1, Ticks DEF Asked
<1>3. reload = IF Word(Asked) > Compensation THEN Word(Asked) - Compensation ELSE Word(Asked)
    BY <1>1 DEF Reload, Asked
<1> HIDE DEF clks
<1>4. Asked \in Nat /\ Asked < WordSize /\ Asked = phase + clks - CyclesPerTick
    BY <1>1, <1>2, ClockFacts
<1>5. Word(Asked) = Asked
    BY <1>4, WordOf
<1> QED BY <1>3, <1>4, <1>5 DEF clks

\* The counter ends the sleep in time, whatever the response time, whatever the
\* platform allows and however many ticks are taken before it is armed under an
\* unlocked caller.
THEOREM Deadlines == Spec => []WakesByDeadline
<1>1. ASSUME IInv, pc = "asleep"
      PROVE  /\ (IF caller = 1 THEN ticked * CyclesPerTick ELSE 0) + clocks + load <= request
             /\ load = 0 /\ ReloadPossible => sleepTime = 1 /\ phase = 0
    <2> DEFINE clks == sleepTime * CyclesPerTick
    <2>1. /\ sleepTime \in Nat \ {0} /\ phase \in 0 .. CyclesPerTick - 1 /\ clks <= request
          /\ reload = Reload(phase) /\ load = reload % LoadSize /\ armed = sleepTime
          /\ request \in Nat /\ reload \in Nat /\ clocks \in Nat /\ Slept = 0
        BY <1>1, ClockFacts DEF IInv, TypeOK, SleepOK
    <2>2. clks \in Nat /\ clks >= CyclesPerTick /\ reload + CyclesPerTick - phase <= clks
          /\ reload + 1 <= clks
        BY <2>1, Ticks, ReloadBound
    <2>3. load \in Nat /\ load <= reload
        BY <2>1, ClockFacts
    <2>4. clocks = IF phase = 0 THEN 0 ELSE CyclesPerTick - phase
        BY <2>1, ClockFacts DEF Slept
    <2>5. (IF caller = 1 THEN ticked * CyclesPerTick ELSE 0) = 0
        BY <1>1, ClockFacts DEF IInv, LockOK
    <2>6. ASSUME load = 0, ReloadPossible
          PROVE  sleepTime = 1 /\ phase = 0
        <3>1. Asked < LoadSize
            BY <2>1, <2>6, ClockFacts DEF ReloadPossible, Asleep
        <3>2. /\ Asked \in Nat /\ Asked = phase + clks - CyclesPerTick
              /\ reload = IF Asked > Compensation THEN Asked - Compensation ELSE Asked
            BY <1>1, <2>1, <3>1, ReloadValue
        <3> HIDE DEF clks
        <3>3. reload = 0
            BY <2>1, <2>6, <3>1, <3>2, ClockFacts
        <3>4. phase = 0 /\ clks = CyclesPerTick
            BY <2>1, <2>2, <3>2, <3>3, ClockFacts
        <3>5. sleepTime >= 2 => clks >= 2 * CyclesPerTick
            BY <2>1, ClockFacts DEF clks
        <3> QED BY <2>1, <3>4, <3>5, ClockFacts
    <2> HIDE DEF clks
    <2> QED BY <2>1, <2>2, <2>3, <2>4, <2>5, <2>6, ClockFacts
<1>2. IInv => WakesByDeadline
    BY <1>1 DEF WakesByDeadline
<1> QED BY <1>2, Invariance, PTL

--------------------------------------------------------------------------
(* The kernel's clock after a sleep.                                       *)

\* The ticks to be reported, in clocks.
ReportRight ==
    Asleep =>
       /\ sleepTime * CyclesPerTick <= request
       /\ Readable =>
             sleepTime * CyclesPerTick - clocks \in
                 -(2 * CyclesPerTick + 1) .. CyclesPerTick + Compensation - 1

\* What holds once the time that passed is computed.
CountOK ==
    pc = "get" => ClockKept /\ ClockNotBehind /\ ReportRight

\* CURRENT is never more than LOAD, nor LOAD than the reload value, and that is
\* less than the ticks to sleep.
LEMMA CountedDown ==
    ASSUME IInv, pc = "awake"
    PROVE  /\ sleepTime \in Nat \ {0} /\ armed = sleepTime
           /\ sleepTime * CyclesPerTick \in Nat /\ sleepTime * CyclesPerTick <= request
           /\ phase \in 0 .. CyclesPerTick - 1 /\ request \in Nat
           /\ load = reload % LoadSize /\ load \in Nat /\ reload \in Nat /\ current \in Nat
           /\ Slept \in Nat /\ clocks \in Nat /\ Ahead \in {0, CyclesPerTick}
           /\ current <= load /\ load <= reload
           /\ reload + 1 <= sleepTime * CyclesPerTick
           /\ reload + CyclesPerTick - phase <= sleepTime * CyclesPerTick
           /\ clocks = Slept + CyclesPerTick - phase - Ahead
<1>1. /\ sleepTime \in Nat \ {0} /\ armed = sleepTime /\ sleepTime * CyclesPerTick <= request
      /\ phase \in 0 .. CyclesPerTick - 1 /\ request \in Nat
      /\ load = reload % LoadSize /\ load \in Nat /\ reload \in Nat /\ current \in Nat
      /\ Slept \in Nat /\ clocks \in Nat /\ reload = Reload(phase)
    BY ClockFacts DEF IInv, TypeOK, SleepOK, AwakeOK
<1>2. /\ reload + 1 <= sleepTime * CyclesPerTick
      /\ reload + CyclesPerTick - phase <= sleepTime * CyclesPerTick
      /\ sleepTime * CyclesPerTick \in Nat
    BY <1>1, Ticks, ReloadBound
<1>3. load <= reload
    BY <1>1, ClockFacts
<1>4. current <= load
    <2> DEFINE n == Slept - 1
               m == load + 1
    <2>1. n \in Int /\ m \in Nat \ {0} /\ m - 1 = load
        BY <1>1
    <2>2. current = IF Slept = 0 THEN 0 ELSE load - (n % m)
        BY DEF IInv, AwakeOK
    <2> HIDE DEF n, m
    <2>3. n % m \in 0 .. load
        BY <2>1, DivMod
    <2> QED BY <1>1, <2>2, <2>3
<1>5. Ahead \in {0, CyclesPerTick} /\ clocks = Slept + CyclesPerTick - phase - Ahead
    BY <1>1, ClockFacts DEF Ahead, Slept
<1> QED BY <1>1, <1>2, <1>3, <1>4, <1>5

\* CURRENT of a counter that has not wrapped since it took LOAD.
LEMMA NotWrapped ==
    ASSUME IInv, pc = "awake", load # 0, ~flag
    PROVE  Slept <= load /\ current = IF Slept = 0 THEN 0 ELSE load + 1 - Slept
<1>1. load \in Nat /\ Slept \in Nat
    BY CountedDown
<1>2. Slept <= load
    BY <1>1 DEF IInv, AwakeOK
<1>3. Slept # 0 => (Slept - 1) % (load + 1) = Slept - 1
    <2> SUFFICES ASSUME Slept # 0 PROVE (Slept - 1) % (load + 1) = Slept - 1
        OBVIOUS
    <2> DEFINE n == Slept - 1
               m == load + 1
    <2>1. n \in 0 .. m - 1 /\ m \in Nat \ {0} /\ n = m * 0 + n
        BY <1>1, <1>2
    <2> HIDE DEF n, m
    <2>2. n % m = n
        BY <2>1, UniqueDiv
    <2> QED BY <2>2 DEF n, m
<1> QED BY <1>1, <1>2, <1>3 DEF IInv, AwakeOK

\* The ticks asked for and the clocks that passed, when CURRENT can tell.
LEMMA ReadableSleep ==
    ASSUME IInv, pc = "awake", Readable
    PROVE  /\ load = reload /\ load \in 1 .. LoadSize - 1
           /\ Slept \in 1 .. 2 * (load + 1) /\ Slept <= load + 1 + CyclesPerTick
           /\ sleepTime * CyclesPerTick < WordSize
           /\ sleepTime * CyclesPerTick - clocks = load + Compensation + Ahead - Slept
<1> DEFINE clks == sleepTime * CyclesPerTick
<1>1. /\ phase \in 0 .. CyclesPerTick - 1 /\ load = reload % LoadSize
      /\ clks \in Nat /\ clocks \in Nat /\ armed = sleepTime /\ reload \in Nat
      /\ clocks = Slept + CyclesPerTick - phase - Ahead /\ Slept \in Nat
      /\ Ahead \in {0, CyclesPerTick}
    BY CountedDown
<1>2. /\ Asked < LoadSize /\ reload >= CyclesPerTick - Compensation
      /\ Slept \in 1 .. 2 * (reload + 1) /\ Slept <= reload + 1 + CyclesPerTick
    BY DEF Readable
<1>3. /\ Asked \in Nat /\ Asked = phase + clks - CyclesPerTick
      /\ reload = IF Asked > Compensation THEN Asked - Compensation ELSE Asked
    BY <1>1, <1>2, ReloadValue
<1> HIDE DEF clks
<1>4. reload = phase + clks - CyclesPerTick - Compensation /\ clks < WordSize
    BY <1>1, <1>2, <1>3, ClockFacts
<1>5. load = reload /\ load \in 1 .. LoadSize - 1
    <2>1. reload \in 0 .. LoadSize - 1 /\ reload # 0
        BY <1>1, <1>2, <1>3, ClockFacts
    <2> QED BY <1>1, <2>1, ClockFacts
<1>6. clks - clocks = load + Compensation + Ahead - Slept
    BY <1>1, <1>4, <1>5, ClockFacts
<1> QED BY <1>2, <1>4, <1>5, <1>6 DEF clks

\* The load value for the rest of the tick is less than a tick.
LEMMA RestBound ==
    ASSUME IInv, pc = "awake", sleepTime * CyclesPerTick < WordSize
    PROVE  RestOfTick \in 0 .. CyclesPerTick - 1
<1> DEFINE n == CyclesPerTick - 1 - (reload - current)
           clks == sleepTime * CyclesPerTick
<1>1. /\ reload \in Nat /\ current \in Nat /\ current <= reload
      /\ reload + 1 <= clks /\ clks \in Nat /\ clks < WordSize
    BY CountedDown
<1> HIDE DEF clks
<1>2. n \in Int /\ n <= CyclesPerTick - 1 /\ -n < WordSize - CyclesPerTick
    BY <1>1, ClockFacts
<1>3. Word(n) = IF n >= 0 THEN n ELSE WordSize + n
    BY <1>2, ClockFacts DEF Word
<1>4. RestOfTick = IF Word(n) < Compensation \/ Word(n) > CyclesPerTick
                   THEN CyclesPerTick - 1 ELSE Word(n)
    BY DEF RestOfTick
<1> HIDE DEF n
<1> QED BY <1>2, <1>3, <1>4, ClockFacts

\* The counter woke it: it wrapped and went on until the code stopped it.
LEMMA CounterCounts ==
    ASSUME IInv, WokenByCounter
    PROVE  CountOK'
<1> DEFINE clks == sleepTime * CyclesPerTick
           new == sleepTime' * CyclesPerTick
<1>1. /\ pc = "awake" /\ flag /\ flag' /\ sleepTime' = sleepTime - 1
      /\ period' \in {Word(RestOfTick) % LoadSize, CyclesPerTick - 1}
      /\ UNCHANGED <<reload, request, armed, clocks, phase, pending>>
    BY DEF WokenByCounter, Restart, LpGoto, ticks
<1>2. /\ Asleep' = Asleep /\ Readable' = Readable /\ Ahead' = Ahead /\ Slept' = Slept
      /\ Drift' + Lost' = (sleepTime' + 1 + 1) * CyclesPerTick - (clocks + period' + 1)
    <2>1. Asleep' = Asleep /\ Readable' = Readable /\ Ahead' = Ahead /\ Slept' = Slept
        BY <1>1 DEF Asleep, Readable, Asked, Slept, Ahead
    <2>2. sleepTime' \in Nat /\ clocks \in Nat /\ period' \in Int
        <3>1. sleepTime \in Nat \ {0} /\ clocks \in Nat
            BY <1>1, CountedDown
        <3>2. RestOfTick \in Int
            BY ClockFacts DEF RestOfTick, Word, IInv, TypeOK
        <3>3. \A n \in Int : Word(n) % LoadSize \in Int
            BY ClockFacts DEF Word
        <3> QED BY <1>1, <3>1, <3>2, <3>3, ClockFacts
    <2>3. CASE pending
        <3>1. Counted' = sleepTime' + 0 /\ Lost' = CyclesPerTick
            BY <1>1, <2>3 DEF Counted, Lost
        <3>2. Drift' = (sleepTime' + 1) * CyclesPerTick - (clocks + period' + 1)
            BY <1>1, <2>2, <3>1 DEF Drift
        <3>3. (sleepTime' + 1 + 1) * CyclesPerTick
                  = (sleepTime' + 1) * CyclesPerTick + CyclesPerTick
            BY <2>2, Ticks
        <3>4. (sleepTime' + 1) * CyclesPerTick \in Nat
            BY <2>2, Ticks
        <3> QED BY <2>1, <2>2, <3>1, <3>2, <3>3, <3>4, ClockFacts
    <2>4. CASE ~pending
        <3>1. Counted' = sleepTime' + 1 /\ Lost' = 0
            BY <1>1, <2>4 DEF Counted, Lost
        <3>2. Drift' = (sleepTime' + 1 + 1) * CyclesPerTick - (clocks + period' + 1)
            BY <1>1, <3>1 DEF Drift
        <3>3. (sleepTime' + 1 + 1) * CyclesPerTick \in Nat
            <4>1. \A n \in Nat : n + 1 \in Nat
                OBVIOUS
            <4>2. sleepTime' + 1 + 1 \in Nat
                BY <2>2, <4>1
            <4> QED BY <4>2, Ticks
        <3> QED BY <2>1, <2>2, <3>1, <3>2, <3>3, ClockFacts
    <2> QED BY <2>3, <2>4
<1>3. /\ sleepTime \in Nat \ {0} /\ clks <= request /\ request \in Nat /\ armed = sleepTime
      /\ phase \in 0 .. CyclesPerTick - 1 /\ load \in Nat /\ reload \in Nat /\ Slept \in Nat
      /\ load = reload % LoadSize /\ load <= reload /\ current <= load
      /\ reload + CyclesPerTick - phase <= clks
      /\ clocks = Slept + CyclesPerTick - phase - Ahead
      /\ clocks \in Nat /\ Ahead \in {0, CyclesPerTick}
    BY <1>1, CountedDown
<1>4. /\ clks \in Nat /\ new = clks - CyclesPerTick /\ new \in Nat
      /\ (sleepTime' + 1 + 1) * CyclesPerTick = clks + CyclesPerTick
    <2>1. sleepTime' + 1 + 1 = sleepTime + 1
        BY <1>1, <1>3
    <2> QED BY <1>1, <1>3, <2>1, Ticks, ClockFacts
<1>5. clks < WordSize => RestOfTick \in 0 .. CyclesPerTick - 1
                         /\ period' \in {RestOfTick, CyclesPerTick - 1}
    <2> SUFFICES ASSUME clks < WordSize
                 PROVE  RestOfTick \in 0 .. CyclesPerTick - 1
                        /\ period' \in {RestOfTick, CyclesPerTick - 1}
        OBVIOUS
    <2>1. RestOfTick \in 0 .. CyclesPerTick - 1
        BY <1>1, RestBound
    <2>2. Word(RestOfTick) % LoadSize = RestOfTick
        BY <2>1, ClockFacts DEF Word
    <2> QED BY <1>1, <2>1, <2>2
<1> HIDE DEF clks, new
<1>6. new <= request'
    BY <1>1, <1>3, <1>4, ClockFacts
<1>7. ASSUME Readable
      PROVE  /\ new - clocks \in -(2 * CyclesPerTick + 1) .. CyclesPerTick + Compensation - 1
             /\ (Drift' + Lost') - Ahead \in -(CyclesPerTick + 1) .. Compensation - 1
             /\ period' # CyclesPerTick - 1 =>
                   (Drift' + Lost') - Ahead \in Compensation - 2 .. Compensation - 1
    <2> DEFINE over == Slept - (load + 1)
    <2>1. /\ load = reload /\ load \in 1 .. LoadSize - 1
          /\ Slept \in 1 .. 2 * (load + 1) /\ Slept <= load + 1 + CyclesPerTick
          /\ clks < WordSize
          /\ clks - clocks = load + Compensation + Ahead - Slept
        BY <1>1, <1>7, ReadableSleep DEF clks
    <2>2. Slept > load /\ current = load - ((Slept - 1) % (load + 1))
        BY <1>1, <2>1 DEF IInv, AwakeOK
    <2>3. over \in 0 .. load + 1 /\ over <= CyclesPerTick
        BY <2>1, <2>2, ClockFacts
    <2>4. Ahead \in {0, CyclesPerTick} /\ clocks \in Nat
        BY <1>3
    <2>5. reload < LoadSize
        BY <2>1, ClockFacts
    <2>6. current = IF over = 0 THEN 0 ELSE load - (over - 1)
        <3> DEFINE m == load + 1
        <3>1. m \in Nat \ {0}
            BY <2>1
        <3>2. over = 0 => Slept - 1 = m * 0 + load /\ load \in 0 .. m - 1
            BY <2>1
        <3>3. over # 0 => Slept - 1 = m * 1 + (over - 1) /\ over - 1 \in 0 .. m - 1
            BY <2>1, <2>3
        <3> HIDE DEF m, over
        <3>4. (Slept - 1) % m = IF over = 0 THEN load ELSE over - 1
            <4>1. CASE over = 0
                BY <3>1, <3>2, <4>1, UniqueDiv
            <4>2. CASE over # 0
                BY <3>1, <3>3, <4>2, UniqueDiv
            <4> QED BY <4>1, <4>2
        <3> QED BY <2>1, <2>2, <2>3, <3>4 DEF m
    <2> HIDE DEF over
    <2>7. CyclesPerTick - Compensation <= load
        BY <1>7, <2>1 DEF Readable
    <2>8. RestOfTick = IF over # 0 /\ over - 1 <= CyclesPerTick - 1 - Compensation
                       THEN CyclesPerTick - over ELSE CyclesPerTick - 1
        <3> DEFINE n == CyclesPerTick - 1 - (reload - current)
        <3>1. n = IF over = 0 THEN CyclesPerTick - 1 - load ELSE CyclesPerTick - over
            BY <2>1, <2>3, <2>6, ClockFacts
        <3>2. n \in Int /\ n < WordSize /\ -n < WordSize - CyclesPerTick
            BY <2>1, <2>3, <2>5, <3>1, ClockFacts
        <3>3. Word(n) = IF n >= 0 THEN n ELSE WordSize + n
            BY <3>2, ClockFacts DEF Word
        <3>4. RestOfTick = IF Word(n) < Compensation \/ Word(n) > CyclesPerTick
                           THEN CyclesPerTick - 1 ELSE Word(n)
            BY DEF RestOfTick
        <3> HIDE DEF n
        <3> QED BY <2>1, <2>3, <2>7, <3>1, <3>2, <3>3, <3>4, ClockFacts
    <2>9. period' \in {RestOfTick, CyclesPerTick - 1}
        BY <1>5, <2>1
    <2>10. (Drift' + Lost') - Ahead = Compensation + CyclesPerTick - 2 - over - period'
        <3>1. period' \in Int
            BY <2>8, <2>9, <2>3, ClockFacts
        <3>2. over = Slept - (load + 1)
            BY DEF over
        <3> DEFINE x == (clks + CyclesPerTick) - (clocks + period' + 1)
        <3>3. Drift' + Lost' = x
            BY <1>2, <1>4
        <3>4. clks - clocks = load + Compensation + Ahead - Slept
            BY <2>1
        <3>5. clks \in Int /\ clocks \in Int /\ Ahead \in Int /\ load \in Int /\ Slept \in Int
            BY <1>4, <2>1, <2>4, ClockFacts
        <3>6. x \in Int /\ x - Ahead = Compensation + CyclesPerTick - 2 - over - period'
            BY <3>1, <3>2, <3>4, <3>5, ClockFacts
        <3> HIDE DEF x
        <3> QED BY <3>3, <3>6
    <2>11. new - clocks = Compensation + Ahead - CyclesPerTick - 1 - over
        BY <1>4, <2>1, <2>4, ClockFacts DEF over
    <2>12. /\ (Drift' + Lost') - Ahead \in -(CyclesPerTick + 1) .. Compensation - 1
           /\ period' # CyclesPerTick - 1 =>
                 (Drift' + Lost') - Ahead \in Compensation - 2 .. Compensation - 1
        BY <2>3, <2>8, <2>9, <2>10, ClockFacts
    <2>13. new - clocks \in -(2 * CyclesPerTick + 1) .. CyclesPerTick + Compensation - 1
        BY <2>3, <2>4, <2>11, ClockFacts
    <2> QED BY <2>12, <2>13
<1>8. ASSUME clks < WordSize, load # 0, Slept <= load + 1 + CyclesPerTick
      PROVE  Drift' + Lost' >= -(CyclesPerTick + 1)
    <2>1. period' \in 0 .. CyclesPerTick - 1
        BY <1>5, <1>8, ClockFacts
    <2>2. Drift' + Lost' = clks + CyclesPerTick - clocks - period' - 1
        BY <1>2, <1>3, <1>4, <2>1, ClockFacts
    <2> QED BY <1>3, <1>4, <1>8, <2>1, <2>2, ClockFacts
<1>9. CountOK'
    <2>1. ClockKept'
        BY <1>2, <1>7 DEF ClockKept
    <2>2. ClockNotBehind'
        BY <1>1, <1>2, <1>3, <1>8 DEF ClockNotBehind, clks
    <2>3. ReportRight'
        BY <1>1, <1>2, <1>6, <1>7 DEF ReportRight, new
    <2> QED BY <2>1, <2>2, <2>3 DEF CountOK
<1> QED BY <1>9

\* Something else woke it: whole ticks and a part of one have passed.
LEMMA EarlyCounts ==
    ASSUME IInv, WokenEarly
    PROVE  CountOK'
<1> DEFINE clks == sleepTime * CyclesPerTick
           new == sleepTime' * CyclesPerTick
           part == Passed % CyclesPerTick
<1>1. /\ pc = "awake" /\ ~flag /\ ~flag' /\ sleepTime' = Passed \div CyclesPerTick
      /\ period' \in {Word((sleepTime' + 1) * CyclesPerTick - Passed) % LoadSize,
                      CyclesPerTick - 1}
      /\ UNCHANGED <<reload, request, armed, clocks, phase>>
    BY DEF WokenEarly, Restart, LpGoto
<1>2. /\ Asleep' = Asleep /\ Readable' = Readable /\ Ahead' = Ahead /\ Slept' = Slept
      /\ Drift' = (sleepTime' + 0 + 1) * CyclesPerTick - (clocks + period' + 1) /\ Lost' = 0
    BY <1>1 DEF Asleep, Readable, Asked, Slept, Ahead, Drift, Counted, Lost
<1>3. /\ sleepTime \in Nat \ {0} /\ clks <= request /\ request \in Nat /\ armed = sleepTime
      /\ phase \in 0 .. CyclesPerTick - 1 /\ load \in Nat /\ reload \in Nat /\ Slept \in Nat
      /\ load = reload % LoadSize /\ load <= reload /\ current <= load /\ current \in Nat
      /\ clks \in Nat /\ reload + 1 <= clks /\ reload + CyclesPerTick - phase <= clks
      /\ clocks = Slept + CyclesPerTick - phase - Ahead
      /\ clocks \in Nat /\ Ahead \in {0, CyclesPerTick}
    BY <1>1, CountedDown
<1> HIDE DEF clks
<1>4. /\ Passed \in Nat /\ Passed <= clks
      /\ clks < WordSize => Passed = clks - current
    <2>1. clks - current \in Nat /\ clks - current <= clks
        BY <1>3, ClockFacts
    <2>2. Passed = Word(clks - current)
        BY DEF Passed, clks
    <2> QED BY <1>3, <2>1, <2>2, WordOf, ClockFacts
<1> DEFINE q == Passed \div CyclesPerTick
<1>5. CyclesPerTick \in Nat \ {0}
    BY ClockFacts
<1>6. part \in 0 .. CyclesPerTick - 1 /\ q \in Nat /\ Passed = CyclesPerTick * q + part
    <2>1. \A x \in Nat : /\ x % CyclesPerTick \in 0 .. CyclesPerTick - 1
                         /\ x = CyclesPerTick * (x \div CyclesPerTick) + (x % CyclesPerTick)
        BY <1>5, DivMod
    <2>2. q \in Nat
        BY <1>4, <1>5
    <2> QED BY <1>4, <2>1, <2>2
<1>7. /\ sleepTime' = q /\ new = CyclesPerTick * q /\ new \in Nat
      /\ (sleepTime' + 1) * CyclesPerTick = new + CyclesPerTick
      /\ (sleepTime' + 0 + 1) * CyclesPerTick = new + CyclesPerTick
    <2>1. sleepTime' = q /\ sleepTime' \in Nat
        BY <1>1, <1>6
    <2> HIDE DEF q
    <2>2. sleepTime' + 0 + 1 = sleepTime' + 1
        BY <2>1
    <2> QED BY <2>1, <2>2, Ticks
<1> HIDE DEF new, part, q
<1>8. part \in 0 .. CyclesPerTick - 1 /\ new = Passed - part /\ new \in Nat
    BY <1>4, <1>6, <1>7
<1>9. (sleepTime' + 1) * CyclesPerTick - Passed = CyclesPerTick - part
    BY <1>4, <1>8, <1>5, <1>7
<1>10. Drift' = (new + CyclesPerTick) - (clocks + period' + 1) /\ Lost' = 0
    <2> DEFINE whole == (sleepTime' + 0 + 1) * CyclesPerTick
    <2>1. whole = new + CyclesPerTick
        BY <1>7
    <2>2. Drift' = whole - (clocks + period' + 1)
        BY <1>2
    <2> HIDE DEF whole
    <2> QED BY <1>2, <2>1, <2>2
<1>11. new <= request'
    BY <1>1, <1>3, <1>4, <1>8, ClockFacts
<1>12. period' \in {CyclesPerTick - part, CyclesPerTick - 1}
    <2> DEFINE rest == CyclesPerTick - part
    <2>1. rest \in 1 .. CyclesPerTick
        BY <1>8, ClockFacts
    <2> HIDE DEF rest
    <2>2. Word(rest) % LoadSize = rest
        BY <2>1, ClockFacts DEF Word
    <2> QED BY <1>1, <1>9, <2>2 DEF rest
<1>13. ASSUME Readable
       PROVE  /\ new - clocks \in -(2 * CyclesPerTick + 1) .. CyclesPerTick + Compensation - 1
              /\ (Drift' + Lost') - Ahead \in -(CyclesPerTick + 1) .. Compensation - 1
              /\ period' # CyclesPerTick - 1 =>
                    (Drift' + Lost') - Ahead \in Compensation - 2 .. Compensation - 1
    <2>1. /\ load \in 1 .. LoadSize - 1 /\ clks < WordSize
          /\ Slept \in 1 .. 2 * (load + 1)
          /\ clks - clocks = load + Compensation + Ahead - Slept
        BY <1>1, <1>13, ReadableSleep DEF clks
    <2>2. current = load - Slept + 1
        BY <1>1, <2>1, NotWrapped
    <2>3. Passed - clocks = Compensation + Ahead - 1
        BY <1>3, <1>4, <2>1, <2>2, ClockFacts
    <2>4. (Drift' + Lost') - Ahead = Compensation - 2 + (CyclesPerTick - part) - period'
        <3> DEFINE x == (new + CyclesPerTick) - (clocks + period' + 1)
        <3>1. Drift' + Lost' = x
            <4>1. Drift' = x /\ Lost' = 0 /\ x \in Int
                BY <1>3, <1>8, <1>10, <1>12, ClockFacts
            <4> HIDE DEF x
            <4> QED BY <4>1
        <3>2. x - Ahead = Compensation - 2 + (CyclesPerTick - part) - period'
            BY <1>3, <1>4, <1>8, <1>12, <2>3, ClockFacts
        <3> HIDE DEF x
        <3> QED BY <3>1, <3>2
    <2>5. new - clocks = Compensation + Ahead - 1 - part
        BY <1>3, <1>4, <1>8, <2>3, ClockFacts
    <2> QED BY <1>3, <1>8, <1>12, <2>4, <2>5, ClockFacts
<1>14. ASSUME clks < WordSize, load # 0
       PROVE  Drift' + Lost' >= -(CyclesPerTick + 1)
    <2>1. current + Slept <= load + 1
        BY <1>1, <1>3, <1>14, NotWrapped
    <2>2. Passed = clks - current
        BY <1>4, <1>14
    <2>3. Drift' + Lost' = (clks - current - part) + CyclesPerTick - clocks - period' - 1
        BY <1>3, <1>8, <1>10, <1>12, <2>2, ClockFacts
    <2> QED BY <1>3, <1>8, <1>12, <2>1, <2>3, ClockFacts
<1>15. CountOK'
    <2>1. ClockKept'
        BY <1>2, <1>13 DEF ClockKept
    <2>2. ClockNotBehind'
        BY <1>1, <1>2, <1>3, <1>14 DEF ClockNotBehind, clks
    <2>3. ReportRight'
        BY <1>1, <1>2, <1>11, <1>13 DEF ReportRight, new
    <2> QED BY <2>1, <2>2, <2>3 DEF CountOK
<1> QED BY <1>15

\* Every step keeps what was counted.
LEMMA NextCountOK ==
    ASSUME IInv, CountOK, [Next]_vars
    PROVE  CountOK'
<1>1. CASE WokenByCounter \/ WokenEarly
    BY <1>1, CounterCounts, EarlyCounts
<1>2. CASE NothingToSuspend
    <2>1. phase' = -1
        BY <1>2 DEF NothingToSuspend, LpGoto, ghost, IInv, SleepOK
    <2> QED BY <2>1 DEF CountOK, ClockKept, ClockNotBehind, ReportRight, Asleep
<1>3. CASE UNCHANGED vars
    BY <1>3 DEF vars, systick, lock, ticks, ghost, CountOK, ClockKept, ClockNotBehind, ReportRight,
                Asleep, Readable, Asked, Slept, Drift, Counted, Lost, Ahead
<1>4. CASE Next /\ ~WokenByCounter /\ ~WokenEarly /\ ~NothingToSuspend
    <2>1. pc' # "get"
        BY <1>4 DEF Next, TimeStart, WaitForInterrupt, PreSuppressTicks, TickPends, TickTaken,
                    ArmCounter, Sleep, TimeGet, Resume, LpGoto, lock
    <2> QED BY <2>1 DEF CountOK
<1> QED BY <1>1, <1>2, <1>3, <1>4

\* After every sleep the kernel's clock is right: the tick of the counter's
\* interrupt is counted once, the tick the sleep began in and the one it ended
\* in are not lost.
THEOREM Clock == Spec => []ClockKept
<1>1. Init => CountOK
    BY DEF Init, CountOK
<1>2. IInv /\ CountOK /\ [Next]_vars => CountOK'
    BY NextCountOK
<1>3. CountOK => ClockKept
    BY DEF CountOK, ClockKept
<1> QED BY <1>1, <1>2, <1>3, Invariance, PTL DEF Spec

\* Even where LOAD was cut to the width of the counter, or the sleep ended
\* before the counter took it, the kernel's clock is not behind by more than a
\* tick: no timer is late by more.
THEOREM NotBehind == Spec => []ClockNotBehind
<1>1. Init => CountOK
    BY DEF Init, CountOK
<1>2. IInv /\ CountOK /\ [Next]_vars => CountOK'
    BY NextCountOK
<1>3. CountOK => ClockNotBehind
    BY DEF CountOK, ClockNotBehind
<1> QED BY <1>1, <1>2, <1>3, Invariance, PTL DEF Spec

\* g_SleepTime, reported in clocks, is never more than was asked for, whatever
\* that was, and right to the ticks that are begun where CURRENT can tell and
\* the product fits the word.
THEOREM Report == Spec => []TimeReported
<1>1. ASSUME IInv, CountOK, TimeReported, [Next]_vars
      PROVE  TimeReported'
    <2>1. CASE TimeGet
        <3> DEFINE clks == sleepTime * CyclesPerTick
                   product == sleepTime * (CyclesPerTick * TicksPerSecond)
        <3>1. /\ pc = "get" /\ report' = Word(product) \div TicksPerSecond
              /\ UNCHANGED <<sleepTime, request, reload, armed, clocks, phase>>
            BY <2>1 DEF TimeGet, LpGoto, systick, ghost
        <3>2. Asleep' = Asleep /\ Readable' = Readable
            BY <3>1 DEF Asleep, Readable, Asked, Slept
        <3>3. ReportRight
            BY <1>1, <3>1 DEF CountOK
        <3>4. /\ sleepTime \in Nat /\ TicksPerSecond \in Nat \ {0} /\ CyclesPerTick \in Nat
              /\ request \in Nat
            BY <1>1, ClockFacts DEF IInv, TypeOK
        <3>5. product \in Nat /\ clks \in Nat
            BY <3>4
        <3>6. product = TicksPerSecond * clks /\ clks * TicksPerSecond = product
            BY <3>4
        <3> HIDE DEF product, clks
        <3>7. product \div TicksPerSecond = clks
            <4>1. product = TicksPerSecond * clks + 0 /\ 0 \in 0 .. TicksPerSecond - 1
                BY <3>4, <3>5, <3>6
            <4> QED BY <3>4, <3>5, <4>1, UniqueDiv
        <3>8. Word(product) \in Nat /\ Word(product) <= product
              /\ (product < WordSize => Word(product) = product)
            BY <3>5, WordOf, ClockFacts
        <3>9. \A w \in Nat : w <= product => w \div TicksPerSecond <= product \div TicksPerSecond
            BY <3>4, <3>5
        <3>10. report' <= clks
            BY <3>1, <3>7, <3>8, <3>9
        <3>11. report' \in Nat
            BY <3>1, <3>4, <3>8
        <3>12. Asleep => report' <= request
            BY <3>3, <3>4, <3>5, <3>10, <3>11 DEF ReportRight, clks
        <3>13. Asleep /\ Readable /\ product < WordSize =>
                   report' - clocks \in -(2 * CyclesPerTick + 1)
                                         .. CyclesPerTick + Compensation - 1
            BY <3>1, <3>3, <3>7, <3>8 DEF ReportRight, clks
        <3> QED BY <3>1, <3>2, <3>6, <3>12, <3>13 DEF TimeReported, clks
    <2>2. CASE UNCHANGED vars
        BY <1>1, <2>2 DEF vars, systick, lock, ticks, ghost, TimeReported, Asleep, Readable, Asked,
                          Slept
    <2>3. CASE Next /\ ~TimeGet
        <3>1. pc' # "resume"
            BY <2>3 DEF Next, TimeStart, WaitForInterrupt, PreSuppressTicks, TickPends, TickTaken,
                        NothingToSuspend, ArmCounter, Sleep, WokenByCounter, WokenEarly, Resume,
                        LpGoto
        <3> QED BY <3>1 DEF TimeReported
    <2> QED BY <1>1, <2>1, <2>2, <2>3
<1>2. Init => CountOK /\ TimeReported
    BY DEF Init, CountOK, TimeReported
<1>3. IInv /\ CountOK /\ [Next]_vars => CountOK'
    BY NextCountOK
<1>4. IInv /\ CountOK /\ TimeReported /\ [Next]_vars => TimeReported'
    BY <1>1
<1> QED BY <1>2, <1>3, <1>4, Invariance, PTL DEF Spec
============================================================================
