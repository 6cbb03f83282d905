---------------------------- MODULE BoardProofs ----------------------------
(***************************************************************************)
(* Proofs about Board, for any tasks, cells, pools, lengths and bounds:    *)
(* those of OsObjects, OsEvents, OsQueue, Boot and Console in full, and     *)
(* those of FlashBus taken over from its own module.                       *)
(***************************************************************************)
EXTENDS Board, SequenceTheorems, FiniteSetTheorems, TLAPS

BusProofs == INSTANCE FlashBusProofs WITH Tasks <- BusTasks

--------------------------------------------------------------------------
(* The parts share nothing: a step of the board is one of each part or     *)
(* leaves it alone.                                                        *)

\* What the assumption about the instances says of each.
LEMMA Assumptions ==
    /\ Objects!LimitsAssumption /\ Events!MaxSetsAssumption /\ Queue!LengthAssumption
    /\ Boot!PoolAssumption /\ Console!SizesAssumption
    /\ BusProofs!TasksAssumption
BY InstancesAssumption DEF Bus!TasksAssumption, BusProofs!TasksAssumption

\* The step as each part sees it.
LEMMA StepOfPart ==
    ASSUME [Next]_vars
    PROVE  /\ [Objects!Next]_Objects!vars
           /\ [Events!Next]_Events!vars
           /\ [Queue!Next]_Queue!vars
           /\ [Boot!Next]_Boot!vars
           /\ [Console!Next]_Console!vars
           /\ [Bus!Next]_Bus!vars
<1> USE DEF Objects!vars, Objects!handles, Objects!kernel, Objects!activity, Events!vars,
            Queue!vars, Boot!vars, Console!vars, Bus!vars, Bus!device,
            objectsVars, eventsVars, queueVars, bootVars, consoleVars, busVars
<1>1. CASE ObjectsNext
    BY <1>1 DEF ObjectsNext
<1>2. CASE EventsNext
    BY <1>2 DEF EventsNext
<1>3. CASE QueueNext
    BY <1>3 DEF QueueNext
<1>4. CASE BootNext
    BY <1>4 DEF BootNext
<1>5. CASE ConsoleNext
    BY <1>5 DEF ConsoleNext
<1>6. CASE BusNext
    BY <1>6 DEF BusNext
<1>7. CASE UNCHANGED vars
    BY <1>7 DEF vars
<1> QED BY <1>1, <1>2, <1>3, <1>4, <1>5, <1>6, <1>7 DEF Next

--------------------------------------------------------------------------
(* FlashBus has a module of proofs of its own: the same definitions,       *)
(* reached through two instances.                                          *)

\* FlashBus on the board is FlashBus of its proofs.
LEMMA BusAlike ==
    /\ Bus!Init => BusProofs!Init
    /\ [Bus!Next]_Bus!vars => [BusProofs!Next]_BusProofs!vars
    /\ BusProofs!TypeOK => Bus!TypeOK
    /\ BusProofs!BusUndisturbed => Bus!BusUndisturbed
BY DEF Bus!device, Bus!vars, Bus!write_enable, Bus!write_extend_flash,
       Bus!read_extend_flash, Bus!W25x_SectorErase, Bus!erase_chip, Bus!get_jedce_id,
       Bus!get_device_id, Bus!flash_init, Bus!write_register, Bus!Others, Bus!Command,
       Bus!write_addr, Bus!Data, Bus!Bytes, Bus!Idle, Bus!Reading, Bus!Runs, Bus!SetUp,
       Bus!setup_peripherals_init, Bus!Call, Bus!littlefs_block_read,
       Bus!littlefs_block_write, Bus!littlefs_block_erase, Bus!Select, Bus!Opcode,
       Bus!Exchange, Bus!Whole, Bus!Jobs, Bus!Accepted, Bus!Polled, Bus!Deselect,
       Bus!FinishJob, Bus!Next, Bus!Init, Bus!Quiet, Bus!BusUndisturbed, Bus!TypeOK,
       BusProofs!device, BusProofs!vars, BusProofs!write_enable,
       BusProofs!write_extend_flash, BusProofs!read_extend_flash,
       BusProofs!W25x_SectorErase, BusProofs!erase_chip, BusProofs!get_jedce_id,
       BusProofs!get_device_id, BusProofs!flash_init, BusProofs!write_register,
       BusProofs!Others, BusProofs!Command, BusProofs!write_addr, BusProofs!Data,
       BusProofs!Bytes, BusProofs!Idle, BusProofs!Reading, BusProofs!Runs,
       BusProofs!SetUp, BusProofs!setup_peripherals_init, BusProofs!Call,
       BusProofs!littlefs_block_read, BusProofs!littlefs_block_write,
       BusProofs!littlefs_block_erase, BusProofs!Select, BusProofs!Opcode,
       BusProofs!Exchange, BusProofs!Whole, BusProofs!Jobs, BusProofs!Accepted,
       BusProofs!Polled, BusProofs!Deselect, BusProofs!FinishJob, BusProofs!Next,
       BusProofs!Init, BusProofs!Quiet, BusProofs!BusUndisturbed, BusProofs!TypeOK

\* The board, seen from FlashBus.
LEMMA BusOnBoard == Spec => BusProofs!Spec
<1>1. Init => BusProofs!Init
    BY BusAlike DEF Init
<1>2. [Next]_vars => [BusProofs!Next]_BusProofs!vars
    BY StepOfPart, BusAlike
<1> QED BY <1>1, <1>2, PTL DEF Spec, BusProofs!Spec

\* Calls of the flash driver that do not overlap are not disturbed and leave
\* the device in order: for any number of tasks and any priorities.
THEOREM Undisturbed == Spec => []BusUndisturbed
<1>1. BusProofs!Spec => []BusProofs!BusUndisturbed
    BY Assumptions, BusProofs!Undisturbed
<1>2. BusProofs!BusUndisturbed => BusUndisturbed
    BY BusAlike DEF BusUndisturbed
<1> QED BY <1>1, <1>2, BusOnBoard, PTL

--------------------------------------------------------------------------
(* How often an element occurs in a sequence.                              *)

Count(s, e) == Cardinality({k \in DOMAIN s : s[k] = e})

\* The places are finitely many.
LEMMA PlacesFinite ==
    ASSUME NEW S, NEW s \in Seq(S), NEW e
    PROVE  /\ IsFiniteSet({k \in DOMAIN s : s[k] = e})
           /\ Count(s, e) \in Nat
<1> DEFINE P == {k \in DOMAIN s : s[k] = e}
<1>1. IsFiniteSet(1 .. Len(s)) /\ DOMAIN s = 1 .. Len(s)
    BY FS_Interval
<1>2. IsFiniteSet(P)
    BY <1>1, FS_Subset
<1>3. Cardinality(P) \in Nat
    BY <1>2, FS_CardinalityType
<1> QED BY <1>2, <1>3 DEF Count

\* One more at the end.
LEMMA CountAppend ==
    ASSUME NEW S, NEW s \in Seq(S), NEW x \in S, NEW e
    PROVE  Count(Append(s, x), e) = Count(s, e) + (IF x = e THEN 1 ELSE 0)
<1> DEFINE s2 == Append(s, x)
           P == {k \in DOMAIN s : s[k] = e}
           Q == {k \in DOMAIN s2 : s2[k] = e}
           n == Len(s) + 1
<1>1. /\ DOMAIN s2 = 1 .. n /\ DOMAIN s = 1 .. Len(s) /\ Len(s) \in Nat
      /\ \A k \in 1 .. Len(s) : s2[k] = s[k]
      /\ s2[n] = x
    BY AppendProperties
<1> HIDE DEF s2
<1>2. Q = IF x = e THEN P \cup {n} ELSE P
    BY <1>1
<1>3. n \notin P
    BY <1>1
<1>4. IsFiniteSet(P)
    BY PlacesFinite
<1> HIDE DEF P, Q
<1>5. Cardinality(P \cup {n}) = Cardinality(P) + 1
    BY <1>3, <1>4, FS_AddElement
<1>6. Cardinality(P) \in Nat
    BY <1>4, FS_CardinalityType
<1>7. Cardinality(Q) = Cardinality(P) + (IF x = e THEN 1 ELSE 0)
    BY <1>2, <1>5, <1>6
<1> QED BY <1>7 DEF Count, P, Q, s2

\* One less at the head.
LEMMA CountTail ==
    ASSUME NEW S, NEW s \in Seq(S), s # <<>>, NEW e
    PROVE  Count(s, e) = Count(Tail(s), e) + (IF Head(s) = e THEN 1 ELSE 0)
<1> DEFINE s2 == Tail(s)
           P == {k \in DOMAIN s : s[k] = e}
           Q == {k \in DOMAIN s2 : s2[k] = e}
           f == [k \in Q |-> k + 1]
<1>1. /\ DOMAIN s2 = 1 .. Len(s) - 1 /\ DOMAIN s = 1 .. Len(s)
      /\ Len(s) \in Nat /\ Len(s) >= 1 /\ Head(s) = s[1]
      /\ s2 \in Seq(S)
      /\ \A k \in 1 .. Len(s) - 1 : s2[k] = s[k + 1]
    BY HeadTailProperties
<1>2. IsFiniteSet(P) /\ IsFiniteSet(Q)
    BY <1>1, PlacesFinite
<1> HIDE DEF s2
<1>3. f \in Bijection(Q, P \ {1})
    <2>1. \A k \in Q : k + 1 \in P \ {1}
        BY <1>1
    <2>2. f \in [Q -> P \ {1}]
        BY <2>1
    <2>3. \A k, l \in Q : f[k] = f[l] => k = l
        BY <1>1
    <2>4. \A l \in P \ {1} : \E k \in Q : f[k] = l
        <3> SUFFICES ASSUME NEW l \in P \ {1} PROVE \E k \in Q : f[k] = l
            OBVIOUS
        <3>1. l - 1 \in Q /\ (l - 1) + 1 = l
            BY <1>1
        <3> QED BY <3>1
    <2> HIDE DEF f, P, Q
    <2>5. f \in Injection(Q, P \ {1}) /\ f \in Surjection(Q, P \ {1})
        BY <2>2, <2>3, <2>4 DEF Injection, IsInjective, Surjection
    <2> QED BY <2>5 DEF Bijection
<1> HIDE DEF f
<1>4. Cardinality(Q) = Cardinality(P \ {1})
    <2>1. IsFiniteSet(P \ {1})
        BY <1>2, FS_Subset
    <2>2. ExistsBijection(Q, P \ {1})
        BY <1>3 DEF ExistsBijection
    <2> QED BY <1>2, <2>1, <2>2, FS_Bijection
<1>5. Head(s) = e <=> 1 \in P
    BY <1>1
<1> HIDE DEF P, Q
<1>6. /\ 1 \in P => Cardinality(P \ {1}) = Cardinality(P) - 1
      /\ 1 \notin P => P \ {1} = P
    BY <1>2, FS_RemoveElement
<1>7. Cardinality(P) \in Nat
    BY <1>2, FS_CardinalityType
<1>8. Cardinality(P) = Cardinality(Q) + (IF Head(s) = e THEN 1 ELSE 0)
    <2>1. CASE 1 \in P
        <3>1. Cardinality(Q) = Cardinality(P) - 1
            BY <2>1, <1>4, <1>6
        <3> QED BY <2>1, <3>1, <1>5, <1>7
    <2>2. CASE 1 \notin P
        <3>1. Cardinality(Q) = Cardinality(P)
            BY <2>2, <1>4, <1>6, Zenon
        <3> QED BY <2>2, <3>1, <1>5, <1>7
    <2> QED BY <2>1, <2>2
<1> QED BY <1>8 DEF Count, P, Q, s2

--------------------------------------------------------------------------
(* The inductive invariant.                                                *)

Positions == {"timer", "queue", "free"}

ObjectsTypes ==
    /\ object \in [Cells -> {"free", "timer", "queue"}]
    /\ word \in [Cells -> Objects!Words]
    /\ timers \in [Objects!TimerIds -> Cells \cup {Objects!NoCell}]
    /\ queues \in [Objects!QueueIds -> Cells \cup {Objects!NoCell}]
    /\ pc \in [ObjectTasks -> {Objects!Idle} \cup [at : Positions, cell : Cells]]
    /\ made \subseteq Cells
    /\ misused \in BOOLEAN
    /\ bytes_minimum_ever_free = 0

\* What the counts range over.
CountsInv ==
    /\ ticking \subseteq Objects!TimerIds
    /\ expiries \in Seq(Objects!TimerIds)
    /\ Len(expiries) <= SwtmrLimit
    /\ starts \in [Objects!TimerIds -> Nat]
    /\ callbacks \in [Objects!TimerIds -> Nat]

\* A cell in a call is allocated for what the call makes or deletes, and no
\* other call has it: the heap gives it to one, and a handle is not used
\* while it is created or deleted.
CallsApart ==
    /\ \A t \in ObjectTasks : pc[t].at \in {"timer", "queue"} =>
          object[pc[t].cell] = pc[t].at /\ pc[t].cell \notin made
    /\ \A t \in ObjectTasks : pc[t].at = "free" => object[pc[t].cell] = "timer"
    /\ \A t, u \in ObjectTasks :
          pc[t] # Objects!Idle /\ pc[u] # Objects!Idle /\ pc[t].cell = pc[u].cell => t = u

ObjectsInv ==
    /\ ObjectsTypes /\ CountsInv /\ CallsApart
    /\ Objects!HandleReachesItsObject /\ Objects!OneCallbackPerStart

--------------------------------------------------------------------------
(* The first three parts of the invariant: types and the calls.            *)

\* Who is in a call after a call returns, and after one begins.
LEMMA InCallAfterReturn ==
    ASSUME ObjectsTypes, CallsApart, NEW t \in ObjectTasks, pc[t] # Objects!Idle, Objects!Return(t)
    PROVE  \A c \in Cells : Objects!InCall(c) => c = pc[t].cell \/ Objects!InCall(c)'
BY DEF ObjectsTypes, CallsApart, Objects!Return, Objects!InCall

\* What is in a call stays in it when another call begins.
LEMMA InCallAfterBegin ==
    ASSUME ObjectsTypes, NEW t \in ObjectTasks, pc[t] = Objects!Idle, NEW v, v # Objects!Idle,
           pc' = [pc EXCEPT ![t] = v]
    PROVE  \A c \in Cells : Objects!InCall(c) => Objects!InCall(c)'
BY DEF ObjectsTypes, Objects!InCall

\* Types are kept.
LEMMA ObjectsTypesStep ==
    ASSUME Objects!LimitsAssumption, ObjectsTypes, CountsInv, [Objects!Next]_Objects!vars
    PROVE  ObjectsTypes'
<1> USE DEF ObjectsTypes, Positions, Objects!handles, Objects!kernel, Objects!activity
<1>1. ASSUME NEW t \in ObjectTasks, NEW c \in Cells, NEW kind \in {"timer", "queue"},
             Objects!Malloc(t, c, kind)
      PROVE  ObjectsTypes'
    BY <1>1 DEF Objects!Malloc
<1>2. ASSUME NEW t \in ObjectTasks, NEW c \in Cells,
             Objects!TimerStart(t, c) \/ Objects!TimerStop(t, c)
      PROVE  ObjectsTypes'
    <2>1. misused' \in BOOLEAN
        BY <1>2 DEF Objects!TimerStart, Objects!TimerStop, Objects!Uses
    <2> QED BY <1>2, <2>1 DEF Objects!TimerStart, Objects!TimerStop
<1>3. ASSUME NEW t \in ObjectTasks, NEW c \in Cells, Objects!TimerDelete(t, c) PROVE ObjectsTypes'
    <2>1. misused' \in BOOLEAN
        BY <1>3 DEF Objects!TimerDelete, Objects!Uses
    <2> QED BY <1>3, <2>1 DEF Objects!TimerDelete, Objects!Known
<1>4. ASSUME NEW t \in ObjectTasks, Objects!TimerCreate(t) PROVE ObjectsTypes'
    BY <1>4 DEF Objects!TimerCreate, Objects!Return, Objects!Idle, Objects!Words
<1>5. ASSUME NEW t \in ObjectTasks, Objects!TimerCreateFails(t) PROVE ObjectsTypes'
    BY <1>5 DEF Objects!TimerCreateFails, Objects!Return
<1>6. ASSUME NEW t \in ObjectTasks, Objects!QueueCreate(t) PROVE ObjectsTypes'
    BY <1>6 DEF Objects!QueueCreate, Objects!Return, Objects!Idle, Objects!Words
<1>7. ASSUME NEW t \in ObjectTasks, Objects!QueueCreateFails(t) PROVE ObjectsTypes'
    BY <1>7 DEF Objects!QueueCreateFails, Objects!Return
<1>8. ASSUME NEW t \in ObjectTasks, Objects!Free(t) PROVE ObjectsTypes'
    BY <1>8 DEF Objects!Free, Objects!Return, Objects!Idle
<1>9. ASSUME NEW bytes_free \in 0 .. 1, Objects!HeapStatus(bytes_free) PROVE ObjectsTypes'
    BY <1>9 DEF Objects!HeapStatus
<1>10. ASSUME NEW i \in Objects!TimerIds, Objects!Expire(i) PROVE ObjectsTypes'
    BY <1>10 DEF Objects!Expire
<1>11. CASE Objects!Callback
    BY <1>11 DEF Objects!Callback
<1>12. CASE UNCHANGED Objects!vars
    BY <1>12 DEF Objects!vars
<1> QED BY <1>1, <1>2, <1>3, <1>4, <1>5, <1>6, <1>7, <1>8, <1>9, <1>10, <1>11, <1>12
        DEF Objects!Next, Objects!TableCall

\* Calls stay apart.
LEMMA CallsApartStep ==
    ASSUME Objects!LimitsAssumption, ObjectsTypes, CallsApart, [Objects!Next]_Objects!vars
    PROVE  CallsApart'
<1> USE DEF ObjectsTypes, CallsApart, Positions, Objects!handles, Objects!kernel, Objects!activity
<1>1. ASSUME NEW t \in ObjectTasks, NEW c \in Cells, NEW kind \in {"timer", "queue"},
             Objects!Malloc(t, c, kind)
      PROVE  CallsApart'
    BY <1>1 DEF Objects!Malloc, Objects!Idle
<1>2. ASSUME NEW t \in ObjectTasks, NEW c \in Cells,
             Objects!TimerStart(t, c) \/ Objects!TimerStop(t, c)
      PROVE  CallsApart'
    BY <1>2 DEF Objects!TimerStart, Objects!TimerStop
<1>3. ASSUME NEW t \in ObjectTasks, NEW c \in Cells, Objects!TimerDelete(t, c) PROVE CallsApart'
    BY <1>3 DEF Objects!TimerDelete, Objects!Uses, Objects!IsTimer, Objects!InCall, Objects!Idle
<1>4. ASSUME NEW t \in ObjectTasks, Objects!TimerCreate(t) PROVE CallsApart'
    BY <1>4 DEF Objects!TimerCreate, Objects!Return, Objects!Idle
<1>5. ASSUME NEW t \in ObjectTasks, Objects!TimerCreateFails(t) PROVE CallsApart'
    BY <1>5 DEF Objects!TimerCreateFails, Objects!Return, Objects!Idle
<1>6. ASSUME NEW t \in ObjectTasks, Objects!QueueCreate(t) PROVE CallsApart'
    BY <1>6 DEF Objects!QueueCreate, Objects!Return, Objects!Idle
<1>7. ASSUME NEW t \in ObjectTasks, Objects!QueueCreateFails(t) PROVE CallsApart'
    BY <1>7 DEF Objects!QueueCreateFails, Objects!Return, Objects!Idle
<1>8. ASSUME NEW t \in ObjectTasks, Objects!Free(t) PROVE CallsApart'
    BY <1>8 DEF Objects!Free, Objects!Return, Objects!Idle
<1>9. ASSUME NEW bytes_free \in 0 .. 1, Objects!HeapStatus(bytes_free) PROVE CallsApart'
    BY <1>9 DEF Objects!HeapStatus
<1>10. ASSUME NEW i \in Objects!TimerIds, Objects!Expire(i) PROVE CallsApart'
    BY <1>10 DEF Objects!Expire
<1>11. CASE Objects!Callback
    BY <1>11 DEF Objects!Callback
<1>12. CASE UNCHANGED Objects!vars
    BY <1>12 DEF Objects!vars
<1> QED BY <1>1, <1>2, <1>3, <1>4, <1>5, <1>6, <1>7, <1>8, <1>9, <1>10, <1>11, <1>12
        DEF Objects!Next, Objects!TableCall

--------------------------------------------------------------------------
(* Starts and callbacks.                                                   *)

\* What is queued of a timer, counted as here.
LEMMA QueuedIs == \A i : /\ Objects!Queued(i) = Count(expiries, i)
                         /\ Objects!Queued(i)' = Count(expiries', i)
BY DEF Objects!Queued, Count, Objects!Cardinality, Cardinality

\* Nothing is counted by the steps that leave timers and expiries alone.
LEMMA ActivityKept ==
    ASSUME CountsInv, Objects!OneCallbackPerStart, UNCHANGED Objects!activity
    PROVE  CountsInv' /\ Objects!OneCallbackPerStart'
BY DEF CountsInv, Objects!OneCallbackPerStart, Objects!Queued, Objects!activity

\* A start counts one more, whether the timer ran or not.
LEMMA StartCounts ==
    ASSUME CountsInv, Objects!OneCallbackPerStart, NEW i \in Objects!TimerIds,
           starts' = [starts EXCEPT ![i] = @ + 1],
           ticking' = ticking \cup {i}, UNCHANGED <<expiries, callbacks>>
    PROVE  CountsInv' /\ Objects!OneCallbackPerStart'
<1>1. CountsInv'
    BY DEF CountsInv
<1>2. ASSUME NEW j \in Objects!TimerIds
      PROVE  (callbacks[j] + Objects!Queued(j) + (IF j \in ticking THEN 1 ELSE 0) <= starts[j])'
    <2>1. callbacks[j] + Objects!Queued(j) + (IF j \in ticking THEN 1 ELSE 0) <= starts[j]
        BY <1>2 DEF Objects!OneCallbackPerStart
    <2>2. Objects!Queued(j) \in Nat /\ Objects!Queued(j)' = Objects!Queued(j)
        BY QueuedIs, PlacesFinite DEF CountsInv
    <2> QED BY <1>2, <2>1, <2>2 DEF CountsInv
<1> QED BY <1>1, <1>2 DEF Objects!OneCallbackPerStart

\* A stop, or a delete, only takes the expiry to come.
LEMMA StopCounts ==
    ASSUME CountsInv, Objects!OneCallbackPerStart, NEW i,
           ticking' = ticking \ {i}, UNCHANGED <<expiries, callbacks, starts>>
    PROVE  CountsInv' /\ Objects!OneCallbackPerStart'
<1>1. CountsInv'
    BY DEF CountsInv
<1>2. ASSUME NEW j \in Objects!TimerIds
      PROVE  (callbacks[j] + Objects!Queued(j) + (IF j \in ticking THEN 1 ELSE 0) <= starts[j])'
    <2>1. callbacks[j] + Objects!Queued(j) + (IF j \in ticking THEN 1 ELSE 0) <= starts[j]
        BY <1>2 DEF Objects!OneCallbackPerStart
    <2>2. Objects!Queued(j) \in Nat /\ Objects!Queued(j)' = Objects!Queued(j)
        BY QueuedIs, PlacesFinite DEF CountsInv
    <2> QED BY <1>2, <2>1, <2>2 DEF CountsInv
<1> QED BY <1>1, <1>2 DEF Objects!OneCallbackPerStart

\* The expiry takes the place of the run it ends, or is lost.
LEMMA ExpireCounts ==
    ASSUME Objects!LimitsAssumption, CountsInv, Objects!OneCallbackPerStart,
           NEW i \in Objects!TimerIds, Objects!Expire(i)
    PROVE  CountsInv' /\ Objects!OneCallbackPerStart'
<1> USE DEF CountsInv
<1>1. CountsInv'
    BY DEF Objects!Expire, Objects!LimitsAssumption
<1>2. ASSUME NEW j \in Objects!TimerIds
      PROVE  (callbacks[j] + Objects!Queued(j) + (IF j \in ticking THEN 1 ELSE 0) <= starts[j])'
    <2>1. callbacks[j] + Objects!Queued(j) + (IF j \in ticking THEN 1 ELSE 0) <= starts[j]
        BY <1>2 DEF Objects!OneCallbackPerStart
    <2>2. Objects!Queued(j) = Count(expiries, j) /\ Objects!Queued(j)' = Count(expiries', j)
          /\ Count(expiries, j) \in Nat
        BY QueuedIs, PlacesFinite
    <2>3. \/ expiries' = expiries
          \/ Count(expiries', j) = Count(expiries, j) + (IF i = j THEN 1 ELSE 0)
        BY CountAppend DEF Objects!Expire
    <2>4. /\ i \in ticking /\ ticking' = ticking \ {i}
          /\ callbacks' = callbacks /\ starts' = starts
        BY DEF Objects!Expire
    <2>5. \/ Objects!Queued(j)' = Objects!Queued(j)
          \/ Objects!Queued(j)' = Objects!Queued(j) + (IF i = j THEN 1 ELSE 0)
        BY <2>2, <2>3
    <2>6. Objects!Queued(j) \in Nat
        BY <2>2
    <2> QED BY <2>1, <2>4, <2>5, <2>6, <1>2
<1> QED BY <1>1, <1>2 DEF Objects!OneCallbackPerStart

\* The callback takes the place of the expiry it answers.
LEMMA CallbackCounts ==
    ASSUME Objects!LimitsAssumption, CountsInv, Objects!OneCallbackPerStart, Objects!Callback
    PROVE  CountsInv' /\ Objects!OneCallbackPerStart'
<1> USE DEF CountsInv
<1>1. /\ Head(expiries) \in Objects!TimerIds /\ Tail(expiries) \in Seq(Objects!TimerIds)
      /\ Len(Tail(expiries)) = Len(expiries) - 1
    BY DEF Objects!Callback
<1>2. CountsInv'
    BY <1>1 DEF Objects!Callback, Objects!LimitsAssumption
<1>3. ASSUME NEW j \in Objects!TimerIds
      PROVE  (callbacks[j] + Objects!Queued(j) + (IF j \in ticking THEN 1 ELSE 0) <= starts[j])'
    <2>1. callbacks[j] + Objects!Queued(j) + (IF j \in ticking THEN 1 ELSE 0) <= starts[j]
        BY <1>3 DEF Objects!OneCallbackPerStart
    <2>2. Objects!Queued(j) = Count(expiries, j) /\ Objects!Queued(j)' = Count(Tail(expiries), j)
        BY QueuedIs DEF Objects!Callback
    <2>3. /\ Count(expiries, j) \in Nat /\ Count(Tail(expiries), j) \in Nat
          /\ Count(expiries, j)
             = Count(Tail(expiries), j) + (IF Head(expiries) = j THEN 1 ELSE 0)
        BY <1>1, PlacesFinite, CountTail DEF Objects!Callback
    <2>4. /\ ticking' = ticking /\ starts' = starts
          /\ callbacks' = [callbacks EXCEPT ![Head(expiries)] = @ + 1]
        BY DEF Objects!Callback
    <2>5. Objects!Queued(j) = Objects!Queued(j)' + (IF Head(expiries) = j THEN 1 ELSE 0)
          /\ Objects!Queued(j) \in Nat /\ Objects!Queued(j)' \in Nat
        BY <2>2, <2>3
    <2>6. callbacks'[j] = callbacks[j] + (IF Head(expiries) = j THEN 1 ELSE 0)
        BY <2>4, <1>1, <1>3
    <2> QED BY <2>1, <2>4, <2>5, <2>6, <1>3
<1> QED BY <1>2, <1>3 DEF Objects!OneCallbackPerStart

\* Every step keeps starts ahead of callbacks.
LEMMA CountsStep ==
    ASSUME Objects!LimitsAssumption, ObjectsTypes, CountsInv, Objects!OneCallbackPerStart,
           [Objects!Next]_Objects!vars
    PROVE  CountsInv' /\ Objects!OneCallbackPerStart'
<1>1. ASSUME NEW t \in ObjectTasks, NEW c \in Cells, Objects!TimerStart(t, c)
      PROVE  CountsInv' /\ Objects!OneCallbackPerStart'
    <2>1. CASE Objects!Known(word[c])
        BY <1>1, <2>1, StartCounts DEF Objects!TimerStart, Objects!Known
    <2>2. CASE ~Objects!Known(word[c])
        BY <1>1, <2>2, ActivityKept DEF Objects!TimerStart, Objects!activity
    <2> QED BY <2>1, <2>2
<1>2. ASSUME NEW t \in ObjectTasks, NEW c \in Cells, Objects!TimerStop(t, c) \/ Objects!TimerDelete(t, c)
      PROVE  CountsInv' /\ Objects!OneCallbackPerStart'
    BY <1>2, StopCounts DEF Objects!TimerStop, Objects!TimerDelete
<1>3. ASSUME NEW t \in ObjectTasks,
             \/ \E c \in Cells, kind \in {"timer", "queue"} : Objects!Malloc(t, c, kind)
             \/ Objects!TimerCreate(t) \/ Objects!TimerCreateFails(t)
             \/ Objects!QueueCreate(t) \/ Objects!QueueCreateFails(t) \/ Objects!Free(t)
      PROVE  CountsInv' /\ Objects!OneCallbackPerStart'
    BY <1>3, ActivityKept
       DEF Objects!Malloc, Objects!TimerCreate, Objects!TimerCreateFails, Objects!QueueCreate,
           Objects!QueueCreateFails, Objects!Free
<1>4. ASSUME NEW bytes_free \in 0 .. 1, Objects!HeapStatus(bytes_free)
      PROVE  CountsInv' /\ Objects!OneCallbackPerStart'
    BY <1>4, ActivityKept DEF Objects!HeapStatus
<1>5. ASSUME UNCHANGED Objects!vars PROVE CountsInv' /\ Objects!OneCallbackPerStart'
    BY <1>5, ActivityKept DEF Objects!vars
<1> QED BY <1>1, <1>2, <1>3, <1>4, <1>5, ExpireCounts, CallbackCounts DEF Objects!Next, Objects!TableCall

--------------------------------------------------------------------------
(* Handles and the kernel's objects.                                       *)

\* A cell whose handle is right.
Right(c) ==
    /\ object[c] = "timer" => word[c] \in Objects!TimerIds /\ timers[word[c]] = c
    /\ object[c] = "queue" => word[c] \in Objects!QueueIds /\ queues[word[c]] = c

\* Every step keeps the handles that were created right.
LEMMA HandlesStep ==
    ASSUME Objects!LimitsAssumption, ObjectsTypes, CallsApart, Objects!HandleReachesItsObject,
           [Objects!Next]_Objects!vars
    PROVE  Objects!HandleReachesItsObject'
<1> USE DEF ObjectsTypes, Positions, Objects!handles, Objects!kernel, Objects!activity
<1> SUFFICES ASSUME ~misused', NEW d \in made', ~Objects!InCall(d)' PROVE Right(d)'
    BY DEF Objects!HandleReachesItsObject, Right
<1>0. ASSUME ~misused, NEW e \in made, ~Objects!InCall(e) PROVE Right(e)
    BY <1>0 DEF Objects!HandleReachesItsObject, Right
<1>1. ASSUME NEW t \in ObjectTasks, NEW c \in Cells, NEW kind \in {"timer", "queue"},
             Objects!Malloc(t, c, kind)
      PROVE  Right(d)'
    <2>1. d \in made /\ d # c /\ misused' = misused
        BY <1>1 DEF Objects!Malloc
    <2>2. ~Objects!InCall(d)
        BY <1>1, InCallAfterBegin DEF Objects!Malloc, Objects!Idle
    <2> QED BY <1>1, <2>1, <2>2, <1>0 DEF Objects!Malloc, Right
<1>2. ASSUME NEW t \in ObjectTasks, NEW c \in Cells,
             Objects!TimerStart(t, c) \/ Objects!TimerStop(t, c)
      PROVE  Right(d)'
    <2>1. ~misused /\ made' = made /\ pc' = pc
          /\ UNCHANGED <<object, word, timers, queues>>
        BY <1>2, Zenon DEF Objects!TimerStart, Objects!TimerStop, Objects!Uses
    <2> QED BY <2>1, <1>0 DEF Right, Objects!InCall
<1>3. ASSUME NEW t \in ObjectTasks, NEW c \in Cells, Objects!TimerDelete(t, c) PROVE Right(d)'
    <2>1. ~misused /\ c \in made
        BY <1>3, Zenon DEF Objects!TimerDelete, Objects!Uses
    <2>2. ~Objects!InCall(d) /\ d # c
        BY <1>3, InCallAfterBegin DEF Objects!TimerDelete, Objects!Uses, Objects!Idle, Objects!InCall
    <2>3. Right(d) /\ Right(c)
        BY <1>0, <1>3, <2>1, <2>2 DEF Objects!TimerDelete, Objects!Uses, Objects!IsTimer
    <2> QED BY <1>3, <2>2, <2>3 DEF Objects!TimerDelete, Objects!Uses, Objects!IsTimer, Right, Objects!Known
<1>4. ASSUME NEW t \in ObjectTasks, Objects!TimerCreate(t) PROVE Right(d)'
    <2>1. pc[t] # Objects!Idle /\ pc[t].cell \in Cells /\ misused' = misused
        BY <1>4 DEF Objects!TimerCreate, Objects!Idle
    <2>2. CASE d = pc[t].cell
        BY <1>4, <2>1, <2>2 DEF Objects!TimerCreate, CallsApart, Right
    <2>3. CASE d # pc[t].cell
        <3>1. d \in made /\ Right(d)
            BY <1>0, <1>4, <2>1, <2>3, InCallAfterReturn DEF Objects!TimerCreate
        <3> QED BY <1>4, <2>1, <2>3, <3>1 DEF Objects!TimerCreate, Right, Objects!LimitsAssumption
    <2> QED BY <2>2, <2>3
<1>5. ASSUME NEW t \in ObjectTasks, Objects!QueueCreate(t) PROVE Right(d)'
    <2>1. pc[t] # Objects!Idle /\ pc[t].cell \in Cells /\ misused' = misused
        BY <1>5 DEF Objects!QueueCreate, Objects!Idle
    <2>2. CASE d = pc[t].cell
        BY <1>5, <2>1, <2>2 DEF Objects!QueueCreate, CallsApart, Right
    <2>3. CASE d # pc[t].cell
        <3>1. d \in made /\ Right(d)
            BY <1>0, <1>5, <2>1, <2>3, InCallAfterReturn DEF Objects!QueueCreate
        <3> QED BY <1>5, <2>1, <2>3, <3>1 DEF Objects!QueueCreate, Right, Objects!LimitsAssumption
    <2> QED BY <2>2, <2>3
<1>6. ASSUME NEW t \in ObjectTasks, Objects!TimerCreateFails(t) \/ Objects!QueueCreateFails(t) PROVE Right(d)'
    <2>1. /\ pc[t] # Objects!Idle /\ Objects!Return(t) /\ pc[t].cell \notin made
          /\ UNCHANGED <<Objects!handles, Objects!kernel, misused>>
        BY <1>6 DEF Objects!TimerCreateFails, Objects!QueueCreateFails, Objects!Idle, CallsApart
    <2>2. ~Objects!InCall(d)
        BY <2>1, InCallAfterReturn
    <2> QED BY <2>1, <2>2, <1>0 DEF Right
<1>7. ASSUME NEW t \in ObjectTasks, Objects!Free(t) PROVE Right(d)'
    <2>1. pc[t] # Objects!Idle /\ pc[t].cell \in Cells /\ Objects!Return(t)
        BY <1>7 DEF Objects!Free, Objects!Idle
    <2>2. CASE d = pc[t].cell
        BY <1>7, <2>1, <2>2 DEF Objects!Free, Right
    <2>3. CASE d # pc[t].cell
        <3>1. Right(d)
            BY <1>0, <1>7, <2>1, <2>3, InCallAfterReturn DEF Objects!Free
        <3> QED BY <1>7, <2>1, <2>3, <3>1 DEF Objects!Free, Right
    <2> QED BY <2>2, <2>3
<1>8. ASSUME UNCHANGED <<Objects!handles, Objects!kernel, pc, misused>> PROVE Right(d)'
    BY <1>0, <1>8 DEF Right, Objects!InCall
<1>9. ASSUME \/ \E bytes_free \in 0 .. 1 : Objects!HeapStatus(bytes_free)
             \/ \E i \in Objects!TimerIds : Objects!Expire(i)
             \/ Objects!Callback \/ UNCHANGED Objects!vars
      PROVE  Right(d)'
    BY <1>8, <1>9 DEF Objects!HeapStatus, Objects!Expire, Objects!Callback, Objects!vars
<1> QED BY <1>1, <1>2, <1>3, <1>4, <1>5, <1>6, <1>7, <1>9 DEF Objects!Next, Objects!TableCall

\* The invariant holds on the board.
LEMMA ObjectsKept == Spec => []ObjectsInv
<1>1. Init => ObjectsInv
    <2> SUFFICES ASSUME Init PROVE ObjectsInv
        OBVIOUS
    <2>1. ObjectsTypes /\ CallsApart
        BY DEF Init, Objects!Init, ObjectsTypes, CallsApart, Objects!Words, Objects!Idle
    <2>2. CountsInv
        BY Assumptions DEF Init, Objects!Init, CountsInv, Objects!LimitsAssumption
    <2>3. Objects!HandleReachesItsObject
        BY DEF Init, Objects!Init, Objects!HandleReachesItsObject
    <2>4. \A i : {k \in DOMAIN expiries : expiries[k] = i} = {}
        BY DEF Init, Objects!Init
    <2>5. \A i : Objects!Queued(i) = 0
        BY <2>4, QueuedIs, FS_EmptySet DEF Count
    <2>6. Objects!OneCallbackPerStart
        BY <2>5 DEF Init, Objects!Init, Objects!OneCallbackPerStart
    <2> QED BY <2>1, <2>2, <2>3, <2>6 DEF ObjectsInv
<1>2. ObjectsInv /\ [Next]_vars => ObjectsInv'
    BY Assumptions, StepOfPart, ObjectsTypesStep, CallsApartStep, HandlesStep, CountsStep
       DEF ObjectsInv
<1> QED BY <1>1, <1>2, PTL DEF Spec

\* Until a handle whose creation failed is used, every handle that was made
\* names the object made for it: for any tasks, heap and pools.
THEOREM HandlesKept == Spec => []HandleReachesItsObject
<1>1. ObjectsInv => HandleReachesItsObject
    BY DEF ObjectsInv, HandleReachesItsObject
<1> QED BY <1>1, ObjectsKept, PTL

\* No timer calls back more often than it was started: for any tasks, any
\* number of timers, and any stops, deletes and lost expiries.
THEOREM Callbacks == Spec => []OneCallbackPerStart
<1>1. ObjectsInv => OneCallbackPerStart
    BY DEF ObjectsInv, OneCallbackPerStart
<1> QED BY <1>1, ObjectsKept, PTL

--------------------------------------------------------------------------
(* OsEvents.                                                               *)

\* A task that was resumed and finds no event was overtaken by the one that
\* took it: this is why a failed wait can be blamed on a rival.
ResumedInVain ==
    \A w \in Waiters : waiter[w] = "resumed" /\ uwEventID = 0 => w \in stolen

EventsInv == Events!TypeOK /\ Events!WaitResultsRight /\ ResumedInVain

\* The poll that ends a wait, for a task that was resumed or finds the event.
LEMMA TakeKeeps ==
    ASSUME EventsInv, NEW w \in Waiters, Events!Take(w),
           waiter[w] = "resumed" \/ (waiter[w] = "out" /\ uwEventID = 1)
    PROVE  EventsInv'
<1> USE DEF EventsInv, Events!TypeOK, Events!WaitResultsRight, Events!SuccessNeedsASet,
            Events!FailureOnlyToRival, ResumedInVain,
            Events!Take, Events!Poll, Events!Returned, Events!Resumed
<1>1. CASE uwEventID = 1
    BY <1>1, SMT
<1>2. CASE uwEventID = 0
    BY <1>2, SMT
<1> QED BY <1>1, <1>2

\* Every step of waiters and setters keeps the invariant.
LEMMA EventsStep ==
    ASSUME MaxSets \in Nat, EventsInv, [Events!Next]_Events!vars PROVE EventsInv'
<1> USE DEF EventsInv, Events!TypeOK, Events!WaitResultsRight, Events!SuccessNeedsASet,
            Events!FailureOnlyToRival, ResumedInVain
<1>1. ASSUME NEW w \in Waiters, Events!WaitSatisfied(w) PROVE EventsInv'
    BY <1>1, TakeKeeps DEF Events!WaitSatisfied
<1>2. ASSUME NEW w \in Waiters, Events!WaitResumes(w) PROVE EventsInv'
    BY <1>2, TakeKeeps DEF Events!WaitResumes
<1>3. ASSUME NEW w \in Waiters, Events!WaitPends(w) PROVE EventsInv'
    BY <1>3 DEF Events!WaitPends
<1>4. CASE Events!EventSet
    BY <1>4 DEF Events!EventSet
<1>5. CASE UNCHANGED Events!vars
    BY <1>5 DEF Events!vars
<1> QED BY <1>1, <1>2, <1>3, <1>4, <1>5 DEF Events!Next

\* The invariant of the event holds on the board.
LEMMA EventsKept == Spec => []EventsInv
<1>1. MaxSets \in Nat
    BY Assumptions DEF Events!MaxSetsAssumption
<1>2. Init => EventsInv
    BY <1>1 DEF Init, Events!Init, EventsInv, Events!TypeOK, Events!WaitResultsRight,
                Events!SuccessNeedsASet, Events!FailureOnlyToRival, ResumedInVain
<1>3. EventsInv /\ [Next]_vars => EventsInv'
    BY <1>1, EventsStep, StepOfPart
<1> QED BY <1>2, <1>3, PTL DEF Spec

\* port_event_wait succeeds only on a set of its own, and fails only when
\* another task took the event: for any waiters and any number of sets.
THEOREM WaitResults == Spec => []WaitResultsRight
<1>1. EventsInv => WaitResultsRight
    BY DEF EventsInv, WaitResultsRight
<1> QED BY <1>1, EventsKept, PTL

--------------------------------------------------------------------------
(* OsQueue, and what Console needs of sequences too.                       *)

\* An element put behind two sequences is put behind the second.
LEMMA AppendBehind ==
    ASSUME NEW S, NEW s \in Seq(S), NEW q \in Seq(S), NEW m \in S
    PROVE  Append(s \o q, m) = s \o Append(q, m)
OBVIOUS

\* The element between two sequences may belong to either.
LEMMA HeadAcross ==
    ASSUME NEW S, NEW s \in Seq(S), NEW q \in Seq(S), q # <<>>
    PROVE  Append(s, Head(q)) \o Tail(q) = s \o q
OBVIOUS

QueueInv ==
    /\ queue \in Seq(Nat) /\ accepted \in Seq(Nat) /\ received \in Seq(Nat)
    /\ Queue!TypeOK
    /\ Queue!AcceptedInOrder

\* A message that is written is accepted, and is the last of both.
LEMMA EnqueueKeeps ==
    ASSUME Queue!LengthAssumption, QueueInv, Len(queue) < QueueLength, NEW m \in Nat,
           Queue!Enqueue(m), Queue!Told("LOS_OK", m), UNCHANGED received
    PROVE  /\ queue' \in Seq(Nat) /\ accepted' \in Seq(Nat) /\ received' \in Seq(Nat)
           /\ Len(queue') <= QueueLength
           /\ Queue!AcceptedInOrder'
<1>1. accepted' = Append(accepted, m) /\ queue' = Append(queue, m) /\ received' = received
    BY DEF Queue!Enqueue, Queue!Told, Queue!Returned
<1>2. Append(received \o queue, m) = received \o Append(queue, m)
    BY AppendBehind DEF QueueInv
<1>3. accepted' = received' \o queue'
    BY <1>1, <1>2 DEF QueueInv, Queue!AcceptedInOrder
<1>4. queue' \in Seq(Nat) /\ accepted' \in Seq(Nat) /\ received' \in Seq(Nat)
    BY <1>1 DEF QueueInv
<1>5. Len(queue') <= QueueLength
    BY <1>1 DEF QueueInv, Queue!LengthAssumption
<1> QED BY <1>3, <1>4, <1>5 DEF Queue!AcceptedInOrder

\* A message that is read is received, and neither lost nor passed.
LEMMA DequeueKeeps ==
    ASSUME Queue!LengthAssumption, QueueInv, Queue!Dequeue
    PROVE  /\ queue' \in Seq(Nat) /\ accepted' \in Seq(Nat) /\ received' \in Seq(Nat)
           /\ Len(queue') <= QueueLength
           /\ offered' = offered
           /\ Queue!AcceptedInOrder'
<1>1. /\ received' = Append(received, Head(queue)) /\ queue' = Tail(queue)
      /\ accepted' = accepted /\ offered' = offered /\ queue # <<>>
    BY DEF Queue!Dequeue
<1>2. accepted' = received' \o queue'
    BY <1>1, HeadAcross DEF QueueInv, Queue!AcceptedInOrder
<1> QED BY <1>1, <1>2
        DEF QueueInv, Queue!TypeOK, Queue!AcceptedInOrder, Queue!LengthAssumption

\* Every step of senders, receivers and handlers keeps the invariant.
LEMMA QueueStep ==
    ASSUME Queue!LengthAssumption, QueueInv, [Queue!Next]_Queue!vars PROVE QueueInv'
<1> USE DEF Queue!TypeOK
<1>1. ASSUME NEW t \in QueueTasks, Queue!Send(t) PROVE QueueInv'
    <2>0. offered' \in 0 .. MaxMsgs /\ offered' \in Nat
        BY <1>1 DEF Queue!Send, QueueInv, Queue!LengthAssumption
    <2>1. CASE Len(queue) < QueueLength
        BY <1>1, <2>0, <2>1, EnqueueKeeps DEF Queue!Send, QueueInv
    <2>2. CASE ~(Len(queue) < QueueLength)
        <3>1. /\ UNCHANGED <<queue, accepted, received>>
              /\ waits' = [waits EXCEPT ![t] = offered']
            BY <1>1, <2>2 DEF Queue!Send
        <3>2. waits' \in [QueueTasks -> -1 .. MaxMsgs]
            BY <2>0, <3>1 DEF QueueInv
        <3> QED BY <2>0, <3>1, <3>2 DEF QueueInv, Queue!AcceptedInOrder
    <2> QED BY <2>1, <2>2
<1>2. ASSUME NEW t \in QueueTasks, Queue!SendResumes(t) PROVE QueueInv'
    <2>1. waits[t] \in Nat
        BY <1>2 DEF Queue!SendResumes, QueueInv, Queue!LengthAssumption
    <2>2. waits' \in [QueueTasks -> -1 .. MaxMsgs] /\ offered' = offered
        BY <1>2 DEF Queue!SendResumes, QueueInv, Queue!LengthAssumption
    <2> QED BY <1>2, <2>1, <2>2, EnqueueKeeps DEF Queue!SendResumes, QueueInv
<1>3. ASSUME NEW t \in QueueTasks, Queue!Recv(t) PROVE QueueInv'
    <2>1. CASE queue # <<>>
        BY <1>3, <2>1, DequeueKeeps DEF Queue!Recv, QueueInv
    <2>2. CASE queue = <<>>
        BY <1>3, <2>2 DEF Queue!Recv, QueueInv, Queue!AcceptedInOrder, Queue!LengthAssumption
    <2> QED BY <2>1, <2>2
<1>4. ASSUME NEW t \in QueueTasks, Queue!RecvResumes(t) PROVE QueueInv'
    <2>1. waits' \in [QueueTasks -> -1 .. MaxMsgs]
        BY <1>4 DEF Queue!RecvResumes, QueueInv, Queue!LengthAssumption
    <2> QED BY <1>4, <2>1, DequeueKeeps DEF Queue!RecvResumes, QueueInv
<1>5. CASE Queue!SendFromHandler
    BY <1>5 DEF Queue!SendFromHandler, Queue!Told, Queue!Returned, QueueInv,
                Queue!AcceptedInOrder, Queue!LengthAssumption
<1>6. CASE UNCHANGED Queue!vars
    BY <1>6 DEF Queue!vars, QueueInv, Queue!AcceptedInOrder
<1> QED BY <1>1, <1>2, <1>3, <1>4, <1>5, <1>6 DEF Queue!Next

\* The invariant of the queue holds on the board.
LEMMA QueueKept == Spec => []QueueInv
<1>1. Init => QueueInv
    BY Assumptions DEF Init, Queue!Init, QueueInv, Queue!TypeOK, Queue!AcceptedInOrder,
                       Queue!LengthAssumption
<1>2. QueueInv /\ [Next]_vars => QueueInv'
    BY Assumptions, QueueStep, StepOfPart
<1> QED BY <1>1, <1>2, PTL DEF Spec

\* Received and queued messages are those port_queue_send_msg accepted, in
\* their order: for any tasks, any length and any number of messages.
THEOREM Delivery == Spec => []AcceptedInOrder
<1>1. QueueInv => AcceptedInOrder
    BY DEF QueueInv, AcceptedInOrder
<1> QED BY <1>1, QueueKept, PTL

--------------------------------------------------------------------------
(* Boot.                                                                   *)

Early == {"app_main", "callbacks_set"}
Launching == {"set_up", "kernel_initialised", "sample1", "sample2"}
Launched == {"driver_returned", "started"}

\* What the texts need: the port is set up when any is printed, but for that
\* of a fault, which ends the start-up where it stands.
TextInv ==
    /\ stage \in Early \cup Launching \cup Launched
    /\ {registered, uart, lost, halted, hilog, host} \subseteq BOOLEAN
    /\ stage \notin Early => uart
    /\ stage = "app_main" => ~registered
    /\ lost => halted /\ stage = "callbacks_set"

\* The start-up tasks made at a stage before the driver table is returned.
MadeAt(s) ==
    IF s = "sample1" THEN {"TaskSampleEntry1"}
    ELSE IF s = "sample2" THEN {"TaskSampleEntry1", "TaskSampleEntry2"}
    ELSE {}

BootRoom == TskLimit - KernelTasks - Cardinality(Boot!StartUpTasks)

\* The pool: until the kernel starts it holds the start-up tasks and what
\* the platform asked for, so it is the platform's count that fills it.
PoolInv ==
    /\ tasks \subseteq Boot!StartUpTasks \cup PlatformTasks \cup AppTasks
    /\ asked \subseteq PlatformTasks
    /\ IsFiniteSet(tasks) /\ IsFiniteSet(asked)
    /\ KernelTasks + Cardinality(tasks) <= TskLimit
    /\ stage \notin Launched => tasks = MadeAt(stage) /\ asked = {}
    /\ stage # "started" => ~hilog
    /\ stage = "driver_returned" => tasks \subseteq Boot!StartUpTasks \cup asked
    /\ stage \in Launched =>
          Boot!StartUpTasks \ tasks \subseteq (IF hilog THEN {"mainTask"} ELSE {})
    /\ Cardinality(asked) <= BootRoom => asked \subseteq tasks

\* Counting in Boot is counting.
LEMMA BootCounts ==
    \A S : Boot!Cardinality(S) = Cardinality(S)
BY DEF Boot!Cardinality, Cardinality

\* There is room for the three start-up tasks.
LEMMA PoolSizes ==
    /\ TskLimit \in Nat /\ KernelTasks \in Nat
    /\ Cardinality(Boot!StartUpTasks) = 3 /\ IsFiniteSet(Boot!StartUpTasks)
    /\ KernelTasks + 3 <= TskLimit
    /\ Boot!StartUpTasks \cap PlatformTasks = {}
<1> DEFINE A == {"TaskSampleEntry1"}
           B == A \cup {"TaskSampleEntry2"}
           C == B \cup {"mainTask"}
<1>1. IsFiniteSet(A) /\ Cardinality(A) = 1
    BY FS_Singleton
<1>2. IsFiniteSet(B) /\ Cardinality(B) = 2
    BY <1>1, FS_AddElement
<1>3. IsFiniteSet(C) /\ Cardinality(C) = 3
    BY <1>2, FS_AddElement
<1>4. Boot!StartUpTasks = C
    BY DEF Boot!StartUpTasks
<1> HIDE DEF C
<1>5. /\ TskLimit \in Nat /\ KernelTasks \in Nat
      /\ KernelTasks + Cardinality(C) <= TskLimit
      /\ Boot!StartUpTasks \cap PlatformTasks = {}
    BY Assumptions, BootCounts, <1>4 DEF Boot!PoolAssumption
<1> QED BY <1>3, <1>4, <1>5

\* A creation: the task is there if the pool had room, and if not nothing
\* changed.
LEMMA Creation ==
    ASSUME IsFiniteSet(tasks), KernelTasks + Cardinality(tasks) <= TskLimit,
           NEW t, Boot!LOS_TaskCreate(t)
    PROVE  /\ IsFiniteSet(tasks') /\ KernelTasks + Cardinality(tasks') <= TskLimit
           /\ tasks \subseteq tasks' /\ tasks' \subseteq tasks \cup {t}
           /\ KernelTasks + Cardinality(tasks) < TskLimit => tasks' = tasks \cup {t}
<1>1. tasks' = IF KernelTasks + Cardinality(tasks) < TskLimit THEN tasks \cup {t} ELSE tasks
    BY BootCounts DEF Boot!LOS_TaskCreate
<1>2. /\ IsFiniteSet(tasks \cup {t}) /\ Cardinality(tasks) \in Nat
      /\ Cardinality(tasks \cup {t}) = Cardinality(tasks)
         \/ Cardinality(tasks \cup {t}) = Cardinality(tasks) + 1
    BY FS_AddElement, FS_CardinalityType
<1>3. CASE KernelTasks + Cardinality(tasks) < TskLimit
    <2>1. tasks' = tasks \cup {t}
        BY <1>1, <1>3
    <2>2. KernelTasks + Cardinality(tasks \cup {t}) <= TskLimit
        BY <1>2, <1>3, PoolSizes
    <2> QED BY <2>1, <2>2, <1>2
<1>4. CASE ~(KernelTasks + Cardinality(tasks) < TskLimit)
    <2>1. tasks' = tasks
        BY <1>1, <1>4
    <2> QED BY <2>1, <1>4
<1> QED BY <1>3, <1>4

\* Every step keeps the port ready for the texts.
LEMMA TextStep == ASSUME TextInv, [Boot!Next]_Boot!vars PROVE TextInv'
<1> USE DEF TextInv, Early, Launching, Launched, Boot!At
<1>1. CASE Boot!SetCallbackTable
    BY <1>1, Zenon DEF Boot!SetCallbackTable
<1>2. CASE Boot!SetupPeripherals
    BY <1>2, Zenon DEF Boot!SetupPeripherals
<1>3. CASE Boot!Greet \/ Boot!TaskSample1 \/ Boot!TaskSample2 \/ Boot!OsStart
    <2>1. /\ ~halted /\ stage \notin Early /\ stage' \in Launching \cup Launched
          /\ lost' = (lost \/ ~uart) /\ UNCHANGED <<registered, uart, halted, hilog, host>>
        BY <1>3 DEF Boot!Greet, Boot!TaskSample1, Boot!TaskSample2, Boot!OsStart,
                    Boot!PrintText
    <2>2. uart /\ ~lost
        BY <2>1
    <2>3. stage' \notin Early /\ ~lost'
        BY <2>1, <2>2
    <2>4. stage' \in Early \cup Launching \cup Launched /\ stage' # "app_main"
        BY <2>1, <2>3
    <2>5. {registered', uart', lost', halted', hilog', host'} \subseteq BOOLEAN
        BY <2>1, <2>3
    <2>6. uart'
        BY <2>1, <2>2, Zenon
    <2> HIDE DEF Early, Launching, Launched
    <2> QED BY <2>3, <2>4, <2>5, <2>6, Zenon
<1>4. CASE Boot!MainTaskInit
    BY <1>4, Zenon DEF Boot!MainTaskInit
<1>5. ASSUME \/ \E t \in PlatformTasks : Boot!port_task_create(t)
             \/ \E t \in AppTasks : Boot!AppTask(t)
             \/ Boot!MainTaskEnds
      PROVE  TextInv'
    <2>1. /\ stage \in Launched /\ stage' = stage /\ UNCHANGED <<registered, uart, lost, halted, host>>
          /\ hilog' = hilog \/ hilog' = TRUE
        BY <1>5, Zenon DEF Boot!port_task_create, Boot!AppTask, Boot!MainTaskEnds
    <2> QED BY <2>1, Zenon
<1>6. CASE Boot!TaskPrints \/ Boot!setup_profile
    <2>1. /\ stage = "started" /\ stage' = stage /\ host' \in {host, TRUE}
          /\ lost' = (lost \/ ~uart) /\ UNCHANGED <<registered, uart, halted, hilog>>
        BY <1>6 DEF Boot!TaskPrints, Boot!setup_profile, Boot!PrintText
    <2>2. uart /\ ~lost /\ ~lost'
        BY <2>1, Zenon
    <2> QED BY <2>1, <2>2, Zenon
<1>7. CASE Boot!Doze
    BY <1>7, Zenon DEF Boot!Doze, Boot!query_deep_sleep_allowed
<1>8. CASE Boot!Fault
    BY <1>8, Zenon DEF Boot!Fault, Boot!PrintText
<1>9. CASE Boot!user_packet_handler \/ UNCHANGED Boot!vars
    <2>1. stage' = stage /\ UNCHANGED <<registered, uart, lost, halted, hilog, host>>
        BY <1>9 DEF Boot!user_packet_handler, Boot!vars
    <2> QED BY <2>1, Zenon
<1> QED BY <1>1, <1>2, <1>3, <1>4, <1>5, <1>6, <1>7, <1>8, <1>9 DEF Boot!Next

\* A step that keeps the pool.
LEMMA PoolKept ==
    ASSUME PoolInv, UNCHANGED <<tasks, asked, hilog>>,
           \/ stage' = stage
           \/ stage \in {"app_main", "callbacks_set", "set_up"}
              /\ stage' \in {"callbacks_set", "set_up", "kernel_initialised"}
           \/ stage = "driver_returned" /\ stage' = "started"
    PROVE  PoolInv'
BY DEF PoolInv, Launched, MadeAt

\* Every step keeps the start-up tasks in the pool, and what the platform
\* asked for as long as that fits.
LEMMA PoolStep == ASSUME PoolInv, [Boot!Next]_Boot!vars PROVE PoolInv'
<1> USE DEF Boot!At
<1>0. /\ "TaskSampleEntry1" \in Boot!StartUpTasks /\ "TaskSampleEntry2" \in Boot!StartUpTasks
      /\ "mainTask" \in Boot!StartUpTasks
      /\ \A t \in Boot!StartUpTasks :
            t \in {"TaskSampleEntry1", "TaskSampleEntry2", "mainTask"}
    BY DEF Boot!StartUpTasks
<1>1. CASE \/ Boot!SetCallbackTable \/ Boot!SetupPeripherals \/ Boot!Greet
           \/ Boot!OsStart \/ Boot!setup_profile \/ Boot!user_packet_handler
           \/ Boot!TaskPrints \/ Boot!Doze \/ Boot!Fault
           \/ UNCHANGED Boot!vars
    BY <1>1, PoolKept
       DEF Boot!SetCallbackTable, Boot!SetupPeripherals, Boot!Greet, Boot!OsStart,
           Boot!setup_profile, Boot!user_packet_handler, Boot!TaskPrints, Boot!Doze,
           Boot!Fault, Boot!vars
<1>2. CASE Boot!TaskSample1 \/ Boot!TaskSample2 \/ Boot!MainTaskInit
    <2>1. /\ asked = {} /\ asked' = asked /\ hilog' = hilog /\ ~hilog
          /\ stage \notin Launched /\ tasks = MadeAt(stage)
          /\ \/ stage = "kernel_initialised" /\ stage' = "sample1"
                /\ Boot!LOS_TaskCreate("TaskSampleEntry1")
             \/ stage = "sample1" /\ stage' = "sample2"
                /\ Boot!LOS_TaskCreate("TaskSampleEntry2")
             \/ stage = "sample2" /\ stage' = "driver_returned"
                /\ Boot!LOS_TaskCreate("mainTask")
        BY <1>2 DEF Boot!TaskSample1, Boot!TaskSample2, Boot!MainTaskInit, PoolInv, Launched
    <2>2. /\ IsFiniteSet(tasks) /\ KernelTasks + Cardinality(tasks) <= TskLimit
          /\ tasks \subseteq Boot!StartUpTasks
        BY <2>1, <1>0 DEF PoolInv, MadeAt
    <2>3. "mainTask" \notin tasks
        BY <2>1 DEF MadeAt
    <2>4. Cardinality(tasks) < 3
        <3>1. Cardinality(Boot!StartUpTasks \ {"mainTask"}) = 2
              /\ IsFiniteSet(Boot!StartUpTasks \ {"mainTask"})
            BY <1>0, PoolSizes, FS_RemoveElement
        <3>2. Cardinality(tasks) <= Cardinality(Boot!StartUpTasks \ {"mainTask"})
            BY <3>1, <2>2, <2>3, FS_Subset
        <3> QED BY <3>1, <3>2, <2>2, FS_CardinalityType
    <2>5. KernelTasks + Cardinality(tasks) < TskLimit
        BY <2>2, <2>4, PoolSizes, FS_CardinalityType
    <2>6. /\ IsFiniteSet(tasks') /\ KernelTasks + Cardinality(tasks') <= TskLimit
          /\ \/ stage' = "sample1" /\ tasks' = {"TaskSampleEntry1"}
             \/ stage' = "sample2" /\ tasks' = {"TaskSampleEntry1", "TaskSampleEntry2"}
             \/ stage' = "driver_returned" /\ tasks' = Boot!StartUpTasks
        <3>1. CASE stage = "kernel_initialised"
            BY <3>1, <2>1, <2>2, <2>5, Creation DEF MadeAt
        <3>2. CASE stage = "sample1"
            BY <3>2, <2>1, <2>2, <2>5, Creation DEF MadeAt
        <3>3. CASE stage = "sample2"
            BY <3>3, <2>1, <2>2, <2>5, Creation DEF MadeAt, Boot!StartUpTasks
        <3> QED BY <2>1, <3>1, <3>2, <3>3
    <2> QED BY <2>1, <2>6, <1>0 DEF PoolInv, Launched, MadeAt
<1>3. ASSUME NEW t \in PlatformTasks, Boot!port_task_create(t) PROVE PoolInv'
    <2>1. /\ stage = "driver_returned" /\ stage' = stage /\ t \notin asked
          /\ asked' = asked \cup {t} /\ Boot!LOS_TaskCreate(t) /\ hilog' = hilog
        BY <1>3 DEF Boot!port_task_create
    <2>2. /\ IsFiniteSet(tasks') /\ KernelTasks + Cardinality(tasks') <= TskLimit
          /\ tasks \subseteq tasks' /\ tasks' \subseteq tasks \cup {t}
          /\ KernelTasks + Cardinality(tasks) < TskLimit => tasks' = tasks \cup {t}
        BY <2>1, Creation DEF PoolInv
    <2>3. /\ IsFiniteSet(asked') /\ Cardinality(asked') = Cardinality(asked) + 1
          /\ Cardinality(asked) \in Nat
        BY <2>1, FS_AddElement, FS_CardinalityType DEF PoolInv
    <2>4. Cardinality(tasks) <= 3 + Cardinality(asked)
        <3>1. /\ IsFiniteSet(Boot!StartUpTasks \cup asked)
              /\ Cardinality(Boot!StartUpTasks \cup asked)
                 = 3 + Cardinality(asked) - Cardinality(Boot!StartUpTasks \cap asked)
            BY PoolSizes, FS_Union DEF PoolInv
        <3>2. Boot!StartUpTasks \cap asked = {}
            BY PoolSizes DEF PoolInv
        <3>3. Cardinality(Boot!StartUpTasks \cup asked) = 3 + Cardinality(asked)
            BY <3>1, <3>2, <2>3, FS_EmptySet
        <3>4. Cardinality(tasks) <= Cardinality(Boot!StartUpTasks \cup asked)
            BY <3>1, <2>1, FS_Subset DEF PoolInv
        <3> QED BY <3>3, <3>4
    <2>5. Cardinality(asked') <= BootRoom => asked' \subseteq tasks'
        <3> SUFFICES ASSUME Cardinality(asked') <= BootRoom PROVE asked' \subseteq tasks'
            OBVIOUS
        <3>1. Cardinality(asked) + 1 <= TskLimit - KernelTasks - 3
            BY <2>3, PoolSizes DEF BootRoom
        <3>2. KernelTasks + Cardinality(tasks) < TskLimit
            <4>1. Cardinality(tasks) \in Nat
                BY FS_CardinalityType DEF PoolInv
            <4> QED BY <4>1, <3>1, <2>3, <2>4, PoolSizes
        <3>3. asked \subseteq tasks
            <4>1. Cardinality(asked) <= BootRoom
                BY <3>1, <2>3, PoolSizes DEF BootRoom
            <4> QED BY <4>1 DEF PoolInv
        <3> QED BY <3>2, <3>3, <2>1, <2>2
    <2> QED BY <2>1, <2>2, <2>3, <2>5 DEF PoolInv, Launched
<1>4. ASSUME NEW t \in AppTasks, Boot!AppTask(t) PROVE PoolInv'
    <2>1. /\ stage = "started" /\ stage' = stage
          /\ asked' = asked /\ Boot!LOS_TaskCreate(t) /\ hilog' = hilog
        BY <1>4 DEF Boot!AppTask
    <2>2. /\ IsFiniteSet(tasks') /\ KernelTasks + Cardinality(tasks') <= TskLimit
          /\ tasks \subseteq tasks' /\ tasks' \subseteq tasks \cup {t}
        BY <2>1, Creation DEF PoolInv
    <2> QED BY <2>1, <2>2 DEF PoolInv, Launched
<1>5. CASE Boot!MainTaskEnds
    <2>1. /\ stage = "started" /\ stage' = stage /\ asked' = asked
          /\ "mainTask" \in tasks /\ tasks' = tasks \ {"mainTask"} /\ hilog'
        BY <1>5 DEF Boot!MainTaskEnds
    <2>2. /\ IsFiniteSet(tasks') /\ Cardinality(tasks') = Cardinality(tasks) - 1
          /\ Cardinality(tasks) \in Nat
        BY <2>1, FS_RemoveElement, FS_CardinalityType DEF PoolInv
    <2>3. KernelTasks + Cardinality(tasks') <= TskLimit
        BY <2>2, PoolSizes DEF PoolInv
    <2>4. "mainTask" \notin asked
        BY <1>0, PoolSizes DEF PoolInv
    <2> QED BY <2>1, <2>2, <2>3, <2>4 DEF PoolInv, Launched
<1> QED BY <1>1, <1>2, <1>3, <1>4, <1>5 DEF Boot!Next

\* The invariants of the start-up hold on the board.
LEMMA BootKept == Spec => [](TextInv /\ PoolInv)
<1>1. Init => TextInv /\ PoolInv
    <2> SUFFICES ASSUME Boot!Init PROVE TextInv /\ PoolInv
        BY DEF Init
    <2>1. TextInv
        BY DEF Boot!Init, TextInv, Early, Launching, Launched
    <2>2. IsFiniteSet({}) /\ Cardinality({}) = 0
        BY FS_EmptySet
    <2>3. PoolInv
        BY <2>2, PoolSizes DEF Boot!Init, PoolInv, Launched, MadeAt
    <2> QED BY <2>1, <2>3
<1>2. TextInv /\ PoolInv /\ [Next]_vars => (TextInv /\ PoolInv)'
    BY StepOfPart, TextStep, PoolStep
<1> QED BY <1>1, <1>2, PTL DEF Spec

\* Whatever platform and applications ask for, the start-up tasks are there,
\* the platform's too if they fit, and no text but that of an early fault is
\* lost: for any size of the pool that holds the start-up tasks.
THEOREM StartUp == Spec => []StartUpTasksFirst
<1>1. TextInv /\ PoolInv => StartUpTasksFirst
    BY BootCounts
       DEF TextInv, PoolInv, StartUpTasksFirst, Boot!StartUpTasksFirst, Boot!Room, BootRoom,
           Launched
<1> QED BY <1>1, BootKept, PTL

--------------------------------------------------------------------------
(* Console.                                                                *)

\* The characters in out are those before the next of each context, but for
\* the gone ones, each once and in the order of its text.
Sent(out, next, gone) ==
    /\ \A k \in DOMAIN out : out[k][2] < next[out[k][1]] /\ out[k] \notin gone
    /\ \A x \in gone : x[2] < next[x[1]]
    /\ \A x \in Console!Characters : x[2] < next[x[1]] /\ x \notin gone =>
          \E k \in DOMAIN out : out[k] = x
    /\ \A j, k \in DOMAIN out : j < k /\ out[j][1] = out[k][1] => out[j][2] < out[k][2]

ConsoleKinds ==
    /\ fifo \in Seq(Console!Characters) /\ line \in Seq(Console!Characters)
    /\ Len(fifo) <= FifoSize
    /\ char \in [Console!Contexts -> 0 .. TextLength + 1]
    /\ checked \subseteq Console!Contexts /\ overtaken \subseteq Console!Contexts
    /\ dropped \subseteq Console!Characters

\* The room a context saw is there until another writes, and none writes
\* while a fault prints.
RoomInv ==
    /\ \A c \in checked : char[c] \in 1 .. TextLength
    /\ \A c \in checked \ overtaken : Len(fifo) < FifoSize
    /\ FaultContext \notin overtaken
    /\ \A x \in dropped : x[1] # FaultContext

ConsoleInv == ConsoleKinds /\ RoomInv /\ Sent(line \o fifo, char, dropped)

\* A character that is written is the last one of its context.
LEMMA SentOne ==
    ASSUME NEW out \in Seq(Console!Characters), NEW gone \in SUBSET Console!Characters,
           NEW next \in [Console!Contexts -> 0 .. TextLength + 1], Sent(out, next, gone),
           NEW c \in Console!Contexts, next[c] \in 1 .. TextLength, TextLength \in Nat
    PROVE  Sent(Append(out, <<c, next[c]>>), [next EXCEPT ![c] = @ + 1], gone)
<1> DEFINE x == <<c, next[c]>>
           out2 == Append(out, x)
           next2 == [next EXCEPT ![c] = @ + 1]
<1>1. /\ x \in Console!Characters /\ x[1] = c /\ x[2] = next[c] /\ x \notin gone
    BY DEF Console!Characters, Sent
<1>2. /\ DOMAIN out2 = 1 .. Len(out) + 1 /\ DOMAIN out = 1 .. Len(out) /\ Len(out) \in Nat
      /\ out2[Len(out) + 1] = x
      /\ \A k \in DOMAIN out : k \in DOMAIN out2 /\ out2[k] = out[k]
      /\ \A k \in DOMAIN out : out[k] \in Console!Characters
    BY <1>1
<1>3. /\ next2[c] = next[c] + 1
      /\ \A d \in Console!Contexts : d # c => next2[d] = next[d]
      /\ \A d \in Console!Contexts :
            next[d] \in Int /\ next2[d] \in Int /\ next[d] <= next2[d]
    OBVIOUS
<1>4. \A y \in Console!Characters : y[1] \in Console!Contexts /\ y[2] \in 1 .. TextLength
                                    /\ y = <<y[1], y[2]>>
    BY DEF Console!Characters
<1> HIDE DEF x, out2, next2
<1>5. ASSUME NEW k \in DOMAIN out2 PROVE out2[k][2] < next2[out2[k][1]] /\ out2[k] \notin gone
    <2>1. CASE k \in DOMAIN out
        <3>1. out[k][2] < next[out[k][1]] /\ out[k] \notin gone
            BY <2>1 DEF Sent
        <3> QED BY <2>1, <3>1, <1>2, <1>3, <1>4
    <2>2. CASE k \notin DOMAIN out
        <3>1. out2[k] = x
            BY <2>2, <1>2
        <3> QED BY <3>1, <1>1, <1>3
    <2> QED BY <2>1, <2>2
<1>6. ASSUME NEW y \in gone PROVE y[2] < next2[y[1]]
    <2>1. y[2] < next[y[1]]
        BY DEF Sent
    <2> QED BY <2>1, <1>3, <1>4
<1>7. ASSUME NEW y \in Console!Characters, y[2] < next2[y[1]], y \notin gone
      PROVE  \E k \in DOMAIN out2 : out2[k] = y
    <2>1. CASE y[2] < next[y[1]]
        <3>1. \E k \in DOMAIN out : out[k] = y
            BY <1>7, <2>1 DEF Sent
        <3> QED BY <3>1, <1>2
    <2>2. CASE ~(y[2] < next[y[1]])
        <3>0. y[1] = c
            BY <2>2, <1>7, <1>3, <1>4
        <3>1. y[1] = c /\ y[2] = next[c]
            <4>1. y[2] \in Int /\ y[2] < next[c] + 1 /\ ~(y[2] < next[c])
                BY <3>0, <2>2, <1>7, <1>3, <1>4
            <4> QED BY <3>0, <4>1
        <3>2. y = x
            BY <3>1, <1>4 DEF x
        <3> QED BY <3>2, <1>2
    <2> QED BY <2>1, <2>2
<1>8. ASSUME NEW j \in DOMAIN out2, NEW k \in DOMAIN out2, j < k, out2[j][1] = out2[k][1]
      PROVE  out2[j][2] < out2[k][2]
    <2>1. j \in DOMAIN out
        BY <1>8, <1>2
    <2>2. CASE k \in DOMAIN out
        BY <2>1, <2>2, <1>8, <1>2 DEF Sent
    <2>3. CASE k \notin DOMAIN out
        <3>1. out2[k] = x
            BY <2>3, <1>2
        <3>2. out[j][2] < next[out[j][1]]
            BY <2>1 DEF Sent
        <3> QED BY <3>1, <3>2, <2>1, <1>8, <1>1, <1>2
    <2> QED BY <2>2, <2>3
<1>9. Sent(out2, next2, gone)
    BY <1>5, <1>6, <1>7, <1>8 DEF Sent
<1> QED BY <1>9 DEF out2, next2, x

\* A character that is dropped is gone.
LEMMA DroppedOne ==
    ASSUME NEW out \in Seq(Console!Characters), NEW gone \in SUBSET Console!Characters,
           NEW next \in [Console!Contexts -> 0 .. TextLength + 1], Sent(out, next, gone),
           NEW c \in Console!Contexts, next[c] \in 1 .. TextLength, TextLength \in Nat
    PROVE  Sent(out, [next EXCEPT ![c] = @ + 1], gone \cup {<<c, next[c]>>})
<1> DEFINE x == <<c, next[c]>>
           next2 == [next EXCEPT ![c] = @ + 1]
<1>1. x \in Console!Characters /\ x[1] = c /\ x[2] = next[c]
    BY DEF Console!Characters
<1>2. \A k \in DOMAIN out : out[k] \in Console!Characters
    OBVIOUS
<1>3. /\ next2[c] = next[c] + 1
      /\ \A d \in Console!Contexts : d # c => next2[d] = next[d]
      /\ \A d \in Console!Contexts :
            next[d] \in Int /\ next2[d] \in Int /\ next[d] <= next2[d]
    OBVIOUS
<1>4. \A y \in Console!Characters : y[1] \in Console!Contexts /\ y[2] \in 1 .. TextLength
                                    /\ y = <<y[1], y[2]>>
    BY DEF Console!Characters
<1> HIDE DEF x, next2
<1>5. ASSUME NEW k \in DOMAIN out
      PROVE  out[k][2] < next2[out[k][1]] /\ out[k] \notin gone \cup {x}
    <2>1. out[k][2] < next[out[k][1]] /\ out[k] \notin gone
        BY DEF Sent
    <2>2. out[k] # x
        BY <2>1, <1>1, <1>3
    <2> QED BY <2>1, <2>2, <1>2, <1>3, <1>4
<1>6. ASSUME NEW y \in gone \cup {x} PROVE y[2] < next2[y[1]]
    <2>1. CASE y = x
        BY <2>1, <1>1, <1>3
    <2>2. CASE y # x
        <3>1. y \in gone /\ y[2] < next[y[1]]
            BY <2>2 DEF Sent
        <3> QED BY <3>1, <1>3, <1>4
    <2> QED BY <2>1, <2>2
<1>7. ASSUME NEW y \in Console!Characters, y[2] < next2[y[1]], y \notin gone \cup {x}
      PROVE  \E k \in DOMAIN out : out[k] = y
    <2>1. y[1] = c => y[2] # next[c]
        BY <1>7, <1>4 DEF x
    <2>2. y[2] < next[y[1]]
        BY <2>1, <1>7, <1>3, <1>4
    <2> QED BY <2>2, <1>7 DEF Sent
<1>8. \A j, k \in DOMAIN out : j < k /\ out[j][1] = out[k][1] => out[j][2] < out[k][2]
    BY DEF Sent
<1>9. Sent(out, next2, gone \cup {x})
    BY <1>5, <1>6, <1>7, <1>8 DEF Sent
<1> QED BY <1>9 DEF next2, x

\* A context that begins its text has sent nothing.
LEMMA SentNone ==
    ASSUME NEW out \in Seq(Console!Characters), NEW gone \in SUBSET Console!Characters,
           NEW next \in [Console!Contexts -> 0 .. TextLength + 1], Sent(out, next, gone),
           NEW c \in Console!Contexts, next[c] = 0, TextLength \in Nat
    PROVE  Sent(out, [next EXCEPT ![c] = 1], gone)
<1> DEFINE next2 == [next EXCEPT ![c] = 1]
<1>1. \A y \in Console!Characters : y[1] \in Console!Contexts /\ y[2] \in 1 .. TextLength
    BY DEF Console!Characters
<1>2. \A y \in Console!Characters : y[2] < next2[y[1]] <=> y[2] < next[y[1]]
    BY <1>1
<1>3. \A k \in DOMAIN out : out[k] \in Console!Characters
    OBVIOUS
<1> HIDE DEF next2
<1>4. Sent(out, next2, gone)
    BY <1>2, <1>3 DEF Sent
<1> QED BY <1>4 DEF next2

\* Every step of the contexts and the UART keeps the invariant.
LEMMA ConsoleStep ==
    ASSUME Console!SizesAssumption, ConsoleInv, [Console!Next]_Console!vars
    PROVE  ConsoleInv'
<1> DEFINE out == line \o fifo
<1>0. /\ TextLength \in Nat /\ FifoSize \in Nat /\ FaultContext \in Console!Contexts
      /\ out \in Seq(Console!Characters)
    BY DEF Console!SizesAssumption, Console!Contexts, ConsoleInv, ConsoleKinds
<1>1. ASSUME NEW c \in Console!Contexts, Console!PrintText(c) PROVE ConsoleInv'
    <2>1. /\ char[c] = 0 /\ char' = [char EXCEPT ![c] = 1]
          /\ UNCHANGED <<fifo, line, checked, dropped, overtaken>>
        BY <1>1 DEF Console!PrintText
    <2>2. Sent(out, char', dropped)
        BY <2>1, <1>0, SentNone DEF ConsoleInv, ConsoleKinds
    <2>3. ConsoleKinds'
        BY <2>1, <1>0 DEF ConsoleInv, ConsoleKinds
    <2>4. RoomInv'
        BY <2>1 DEF ConsoleInv, ConsoleKinds, RoomInv
    <2> QED BY <2>1, <2>2, <2>3, <2>4 DEF ConsoleInv
<1>2. ASSUME NEW c \in Console!Contexts, Console!Check(c) PROVE ConsoleInv'
    <2>1. /\ char[c] \in 1 .. TextLength /\ Len(fifo) < FifoSize
          /\ checked' = checked \cup {c} /\ overtaken' = overtaken \ {c}
          /\ UNCHANGED <<fifo, line, char, dropped>>
        BY <1>2 DEF Console!Check, Console!InText, Console!NotFull
    <2> QED BY <2>1 DEF ConsoleInv, ConsoleKinds, RoomInv
<1>3. ASSUME NEW c \in Console!Contexts, Console!SendData(c) PROVE ConsoleInv'
    <2> DEFINE x == <<c, char[c]>>
    <2>1. /\ c \in checked /\ char[c] \in 1 .. TextLength
          /\ char' = [char EXCEPT ![c] = @ + 1]
          /\ checked' = checked \ {c} /\ overtaken' = overtaken \cup (checked \ {c})
          /\ line' = line /\ (c = FaultContext \/ char[FaultContext] = 0)
        BY <1>3 DEF Console!SendData, Console!Runs, ConsoleInv, RoomInv
    <2>2. x \in Console!Characters /\ x[1] = c
        BY <2>1 DEF Console!Characters
    <2>3. FaultContext \notin overtaken'
        BY <2>1, <1>0 DEF ConsoleInv, RoomInv
    <2>4. /\ char' \in [Console!Contexts -> 0 .. TextLength + 1]
          /\ \A d \in checked' : char'[d] \in 1 .. TextLength
        BY <2>1, <1>0 DEF ConsoleInv, ConsoleKinds, RoomInv
    <2>5. checked' \ overtaken' = {} /\ checked' \subseteq Console!Contexts
          /\ overtaken' \subseteq Console!Contexts
        BY <2>1 DEF ConsoleInv, ConsoleKinds
    <2>6. CASE Len(fifo) < FifoSize
        <3>1. fifo' = Append(fifo, x) /\ dropped' = dropped
            BY <1>3, <2>6 DEF Console!SendData
        <3> HIDE DEF x
        <3>2. line' \o fifo' = Append(out, x)
            BY <2>1, <2>2, <3>1, AppendBehind DEF ConsoleInv, ConsoleKinds
        <3>3. Sent(Append(out, x), char', dropped)
            BY <2>1, <1>0, SentOne DEF ConsoleInv, ConsoleKinds, x
        <3>4. ConsoleKinds'
            BY <3>1, <2>1, <2>2, <2>4, <2>5, <2>6, <1>0 DEF ConsoleInv, ConsoleKinds
        <3>5. RoomInv'
            BY <3>1, <2>3, <2>4, <2>5 DEF ConsoleInv, RoomInv
        <3> QED BY <3>1, <3>2, <3>3, <3>4, <3>5 DEF ConsoleInv
    <2>7. CASE ~(Len(fifo) < FifoSize)
        <3>1. dropped' = dropped \cup {x} /\ fifo' = fifo
            BY <1>3, <2>7 DEF Console!SendData
        <3>2. c # FaultContext
            BY <2>1, <2>7 DEF ConsoleInv, RoomInv
        <3> HIDE DEF x
        <3>3. Sent(out, char', dropped \cup {x})
            BY <2>1, <1>0, DroppedOne DEF ConsoleInv, ConsoleKinds, x
        <3>4. ConsoleKinds'
            BY <3>1, <2>1, <2>2, <2>4, <2>5 DEF ConsoleInv, ConsoleKinds
        <3>5. RoomInv'
            BY <3>1, <3>2, <2>2, <2>3, <2>4, <2>5 DEF ConsoleInv, RoomInv
        <3> QED BY <3>1, <2>1, <3>3, <3>4, <3>5 DEF ConsoleInv
    <2> QED BY <2>6, <2>7
<1>4. CASE Console!Transmit
    <2>1. /\ fifo # <<>> /\ line' = Append(line, Head(fifo)) /\ fifo' = Tail(fifo)
          /\ UNCHANGED <<char, checked, dropped, overtaken>>
        BY <1>4 DEF Console!Transmit
    <2>2. line' \o fifo' = out
        BY <2>1, HeadAcross DEF ConsoleInv, ConsoleKinds
    <2>3. Len(fifo') = Len(fifo) - 1 /\ Len(fifo) \in Nat
        BY <2>1 DEF ConsoleInv, ConsoleKinds
    <2>4. /\ fifo' \in Seq(Console!Characters) /\ line' \in Seq(Console!Characters)
        BY <2>1 DEF ConsoleInv, ConsoleKinds
    <2>5. ConsoleKinds'
        BY <2>1, <2>3, <2>4, <1>0 DEF ConsoleInv, ConsoleKinds
    <2>6. RoomInv'
        BY <2>1, <2>3, <1>0 DEF ConsoleInv, RoomInv
    <2> QED BY <2>1, <2>2, <2>5, <2>6 DEF ConsoleInv
<1>5. CASE UNCHANGED Console!vars
    BY <1>5 DEF Console!vars, ConsoleInv, ConsoleKinds, RoomInv
<1> QED BY <1>1, <1>2, <1>3, <1>4, <1>5 DEF Console!Next

\* The invariant of the console holds on the board.
LEMMA ConsoleKept == Spec => []ConsoleInv
<1>1. Init => ConsoleInv
    <2> SUFFICES ASSUME Console!Init PROVE ConsoleInv
        BY DEF Init
    <2>1. ConsoleKinds /\ RoomInv
        BY Assumptions
           DEF Console!Init, ConsoleKinds, RoomInv, Console!SizesAssumption, Console!Contexts
    <2>2. line \o fifo = <<>>
        BY DEF Console!Init
    <2>3. Sent(<<>>, char, dropped)
        BY DEF Console!Init, Sent, Console!Characters
    <2> QED BY <2>1, <2>2, <2>3 DEF ConsoleInv
<1>2. ConsoleInv /\ [Next]_vars => ConsoleInv'
    BY Assumptions, ConsoleStep, StepOfPart
<1> QED BY <1>1, <1>2, PTL DEF Spec

\* A character is lost only to a write that came in between, and never one
\* of a fault's text; the others are sent once and in order: for any
\* contexts, any FIFO and any texts.
THEOREM TextLost == Spec => []TextLostOnlyToRaces
<1>1. ASSUME ConsoleInv PROVE TextLostOnlyToRaces
    <2> DEFINE out == line \o fifo
    <2>0. /\ out \in Seq(Console!Characters)
          /\ \A k \in DOMAIN out : out[k] \in Console!Characters
        BY <1>1 DEF ConsoleInv, ConsoleKinds
    <2>1. Sent(out, char, dropped)
        BY <1>1 DEF ConsoleInv
    <2>2. \A y \in Console!Characters : y[1] \in Console!Contexts /\ y[2] \in 1 .. TextLength
                                        /\ y = <<y[1], y[2]>>
        BY DEF Console!Characters
    <2> HIDE DEF out
    <2>3. ASSUME NEW c \in Console!Contexts
          PROVE  {out[k][2] : k \in {i \in DOMAIN out : out[i][1] = c}} = Console!Written(c)
        <3>1. ASSUME NEW k \in DOMAIN out, out[k][1] = c PROVE out[k][2] \in Console!Written(c)
            <4>1. out[k][2] < char[c] /\ out[k] \notin dropped
                BY <3>1, <2>1 DEF Sent
            <4>2. out[k][2] \in 1 .. TextLength /\ out[k] = <<c, out[k][2]>>
                BY <3>1, <2>0, <2>2
            <4> QED BY <4>1, <4>2 DEF Console!Written
        <3>2. ASSUME NEW n \in Console!Written(c)
              PROVE  \E k \in DOMAIN out : out[k][1] = c /\ out[k][2] = n
            <4> DEFINE y == <<c, n>>
            <4>1. /\ y \in Console!Characters /\ y[1] = c /\ y[2] = n
                  /\ n < char[c] /\ y \notin dropped
                BY DEF Console!Written, Console!Characters
            <4> HIDE DEF y
            <4>2. \E k \in DOMAIN out : out[k] = y
                BY <4>1, <2>1 DEF Sent
            <4> QED BY <4>1, <4>2
        <3> QED BY <3>1, <3>2
    <2>4. \A c : \A j, k \in {i \in DOMAIN out : out[i][1] = c} :
             j < k => out[j][2] < out[k][2]
        BY <2>1 DEF Sent
    <2>5. \A n \in 1 .. TextLength : <<FaultContext, n>> \notin dropped
        BY <1>1 DEF ConsoleInv, RoomInv
    <2>6. \A c \in checked \ overtaken : Len(fifo) < FifoSize
        BY <1>1 DEF ConsoleInv, RoomInv
    <2> QED BY <2>3, <2>4, <2>5, <2>6 DEF TextLostOnlyToRaces, Console!TextLostOnlyToRaces, out
<1> QED BY <1>1, ConsoleKept, PTL

--------------------------------------------------------------------------
(* The types of all parts.                                                 *)

\* Every part keeps its types and its bounds: pools, queues, FIFO.
THEOREM Typing == Spec => []TypeOK
<1>1. Spec => [](part \in Parts)
    <2>1. Init => part \in Parts
        BY DEF Init
    <2>2. part \in Parts /\ [Next]_vars => (part \in Parts)'
        BY DEF Next, vars, ObjectsNext, EventsNext, QueueNext, BootNext, ConsoleNext,
               BusNext
    <2> QED BY <2>1, <2>2, PTL DEF Spec
<1>2. ObjectsInv => Objects!TypeOK
    BY DEF ObjectsInv, ObjectsTypes, CountsInv, Objects!TypeOK
<1>3. Spec => []Bus!TypeOK
    <2>1. BusProofs!Spec => []BusProofs!TypeOK
        BY Assumptions, BusProofs!Typing
    <2>2. BusProofs!TypeOK => Bus!TypeOK
        BY BusAlike
    <2> QED BY <2>1, <2>2, BusOnBoard, PTL
<1>4. EventsInv => Events!TypeOK
    BY DEF EventsInv
<1>5. QueueInv => Queue!TypeOK
    BY DEF QueueInv
<1>6. TextInv /\ PoolInv => Boot!TypeOK
    BY BootCounts DEF TextInv, PoolInv, Boot!TypeOK
<1>7. ConsoleInv => Console!TypeOK
    BY DEF ConsoleInv, ConsoleKinds, Console!TypeOK
<1>8. /\ part \in Parts /\ Objects!TypeOK /\ Events!TypeOK /\ Queue!TypeOK /\ Boot!TypeOK
      /\ Console!TypeOK /\ Bus!TypeOK
      => TypeOK
    BY DEF TypeOK
<1> QED BY <1>1, <1>2, <1>3, <1>4, <1>5, <1>6, <1>7, <1>8,
           ObjectsKept, EventsKept, QueueKept, BootKept, ConsoleKept, PTL

=============================================================================
