----------------------------- MODULE OsObjects -----------------------------
(***************************************************************************)
(* The handles of hal_liteos/gen_os_impl.c for timers and queues.  A       *)
(* handle is a heap cell whose first word is the id of a kernel object;    *)
(* the results of LOS_SwtmrCreate and LOS_QueueCreate are dropped, so      *)
(* after a failed creation that word is what the heap happened to hold.    *)
(* The kernel (object pools, timer scan, timer task) is external.          *)
(***************************************************************************)
EXTENDS Integers, Sequences, FiniteSets

CONSTANTS
    Tasks,          \* tasks that call the driver table
    Cells,          \* room of the heap, in handles
    SwtmrLimit,     \* LOSCFG_BASE_CORE_SWTMR_LIMIT
    QueueLimit,     \* LOSCFG_BASE_IPC_QUEUE_LIMIT
    MaxStarts       \* bound of the model on the starts of a timer


TimerIds == 0 .. SwtmrLimit - 1
QueueIds == 0 .. QueueLimit - 1

\* What a word of the heap may hold: an id or something that is none.
Junk == SwtmrLimit + QueueLimit
Words == TimerIds \cup QueueIds \cup {Junk}
NoCell == "no cell"

LimitsAssumption ==
    /\ SwtmrLimit \in Nat \ {0} /\ QueueLimit \in Nat \ {0}
    /\ NoCell \notin Cells

VARIABLES
    object,     \* what each cell is allocated for
    word,       \* its first word
    timers,     \* the kernel's timers: the cell each was created for
    queues,     \* the kernel's queues, likewise
    pc,         \* where the call of a task stands
    made,       \* cells whose creation succeeded; nobody is told
    misused,    \* a handle whose creation failed was used
    ticking,    \* timers that run
    expiries,   \* expiries queued for the timer task
    starts,     \* how often each timer was started
    callbacks,  \* how often its callback ran
    bytes_minimum_ever_free

handles == <<object, word, made>>
kernel == <<timers, queues>>
activity == <<ticking, expiries, starts, callbacks>>
vars == <<handles, kernel, pc, misused, activity, bytes_minimum_ever_free>>

Idle == [at |-> "idle"]

Init ==
    /\ object = [c \in Cells |-> "free"]
    /\ word = [c \in Cells |-> Junk]
    /\ timers = [i \in TimerIds |-> NoCell]
    /\ queues = [i \in QueueIds |-> NoCell]
    /\ pc = [t \in Tasks |-> Idle]
    /\ made = {}
    /\ misused = FALSE
    /\ ticking = {}
    /\ expiries = <<>>
    /\ starts = [i \in TimerIds |-> 0]
    /\ callbacks = [i \in TimerIds |-> 0]
    /\ bytes_minimum_ever_free = 0

InCall(c) == \E t \in Tasks : pc[t] # Idle /\ pc[t].cell = c

\* A timer handle some task may use; callers do not use a handle that is
\* being created or deleted.
IsTimer(c) == object[c] = "timer" /\ ~InCall(c)

--------------------------------------------------------------------------
(* Creation: port_malloc, then the kernel's create.                        *)

\* The allocator leaves its own pointers or an old id in the cell.
Malloc(t, c, kind) ==
    /\ pc[t] = Idle
    /\ object[c] = "free"
    /\ object' = [object EXCEPT ![c] = kind]
    /\ \E w \in Words : word' = [word EXCEPT ![c] = w]
    /\ made' = made \ {c}
    /\ pc' = [pc EXCEPT ![t] = [at |-> kind, cell |-> c]]
    /\ UNCHANGED <<kernel, misused, activity, bytes_minimum_ever_free>>

Return(t) == pc' = [pc EXCEPT ![t] = Idle]

\* Mutant: the kernel is given the address of a local variable.
TimerCreateIdLost(t) ==
    /\ pc[t].at = "timer"
    /\ \E i \in TimerIds :
          /\ timers[i] = NoCell
          /\ timers' = [timers EXCEPT ![i] = pc[t].cell]
          /\ made' = made \cup {pc[t].cell}
    /\ Return(t)
    /\ UNCHANGED <<object, word, queues, misused, activity, bytes_minimum_ever_free>>

TimerCreate(t) ==
    /\ pc[t].at = "timer"
    /\ \E i \in TimerIds :
          /\ timers[i] = NoCell
          /\ timers' = [timers EXCEPT ![i] = pc[t].cell]
          /\ word' = [word EXCEPT ![pc[t].cell] = i]
          /\ made' = made \cup {pc[t].cell}
    /\ Return(t)
    /\ UNCHANGED <<object, queues, misused, activity, bytes_minimum_ever_free>>

\* No timer left, or LOS_MS2Tick(timeout_in_ms) = 0: below two milliseconds.
TimerCreateFails(t) ==
    /\ pc[t].at = "timer"
    /\ Return(t)
    /\ UNCHANGED <<handles, kernel, misused, activity, bytes_minimum_ever_free>>

QueueCreate(t) ==
    /\ pc[t].at = "queue"
    /\ \E i \in QueueIds :
          /\ queues[i] = NoCell
          /\ queues' = [queues EXCEPT ![i] = pc[t].cell]
          /\ word' = [word EXCEPT ![pc[t].cell] = i]
          /\ made' = made \cup {pc[t].cell}
    /\ Return(t)
    /\ UNCHANGED <<object, timers, misused, activity, bytes_minimum_ever_free>>

QueueCreateFails(t) ==
    /\ pc[t].at = "queue"
    /\ \A i \in QueueIds : queues[i] # NoCell
    /\ Return(t)
    /\ UNCHANGED <<handles, kernel, misused, activity, bytes_minimum_ever_free>>

--------------------------------------------------------------------------
(* Use.  Each call reads the id in the cell and passes it on; the kernel   *)
(* refuses an id that names no timer of its own.                           *)

Known(i) == i \in TimerIds /\ timers[i] # NoCell

Uses(t, c) ==
    /\ pc[t] = Idle
    /\ IsTimer(c)
    /\ misused' = (misused \/ c \notin made)

\* Starting a timer that runs starts it again.
TimerStart(t, c) ==
    /\ Uses(t, c)
    /\ IF Known(word[c])
       THEN /\ starts[word[c]] < MaxStarts
            /\ starts' = [starts EXCEPT ![word[c]] = @ + 1]
            /\ ticking' = ticking \cup {word[c]}
       ELSE UNCHANGED <<starts, ticking>>
    /\ UNCHANGED <<handles, kernel, pc, expiries, callbacks, bytes_minimum_ever_free>>

TimerStop(t, c) ==
    /\ Uses(t, c)
    /\ ticking' = ticking \ {word[c]}
    /\ UNCHANGED <<handles, kernel, pc, expiries, starts, callbacks, bytes_minimum_ever_free>>

TimerDelete(t, c) ==
    /\ Uses(t, c)
    /\ timers' = IF Known(word[c]) THEN [timers EXCEPT ![word[c]] = NoCell] ELSE timers
    /\ ticking' = ticking \ {word[c]}
    /\ pc' = [pc EXCEPT ![t] = [at |-> "free", cell |-> c]]
    /\ UNCHANGED <<handles, queues, expiries, starts, callbacks, bytes_minimum_ever_free>>

Free(t) ==
    /\ pc[t].at = "free"
    /\ object' = [object EXCEPT ![pc[t].cell] = "free"]
    /\ Return(t)
    /\ UNCHANGED <<word, made, kernel, misused, activity, bytes_minimum_ever_free>>

\* Mutant: the last value kept in place of the least.
HeapStatusLast(bytes_free) ==
    /\ bytes_minimum_ever_free' = bytes_free
    /\ UNCHANGED <<handles, kernel, pc, misused, activity>>

\* platform_get_heap_status.  The minimum starts at 0 (the initial value is
\* commented out), so no amount of free memory is ever below it.
HeapStatus(bytes_free) ==
    /\ bytes_minimum_ever_free' = IF bytes_free < bytes_minimum_ever_free
                                  THEN bytes_free ELSE bytes_minimum_ever_free
    /\ UNCHANGED <<handles, kernel, pc, misused, activity>>

--------------------------------------------------------------------------
(* The timer scan of the tick handler and the timer task.                  *)

\* Mutant: a periodic timer.
ExpirePeriodic(i) ==
    /\ i \in ticking
    /\ expiries' = IF Len(expiries) < SwtmrLimit THEN Append(expiries, i) ELSE expiries
    /\ UNCHANGED <<handles, kernel, pc, misused, ticking, starts, callbacks, bytes_minimum_ever_free>>

\* LOS_SWTMR_MODE_NO_SELFDELETE: the timer stops, and is still there.  An
\* expiry that finds the queue of the timer task full is lost.
Expire(i) ==
    /\ i \in ticking
    /\ ticking' = ticking \ {i}
    /\ expiries' = IF Len(expiries) < SwtmrLimit THEN Append(expiries, i) ELSE expiries
    /\ UNCHANGED <<handles, kernel, pc, misused, starts, callbacks, bytes_minimum_ever_free>>

\* The queue holds the callback and its argument: neither a stop nor a
\* delete takes it out.
Callback ==
    /\ expiries # <<>>
    /\ callbacks' = [callbacks EXCEPT ![Head(expiries)] = @ + 1]
    /\ expiries' = Tail(expiries)
    /\ UNCHANGED <<handles, kernel, pc, misused, ticking, starts, bytes_minimum_ever_free>>

--------------------------------------------------------------------------

\* What the driver table offers.
TableCall(t) ==
    \/ \E c \in Cells :
          \/ \E kind \in {"timer", "queue"} : Malloc(t, c, kind)
          \/ TimerStart(t, c) \/ TimerStop(t, c) \/ TimerDelete(t, c)
    \/ TimerCreate(t) \/ TimerCreateFails(t)
    \/ QueueCreate(t) \/ QueueCreateFails(t) \/ Free(t)

Next ==
    \/ \E t \in Tasks : TableCall(t)
    \/ \E bytes_free \in 0 .. 1 : HeapStatus(bytes_free)
    \/ \E i \in TimerIds : Expire(i)
    \/ Callback

Spec == Init /\ [][Next]_vars

--------------------------------------------------------------------------
(* Properties.                                                             *)

TypeOK ==
    /\ object \in [Cells -> {"free", "timer", "queue"}]
    /\ word \in [Cells -> Words]
    /\ timers \in [TimerIds -> Cells \cup {NoCell}]
    /\ queues \in [QueueIds -> Cells \cup {NoCell}]
    /\ \A t \in Tasks : pc[t] = Idle \/ pc[t].cell \in Cells
    /\ made \subseteq Cells
    /\ ticking \subseteq TimerIds
    /\ Len(expiries) <= SwtmrLimit
    /\ bytes_minimum_ever_free = 0

\* Every handle whose creation succeeded names the kernel object made for
\* it, across interleaved creations and deletions that reuse cells and ids,
\* until somebody uses a handle whose creation failed: that one may carry
\* the id of another's timer, and a delete through it takes that timer away.
HandleReachesItsObject ==
    ~misused =>
        \A c \in made :
           ~InCall(c) =>
              /\ object[c] = "timer" => word[c] \in TimerIds /\ timers[word[c]] = c
              /\ object[c] = "queue" => word[c] \in QueueIds /\ queues[word[c]] = c

\* Expiries of timer i that wait for the timer task.
Queued(i) == Cardinality({k \in DOMAIN expiries : expiries[k] = i})

\* Every callback answers a start of its own: those that ran, those still
\* queued and the one the timer runs for are never more than its starts, so
\* what may still come after a stop or a delete is what was queued before.
OneCallbackPerStart ==
    \A i \in TimerIds :
       callbacks[i] + Queued(i) + (IF i \in ticking THEN 1 ELSE 0) <= starts[i]
==========================================================================
