------------------------------- MODULE Board -------------------------------
(***************************************************************************)
(* The parts of the board's software that share no state, side by side:    *)
(* each behaviour is one of one part.  An interleaving of several would    *)
(* show nothing that one of them does not, and multiply their states.      *)
(***************************************************************************)
EXTENDS Integers, Sequences

CONSTANTS
    ObjectTasks, Cells, SwtmrLimit, QueueLimit, MaxStarts,
    Waiters, MaxSets,
    QueueTasks, QueueLength, MaxMsgs,
    TskLimit, KernelTasks, PlatformTasks, AppTasks,
    Printers, FaultContext, FifoSize, TextLength,
    BusTasks

VARIABLES
    part,
    object, word, timers, queues, pc, made, misused, ticking, expiries, starts,
    callbacks, bytes_minimum_ever_free,
    uwEventID, waiter, result, sets, successes, stolen,
    queue, waits, offered, accepted, received,
    stage, registered, uart, lost, halted, tasks, asked, hilog, host,
    fifo, line, char, checked, dropped, overtaken,
    selected, frame, wel, busy, call, at, status, taken, overlapped, disturbed

objectsVars == <<object, word, timers, queues, pc, made, misused, ticking, expiries, starts,
    callbacks, bytes_minimum_ever_free>>
eventsVars == <<uwEventID, waiter, result, sets, successes, stolen>>
queueVars == <<queue, waits, offered, accepted, received>>
bootVars == <<stage, registered, uart, lost, halted, tasks, asked, hilog, host>>
consoleVars == <<fifo, line, char, checked, dropped, overtaken>>
busVars == <<selected, frame, wel, busy, call, at, status, taken, overlapped, disturbed>>

Parts == {"objects", "events", "queue", "boot", "console", "bus"}

Objects == INSTANCE OsObjects WITH Tasks <- ObjectTasks
Events == INSTANCE OsEvents
Queue == INSTANCE OsQueue WITH Tasks <- QueueTasks, Length <- QueueLength
Boot == INSTANCE Boot
Console == INSTANCE Console WITH Tasks <- Printers, Fault <- FaultContext
Bus == INSTANCE FlashBus WITH Tasks <- BusTasks

ASSUME InstancesAssumption ==
    /\ Objects!LimitsAssumption /\ Events!MaxSetsAssumption /\ Queue!LengthAssumption
    /\ Boot!PoolAssumption /\ Console!SizesAssumption
    /\ Bus!TasksAssumption

Init ==
    /\ part \in Parts
    /\ Objects!Init /\ Events!Init /\ Queue!Init /\ Boot!Init
    /\ Console!Init /\ Bus!Init
    /\ part # "bus" => ~selected

ObjectsNext ==
    /\ part = "objects" /\ Objects!Next
    /\ UNCHANGED <<part, eventsVars, queueVars, bootVars, consoleVars, busVars>>

EventsNext ==
    /\ part = "events" /\ Events!Next
    /\ UNCHANGED <<part, objectsVars, queueVars, bootVars, consoleVars, busVars>>

QueueNext ==
    /\ part = "queue" /\ Queue!Next
    /\ UNCHANGED <<part, objectsVars, eventsVars, bootVars, consoleVars, busVars>>

BootNext ==
    /\ part = "boot" /\ Boot!Next
    /\ UNCHANGED <<part, objectsVars, eventsVars, queueVars, consoleVars, busVars>>

ConsoleNext ==
    /\ part = "console" /\ Console!Next
    /\ UNCHANGED <<part, objectsVars, eventsVars, queueVars, bootVars, busVars>>

BusNext ==
    /\ part = "bus" /\ Bus!Next
    /\ UNCHANGED <<part, objectsVars, eventsVars, queueVars, bootVars, consoleVars>>

Next ==
    \/ ObjectsNext \/ EventsNext \/ QueueNext \/ BootNext
    \/ ConsoleNext \/ BusNext

vars == <<part, objectsVars, eventsVars, queueVars, bootVars,
          consoleVars, busVars>>

\* The fairness of OsEvents: a task the kernel has resumed runs.
Spec ==
    /\ Init /\ [][Next]_vars
    /\ \A w \in Waiters :
          WF_vars(part = "events" /\ Events!WaitResumes(w)
                   /\ UNCHANGED <<part, objectsVars, queueVars, bootVars, consoleVars,
                                  busVars>>)

--------------------------------------------------------------------------
(* The properties of the parts, as their modules state them.               *)

TypeOK ==
    /\ part \in Parts
    /\ Objects!TypeOK /\ Events!TypeOK /\ Queue!TypeOK /\ Boot!TypeOK
    /\ Console!TypeOK /\ Bus!TypeOK

\* OsObjects: handles and the kernel's objects; starts and callbacks.
HandleReachesItsObject == Objects!HandleReachesItsObject
OneCallbackPerStart == Objects!OneCallbackPerStart

\* OsEvents: what a wait returns, and that a set reaches a task that waits.
WaitResultsRight == Events!WaitResultsRight
SetIsSeen == Events!SetIsSeen

\* OsQueue: delivered, once and in order, is what senders were told.
AcceptedInOrder == Queue!AcceptedInOrder

\* Boot: start-up tasks exist, texts arrive from the set-up on.
StartUpTasksFirst == Boot!StartUpTasksFirst

\* Console: a character is lost only to a write that came in between.
TextLostOnlyToRaces == Console!TextLostOnlyToRaces

\* FlashBus: calls that do not overlap find the bus and the device in order.
BusUndisturbed == Bus!BusUndisturbed
==========================================================================
