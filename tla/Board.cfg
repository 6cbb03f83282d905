SPECIFICATION Spec
CONSTANTS
    t1 = t1  t2 = t2  t3 = t3  c1 = c1  c2 = c2  c3 = c3  fault = fault
    ObjectTasks <- MCTasks
    Cells <- MCCells
    SwtmrLimit = 1
    QueueLimit = 1
    MaxStarts = 3
    Waiters <- MCThreeTasks
    MaxSets = 4
    QueueTasks <- MCThreeTasks
    QueueLength = 2
    MaxMsgs = 5
    TskLimit = 7
    KernelTasks = 2
    PlatformTasks = {"host", "controller", "log"}
    AppTasks = {"app1", "app2"}
    Printers <- MCTasks
    FaultContext = fault
    FifoSize = 2
    TextLength = 3
    BusTasks = {1, 2}
INVARIANTS TypeOK HandleReachesItsObject OneCallbackPerStart WaitResultsRight AcceptedInOrder
INVARIANTS StartUpTasksFirst TextLostOnlyToRaces BusUndisturbed
PROPERTIES SetIsSeen
CHECK_DEADLOCK FALSE
