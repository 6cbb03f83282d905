SPECIFICATION FairSpec
CONSTANTS
    t1 = t1  t2 = t2  i1 = i1
    Tasks <- FairTasks
    Isrs <- FairIsrs
    Prio <- FairPrio
    MaxNestDepth = 2
    Unbalanced = {}
PROPERTIES InterruptsComeBack RescheduleServed
