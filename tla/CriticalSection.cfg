SPECIFICATION Spec
CONSTANTS
    t1 = t1  t2 = t2  i1 = i1  i2 = i2
    Tasks <- MCTasks
    Isrs <- MCIsrs
    Prio <- MCPrio
    MaxNestDepth = 2
    Unbalanced = {}
INVARIANTS TypeOK MutualExclusion MaskedIffInside NestMatchesDepth IndexSafe NoSpuriousAssertion
PROPERTIES NoDispatchInside ImplementsGlobalLock
