SPECIFICATION FairSpec
CONSTANTS
    Submitters = {o, s1}
    Owner = o
    Stoppers = {k1}
    Tasks = {t1, t2}
    Capacity = 2
    Null = null
INVARIANTS TasksAccounted OneLateStartAtMost
PROPERTIES KeepsTaskLaws AcceptedIsDestroyed ShutdownEnds DispatchReturns
