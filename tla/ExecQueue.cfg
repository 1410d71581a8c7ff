SPECIFICATION FairSpec
CONSTANTS
    Producers = {p1, p2, p3}
    Consumer = c
    Tasks = {t1, t2, t3, t4}
    Stub = stub
    Null = null
INVARIANT ChainIntact
PROPERTIES NullIsHonest ImplementsFifo EveryTaskComesOut
