SPECIFICATION PromiseSpec
CONSTANTS
    Timers = {t1, t2}
    Null = null
    Periods = {1, 2}
    Priorities = {0, 1}
    Modulus = 4
PROPERTIES FirstFireAfterPeriod
