SPECIFICATION FairSpec
CONSTANT Wakers = {w1, w2}
INVARIANTS FreedAfterThread StateFreedOnce LastStepSeesAll SleepsInPeace
PROPERTIES WakeServed EndsAndFrees HintServed
