SPECIFICATION Spec
CONSTANTS
    Modules = {root, m1, m2, m3, m4}
    Root = root
    HasStop = {root, m1, m2}
    Null = null
SYMMETRY Symmetry
INVARIANTS TreeSound ProvidersAlive StopAnswersStart
