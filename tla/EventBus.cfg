SPECIFICATION Spec
CONSTANTS
    Subs = {s1, s2, s3}
    Names = {n1, n2}
    Owners = {o1, o2}
    Keys = {k1, k2}
    Null = null
    Every = every
    MaxDepth = 2
SYMMETRY Symmetry
INVARIANTS RecordsSound WalkRemovesExactly
PROPERTIES ImplementsSubscriptions
