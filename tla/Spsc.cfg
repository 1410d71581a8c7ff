SPECIFICATION RingSpec
CONSTANTS
    Items = {x1, x2, x3}
    Torn = torn
    Size = 4
    Modulus = 16
SYMMETRY Symmetry
PROPERTIES RingExact ImplementsFifo
