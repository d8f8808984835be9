\* Two threads and identifiers of three bits.
CONSTANTS
    t1 = t1
    t2 = t2
    Threads <- MCThreads
    NoThread = NoThread
    Mask = 7
SPECIFICATION Spec
SYMMETRY MCSymmetry
INVARIANT DistinctNonZero
