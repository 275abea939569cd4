SPECIFICATION PoolSpec
CONSTANTS
    PoolObjects = {o1, o2, o3, o4}
    Buckets = {b1, b2, b3, b4, b5, b6}
    First = b1
    Slots = 2
    Nowhere = Nowhere
    Wrap = 4
SYMMETRY Symmetry
INVARIANTS
    NoSharedMemory
    OneIdleBucket
    PoolIInv
