\* The allocator run's heap (a 96-byte initial block, 48 bytes more of sbrk)
\* with a calloc argument whose product wraps.
CONSTANTS
    HEAP_INIT = 96
    MAX_HEAP = 144
    SIZE_WIDTH = 16
    Sizes <- MMSizes
    CallocArgs <- MMCallocArgs
    MaxHeld = 3
SPECIFICATION Spec
INVARIANT ReallocCallocContract
