\* Overlapping, interrupted and retried shutdown calls.
CONSTANTS
    Worker = {p, s}
    Background = {p, t}
    Owner = {lifespan, retry, other}
    Lifespan = lifespan
    NoOwner = NoOwner
    Invocation = {i, k}
    MaxInterrupts = 2
SYMMETRY InvocationSymmetry
SPECIFICATION Spec
INVARIANTS
    TypeOK
    PoolOutlivesWork
    TasksCancelledOnce
    ShutdownInv
PROPERTIES
    NothingSubmittedOnceStopped
\* Once the runtime is shut down and nobody calls again, nothing happens.
CHECK_DEADLOCK FALSE
