\* No shutdown call hangs, whoever else calls, is interrupted or is replaced.
CONSTANTS
    Worker = {p}
    Background = {p, t}
    Owner = {lifespan, retry}
    Lifespan = lifespan
    NoOwner = NoOwner
    Invocation = {i, k}
    MaxInterrupts = 1
SPECIFICATION FairSpec
PROPERTIES
    EveryCallReturns
\* Once the runtime is shut down and nobody calls again, nothing happens.
CHECK_DEADLOCK FALSE
