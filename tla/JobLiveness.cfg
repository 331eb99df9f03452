\* Every job row settles, although a message may be lost and a process may die.
CONSTANTS
    Job = {a, b}
    Threads = 1
    MaxFaults = 1
SPECIFICATION FairSpec
PROPERTIES
    EveryJobSettles
\* Every job can be over, and then nothing is left to do.
CHECK_DEADLOCK FALSE
