\* Every order of status writes, sweeps, failures and crashes over three jobs that
\* share two executor threads with the sweep.
CONSTANTS
    Job = {a, b, c}
    Threads = 2
    MaxFaults = 2
SYMMETRY JobSymmetry
SPECIFICATION Spec
INVARIANTS
    TypeOK
    CompletionIsHonest
    SuccessIsRecorded
PROPERTIES
    OutcomeIsFinal
\* Every job can be over, and then nothing is left to do.
CHECK_DEADLOCK FALSE
