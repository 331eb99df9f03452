\* Safety of the dispatch protocol and its refinement of the abstract queue.
CONSTANTS
    j1 = j1
    j2 = j2
    r1 = r1
    r2 = r2
    p1 = p1
    p2 = p2
    s1 = s1
    s2 = s2
    NoMsg = NoMsg
    OneShot = {j1, j2}
    Recurring = {r1}
    Worker = {p1, p2, s1, s2}
    Poller = {p1, p2}
    Scope <- ScopeOfEach
    Configured <- ConfiguredAll
    Refused <- RefusedSome
    MaxOverlap = 1
    MaxFaults = 2
SPECIFICATION Spec
INVARIANTS
    TypeOK
    DispatchInv
    AtMostOnce
    DeletedBeforeRun
    OncePerPeriod
    NoSilentLoss
    CleanupReportIsFinal
    UnparsableStaysQueued
    ScopedRunsOnlyItsTarget
PROPERTIES
    RecurringSurvives
    UncertainErrorsStop
    ImplementsQueue
\* Workers are single-use: all of them may have stopped.
CHECK_DEADLOCK FALSE
