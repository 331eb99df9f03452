\* The submission phase: a handler that "was not submitted" runs.
CONSTANTS
    j1 = j1
    j2 = j2
    r1 = r1
    r2 = r2
    p1 = p1
    p2 = p2
    s1 = s1
    s2 = s2
    NoMsg = NoMsg
    OneShot = {j1, j2}
    Recurring = {}
    Worker = {p1}
    Poller = {p1}
    Scope <- ScopeOfEach
    Configured <- ConfiguredAll
    Refused <- RefusedNone
    MaxOverlap = 1
    MaxFaults = 1
SPECIFICATION Spec
INVARIANT SubmissionReportIsFinal
CHECK_DEADLOCK FALSE
