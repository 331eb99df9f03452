\* Liveness: what is due is dispatched, with two recurring rows that keep coming
\* due and a scoped worker that competes with the poller for one of them.
CONSTANTS
    j1 = j1
    j2 = j2
    r1 = r1
    r2 = r2
    p1 = p1
    p2 = p2
    s1 = s1
    s2 = s2
    NoMsg = NoMsg
    OneShot = {j1}
    Recurring = {r1, r2}
    Worker = {p1, s2}
    Poller = {p1}
    Scope <- ScopeOfEach
    Configured <- ConfiguredAll
    Refused <- RefusedNone
    MaxOverlap = 1
    MaxFaults = 1
SPECIFICATION FairSpec
PROPERTIES
    RecurringServed
    OneShotServedBetweenRecurring
\* Workers are single-use: all of them may have stopped.
CHECK_DEADLOCK FALSE
