\* Versions: two administrators and the command line, four calls in three
\* seconds.  Runs: one run of up to three parts with two failures and six task numbers.
CONSTANTS
    MaxAuditFailures = 1
    Admin = {a1, a2}
    CommandLine = init
    MaxNow = 6
    MaxCalls = 4
    MaxTaskId = 5
    MaxUpdates = 1
    MaxRunFaults = 2
SYMMETRY AdminSymmetry
SPECIFICATION Spec
INVARIANTS
    PlaybooksTypeOK
    ShownDefaultRuns
    CredentialsOutliveTheirUse
    LeftoversHaveACause
    NumbersAreRefusedForCause
PROPERTIES
    DefaultIsRemovedForCause
\* The calls are used up, and a run can be over.
CHECK_DEADLOCK FALSE
