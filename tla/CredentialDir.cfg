\* One run without any failing statement.
CONSTANTS
    MaxTaskId = 5
    MaxUpdates = 0
    MaxRunFaults = 0
SPECIFICATION RunSpec
INVARIANT CredentialDirRemoved
CHECK_DEADLOCK FALSE
