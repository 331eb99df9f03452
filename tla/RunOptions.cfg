\* One update of the settings between startup and a run.
CONSTANTS
    MaxTaskId = 5
    MaxUpdates = 1
    MaxRunFaults = 0
SPECIFICATION RunSpec
PROPERTY RunsFollowSettings
CHECK_DEADLOCK FALSE
