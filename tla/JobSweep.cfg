\* The sweep fails a job whose runner wrote RUNNING a moment ago.
CONSTANTS
    Job = {a}
    Threads = 2
    MaxFaults = 0
SPECIFICATION Spec
PROPERTIES
    SweepSparesTheLiving
CHECK_DEADLOCK FALSE
