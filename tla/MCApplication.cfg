\* Two workers, two signals, two changes of the file.
SPECIFICATION Spec
CONSTANTS
    NumWorkers = 2
    MaxSignals = 2
    MaxTime = 3
    MaxWrites = 2
INVARIANTS
    EndsOnce
    StaticFollowsFile
PROPERTIES
    EverythingStops
\* A server whose workers are all gone does nothing any more.
CHECK_DEADLOCK FALSE
