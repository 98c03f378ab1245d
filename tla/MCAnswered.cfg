\* Several requests per data_received, the routes that answer at all.
SPECIFICATION FairSpec
CONSTANTS
    InitialRequests = 2
    LowWater = 1
    c1 = c1
    Conns = {c1}
    Routes = {"page", "async", "cached", "session", "unknown"}
    PageResults = {"text", "raise"}
    TaskResults = {"text", "raise"}
    Bursts = TRUE
    Disconnects = TRUE
    QueueSize = 4
    MaxMsgs = 3
    MaxOutstanding = 3
INVARIANTS
    AnsweredOnce
PROPERTIES
    EventuallyAnswered
\* The bounds on the number of messages end every behaviour.
CHECK_DEADLOCK FALSE
