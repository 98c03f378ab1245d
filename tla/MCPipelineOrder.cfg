\* One connection, pages and coroutines: answers in order, Requests kept and
\* given back, and the queue of a lost connection empties although no
\* coroutine ends by itself.
SPECIFICATION LoopSpec
CONSTANTS
    InitialRequests = 1
    LowWater = 1
    c1 = c1
    Conns = {c1}
    Routes = {"page", "async"}
    PageResults = {"text"}
    TaskResults = {"text", "raise"}
    Bursts = FALSE
    Disconnects = TRUE
    QueueSize = 4
    MaxMsgs = 4
    MaxOutstanding = 4
INVARIANTS
    ResponsesInOrder
    NoLeak
PROPERTIES
    LostQueueDrains
\* The bounds on the number of messages end every behaviour.
CHECK_DEADLOCK FALSE
