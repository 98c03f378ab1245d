\* The order of the responses, with a route that fetches the session.
SPECIFICATION Spec
CONSTANTS
    InitialRequests = 2
    LowWater = 1
    c1 = c1
    Conns = {c1}
    Routes = {"page", "session"}
    PageResults = {"text"}
    TaskResults = {"text", "raise"}
    Bursts = FALSE
    Disconnects = TRUE
    QueueSize = 4
    MaxMsgs = 2
    MaxOutstanding = 4
INVARIANTS
    ResponsesInOrder
\* The bounds on the number of messages end every behaviour.
CHECK_DEADLOCK FALSE
