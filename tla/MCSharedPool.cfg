\* Two connections and a pool that starts with one Request; session lookups,
\* pages (a session route without a cookie is one) and coroutines.
SPECIFICATION Spec
CONSTANTS
    InitialRequests = 1
    LowWater = 1
    c1 = c1
    c2 = c2
    Conns = {c1, c2}
    Routes = {"session", "async"}
    PageResults = {"text", "raise"}
    TaskResults = {"text"}
    Bursts = FALSE
    Disconnects = TRUE
    QueueSize = 4
    MaxMsgs = 2
    MaxOutstanding = 2
SYMMETRY Symmetry
INVARIANTS
    RequestsKept
    PoolAgrees
    HeadersAreOwn
\* The bounds on the number of messages end every behaviour.
CHECK_DEADLOCK FALSE
