\* Two messages, four steps of handlers in a behaviour.
SPECIFICATION Spec
CONSTANTS
    Fields = {"path", "args"}
    Mimes = {"html", "text"}
    PartSets = {{}, {"query"}}
    MaxMessages = 2
    MaxSteps = 4
INVARIANTS
    FreshFields
    ReferencesKept
    AnswerIsOwn
\* The bound on the number of messages ends every behaviour.
CHECK_DEADLOCK FALSE
