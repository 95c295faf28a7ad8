SPECIFICATION FairSpec
CONSTANTS
    Events = {e1}
    Web = {web}
    Workers = {w1, w2}
    Operators = {op1, op2}
    Timeout = 1
    Lease = 2
    RetryAfter = 3
    Deadline = 5
    None = None
INVARIANTS
    TypeOK
    NothingForgotten
PROPERTIES
    ProcessedStays
    QueuedEventsSettle
