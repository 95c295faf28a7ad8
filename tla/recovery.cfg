SPECIFICATION Spec
CHECK_DEADLOCK FALSE
CONSTANTS
    InitialHold = 1
    CheckoutExtension = 1
    MaximumHold = 2
    QuoteTtl = 1
    SessionTtl = 2
    RecoveryTtl = 4
    Retention = 3
    CheckoutTtls = {2}
    Methods = {"hosted_checkout"}
    Outcomes = {"approved", "cancelled", "pending"}
    Matches = {TRUE, FALSE}
    StaffMoves = {}
    DepositsInTotal = 2
    Workers = {w1}
    JobTries = 2
    MaxTime = 5
    MaxQuotes = 2
    MaxRequests = 2
    MaxAttempts = 1
    MaxPayments = 1
    MaxEvidence = 0
    MaxCalls = 1
INVARIANTS
    SingleOpenRequest
    ScrubbedIsClosed
    MoneyIsAccountedFor
PROPERTIES
    ExpiredOnlyWhenDue
