SPECIFICATION Spec
CHECK_DEADLOCK FALSE
CONSTANTS
    InitialHold = 1
    CheckoutExtension = 1
    MaximumHold = 2
    QuoteTtl = 1
    SessionTtl = 2
    RecoveryTtl = 4
    Retention = 9
    CheckoutTtls = {2}
    Methods = {"hosted_checkout"}
    Outcomes = {"approved", "rejected"}
    Matches = {TRUE}
    StaffMoves = {}
    DepositsInTotal = 2
    Workers = {w1}
    JobTries = 1
    MaxTime = 5
    MaxQuotes = 2
    MaxRequests = 2
    MaxAttempts = 1
    MaxPayments = 1
    MaxEvidence = 0
    MaxCalls = 1
INVARIANTS
    LatePaymentsAreBooked
