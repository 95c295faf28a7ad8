SPECIFICATION Spec
CHECK_DEADLOCK FALSE
SYMMETRY Symmetry
CONSTANTS
    InitialHold = 1
    CheckoutExtension = 1
    MaximumHold = 1
    QuoteTtl = 1
    SessionTtl = 2
    RecoveryTtl = 4
    Retention = 9
    CheckoutTtls = {2}
    Methods = {"hosted_checkout"}
    Outcomes = {"approved", "rejected"}
    Matches = {TRUE, FALSE}
    StaffMoves = {}
    DepositsInTotal = 1
    Workers = {w1, w2}
    JobTries = 1
    MaxTime = 3
    MaxQuotes = 1
    MaxRequests = 2
    MaxAttempts = 2
    MaxPayments = 2
    MaxEvidence = 0
    MaxCalls = 1
INVARIANTS
    TypeOK
    MoneyOnCurrentRequest
    MoneyIsAccountedFor
