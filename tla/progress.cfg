SPECIFICATION FairSpec
CHECK_DEADLOCK FALSE
CONSTANTS
    InitialHold = 1
    CheckoutExtension = 1
    MaximumHold = 3
    QuoteTtl = 1
    SessionTtl = 2
    RecoveryTtl = 4
    Retention = 9
    CheckoutTtls = {3}
    Methods = {"hosted_checkout", "manual_bank_transfer"}
    Outcomes = {"approved", "rejected"}
    Matches = {TRUE}
    StaffMoves = {}
    DepositsInTotal = 2
    Workers = {w1}
    JobTries = 2
    MaxTime = 5
    MaxQuotes = 1
    MaxRequests = 2
    MaxAttempts = 2
    MaxPayments = 1
    MaxEvidence = 1
    MaxCalls = 1
PROPERTIES
    HoldsEnd
    ApprovedIsBooked
INVARIANTS
    HoldWithinPolicy
    ExpiriesAgree
