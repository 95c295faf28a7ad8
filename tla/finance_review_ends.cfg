SPECIFICATION FairSpec
CHECK_DEADLOCK FALSE
CONSTANTS
    InitialHold = 1
    CheckoutExtension = 1
    MaximumHold = 2
    QuoteTtl = 1
    SessionTtl = 2
    RecoveryTtl = 4
    Retention = 9
    CheckoutTtls = {2}
    Methods = {"manual_bank_transfer"}
    Outcomes = {"approved", "rejected"}
    Matches = {TRUE}
    StaffMoves = {}
    DepositsInTotal = 2
    Workers = {w1}
    JobTries = 1
    MaxTime = 4
    MaxQuotes = 1
    MaxRequests = 1
    MaxAttempts = 0
    MaxPayments = 0
    MaxEvidence = 1
    MaxCalls = 1
PROPERTIES
    FinanceReviewEnds
