SPECIFICATION FairSpec
CONSTANTS
    r1 = r1
    r2 = r2
    d1 = d1
    f1 = f1
    f2 = f2
    q1 = q1
    i1 = i1
    i2 = i2
    Requests = {r1}
    Disputes = {d1}
    Finance = {f1, schedule}
    Scheduler = schedule
    Queue = {q1}
    Ids = {i1}
    Typo = typo
    Paid = 2
    Disputed <- OneDispute
    Costs = {0}
    MaxNews = 1
    None = None
INVARIANTS
    TypeOK
    SucceededIsPosted
PROPERTIES
    ChargebacksFit
    StuckRefundsSettle
