SPECIFICATION Spec
CONSTANTS
    r1 = r1
    r2 = r2
    d1 = d1
    f1 = f1
    f2 = f2
    q1 = q1
    i1 = i1
    i2 = i2
    Requests = {r1, r2}
    Disputes = {}
    Finance = {f1, f2, schedule}
    Scheduler = schedule
    Queue = {}
    Ids = {i1, i2}
    Typo = typo
    Paid = 2
    Disputed <- NoDisputes
    Costs = {0}
    MaxNews = 1
    None = None
SYMMETRY Symmetry
INVARIANTS
    PostedRefundsWereReturned
    RequestsFitPayment
