CONSTANTS
    Post = {p1, p2, p3}
    Threshold = 2
    r1 = r1
    r2 = r2
    s1 = s1
    s2 = s2
    a = a
    NoPlan = NoPlan
    Requests <- MCRequests
    Syncs <- MCSyncs
    Plans <- MCPlans
    AuthTtl = 2
    NegativeTtl = 2
    LockTtl = 1
    Latency = 1
    MaxTime = 4
    MaxChanges = 1
    MaxJobs = 1
SYMMETRY Symmetry
SPECIFICATION Spec
INVARIANT ForgottenIsNotServed
CHECK_DEADLOCK FALSE
