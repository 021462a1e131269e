\* One request at a time beside the reconciler, and one mishap.
CONSTANTS
    t1 = t1  t2 = t2  r1 = r1  r2 = r2
    Reconciler = Reconciler
    Nobody = Nobody
    Threads = {t1}
    Runs = {}
    MaxParents = 1
    MaxAsks = 2
    MaxMishaps = 1
SPECIFICATION FairSpec
PROPERTIES RequestsEnd Converges
CHECK_DEADLOCK FALSE
