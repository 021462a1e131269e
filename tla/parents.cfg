\* Two requests at a time, a run and its retry, and the reconciler; Docker works.
CONSTANTS
    t1 = t1  t2 = t2  r1 = r1  r2 = r2
    Reconciler = Reconciler
    Nobody = Nobody
    Threads = {t1, t2}
    Runs = {r1, r2}
    MaxParents = 2
    MaxAsks = 2
    MaxMishaps = 0
SPECIFICATION Spec
SYMMETRY Alike
VIEW Relevant
INVARIANTS TypeOK 
 
CHECK_DEADLOCK FALSE
