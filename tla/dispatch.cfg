\* Two trainers with room for one run each, queued and active, one of them with two runs.
CONSTANTS
    r1 = r1  r2 = r2  r3 = r3
    u1 = u1  u2 = u2
    d1 = d1  d2 = d2
    NoRun = NoRun  NoUser = NoUser  NoDrainer = NoDrainer
    Runs = {r1, r2, r3}
    Users = {u1, u2}
    Owner <- TwoOwners
    MaxActive <- One
    MaxQueued <- One
    PatchTo = {}
    Drainers = {d1, d2}
    Cancellable = {}
    Retriable = {}
    Silent = {}
    Faults = {}
    Reconciling = FALSE
    MaxCrashes = 0
SPECIFICATION Spec
SYMMETRY FirstTwoAlike
VIEW WithoutEndings
INVARIANTS ClaimedOnce NoStrandedQueue QueueBound
CHECK_DEADLOCK FALSE
