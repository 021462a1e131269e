\* Room for one run, two submitted, one cancelled.
CONSTANTS
    r1 = r1  r2 = r2  r3 = r3
    u1 = u1  u2 = u2
    d1 = d1  d2 = d2
    NoRun = NoRun  NoUser = NoUser  NoDrainer = NoDrainer
    Runs = {r1, r2}
    Users = {u1}
    Owner <- OneOwner
    MaxActive <- One
    MaxQueued <- Two
    PatchTo = {}
    Drainers = {d1}
    Cancellable = {r1}
    Retriable = {}
    Silent = {}
    Faults = {}
    Reconciling = FALSE
    MaxCrashes = 0
SPECIFICATION Spec
INVARIANTS ActiveWithinLimit
CHECK_DEADLOCK FALSE
