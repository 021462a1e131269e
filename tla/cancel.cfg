\* Two runs and room for one; one is cancelled at any moment, the limit may rise.
CONSTANTS
    r1 = r1  r2 = r2  r3 = r3
    u1 = u1  u2 = u2
    d1 = d1  d2 = d2
    NoRun = NoRun  NoUser = NoUser  NoDrainer = NoDrainer
    Runs = {r1, r2}
    Users = {u1}
    Owner <- OneOwner
    MaxActive <- One
    MaxQueued <- Two
    PatchTo = {2}
    Drainers = {d1, d2}
    Cancellable = {r1}
    Retriable = {}
    Silent = {}
    Faults = {}
    Reconciling = FALSE
    MaxCrashes = 0
SPECIFICATION Spec
SYMMETRY TwoDrainers
VIEW WithoutCrowd
INVARIANTS FirstClaimLimit NoStrandedQueue
PROPERTIES VerdictsStay ImplementsContract
CHECK_DEADLOCK FALSE
