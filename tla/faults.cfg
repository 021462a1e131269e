\* One run, cancelled and swept at any moment; any call may raise, the process may die.
CONSTANTS
    r1 = r1  r2 = r2  r3 = r3
    u1 = u1  u2 = u2
    d1 = d1  d2 = d2
    NoRun = NoRun  NoUser = NoUser  NoDrainer = NoDrainer
    Runs = {r1}
    Users = {u1}
    Owner <- OneOwner
    MaxActive <- One
    MaxQueued <- Two
    PatchTo = {}
    Drainers = {d1, d2}
    Cancellable = {r1}
    Retriable = {}
    Silent = {}
    Faults = {"parent", "stage", "create", "start", "attach", "stream", "collect", "remove", "transport"}
    Reconciling = TRUE
    MaxCrashes = 2
SPECIFICATION Spec
SYMMETRY TwoDrainers
INVARIANTS TypeOK ThreadsOwnRows  
PROPERTIES SweepSparesActive EndedStays
CHECK_DEADLOCK FALSE
