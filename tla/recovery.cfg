\* A run and its silent retry; a start may fail, the process may die, the reconciler sweeps.
CONSTANTS
    r1 = r1  r2 = r2  r3 = r3
    u1 = u1  u2 = u2
    d1 = d1  d2 = d2
    NoRun = NoRun  NoUser = NoUser  NoDrainer = NoDrainer
    Runs = {r1, r2}
    Users = {u1}
    Owner <- OneOwner
    MaxActive <- One
    MaxQueued <- Two
    PatchTo = {}
    Drainers = {d1}
    Cancellable = {}
    Retriable = {r2}
    Silent = {r2}
    Faults = {"start"}
    Reconciling = TRUE
    MaxCrashes = 1
SPECIFICATION FairSpec
 
PROPERTIES LeftoverIsSwept
CHECK_DEADLOCK FALSE
