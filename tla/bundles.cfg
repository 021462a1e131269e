SPECIFICATION Spec
CONSTANTS
    q1 = q1
    q2 = q2
    Requests = {q1, q2}
    Sources = {"folder", "nested", "linked"}
    Task <- MCTask
    MaxBundles = 2
    MaxRuns = 2
    MaxUpload = 2
    MaxRuntimes = {60, 120}
VIEW Forgetful
SYMMETRY Alike
INVARIANTS TypeOK  RunsFit  StagedAsValidated
PROPERTIES ImplementsTaskContract
