SPECIFICATION Spec
CONSTANTS
    Assets = {1}
    Visualizers = {}
    Tasks = {1, 2, 3}
    Clients = {c1, c2}
    Ops = {"enqueue", "retry", "cancel"}
    Limits = {2}
    MaxAttempts = 2
    Uncaught = FALSE
    MaxCrashes = 1
    MaxRetries = 1
SYMMETRY ClientSymmetry
INVARIANTS
    OneWorkerPerAsset
    NothingIsLost
    AttemptBudget
    LibraryMatchesDisk
PROPERTIES
    BackoffRespected
    SettledStaysSettled
