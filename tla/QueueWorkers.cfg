SPECIFICATION Spec
CONSTANTS
    Assets = {1, 2, 3}
    Visualizers = {2}
    Tasks = {1, 2, 3, 4}
    Clients = {c1}
    Ops = {}
    Limits = {1, 2}
    MaxAttempts = 2
    Uncaught = TRUE
    MaxCrashes = 1
    MaxRetries = 0
INVARIANTS
    TypeOK
    WorkerBound
