SPECIFICATION Spec
CONSTANTS
    Tracks = {1}
    Assets = {1, 2, 3}
    Candidates = {1, 2}
    Videos = {1, 2}
    Visualizers = {2}
    Procs = {1, 2}
    Ops <- OnlyReplacing
    Workers = {1}
    ApiKey = TRUE
    Faults = FALSE
    MaxAsked = 3
    MaxCrashes = 0
CHECK_DEADLOCK FALSE
PROPERTIES HumanChoiceIsSpared
