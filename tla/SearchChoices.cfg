SPECIFICATION Spec
CONSTANTS
    Tracks = {1}
    Assets = {1, 2, 3}
    Candidates = {1, 2}
    Videos = {1, 2}
    Visualizers = {2}
    Procs = {1, 2}
    Ops <- Everything
    Workers = {1}
    ApiKey = TRUE
    Faults = TRUE
    MaxAsked = 3
    MaxCrashes = 1
CHECK_DEADLOCK FALSE
INVARIANTS TypeOK ChoiceIsTraceable SearchingIsSearched
PROPERTIES ChoiceIsKept ServedIsUntouched StaysServed
