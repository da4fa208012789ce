SPECIFICATION FairSpec
CONSTANTS
    Assets = {1, 2}
    Visualizers = {2}
    Tasks = {1, 2, 3, 4, 5, 6, 7, 8, 9, 10}
    Clients = {c1}
    Ops = {"retry"}
    Limits = {1}
    MaxAttempts = 2
    Uncaught = FALSE
    MaxCrashes = 1
    MaxRetries = 1
PROPERTIES
    
    EventuallySettled
