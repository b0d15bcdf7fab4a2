CONSTANTS
    RapidFailureLimit = 2
    MaxPanics = 4
    ExecOutcomes = {TRUE, FALSE}
SPECIFICATION FairSpec
INVARIANTS
    FailOpen
    FailOpenInv
PROPERTY ShutdownHonoured
