CONSTANTS
    RapidFailureLimit = 2
    MaxPanics = 1
    ExecOutcomes = {TRUE, FALSE}
SPECIFICATION FairSpec
PROPERTY StopHonoured
