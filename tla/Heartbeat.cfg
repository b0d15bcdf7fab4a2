CONSTANTS
    UserschedEnabled = TRUE
    GuardPeriods = 4
    MaxAge = 6
SPECIFICATION Spec
INVARIANTS
    UserschedServed
    GuardQuiet
    BacklogGuarded
    ServedInv
CHECK_DEADLOCK FALSE
