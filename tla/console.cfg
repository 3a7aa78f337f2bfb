\* Every view of the console with two requests in flight, a poll apart.
SPECIFICATION Spec
CONSTANTS
    Views <- MCViews
    MaxRuns = 2
    MaxChanges <- MCChanges
    MaxOpens <- MCOpens
INVARIANTS
    ConsoleSound
PROPERTIES
    WaitingEnds
CHECK_DEADLOCK TRUE
