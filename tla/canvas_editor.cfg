\* Editing and generating on one canvas.
SPECIFICATION Spec
CONSTANTS
    MaxNodes = 4
    MaxEdits = 2
    MaxSteps = 2
    MaxPieces = 2
    Runs <- MCRuns
    Items <- MCItems
    Gens <- GenSet
    FreshGen <- NewGen
    Settled <- GenSettled
    Interrupted <- GenInterrupted
    Canvases <- MCCanvases
INVARIANTS
    TypeOK
    DocumentSound
    RegistryExact
    ResultsHonest
PROPERTIES
    ImplementsGraph
    AbortedEnds
CHECK_DEADLOCK FALSE
