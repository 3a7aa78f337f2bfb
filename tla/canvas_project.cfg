\* Loading, editing, undo, saving and image collection of canvases.
SPECIFICATION Spec
CONSTANTS
    p = p
    q = q
    k = k
    Projects <- MCProjects
    NoProject = NoProject
    Keys <- MCKeys
    MaxRev = 3
    Depth = 2
    MaxSweeps = 1
SYMMETRY Symmetric
INVARIANTS
    ProjectsSound
    HistorySafe
CHECK_DEADLOCK FALSE
