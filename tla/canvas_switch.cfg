\* From one canvas to another without the list in between.
SPECIFICATION DirectSpec
CONSTANTS
    p = p
    q = q
    k = k
    Projects <- MCProjects
    NoProject = NoProject
    Keys <- MCKeys
    MaxRev = 1
    Depth = 1
    MaxSweeps = 1
INVARIANTS
    ProjectKept
CHECK_DEADLOCK FALSE
