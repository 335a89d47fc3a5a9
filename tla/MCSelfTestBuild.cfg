SPECIFICATION Spec
CONSTANTS
    Levels = {l1, l2, l3}
    Layers = {1, 2}
    Threads = 2
    MaxFailures = 1
    MaxBuilds = 2
INVARIANTS CompleteIsServed InstallMeansComplete
