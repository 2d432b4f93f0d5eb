SPECIFICATION Spec
CONSTANTS
    Nodes = {n1, n2}
    Newest = 3
    Release = 2
    MaxRounds = 2
    MaxBreaks = 1
SYMMETRY Symmetry
CONSTRAINT Bounded
PROPERTIES HubGoesLast ReadyRunsTheVersion StagesAdvance
