SPECIFICATION Spec
CONSTANTS
    Nodes = {a, b}
    Hub = Hub
    None = None
    Calls = {k1, k2}
    MaxLinks = 2
    MaxBreaks = 1
    MaxLives = 2
SYMMETRY Symmetry
CONSTRAINT OneMix
INVARIANTS TableMatchesThreads WaitingCanBeWoken ListsAreCurrent
PROPERTIES CallsKeepPromise
