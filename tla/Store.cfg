SPECIFICATION Spec
CONSTANTS
    Rounds = {t1, t2}
    Senders = {r1}
    Switches = {w1}
    Clears = {c1}
    Loads = 2
    None = None
SYMMETRY Symmetry
CONSTRAINT ThreeCommands
INVARIANTS CompletedRoundsSurvive ClearIsFinalUnlessStale
