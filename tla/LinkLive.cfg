SPECIFICATION FairSpec
CONSTANTS
    Nodes = {a, b}
    Hub = Hub
    None = None
    Calls = {k1}
    MaxLinks = 2
    MaxBreaks = 1
    MaxLives = 2
CONSTRAINT OneLiveMix
PROPERTIES DroppedPeerWakes Reconnects
