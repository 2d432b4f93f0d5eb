SPECIFICATION FairSpec
CONSTANTS
    Plain = {q1, q2}
    Forced = {f1}
    Stops = {s1}
    Relays = {r1}
    Switches = {w1}
    Compacts = {c1}
    MaxCalls = 1
    MaxToolReplies = 0
CONSTRAINT OneLiveMix
PROPERTIES QueuedBehindRoundDelivered CommandsFinish
