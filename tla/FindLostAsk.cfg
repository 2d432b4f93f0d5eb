SPECIFICATION FairSpec
CONSTANTS
    Plain = {q1, q2}
    Forced = {}
    Stops = {}
    Relays = {}
    Switches = {}
    Compacts = {}
    MaxCalls = 0
    MaxToolReplies = 0
PROPERTIES QueuedAsksDelivered
