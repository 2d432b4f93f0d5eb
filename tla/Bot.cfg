SPECIFICATION Spec
CONSTANTS
    boot = boot
    reload1 = reload1
    reload2 = reload2
    claim = claim
    unload = unload
    repair = repair
    t1 = t1
    t2 = t2
    t3 = t3
    s1 = s1
    s2 = s2
    p = p
    q = q
    Boot = boot
    Reloads = {reload1, reload2}
    Claims = {claim}
    Unload = unload
    Repairs = {repair}
    MaxProcs = 3
    MaxDeaths = 1
    Tasks = {t1, t2, t3}
    Stops = {s1, s2}
    PlayerOf <- MCPlayerOf
    MaxMessages = 3
    MaxCalls = 3
    MaxReplies = 3
INVARIANTS ProcessIsKnown BotIsAsWanted TaskIsSomewhere ConversationIntact
PROPERTIES StoppedCycleLeavesNothing
CONSTRAINT OneMix
CHECK_DEADLOCK FALSE
