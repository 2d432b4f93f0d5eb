SPECIFICATION Spec
CONSTANTS
    server = server
    namesake = namesake
    bot = bot
    alpha = alpha
    steve = steve
    lan = lan
    loopback = loopback
    Insts <- MCInsts
    Bot = bot
    Names <- MCNames
    NameOf <- MCNameOf
    AddrOf <- MCAddrOf
    Conns = {c1, c2}
    MaxTokens = 3
    MaxRequests = 2
    MaxRestarts = 1
    MaxFailures = 1
    MaxPending = 1
    RateLimit = 1
CONSTRAINT OneMix
INVARIANTS TableKept AdmissionIsCurrent 
PROPERTIES NoSilentTakeover
CHECK_DEADLOCK FALSE
