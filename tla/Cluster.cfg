SPECIFICATION MCSpec
CONSTANTS
    a = a
    b = b
    c = c
    Insts <- MCInsts
    Forced = {}
    MaxLoads = 2
    Cmds = {c1, c2}
    MaxSessions = 1
CONSTRAINT OneMix
INVARIANTS ClientsStayClients RoleMatchesLink RunsOnce ToolsRunAtHome AnswersStayWithTheTypist
CHECK_DEADLOCK FALSE
