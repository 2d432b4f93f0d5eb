SPECIFICATION Spec
CONSTANTS
    a = a
    b = b
    c = c
    relay = relay
    compact = compact
    old1 = old1
    old2 = old2
    q1 = q1
    q2 = q2
    stop = stop
    Nobody = Nobody
    Asks = {a, b, c}
    Relays = {relay}
    Compacts = {compact}
    Old <- MCOld
    KEEP_ROUNDS = 2
    MaxReplies = 2
    Questions = {q1, q2}
    Stops = {stop}
    MaxAnswers = 2
INVARIANTS QuestionIsAsked StoppedIsSilent
PROPERTIES CompressionKeepsTheRest NewestQuestionsStay
CONSTRAINT Within
SYMMETRY Same
CHECK_DEADLOCK FALSE
