SPECIFICATION Spec
CONSTANTS
    Plain = {q1, q2, q3}
    Forced = {f1}
    Stops = {s1}
    Relays = {r1}
    Switches = {w1, w2}
    Compacts = {c1}
    MaxCalls = 2
    MaxToolReplies = 1
SYMMETRY Symmetry
CONSTRAINT OneMix
INVARIANTS RequestsAreWellFormed NothingLost RoundOwnership ArrivalOrder
PROPERTIES StoppedRoundTurnsBack
