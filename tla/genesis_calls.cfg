\* An orderly environment, and restarts from an exported genesis.
CONSTANTS
    Signers = {s1, s2}
    LongSigners = {}
    Contracts = {c1, c2}
    Bodies = {b1}
    TinyBodies = {}
    EmptyBody = EmptyBody
    MaxHeight = 3
    GarbageHeight = 9
    Word = 8
    MaxBalance = 2
    Minimums = {0, 1}
    UpperBounds = {0, 1, 2}
    Routes = {"MsgAddSchedule", "MsgRemoveSchedule"}
    Resubmit = FALSE
    ShortResults = FALSE
    Reach = 2
SPECIFICATION RestartSpec
PROPERTY CallsSurvive
CHECK_DEADLOCK FALSE
