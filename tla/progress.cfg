\* Blocks keep coming; signers may add calls again and contracts misbehave.
CONSTANTS
    Signers = {s1, s2}
    LongSigners = {s2}
    Contracts = {c1}
    Bodies = {b1}
    TinyBodies = {}
    EmptyBody = EmptyBody
    MaxHeight = 3
    GarbageHeight = 9
    Word = 8
    MaxBalance = 2
    Minimums = {0, 1}
    UpperBounds = {0, 1, 2}
    Routes = {"MsgAddSchedule", "MsgRemoveSchedule"}
    Resubmit = TRUE
    ShortResults = TRUE
    Reach = 1
    None = None
SPECIFICATION FairSpec
PROPERTIES EveryCallLeaves ChainGoesOn
CHECK_DEADLOCK FALSE
