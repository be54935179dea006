\* One signer has a 32 byte address.
CONSTANTS
    Signers = {s1, s2}
    LongSigners = {s2}
    Contracts = {c1}
    Bodies = {b1}
    TinyBodies = {}
    EmptyBody = EmptyBody
    MaxHeight = 3
    GarbageHeight = 9
    Word = 8
    MaxBalance = 3
    Minimums = {0, 1}
    UpperBounds = {0, 1, 2}
    Routes = {"MsgAddSchedule"}
    Resubmit = FALSE
    ShortResults = FALSE
    Reach = 1
    None = None
SPECIFICATION Spec
INVARIANT EveryDueCallIsRead
CHECK_DEADLOCK FALSE
