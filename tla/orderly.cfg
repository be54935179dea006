\* An orderly environment: no call is added twice, addresses have 20 bytes,
\* contracts return no short data and own less than 2^64.
CONSTANTS
    Signers = {s1, s2}
    LongSigners = {}
    Contracts = {c1, c2}
    Bodies = {b1}
    TinyBodies = {}
    EmptyBody = EmptyBody
    MaxHeight = 3
    GarbageHeight = 9
    Word = 8
    MaxBalance = 2
    Minimums = {0, 1}
    UpperBounds = {0, 1, 2}
    Routes = {"MsgAddSchedule", "MsgRemoveSchedule"}
    Resubmit = FALSE
    ShortResults = FALSE
    Reach = 1
    None = None
SPECIFICATION Spec
INVARIANTS StoreLayout NeverHalts QueryAgrees
PROPERTIES ImplementsCallSchedule RunsOnlyForOwners UnpaidOnlyIfDrained RescheduledInGoodStanding
SYMMETRY Symmetry
CHECK_DEADLOCK FALSE
