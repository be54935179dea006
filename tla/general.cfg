\* Everything the environment can do: signers add calls again, a signer has a
\* 32 byte address, contracts return short data and own more than a uint64,
\* and the chain is restarted from exported genesis files.
CONSTANTS
    Signers = {s1, s2}
    LongSigners = {s2}
    Contracts = {c1}
    Bodies = {b1, b2}
    TinyBodies = {b2}
    EmptyBody = EmptyBody
    MaxHeight = 4
    GarbageHeight = 9
    Word = 5
    MaxBalance = 5
    Minimums = {0, 2}
    UpperBounds = {0, 1, 2}
    Routes = {"MsgAddSchedule", "MsgRemoveSchedule"}
    Resubmit = TRUE
    ShortResults = TRUE
    Reach = 1
SPECIFICATION RestartSpec
INVARIANTS TypeOK IndexAgrees NoMissedCall HorizonBounded
PROPERTIES ConsumedOnce
CHECK_DEADLOCK FALSE
