\* Two commands at a time for two addresses, one of them also known by a key
\* name; two denominations.  Deadlock: when every address has its account.
CONSTANTS
    Commands = {t1, t2}
    Addresses = {1, 2}
    KeyNames = {k1}
    Keyring <- MCKeyring
    Denoms = {burnt, other}
    Coins <- MCCoins
    Vestings <- MCVestings
    Starts = {0, 1, 2}
    Ends = {0, 2}
SPECIFICATION Spec
INVARIANTS TypeOK SupplyIsTotal OneBalanceEach VestingCovered
PROPERTIES KeptInTurn
SYMMETRY Symmetry
CHECK_DEADLOCK FALSE
