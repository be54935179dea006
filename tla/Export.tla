------------------------------- MODULE Export -------------------------------
(***************************************************************************)
(* prepForZeroHeightGenesis (app/export.go): how an export for a chain     *)
(* that starts again at height zero proceeds, up to the loop over the      *)
(* validators.  The export works on a context of its own that is never     *)
(* committed, so the only trace of it is how it ends.                      *)
(***************************************************************************)
EXTENDS Naturals, Sequences

CONSTANTS
    Validators,     \* operator addresses, as sequences of bytes
    Malformed,      \* texts that are no validator address
    MaxHeight       \* bound: the last block

VARIABLES
    height,         \* app.LastBlockHeight()
    commission,     \* x/distribution: each validator's accumulated commission
    ended           \* how the export ended, "" if none was run

vars == <<height, commission, ended>>

Init ==
    /\ height = 1
    /\ commission = [v \in Validators |-> 0]
    /\ ended = ""

\* A block pays its proposer a commission, and validators withdraw theirs.
Block ==
    /\ ended = "" /\ height < MaxHeight
    /\ height' = height + 1
    /\ commission' \in [Validators -> 0 .. 1]
    /\ UNCHANGED ended

\* stakingtypes.ValidatorsKey and a byte for the length of the address stand
\* before the address of a validator in x/staking's store.
GetValidatorKey(v) == <<33, Len(v)>> \o v

\* sdk.ValAddress(iter.Key()[1:])
AddrOfKey(key) == Tail(key)

\* x/distribution withdraws no commission of zero: it returns an error.
WithdrawValidatorCommissionFails(v) == commission[v] = 0

\* The steps in their order, and how the export ends where one of them fails.
\* Whether the invariants of the other modules hold, and whether the rewards of
\* every delegation can be withdrawn, is up to these modules.
prepForZeroHeightGenesis(jailAllowedAddrs, invariantsHold, rewardsWithdrawn) ==
    IF jailAllowedAddrs \cap Malformed # {} THEN "log.Fatal"
    ELSE IF ~invariantsHold THEN "panic: invariant broken"
    ELSE IF \E v \in Validators : WithdrawValidatorCommissionFails(v)
         THEN "panic: no commission"
    ELSE IF ~rewardsWithdrawn THEN "panic: no rewards"
    ELSE IF \E v \in Validators : AddrOfKey(GetValidatorKey(v)) \notin Validators
         THEN "panic: expected validator, not found"
    ELSE "prepared"

\* ExportAppStateAndValidators with forZeroHeight.
ExportForZeroHeight(jailAllowedAddrs, invariantsHold, rewardsWithdrawn) ==
    /\ ended = ""
    /\ ended' = prepForZeroHeightGenesis(jailAllowedAddrs, invariantsHold, rewardsWithdrawn)
    /\ UNCHANGED <<height, commission>>

Next ==
    \/ Block
    \/ \E addrs \in SUBSET (Validators \cup Malformed), hold, withdrawn \in BOOLEAN :
          ExportForZeroHeight(addrs, hold, withdrawn)

Spec == Init /\ [][Next]_vars

----------------------------------------------------------------------------
(* Properties.                                                             *)

\* The loop over the validators of x/staking finds each of them again by the
\* address it took from the key: what the code expects, and panics otherwise.
ExpectedValidatorsFound == ended # "panic: expected validator, not found"

=============================================================================
