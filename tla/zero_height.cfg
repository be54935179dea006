\* Two validators with addresses of one and two bytes.
CONSTANTS
    Validators <- MCValidators
    Malformed <- MCMalformed
    MaxHeight = 3
SPECIFICATION Spec
INVARIANT ExpectedValidatorsFound
CHECK_DEADLOCK FALSE
