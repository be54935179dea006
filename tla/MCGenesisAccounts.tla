------------------------- MODULE MCGenesisAccounts -------------------------
(***************************************************************************)
(* GenesisAccounts with one key, for address 1, and amounts in the first   *)
(* denomination, in the second and in both.                                *)
(***************************************************************************)
EXTENDS GenesisAccounts, TLC

MCKeyring == [k \in KeyNames |-> 1]

First == CHOOSE d \in Denoms : TRUE

Amounts(a, b) == [d \in Denoms |-> IF d = First THEN a ELSE b]

MCCoins == {Amounts(0, 0), Amounts(1, 0), Amounts(1, 1)}

MCVestings == {Amounts(0, 0), Amounts(1, 0), Amounts(2, 0), Amounts(0, 1)}

Symmetry == Permutations(Commands)

=============================================================================
