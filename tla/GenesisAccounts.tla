-------------------------- MODULE GenesisAccounts --------------------------
(***************************************************************************)
(* burntd add-genesis-account (cmd/burntd/genaccounts.go): commands that   *)
(* each read the genesis file, add an account with its balance and perhaps *)
(* a vesting schedule, and write the file back.  No command locks the      *)
(* file; several may be under way and each may be interrupted.             *)
(***************************************************************************)
EXTENDS Integers, FiniteSets, Sequences, Functions

CONSTANTS
    Commands,   \* the terminals commands are started from
    Addresses,  \* account addresses, in their order
    KeyNames,   \* the names in the keyring
    Keyring,    \* the address of each key
    Denoms,     \* denominations
    Coins,      \* sdk.Coins commands are given: an amount for each denomination
    Vestings,   \* sdk.Coins given as vesting amounts
    Starts,     \* start times of vesting, 0 if the flag is not given
    Ends        \* end times of vesting, 0 if the flag is not given

ASSUME GenesisAccountsAssumption ==
    /\ Addresses \subseteq Nat
    /\ Keyring \in [KeyNames -> Addresses]
    /\ KeyNames \cap Addresses = {}
    /\ Coins \subseteq [Denoms -> Nat]
    /\ Vestings \subseteq [Denoms -> Nat]
    /\ Starts \subseteq Nat
    /\ Ends \subseteq Nat

VARIABLES
    file,       \* the genesis file: auth's accounts, bank's balances and supply
    genDoc,     \* each command's genesis document, NoFile if it has read none
    overlap     \* history: have two commands been under way together?

vars == <<file, genDoc, overlap>>

NoFile == <<>>

NoCoins == [d \in Denoms |-> 0]

IsZero(coins) == coins = NoCoins

Sum(a, b) == [d \in Denoms |-> a[d] + b[d]]

\* Coins.IsAnyGT(other) only looks at the denominations other holds.
IsAnyGT(coins, other) == \E d \in Denoms : other[d] # 0 /\ coins[d] > other[d]

Init ==
    /\ file = [accounts |-> {}, balances |-> <<>>, supply |-> NoCoins]
    /\ genDoc = [c \in Commands |-> NoFile]
    /\ overlap = FALSE

----------------------------------------------------------------------------
\* The mutation: the argument is taken as the address.
AsTyped(arg) == arg

\* A bech32 address, or the name of a key that is looked up.
AccAddress(arg) == IF arg \in KeyNames THEN Keyring[arg] ELSE arg

(***************************************************************************)
(* The account the flags describe.  With a vesting amount it needs an end; *)
(* with a start as well it vests continuously, otherwise all at once.      *)
(***************************************************************************)
Account(addr, vestingAmt, start, end) ==
    [address |-> addr,
     vesting |-> vestingAmt,
     kind    |-> IF IsZero(vestingAmt) THEN "base"
                 ELSE IF start # 0 /\ end # 0 THEN "continuous" ELSE "delayed",
     start   |-> IF IsZero(vestingAmt) \/ end = 0 THEN 0 ELSE start,
     end     |-> IF IsZero(vestingAmt) THEN 0 ELSE end]

\* The mutation: the amounts are not compared.
OnlySomeCoins(coins, vestingAmt) == IsZero(coins) /\ ~IsZero(vestingAmt)

\* "vesting amount cannot be greater than total amount"
ExceedsTotal(coins, vestingAmt) ==
    \/ IsZero(coins) /\ ~IsZero(vestingAmt)
    \/ IsAnyGT(vestingAmt, coins)

\* GenesisAccount.Validate of the auth module's account types.
ValidAccount(account) == account.kind = "continuous" => account.start < account.end

\* The mutation: the file is searched for what the user typed.
ContainsArgument(accounts, arg) == \E a \in accounts : a.address = arg

Contains(accounts, arg) == \E a \in accounts : a.address = AccAddress(arg)

InOrder(balances) ==
    \A m, n \in DOMAIN balances : m < n => balances[m].address <= balances[n].address

Rearranged(balances, order) == [n \in DOMAIN balances |-> balances[order[n]]]

\* The balances in the order of their addresses.
SanitizeGenesisBalances(balances) ==
    LET Orders == Bijection(DOMAIN balances, DOMAIN balances)
    IN  Rearranged(balances, CHOOSE order \in Orders : InOrder(Rearranged(balances, order)))

\* The mutation: the supply is that of the new account.
SupplyOfLast(supply, coins) == coins

SupplyWith(supply, coins) == Sum(supply, coins)

\* The mutation: the new account replaces those of the file.
OnlyAccount(accounts, account) == {account}

Appended(accounts, account) == accounts \cup {account}

WithAccount(doc, account, coins) ==
    [accounts |-> Appended(doc.accounts, account),
     balances |-> SanitizeGenesisBalances(
                     Append(doc.balances, [address |-> account.address, coins |-> coins])),
     supply   |-> SupplyWith(doc.supply, coins)]

(***************************************************************************)
(* The command up to where it has changed its document.  One that refuses  *)
(* its arguments, or finds the account in the file, returns an error and   *)
(* has no effect.                                                          *)
(***************************************************************************)
AddGenesisAccount(c, arg, coins, vestingAmt, start, end) ==
    LET account == Account(AccAddress(arg), vestingAmt, start, end)
    IN  /\ genDoc[c] = NoFile
        /\ ~IsZero(vestingAmt) => ~ExceedsTotal(coins, vestingAmt) /\ end # 0
        /\ ValidAccount(account)
        /\ ~Contains(file.accounts, arg)
        /\ genDoc' = [genDoc EXCEPT ![c] = WithAccount(file, account, coins)]
        /\ overlap' = (overlap \/ \E other \in Commands : genDoc[other] # NoFile)
        /\ UNCHANGED file

\* genutil.ExportGenesisFile(genDoc, genFile)
ExportGenesisFile(c) ==
    /\ genDoc[c] # NoFile
    /\ file' = genDoc[c]
    /\ genDoc' = [genDoc EXCEPT ![c] = NoFile]
    /\ UNCHANGED overlap

\* The command is interrupted before it writes.
Interrupt(c) ==
    /\ genDoc[c] # NoFile
    /\ genDoc' = [genDoc EXCEPT ![c] = NoFile]
    /\ UNCHANGED <<file, overlap>>

Next ==
    \E c \in Commands :
        \/ \E arg \in Addresses \cup KeyNames, coins \in Coins, vestingAmt \in Vestings,
              start \in Starts, end \in Ends :
              AddGenesisAccount(c, arg, coins, vestingAmt, start, end)
        \/ ExportGenesisFile(c)
        \/ Interrupt(c)

Spec == Init /\ [][Next]_vars

----------------------------------------------------------------------------
(* Properties.                                                             *)

TypeOK ==
    /\ file.accounts \subseteq
          [address : Addresses, vesting : Vestings, kind : {"base", "continuous", "delayed"},
           start : Starts \cup {0}, end : Ends \cup {0}]
    /\ \A n \in DOMAIN file.balances :
          file.balances[n] \in [address : Addresses, coins : Coins]
    /\ file.supply \in [Denoms -> Nat]
    /\ overlap \in BOOLEAN

\* The coins of all balances together.
Total(balances) ==
    LET first[n \in 0 .. Len(balances)] ==
            IF n = 0 THEN NoCoins ELSE Sum(first[n - 1], balances[n].coins)
    IN  first[Len(balances)]

\* The supply of the file is the sum of its balances; x/bank refuses to start
\* a chain from a file where it is not.  It holds however the commands were
\* interleaved and interrupted: a write that loses an account loses its coins
\* in both places.
SupplyIsTotal == file.supply = Total(file.balances)

\* No address has two accounts or two balances, and whatever has one of them
\* has the other, by address or by key name and however commands overlap.
OneBalanceEach ==
    /\ \A a, b \in file.accounts : a.address = b.address => a = b
    /\ Len(file.balances) = Cardinality(file.accounts)
    /\ {file.balances[n].address : n \in DOMAIN file.balances}
          = {a.address : a \in file.accounts}

\* An account of the file does not vest more of a coin than the balance the
\* same file gives it, among the coins it holds at all.
VestingCovered ==
    \A a \in file.accounts, n \in DOMAIN file.balances :
        file.balances[n].address = a.address /\ ~IsZero(a.vesting) =>
            LET coins == file.balances[n].coins
            IN  ~IsZero(coins) /\ \A d \in Denoms : coins[d] # 0 => a.vesting[d] <= coins[d]

\* Commands run one after the other, interrupted or not, keep every account
\* that an earlier one added; only overlapping ones can undo each other.
KeptInTurn ==
    [][~overlap' => file.accounts \subseteq file'.accounts]_vars

=============================================================================
