# A TLA+ verification project for the burnt chain

The burnt chain is a Cosmos SDK application: some twenty SDK, IBC and CosmWasm
modules wired together in `app/app.go`, and one module of its own,
`x/schedule`, which runs smart contracts at block heights their owners asked
for. The project models `x/schedule` with the part of the block cycle it
depends on, its restart from an exported genesis, the generated code that
encodes and decodes its messages, and the two operations of the node's operator
that are more than wiring: the export for height zero and the command that adds
accounts to the genesis file. TLC checks the models on small instances, and
TLAPS proves the main invariants for every instance.

## The system

| component | state | operations | interacts with |
|---|---|---|---|
| schedule store (`keeper/keeper.go`, `types/keys.go`) | two indexes in one KVStore: height key to call, name key to height | add, reschedule, remove, iterate, consume | message server, EndBlocker, queries |
| message server (`keeper/msg_server_*.go`) | none | `AddSchedule`, `RemoveSchedule` | asks the contract `is_owner`, reads the bank and the parameters, writes the store |
| EndBlocker (`keeper/abci.go`) | the open iterator | one callback per call due at this height | contract queries and executions, bank, store |
| parameters (`types/params.go`) | `MinimumBalance`, `UpperBound` | set by genesis and governance | message server, EndBlocker |
| queries (`keeper/grpc_query*.go`) | none | `Params`, `ScheduledCalls` | store |
| handler and module (`handler.go`, `module.go`) | none | routing of messages | baseapp |
| genesis (`genesis.go`, `types/genesis.go`) | none | init, export, validate | parameters; the application's export and `InitChainer` |
| generated code (`types/*.pb.go`) | the locals of a call: input, index, current field | `Unmarshal`, `skipSchedule`, `MarshalToSizedBuffer`, `Size` of 15 messages | store, transactions, queries, events, genesis files |
| application (`app/app.go`) | keepers | block cycle, `InitChainer` | every module |
| export (`app/export.go`) | a context that is never committed | export at a height, export for height zero | staking, distribution |
| genesis account command (`cmd/burntd/genaccounts.go`) | the genesis file | add an account, its balance and its vesting | other commands on the same file |
| command line (`client/cli`), node binary (`cmd/burntd`) | none | build transactions, start the node | node |

What is hard here. A call is kept under two keys that several paths write and
delete separately. The EndBlocker changes the store it is iterating over, runs
foreign code between two reads of a balance, and charges for it afterwards. It
runs outside any transaction: what a failing contract call did is not undone,
and a panic stops the chain on every node and on every replay. Several calls
of one block can concern the same contract. Calls schedule themselves again.
Heights, gas and balances are uint64 in one place and big integers in another.
The decoders compute with lengths that the sender chose, in integers that wrap
around, and skip what they do not know with a second function that checks less
than the first. Genesis files are read, changed and written without a lock.

What makes it correct. The indexes agree; a due call is visited in its block,
exactly once; it runs only for a current owner and with a funded contract; it
is paid for; it is rescheduled only ahead, within the upper bound; the
EndBlocker neither panics nor runs forever; queries show what is stored. A
decoder stays inside its input, returns, and reads what the wire format says;
an encoder writes what the decoder reads, in a buffer of the right size. The
accounts, balances and supply of a genesis file belong together.

## Modules

The scheduler:

- `ScheduleStore` is the KVStore and the keeper functions on it, as operators
  from stores to stores. A store is a record of two functions, `byHeight` and
  `byName`, whose domains are the present keys. A value remembers which
  encoder wrote it (`Marshal` or `Uint64ToBigEndian`), because two code paths
  disagree on what goes where; `UnmarshalPanics`, `Uint64Panics` and
  `BigEndianToUint64` say what the wrong decoder makes of it. `CutSigner` and
  `CutContract` are the iterator's cutting of a key into 20 and 32 bytes.
- `Schedule` is the state machine. `AddSchedule` and `RemoveSchedule` are the
  message server's methods, their guards the early returns in the code's order;
  a refused message, or one whose panic the transaction recovers, changes
  nothing and is no step. `EndBlock` opens the iterator, the `Consume...`
  actions are one callback each, `NextBlock` commits. `Halt` is a panic of the
  EndBlocker. The contracts, the bank and governance are environment:
  `BalanceChanges`, `OwnersChange`, the new parameters of `EndBlock`, and the
  outcome and side effects of an execution in `ConsumeRun` are arbitrary.
- `Genesis` extends it by `Restart`: after a commit the node is stopped, its
  state exported at that height (`ExportGenesis`), the file validated
  (`Validate`) and a new chain started from it (`InitChainer`, `InitGenesis`).
  Of the other modules' state the balances and owners are carried over.
- `CallSchedule` is the promise: each pair of a signer and a contract has at
  most one pending call, taken up in the block it names.
- `ScheduleRefinement` maps the store to `CallSchedule`.
- `MCSchedule` adds the symmetry sets; the `.cfg` files give the constants.

The generated code:

- `Wire` has Go's integers, with their widths as parameters: conversion of
  uint64 to int, addition that wraps, shifts that lose bits, and the two parts
  of a tag.
- `Unmarshal` reads an input byte by byte. All the generated methods are one
  loop, with the fields of each message filled in, so the machine has one copy
  of it and a table of fields. `calls` is the stack of slices being read (a
  nested message is read by its own `Unmarshal`, on a subslice), `msgs` the
  messages they fill; `skip` holds the locals of `skipSchedule`. There is one
  action for each part of the loop, and the disjuncts of an action are the
  returns of the code.
- `Messages` has the field tables and, written out for each message, what
  `MarshalToSizedBuffer` writes and what `Size` reserves. A write is a piece of
  room taken in front of what is there and the bytes put at its start; `Buffer`
  fails where Go would index out of range. `Reset` is the empty message.
- `Decoded` puts both together: a message that was read is written again
  (`Filled`), and one that was written is read back (`RoundTrip`).
- `Codec` defines the wire format in another way, as sets of positions where
  varints, fields and groups end (`FieldEnds`, `GroupEnds`), and what a string
  means (`Meaning`). The format is that of gogo's decoders, which accept more
  than the protobuf specification allows: a tag or a number that is too wide
  loses its upper bits, for example. `FieldNum`, `WireType`, `Expected` and
  `IntText` are shared with the decoder, so that a mistake in those would not show.
- `MCCodec` has the inputs, and checks that the theorems of `RoundTripProofs` are
  about this instance (`HypothesesHold`).

The operator's tools:

- `Export` follows `prepForZeroHeightGenesis` to the loop over the validators.
  The failures that can end it earlier are in their order: an address that does
  not parse, an invariant of another module, a commission or a reward that
  cannot be withdrawn. The invariants and the rewards are choices of the
  environment.
- `GenesisAccounts` is `add-genesis-account`: each command reads the file into
  its `genDoc`, and later writes it or is interrupted; the checks of the flags
  are the guards of the step that reads. `overlap` is a history variable.
- `MCExport` and `MCGenesisAccounts` have their instances.

Proofs: `ScheduleProofs`, which includes the restarts of `Genesis`, and on top of
it `RefinementProofs`; `UnmarshalProofs`, and on top of it `UnmarshalProgress`;
`MessagesProofs`; `DecodedProofs`, which needs these three, and on top of it
`RoundTripProofs`; `GenesisAccountsProofs`.

State and code of the scheduler: `store` is the module's KVStore, `params` its
subspace, `todo` the keys the iterator of `ConsumeScheduledCallsByHeight` has
not reached, `bal` the contracts' balances in the denomination of
`MinimumBalance`, `owners[c]` the accounts for which `is_owner` answers true (a
query that fails or does not parse has the same effect as `false` everywhere in
the code), `fee` what the fee collector received from scheduled calls in this
block, `used` a history variable of the gas they consumed.

Abstractions. The iterator visits keys in byte order; the model visits them in
any order, since addresses are arbitrary. Several messages of one transaction
are single messages. An execution changes the coins and the owners of any
contracts, at most `Reach` of them in a run. A change of the denomination of
`MinimumBalance` looks like a change of balances. Events and logs are left out
of the scheduler: that an event always encodes is what `codec` checks
(`Filled`). Cutting a 32 byte signer's key yields addresses at which nothing
lives. The amount of a coin is a text that the SDK parses; `IntText` accepts
single digits, so that the empty text, which the SDK takes for "no change",
accepted and refused ones all occur. Strings are their bytes. The genesis file
is read and written in one step each: a write that breaks off in the middle
leaves a file that is no JSON, and is not modelled.

Constants that describe the environment: `Resubmit` (do signers add a call for
a pair that has one), `ShortResults` (do contracts return 1 to 7 bytes),
`LongSigners` (accounts with 32 byte addresses), `Word` (2^64; balances may
reach it when `MaxBalance >= Word`), `Routes` (the messages that reach the
message server: the program routes `MsgAddSchedule` only; runs that include
`MsgRemoveSchedule` examine the method as it stands for when it is routed).
`Reach` is a bound of the runs; the theorems hold for every value of it.

## Runs

| run | environment | shows |
|---|---|---|
| `general` | everything, and restarts | `TypeOK`; the indexes agree on decodable calls (`IndexAgrees`); no call of a 20 byte signer is missed (`NoMissedCall`); no call lies beyond every valid upper bound, wrap-around included (`HorizonBounded`); a visited call is gone (`ConsumedOnce`) |
| `orderly` | no double additions, 20 byte signers, no short results, balances below 2^64; two owners, two contracts; an execution changes one contract | the documented layout (`StoreLayout`), no halt (`NeverHalts`), a faithful query (`QueryAgrees`), refinement (`ImplementsCallSchedule`); each call is authorised, funded and charged on the state the previous one left (`RunsOnlyForOwners`, `UnpaidOnlyIfDrained`, `RescheduledInGoodStanding`) |
| `progress` | double additions, a 32 byte signer, short results; fair | every call of a 20 byte signer leaves its key (`EveryCallLeaves`), every EndBlocker ends (`ChainGoesOn`), or the chain halts |
| `codec` | encodings, their prefixes and pairs, short strings, edges of the integers | the decoders keep their integers in their words (`TypeOK`), stay in their slices (`InBounds`), have less to do after every step (`MovesOn`), return (`Terminates`) and accept and read exactly what the wire format says, as gogo reads it (`AgreesWithFormat`); what was written is read back (`RoundTrip`), into a buffer of exactly the size (`Filled`), the same bytes again after another round (`Canonical`) |
| `genesis_accounts` | two commands that overlap and are interrupted | supply is the total of the balances (`SupplyIsTotal`), accounts and balances correspond (`OneBalanceEach`), vesting is covered (`VestingCovered`), only overlapping commands lose an account (`KeptInTurn`) |
| `layout` | double additions | violation: `ReScheduleCall` swaps the two values |
| `short_result` | short results | violation: the EndBlocker panics |
| `unpaid_gas` | orderly | violation: gas can stay unpaid |
| `long_signer` | a 32 byte signer | violation: its call is never run nor removed |
| `no_removal` | orderly | violation: `MsgRemoveSchedule` is not routed |
| `genesis_calls` | orderly, and restarts | violation: scheduled calls are not exported |
| `zero_height` | two validators | violation: the export for height zero panics at the first validator |

`VestingCovered` says less than the command's message ("vesting amount cannot
be greater than total amount"): `Coins.IsAnyGT` skips the denominations that
the balance does not hold, so an account may vest a coin it has none of.

Bounds. Scheduler: three or four heights let a call be added, fall due, run,
reschedule itself past a block in between and fall due again. Balances from 0
to 2 or 3 with minimums 1 and 2 separate below, at and above the minimum before
and after a charge; in `general` they reach `Word`. The upper bounds include
one that is binding and, in `general`, one whose sum with the height wraps. The
proposed parameters include 0, which validation refuses. Two signers make two
calls on one contract. Two contracts let the execution of one call change the
coins or owners of another contract whose call is still to come in the same
block. An execution changes one contract (`Reach = 1`), which in the runs with
one contract is no restriction. In `orderly` it leaves out that one execution
changes both at once, as a transfer between two called contracts does: its
effects would be some hundred for each outcome. What depends on this are the
three properties that relate a call to the balances and owners around it, and
`OwnersOnly`, `UnpaidOnlyDrained` and `RescheduledSoundly` prove them for every
`Reach`. `genesis_calls` has `Reach = 2`.

Generated code: words of 16 bits and tags of 8 in place of 64 and 32, so that a
varint of three bytes already overflows its word and a field number of two
bytes its tag. The alphabet of the enumerated strings has the tags of a known
field of either kind, the start and the end of an unknown group, small lengths,
and the largest byte; strings of up to four bytes are read as `ScheduledCall`
and as `Params`, which nests a message that nests a number. `Edges` adds the
longer strings that the limits need: lengths that wrap the index around behind
another field, tags that come out negative, a varint that is one byte too long,
nested groups. Every type has sample messages with empty, short and, for some
fields, two byte lengths, all numbers at both ends of their range, absent and
present pointers, and lists of up to two.

Genesis file: two commands, two addresses of which one is also a key name,
amounts 0 to 2 in two denominations, so that a vesting amount is below, equal
to and above the balance, and in a denomination the balance lacks. Export: two
validators with and without a commission, and a text that is no address.

Deadlock is not checked: the models stop at `MaxHeight`, when the input is
decoded, when the export has ended, or when every address has its account, and
a halted chain stops for good. The symmetry in `orderly` permutes addresses,
and the one in `genesis_accounts` the commands, which the specifications do not
tell apart; the runs with liveness properties use none.

Fairness. `Schedule!FairSpec` assumes that blocks are ended, that a running
EndBlocker takes its next step, and that a next block follows: Tendermint keeps
producing blocks, and the loop in `ConsumeScheduledCallsByHeight` has no other
exit. Nobody is obliged to send a message. That a step of the EndBlocker returns is an
assumption about the wasm module: an execution ends at its gas limit, but the
owner query before it (`abci.go:58`) has no limit of its own, only the block's
gas meter, and the fairness assumes that contracts answer it.
`Unmarshal!FairSpec` assumes weak fairness of the decoder's step: it is a
sequential loop that waits for nothing.

## Proofs

`ScheduleProofs` proves, from the two assumptions on the constants
(`StoreAssumption`, `ScheduleAssumption`) alone:

- `Invariance`: the inductive invariant `IInv`, which is `TypeOK`,
  `IndexAgrees`, `NoMissedCall`, `HorizonBounded` and `IteratorSound` together;
  `TypeCorrect`, `IndexesAgree`, `NoCallMissed`, `HorizonIsBounded` follow;
- `CallsConsumedOnce` and `OwnersOnly`, the action properties `ConsumedOnce`
  and `RunsOnlyForOwners`;
- `LayoutKept`: `StoreLayout` if `~Resubmit`;
- `NoPanic`: `NeverHalts` if moreover `~ShortResults` and `MaxBalance < Word`.

`NoMissedCall` is not inductive alone. That the removal of a visited call hits
both indexes needs `IndexAgrees` (the name index holds exactly this height);
that the visited key is an entry at all needs `IteratorSound`; that the next
block starts with no entry behind it needs the part of `NoMissedCall` that ties
the entries of this height to the iterator. `IndexAgrees` survives
`ReScheduleCall` because the swap makes both sides undecodable. A restart
comes after a commit, when the iterator holds nothing, and the new chain's
store is empty, so `IInv` survives it: `RestartInvariance`,
`RestartedStoreSound` and `RestartedConsumesOnce` are the same results for
`RestartSpec`, however often the chain is restarted. The proof first
establishes what each keeper function does to a well formed store (`AddFacts`,
`RemoveFacts`, `RemoveCutFacts`, `ReScheduleFacts`, `LookupFacts`), then has one
lemma per action. A 32 byte signer never reaches an execution because no
contract has a cut address (`MayRunFacts`).

Its last part is about the executions. Only `ConsumeRun` uses gas
(`OnlyRunsUseGas`) and its gas is at most the balance that was read before (`RunFacts`), from which
`UnpaidOnlyDrained` and `RescheduledSoundly` follow. `QueryAnswers` needs the
documented layout too: then a pair has an entry exactly if the name index knows
it, and just one (`OneEntryEach`).

`RefinementProofs` proves `SchedulerImplemented`: with `~Resubmit` and no long
signers, `Schedule` implements `CallSchedule`. It says what is pending in a
store (`Pend`), what adding and removing do to that (`AddPend`, `RemovePend`,
because a pair's pending call depends on its own entries only, `PendSame`), and
maps the actions one by one. That an added or rescheduled call is within the
abstract horizon needs that the set of upper bounds, a subset of the uint64s,
has a largest member (`HorizonIsLargest`, by well-foundedness).

`UnmarshalProofs` proves, for all field tables, word sizes and inputs shorter
than the largest int, that the decoders keep their types
(`UnmarshalTypeCorrect`) and never leave their slices (`NoReadOutOfBounds`). It
uses `UnmarshalAssumption` and `WireAssumption`; the latter states the powers of
two in use (2^0 is 1, each is twice the one before) and that an int holds more
than 8, the largest number the code adds to an index without having read it. The
inductive invariant is `TypeOK`, `SlicesNest` and `SkipFrom`. `SlicesNest` says
that every slice on the stack lies in what its caller has in front of its
index; that a skipped field ends inside needs `SkipFrom`, which remembers that
`skipSchedule` reads from where the field starts and that its index was checked
for a wrap-around between two fields. Where the code's sum may wrap, `PlusExact`
shows that one that is not negative has not (both summands are ints).

`UnmarshalProgress` proves that no input is read for ever, without fairness:
`DecodersMoveOn` is `MovesOn`, each step makes `Work` less in the lexicographic
order, and `NoEndlessDescent` that there is no infinite descent in this order.
`Work` begins with the bytes from where the current field starts: that is what
survives `iNdEx = preIndex`, with which an unknown field is read a second time.
Behind it come the calls under way, which a return reduces, the part of the
loop's body, and the bytes in front of the index. The invariant of
`UnmarshalProofs` is strengthened by `Ahead`: past a tag the index is behind the
start of the field, and the index of `skipSchedule` is behind the start of the
extent and within an int. `Ahead` is why an unknown field always moves the
decoder on, although `skipSchedule` does not check its own index at its end.

`MessagesProofs` proves `SizeIsExact`: for every message whose sizes fit into a
word, `Size` is what `MarshalToSizedBuffer` writes, and the buffer is used from
its first byte on. A list of writes `Takes(writes, n)` if each puts as many
bytes as it makes room for and the rooms add up to `n`; there is a lemma for
each kind of field and for each message, and `BufferFilled` shows that writes
that take the buffer's size fill it. That `sov`, computed from the number of
bits, is the number of bytes the encoding loop writes is `SovIsLength`. Sums over
a list are functions on `0 .. N`, of which a lemma says that they exist (`Along`),
and what holds along a list is shown for a least counterexample (`UpTo`): the
induction theorems of the library cannot be used.

`DecodedProofs` joins the three: `ReceivedIsFilled` is `Filled` for every input,
provided the decoders are those of the messages (`Generated`: the tables are
`Schema`, the messages start as `Reset` leaves them). `SizeIsExact` asks that
sizes fit into a word, so the proof has to show that what is read from fewer
bytes than the largest int cannot grow beyond. This is the invariant `DInv`: the
message of each call is of the type its table says (`ReadAs`), the field it will
be stored in can hold it (`Linked`), and the bytes it holds are no more than
those behind its call's index (`Fitting`), since every field that is set was
paid for with its length. The last is needed for the types that occur in lists,
whose sizes are summed; other messages have few enough fields for a bound on
each of them (`SizeBounds`).

`RoundTripProofs` proves that what `Marshal` wrote `Unmarshal` reads back: with
the bytes of a message as its input, the decoder ends with this message
(`UnmarshalReadsBack`), for every message whose sizes fit into a word and whose
amounts are numbers (`Complete`). `RoundTrip` is the same for the samples of a
run (`SamplesReadBack`). The hypotheses are that the decoders are those of the
messages (`Generated`), that a uint64 has at least 6 bits and an int32 at least 4
(`Wide`; the code has 64 and 32), and that the samples are such messages
(`Sampled`). The argument has two halves that meet in a description of the bytes
without recursion.

- The writer. A list of writes `Puts` some bytes, and these are what the buffer
  holds afterwards (`BufferHolds`). The bytes of one field are a `Piece`: tag,
  number or length, content. Bytes that `Reads` from a message `a` to a message
  `c` are a sequence of pieces whose values, stored one after the other, make `c`
  of `a`. Writing a field puts its piece in front of those behind it
  (`EncodesVarint`, `EncodesBytes`, `EncodesMessage`, `EncodesPointer`,
  `EncodesRepeated`), a field with the default value puts none and needs none;
  `MarshalledReads` is the result for the sixteen types.
- The reader. The inductive invariant `Written` says that every call under way
  has in front of it the bytes that make the message it is to end with: the
  innermost from its index on, possibly in the middle of a tag, a number or a
  length (`Position`, `VarintAt`), each caller behind the slice of the call it
  waits for, once that call's message is stored (`Waits`). A varint loses no bit
  because what was read of it is never more than the number that was written,
  and a length never wraps because its bytes lie in the slice. A nested message
  is read from where `Reset` leaves it, as its writer assumed. A list is read in
  its order although it is written from its end.

Messages that are received need not be `Complete`: an amount that was never set
is the empty text, and is written as the number 0. `ReceivedIsWrittenAgain` shows
that this is the only difference: what is marshalled of any message that
`Unmarshal` accepts, whatever the bytes were, is what is marshalled of a
`Complete` one, so that nodes which pass on what they decoded pass on something
that reads back and is then marshalled as the same bytes. It assumes that an
absent coin is no coin (`NilIsNoCoin`; in Go it is the nil pointer). The codec
run checks all four hypotheses on its instance.

`GenesisAccountsProofs` proves, for any number of commands, addresses and
denominations, that accounts, balances and supply belong together however
commands overlap and are interrupted: `FileTypeCorrect`, `SupplyAddsUp`,
`AccountsAndBalances` and `VestingIsCovered`. The invariant is that the file and
each document a command holds are `Sound`: the balances are strictly in the order
of their addresses, correspond to the accounts, cover the vesting, and have
running totals of which the last is the supply. The order is what makes the
sorting in `SanitizeGenesisBalances`, which the model states as a choice of some
ordered rearrangement, the insertion of the new balance in one place
(`OneOrder`, `SortInserts`), and this is what keeps the total
(`TotalsAfterInsert`). `AccountsKept` is `KeptInTurn`: as long as no two commands
were under way together, the only document under way has all the accounts of the
file.

Only model-checked: liveness (`EveryCallLeaves`, `ChainGoesOn`, `Terminates`),
which is outside the prover's reach, as is `ENABLED` (of `Terminates`, the proofs
establish that there is no infinite sequence of steps, but not that there is a
next step at each label); `AgreesWithFormat` and `Canonical`, which compare with
`Codec`'s reference definitions, and these recurse over strings and messages (of
`Canonical`, `RoundTripProofs` has the part that needs no reference). `Codec` is the
only module with recursive operators, and no module with proofs uses it.

## Not modelled

- `determineGasLimit` has no caller. The gas of the EndBlocker's owner query is
  not limited by the code and not modelled: the model's queries answer.
- The command line: `add-schedule` admits three arguments and reads the fourth,
  so every use of it ends in the same panic before a message is built; the other
  commands parse arguments.
- `prepForZeroHeightGenesis` after `export.go:156`: the lookup above it never
  succeeds, so the rest is not reached when there is a validator. The changes it
  makes before are made in a context that is thrown away with the panic.
- The gRPC stubs, getters and file descriptors of the generated code, the
  registration code of the module, the wiring of the application and of the
  node binary, the simulation stubs and the test helpers have no logic of their
  own.

## Plan

1. The messages of one transaction as a unit, with the undoing of the earlier
   ones when a later one fails.
2. `determineGasLimit` against a reference definition, once something calls it.
