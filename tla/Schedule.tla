------------------------------ MODULE Schedule ------------------------------
(***************************************************************************)
(* The x/schedule module of the burnt chain, at the grain of one message,  *)
(* one callback of the EndBlocker's iteration, or one block boundary.      *)
(*                                                                         *)
(* A block is delivered (messages reach the message server), then ended:   *)
(* the EndBlocker walks the calls scheduled for this height, one iterator  *)
(* step at a time.  A call is removed, its signer's ownership and the      *)
(* contract's balance are checked again, the contract is executed with its *)
(* balance as gas limit, charged, and scheduled again at the height it     *)
(* returned.  Contracts, the bank and governance are the environment.      *)
(*                                                                         *)
(* A panic in the EndBlocker stops the node, and every node that replays   *)
(* the block: phase "halted".  A panic in a message is recovered by the    *)
(* transaction and undone, like a returned error: the message has no       *)
(* effect, so only accepted messages are steps.                            *)
(***************************************************************************)
EXTENDS ScheduleStore, Integers, FiniteSets

CONSTANTS
    Word,           \* 2^64 in the program: one more than the largest uint64
    MaxBalance,     \* bound: the largest balance of a contract
    Minimums,       \* amounts proposed for the parameter MinimumBalance
    UpperBounds,    \* values proposed for the parameter UpperBound
    Routes,         \* the messages that reach the message server
    Resubmit,       \* do signers add a call that is already scheduled?
    ShortResults,   \* do contracts return data of 1 to 7 bytes?
    Reach           \* bound: how many contracts one execution changes

ASSUME ScheduleAssumption ==
    /\ Word \in Nat
    /\ MaxHeight < Word
    /\ MaxBalance \in Nat
    /\ Minimums \subseteq 0 .. Word - 1
    /\ UpperBounds \subseteq 0 .. Word - 1
    /\ Routes \subseteq {"MsgAddSchedule", "MsgRemoveSchedule"}
    /\ Resubmit \in BOOLEAN
    /\ ShortResults \in BOOLEAN
    /\ Reach \in Nat

VARIABLES
    store,      \* the KVStore of x/schedule
    params,     \* its parameters in the params subspace
    height,     \* the height of the current block
    phase,      \* "deliver", "end" (inside the EndBlocker) or "halted"
    todo,       \* keys the EndBlocker's iterator has not visited
    bal,        \* the bank: each contract's balance, in MinimumBalance's denom
    owners,     \* the contracts: for whom is_owner answers true
    fee,        \* coins this block's scheduled calls paid the fee collector
    used        \* history: gas this block's scheduled calls consumed

vars == <<store, params, height, phase, todo, bal, owners, fee, used>>

Balances == 0 .. MaxBalance

\* uint64 addition.
Plus64(a, b) == IF a + b >= Word THEN a + b - Word ELSE a + b

\* The parameters the validation functions of types/params.go let through.
ValidParams == [min : Minimums \ {0}, upper : UpperBounds \ {0}]

----------------------------------------------------------------------------
(* Conditions shared by the message server and the EndBlocker.             *)

\* Mutation: the answer of the query is not looked at.
IsOwnerUnchecked(s, c) == c \in Contracts

\* QuerySmart succeeds, its answer parses, and it says is_owner.  The three
\* ways to fail have the same effect everywhere.  No contract lives at an
\* address cut out of the middle of a key.
IsOwner(s, c) == c \in Contracts /\ s \in owners[c]

\* Mutation: one coin less will do.
HasNearlyMinimumBalance(balances, c) == balances[c] + 1 >= params.min

HasMinimumBalance(balances, c) == balances[c] >= params.min

\* Mutation: the current block is not past.
StrictlyInPast(h) == h < height

\* ErrInvalidScheduledBlockHeight
InPast(h) == h <= height

\* Mutation: one block more.
TooFarByTwo(h) == h > Plus64(height, params.upper) + 1

\* ErrTooFarInFuture
TooFarInFuture(h) == h > Plus64(height, params.upper)

----------------------------------------------------------------------------
Init ==
    /\ store = EmptyStore
    /\ params \in ValidParams
    /\ height = 1
    /\ phase = "deliver"
    /\ todo = {}
    /\ bal \in [Contracts -> Balances]
    /\ owners \in [Contracts -> SUBSET Signers]
    /\ fee = 0
    /\ used = 0

----------------------------------------------------------------------------
(* The message server.                                                     *)

\* The handler passes on a message it has a case for.  The program has one
\* for MsgAddSchedule only and registers no Msg service beside it.
Routed(msg) == msg \in Routes

\* MsgAddSchedule.ValidateBasic, for messages whose addresses parse.
ValidateBasic(body) == body # EmptyBody

AddSchedule(s, c, body, h) ==
    LET existing == BlockHeightForSignerContract(store, s, c)
    IN  /\ phase = "deliver"
        /\ Routed("MsgAddSchedule")
        /\ Resubmit \/ existing = 0
        /\ ValidateBasic(body)
        /\ ~InPast(h)
        /\ ~TooFarInFuture(h)
        /\ IsOwner(s, c)
        /\ HasMinimumBalance(bal, c)
        /\ ~BlockHeightForSignerContractPanics(store, s, c)
        /\ store' = IF existing # 0
                    THEN ReScheduleCall(store, s, c, body, existing, h)
                    ELSE AddScheduledCall(store, s, c, body, h)
        /\ UNCHANGED <<params, height, phase, todo, bal, owners, fee, used>>

RemoveSchedule(s, c) ==
    /\ phase = "deliver"
    /\ Routed("MsgRemoveSchedule")
    /\ IsOwner(s, c)
    /\ ~BlockHeightForSignerContractPanics(store, s, c)
    /\ store' = RemoveScheduledCall(store, s, c)
    /\ UNCHANGED <<params, height, phase, todo, bal, owners, fee, used>>

----------------------------------------------------------------------------
(* Other transactions of the block: coins reach or leave a contract, a     *)
(* contract changes who it calls its owner.                                *)

BalanceChanges(c, n) ==
    /\ phase = "deliver"
    /\ bal[c] # n
    /\ bal' = [bal EXCEPT ![c] = n]
    /\ UNCHANGED <<store, params, height, phase, todo, owners, fee, used>>

OwnersChange(c, O) ==
    /\ phase = "deliver"
    /\ owners[c] # O
    /\ owners' = [owners EXCEPT ![c] = O]
    /\ UNCHANGED <<store, params, height, phase, todo, bal, fee, used>>

----------------------------------------------------------------------------
(* The EndBlocker.  Governance ends its block first and may just have      *)
(* changed the parameters, which are read once.  The iterator is opened on *)
(* the keys of this height; calls added while it runs have other prefixes. *)

EndBlock ==
    /\ phase = "deliver"
    /\ phase' = "end"
    /\ params' \in ValidParams
    /\ todo' = ScheduledKeysAtHeight(store, height)
    /\ UNCHANGED <<store, height, bal, owners, fee, used>>

\* Mutation: the entry is not removed.
RestKept(k) == store

\* The store after the iterator's key has been removed.
Rest(k) == removeScheduledCallWithBlockHeight(store, CutSigner(k),
                                              CutContract(k), height)

Visits(k) == phase = "end" /\ k \in todo

\* The callback goes on to execute the call.
MayRun(k) ==
    /\ ~UnmarshalPanics(store.byHeight[k])
    /\ IsOwner(CutSigner(k), CutContract(k))
    /\ HasMinimumBalance(bal, CutContract(k))

Halt ==
    /\ phase' = "halted"
    /\ UNCHANGED <<store, params, height, todo, bal, owners, fee, used>>

\* MustUnmarshal of the stored value panics.
ConsumeUndecodable(k) ==
    /\ Visits(k)
    /\ UnmarshalPanics(store.byHeight[k])
    /\ Halt

\* Mutation: the iterator is not moved on.
ConsumeSkipForever(k) ==
    /\ Visits(k)
    /\ ~UnmarshalPanics(store.byHeight[k])
    /\ ~MayRun(k)
    /\ UNCHANGED vars

\* The signer is not the owner any more, or the balance is too low.
ConsumeSkip(k) ==
    /\ Visits(k)
    /\ ~UnmarshalPanics(store.byHeight[k])
    /\ ~MayRun(k)
    /\ store' = Rest(k)
    /\ todo' = todo \ {k}
    /\ UNCHANGED <<params, height, phase, bal, owners, fee, used>>

\* Amount.Uint64() of a balance above the uint64 range panics.
ConsumeBalanceOverflow(k) ==
    /\ Visits(k)
    /\ MayRun(k)
    /\ bal[CutContract(k)] >= Word
    /\ Halt

\* executeMsgWithGasLimit raises every panic but out of gas again, and
\* BigEndianToUint64 panics on 1 to 7 bytes.
ConsumeShortResult(k) ==
    /\ ShortResults
    /\ Visits(k)
    /\ MayRun(k)
    /\ bal[CutContract(k)] < Word
    /\ Halt

\* What executeMsgWithGasLimit returns.  A failed call has no next block; a
\* call that runs out of gas fails and has consumed its limit.
Outcomes(gasLimit) ==
    {o \in [gas : 1 .. gasLimit, failed : BOOLEAN, next : 0 .. MaxHeight] :
        o.failed => o.next = 0}

\* Mutation: the balance is not looked at.
CanAlwaysPay(balances, c, gas) == TRUE

\* Mutation: a contract may not spend its last coin.
CanPayAndKeep(balances, c, gas) == balances[c] > gas

\* SendCoinsFromAccountToModule fails, and is only logged, on short balances.
CanPay(balances, c, gas) == balances[c] >= gas

Charge(balances, c, gas) ==
    IF CanPay(balances, c, gas) THEN [balances EXCEPT ![c] = @ - gas]
                                ELSE balances

Paid(balances, c, gas) == IF CanPay(balances, c, gas) THEN gas ELSE 0

\* The contracts whose coins or owners are others than before.
Changed(spent, O) == {d \in Contracts : spent[d] # bal[d] \/ O[d] # owners[d]}

\* Executing a call changes the coins and the owners of any contracts, the
\* called one and others; a failed call is not undone.
ConsumeRun(k, spent, O) ==
    LET c == CutContract(k)
    IN  /\ Visits(k)
        /\ MayRun(k)
        /\ bal[c] < Word
        /\ Cardinality(Changed(spent, O)) <= Reach
        /\ \E o \in Outcomes(bal[c]) :
              /\ bal' = Charge(spent, c, o.gas)
              /\ fee' = fee + Paid(spent, c, o.gas)
              /\ used' = used + o.gas
              /\ store' = IF \/ o.failed
                             \/ ~HasMinimumBalance(bal', c)
                             \/ InPast(o.next)
                             \/ TooFarInFuture(o.next)
                          THEN Rest(k)
                          ELSE AddScheduledCall(Rest(k), CutSigner(k), c,
                                                store.byHeight[k].body, o.next)
        /\ owners' = O
        /\ todo' = todo \ {k}
        /\ UNCHANGED <<params, height, phase>>

Consume(k) ==
    \/ ConsumeUndecodable(k)
    \/ ConsumeSkip(k)
    \/ ConsumeBalanceOverflow(k)
    \/ ConsumeShortResult(k)
    \/ \E spent \in [Contracts -> Balances], O \in [Contracts -> SUBSET Signers] :
          ConsumeRun(k, spent, O)

\* The block is committed.  The next one starts by moving the collected fees
\* to the distribution module.
NextBlock ==
    /\ phase = "end"
    /\ todo = {}
    /\ height < MaxHeight
    /\ height' = height + 1
    /\ phase' = "deliver"
    /\ fee' = 0
    /\ used' = 0
    /\ UNCHANGED <<store, params, todo, bal, owners>>

----------------------------------------------------------------------------
Message ==
    \E s \in Signers, c \in Contracts :
        \/ \E body \in Bodies \cup {EmptyBody}, h \in Heights :
              AddSchedule(s, c, body, h)
        \/ RemoveSchedule(s, c)

Environment ==
    \E c \in Contracts :
        \/ \E n \in Balances : BalanceChanges(c, n)
        \/ \E O \in SUBSET Signers : OwnersChange(c, O)

ConsumeScheduledCalls == \E k \in todo : Consume(k)

Next ==
    \/ Message
    \/ Environment
    \/ EndBlock
    \/ ConsumeScheduledCalls
    \/ NextBlock

\* Consensus goes on: blocks are ended, their EndBlocker runs to its end, and
\* the next one follows.  Nobody has to send a message.
Fairness ==
    /\ WF_vars(EndBlock)
    /\ WF_vars(ConsumeScheduledCalls)
    /\ WF_vars(NextBlock)

Spec == Init /\ [][Next]_vars

FairSpec == Spec /\ Fairness

----------------------------------------------------------------------------
(* Properties.                                                             *)

\* Every variable has its type: the indexes are functions from keys to values
\* that one of the two encoders wrote, balances stay within the bound, and
\* the iterator only holds keys of this height.
TypeOK ==
    /\ DOMAIN store.byHeight \subseteq Keys
    /\ \A k \in DOMAIN store.byHeight : store.byHeight[k] \in Values
    /\ DOMAIN store.byName \subseteq Pairs
    /\ \A p \in DOMAIN store.byName : store.byName[p] \in Values
    /\ params \in ValidParams
    /\ height \in Heights
    /\ phase \in {"deliver", "end", "halted"}
    /\ todo \subseteq {height} \X Signers \X Contracts
    /\ bal \in [Contracts -> Balances]
    /\ owners \in [Contracts -> SUBSET Signers]
    /\ fee \in Nat
    /\ used \in Nat

\* The two indexes agree on every call that can still be decoded: a key of the
\* height index holds an encoded call exactly when the name index holds that
\* height for its pair.  So a pair has at most one decodable call, whatever
\* messages, consumed calls and contract results came before.
IndexAgrees ==
    \A h \in Heights, s \in Signers, c \in Contracts :
        (/\ <<h, s, c>> \in DOMAIN store.byHeight
         /\ store.byHeight[<<h, s, c>>].kind = "call")
        <=> (/\ <<s, c>> \in DOMAIN store.byName
             /\ store.byName[<<s, c>>] = Uint64ToBigEndian(h))

\* The EndBlocker passes no call by: no entry of a 20 byte signer is left below
\* the current height, and inside the EndBlocker the entries of this height
\* are the ones the iterator has still to visit.
NoMissedCall ==
    \A k \in DOMAIN store.byHeight :
        k[2] \notin LongSigners =>
            /\ k[1] >= height
            /\ phase = "end" /\ k[1] = height => k \in todo

\* What the spec of the module promises of every registered call, whoever
\* signed it: once the EndBlocker is through, none that was due remains.
EveryDueCallIsRead ==
    phase = "end" /\ todo = {} =>
        \A k \in DOMAIN store.byHeight : k[1] > height

\* No call is further ahead than some value of UpperBound that validation
\* accepts, neither by message nor by a contract's own rescheduling, and not
\* through the wrap-around of the uint64 sum either.
HorizonBounded ==
    \A k \in DOMAIN store.byHeight :
        \E u \in UpperBounds \ {0} : k[1] <= height + u

\* The layout documented in types/keys.go: the height index holds calls, the
\* name index holds heights.
StoreLayout ==
    /\ \A k \in DOMAIN store.byHeight : store.byHeight[k].kind = "call"
    /\ \A p \in DOMAIN store.byName : store.byName[p].kind = "height"

\* The EndBlocker never panics.
NeverHalts == phase # "halted"

\* The ScheduledCalls query answers, with exactly one call for each pair the
\* name index knows and none for any other.
QueryAgrees ==
    /\ ~iterateScheduledCallsPanics(store)
    /\ \A s \in Signers, c \in Contracts :
          LET calls == {r \in iterateScheduledCalls(store) :
                            r.signer = s /\ r.contract = c}
          IN  IF <<s, c>> \in DOMAIN store.byName
              THEN \E r \in calls : calls = {r}
              ELSE calls = {}

\* Contracts pay for the execution of their calls: what the calls of a block
\* consumed is what the fee collector received for them.
FeesCollected == fee = used

\* An owner can withdraw a call that is scheduled: RemoveSchedule is enabled.
OwnersCanRemove ==
    \A s \in Signers, c \in Contracts :
        phase = "deliver" /\ s \in owners[c] /\ <<s, c>> \in DOMAIN store.byName
            => ENABLED RemoveSchedule(s, c)

----------------------------------------------------------------------------
(* Action properties.  In a step of the iteration, todo \ todo' holds the  *)
(* key that was consumed.                                                  *)

\* A consumed call is gone at once: it cannot be visited or counted again at
\* this height, not even by its own rescheduling.
ConsumedOnce ==
    [][\A k \in todo \ todo' :
          k[2] \notin LongSigners => k \notin DOMAIN store'.byHeight]_vars

\* Gas is only spent for a signer who owns the contract and from a contract
\* with the minimum balance at the moment of the call, also when an earlier
\* call of the same EndBlocker changed owners or balances.
RunsOnlyForOwners ==
    [][used' > used =>
          \E k \in todo \ todo' :
             k[2] \in owners[k[3]] /\ bal[k[3]] >= params.min]_vars

\* Gas goes unpaid only if the call left its contract with less than it cost,
\* and one call never costs more than the contract had when it started.
UnpaidOnlyIfDrained ==
    [][used' > used =>
          \E k \in todo \ todo' :
             /\ used' - used <= bal[k[3]]
             /\ \/ fee' - fee = used' - used
                \/ fee' = fee /\ bal'[k[3]] < used' - used]_vars

\* A call the EndBlocker schedules again keeps its body and pair, lies ahead,
\* and belongs to a contract that still has the minimum after paying.
RescheduledInGoodStanding ==
    [][phase = "end" /\ phase' = "end" =>
          \A k \in DOMAIN store'.byHeight \ DOMAIN store.byHeight :
             \E j \in todo \ todo' :
                /\ k[2] = j[2] /\ k[3] = j[3] /\ k[1] > height
                /\ store'.byHeight[k] = store.byHeight[j]
                /\ bal'[k[3]] >= params.min
                /\ used' > used]_vars

----------------------------------------------------------------------------
(* Liveness.                                                               *)

\* A scheduled call does not stay forever: it is withdrawn, moved or reached
\* by the EndBlocker, unless the chain halts before.
EveryCallLeaves ==
    \A h \in Heights, s \in Signers \ LongSigners, c \in Contracts :
        <<h, s, c>> \in DOMAIN store.byHeight ~>
            <<h, s, c>> \notin DOMAIN store.byHeight \/ phase = "halted"

\* Unless it halts, the chain reaches the last height of the model and ends
\* its block: every EndBlocker terminates although calls schedule calls.
ChainGoesOn ==
    <>(phase = "halted" \/ (height = MaxHeight /\ phase = "end" /\ todo = {}))
=============================================================================
