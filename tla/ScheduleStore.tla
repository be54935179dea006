--------------------------- MODULE ScheduleStore ---------------------------
(***************************************************************************)
(* The key/value store of x/schedule and the keeper functions on it        *)
(* (keeper/keeper.go, types/keys.go).  The module keeps two indexes of the *)
(* scheduled calls in one KVStore:                                         *)
(*                                                                         *)
(*   byHeight   <prefix 1><height><signer><contract>  ->  bytes            *)
(*   byName     <prefix 2><signer><contract>          ->  bytes            *)
(*                                                                         *)
(* A store is a record of two functions whose domains are the keys that    *)
(* are present.  A stored value is a byte string and the reader decides    *)
(* what it decodes it as, so a value here remembers which encoder wrote    *)
(* it: the protobuf encoding of a ScheduledCall or a big endian uint64.    *)
(* What each decoder does with the other encoder's bytes is modelled too.  *)
(***************************************************************************)
EXTENDS Naturals

CONSTANTS
    Signers,        \* account addresses that sign messages
    LongSigners,    \* the signers whose address has 32 bytes, not 20
    Contracts,      \* contract addresses, all of 32 bytes
    Bodies,         \* non-empty call bodies
    TinyBodies,     \* call bodies of at most 5 bytes
    EmptyBody,      \* the call body of no bytes
    MaxHeight,      \* bound: the largest block height the model uses
    GarbageHeight   \* the first 8 bytes of an encoded call, read as a uint64

(***************************************************************************)
(* An encoded ScheduledCall starts with the byte 0x0A, so read as a height *)
(* it is larger than 10 * 2^56: beyond every block height.                 *)
(***************************************************************************)
ASSUME StoreAssumption ==
    /\ LongSigners \subseteq Signers
    /\ TinyBodies \subseteq Bodies
    /\ EmptyBody \notin Bodies
    /\ MaxHeight \in Nat \ {0}
    /\ GarbageHeight \in Nat
    /\ GarbageHeight > MaxHeight
    /\ \A s \in Signers : <<s>> \notin Signers
    /\ \A s \in Signers, c \in Contracts : <<s, c>> \notin Contracts

Heights == 1 .. MaxHeight
Pairs   == Signers \X Contracts
Keys    == Heights \X Signers \X Contracts

----------------------------------------------------------------------------
(* Encodings.                                                              *)

\* cdc.MustMarshal(&ScheduledCall{CallBody: body})
Marshal(body) == [kind |-> "call", body |-> body]

\* sdk.Uint64ToBigEndian(h)
Uint64ToBigEndian(h) == [kind |-> "height", height |-> h]

Values == [kind : {"call"}, body : Bodies] \cup [kind : {"height"}, height : Heights]

\* Unmarshal of the 8 bytes of a height below 2^56 meets the tag 0 and fails,
\* which MustUnmarshal turns into a panic.
UnmarshalPanics(v) == v.kind # "call"

\* binary.BigEndian.Uint64 indexes the eighth byte, which the encoding of a
\* tiny call (tag, length, at most 5 bytes) does not have.
Uint64Panics(v) == v.kind = "call" /\ v.body \in TinyBodies

BigEndianToUint64(v) == IF v.kind = "height" THEN v.height ELSE GarbageHeight

----------------------------------------------------------------------------
(* Keys.                                                                   *)

MakeScheduledCallByBlockHeightKey(h, s, c) == <<h, s, c>>

MakeScheduledCallBySignerContractKey(s, c) == <<s, c>>

\* The iterators cut a key into 8, 20 and 32 bytes.  The key of a 32 byte
\* signer is cut in the wrong places and yields two addresses nobody has:
\* the first 20 bytes of the signer; its last 12 and 20 of the contract.
CutSigner(k) == IF k[2] \in LongSigners THEN <<k[2]>> ELSE k[2]

CutContract(k) == IF k[2] \in LongSigners THEN <<k[2], k[3]>> ELSE k[3]

----------------------------------------------------------------------------
(* store.Set and store.Delete; deleting an absent key changes nothing.     *)

Put(f, k, v) == [x \in DOMAIN f \cup {k} |-> IF x = k THEN v ELSE f[x]]

Delete(f, k) == [x \in DOMAIN f \ {k} |-> f[x]]

EmptyStore == [byHeight |-> [k \in {} |-> k], byName |-> [p \in {} |-> p]]

----------------------------------------------------------------------------
(* The keeper.                                                             *)

\* Get of an absent key returns nil, which BigEndianToUint64 reads as 0.
BlockHeightForSignerContract(st, s, c) ==
    LET p == MakeScheduledCallBySignerContractKey(s, c)
    IN  IF p \in DOMAIN st.byName THEN BigEndianToUint64(st.byName[p]) ELSE 0

BlockHeightForSignerContractPanics(st, s, c) ==
    LET p == MakeScheduledCallBySignerContractKey(s, c)
    IN  p \in DOMAIN st.byName /\ Uint64Panics(st.byName[p])

\* Mutation: the two values are swapped.
AddScheduledCallSwapped(st, s, c, body, h) ==
    [byHeight |-> Put(st.byHeight, MakeScheduledCallByBlockHeightKey(h, s, c),
                      Uint64ToBigEndian(h)),
     byName   |-> Put(st.byName, MakeScheduledCallBySignerContractKey(s, c),
                      Marshal(body))]

AddScheduledCall(st, s, c, body, h) ==
    [byHeight |-> Put(st.byHeight, MakeScheduledCallByBlockHeightKey(h, s, c),
                      Marshal(body)),
     byName   |-> Put(st.byName, MakeScheduledCallBySignerContractKey(s, c),
                      Uint64ToBigEndian(h))]

\* Mutation: the name index is left as it was.
RemoveForgetsName(st, s, c, h) ==
    [byHeight |-> Delete(st.byHeight, MakeScheduledCallByBlockHeightKey(h, s, c)),
     byName   |-> st.byName]

\* Mutation: the height index is left as it was.
RemoveForgetsHeight(st, s, c, h) ==
    [byHeight |-> st.byHeight,
     byName   |-> Delete(st.byName, MakeScheduledCallBySignerContractKey(s, c))]

removeScheduledCallWithBlockHeight(st, s, c, h) ==
    [byHeight |-> Delete(st.byHeight, MakeScheduledCallByBlockHeightKey(h, s, c)),
     byName   |-> Delete(st.byName, MakeScheduledCallBySignerContractKey(s, c))]

\* The two values are stored the other way around than in AddScheduledCall.
ReScheduleCall(st, s, c, body, oldHeight, newHeight) ==
    LET rest == removeScheduledCallWithBlockHeight(st, s, c, oldHeight)
    IN  [byHeight |-> Put(rest.byHeight,
                          MakeScheduledCallByBlockHeightKey(newHeight, s, c),
                          Uint64ToBigEndian(newHeight)),
         byName   |-> Put(rest.byName,
                          MakeScheduledCallBySignerContractKey(s, c),
                          Marshal(body))]

RemoveScheduledCall(st, s, c) ==
    removeScheduledCallWithBlockHeight(st, s, c,
                                       BlockHeightForSignerContract(st, s, c))

\* Mutation: the iterator is opened on the blocks before this one.
ScheduledKeysBeforeHeight(st, h) == {k \in DOMAIN st.byHeight : k[1] < h}

\* The keys the iterator of ConsumeScheduledCallsByHeight visits.
ScheduledKeysAtHeight(st, h) == {k \in DOMAIN st.byHeight : k[1] = h}

\* iterateScheduledCalls panics at the first value that does not decode.
iterateScheduledCallsPanics(st) ==
    \E k \in DOMAIN st.byHeight : UnmarshalPanics(st.byHeight[k])

iterateScheduledCalls(st) ==
    {[height |-> k[1], signer |-> CutSigner(k), contract |-> CutContract(k),
      body |-> st.byHeight[k].body] : k \in DOMAIN st.byHeight}
============================================================================
