------------------------------ MODULE Messages ------------------------------
(***************************************************************************)
(* The messages of x/schedule as the generated code (types, *.pb.go) reads *)
(* and writes them: the fields of each type, the bytes it is marshalled    *)
(* into, and the size that is reserved for them beforehand.                *)
(*                                                                         *)
(* Strings and byte slices are sequences of bytes.  Coin is the type of    *)
(* the SDK, modelled from how the generated code here calls it; its amount *)
(* is a decimal text.                                                      *)
(***************************************************************************)
EXTENDS Wire

----------------------------------------------------------------------------
(* Writing.  MarshalToSizedBuffer fills its buffer from the end to the     *)
(* front.  A write takes some room in front of what is already there and   *)
(* puts bytes at the start of that room; the writes of a message are       *)
(* listed in the order they are executed.                                  *)

\* (math_bits.Len64(x | 1) + 6) / 7
sovSchedule(x) ==
    LET odd  == IF x % 2 = 0 THEN x + 1 ELSE x
        len  == CHOOSE n \in 1 .. WordBits : 2 ^ (n - 1) <= odd /\ odd < 2 ^ n
    IN  (len + 6) \div 7

\* The room is what sov says, the bytes are what the loop writes.
encodeVarintSchedule(v) ==
    LET count == CHOOSE n \in 1 .. (WordBits + 6) \div 7 :
                    /\ v < 2 ^ (7 * n)
                    /\ n = 1 \/ v >= 2 ^ (7 * (n - 1))
    IN  [room |-> sovSchedule(v),
         bytes |-> [j \in 1 .. count |->
                      ((v \div 2 ^ (7 * (j - 1))) % 128) + (IF j < count THEN 128 ELSE 0)]]

Copy(bytes) == [room |-> Len(bytes), bytes |-> bytes]

VarintField(tag, v) ==
    IF v = 0 THEN <<>> ELSE <<encodeVarintSchedule(v), Copy(<<tag>>)>>

BytesField(tag, bytes) ==
    IF bytes = <<>> THEN <<>>
    ELSE <<Copy(bytes), encodeVarintSchedule(Len(bytes)), Copy(<<tag>>)>>

\* The room that writes take together.
Room(writes) ==
    LET room[n \in 0 .. Len(writes)] == IF n = 0 THEN 0 ELSE room[n - 1] + writes[n].room
    IN  room[Len(writes)]

\* The writes of a nested message, then its size, which is the room it took.
MessageField(tag, writes) ==
    writes \o <<encodeVarintSchedule(Room(writes)), Copy(<<tag>>)>>

PointerField(tag, m, writes) == IF m = Nil THEN <<>> ELSE MessageField(tag, writes)

\* for iNdEx := len(s) - 1; iNdEx >= 0; iNdEx--
RepeatedField(tag, s) ==
    LET first[n \in 0 .. Len(s)] == IF n = 0 THEN <<>> ELSE MessageField(tag, s[n]) \o first[n - 1]
    IN  first[Len(s)]

(***************************************************************************)
(* A buffer of size bytes after the writes: i is the index of the first    *)
(* byte that is used.  ok is FALSE if a write was outside of the buffer,   *)
(* where Go panics.                                                        *)
(***************************************************************************)
Write(buf, w) ==
    LET i  == buf.i - w.room
        ok == buf.ok /\ i >= 0 /\ i + Len(w.bytes) <= Len(buf.dAtA)
    IN  [dAtA |-> IF ok THEN [j \in DOMAIN buf.dAtA |->
                                IF j - i \in DOMAIN w.bytes THEN w.bytes[j - i] ELSE buf.dAtA[j]]
                        ELSE buf.dAtA,
         i  |-> i,
         ok |-> ok]

MarshalToSizedBuffer(size, writes) ==
    LET buf[n \in 0 .. Len(writes)] ==
            IF n = 0 THEN [dAtA |-> [j \in 1 .. size |-> 0], i |-> size, ok |-> TRUE]
            ELSE Write(buf[n - 1], writes[n])
    IN  buf[Len(writes)]

----------------------------------------------------------------------------
(* Sizes.                                                                  *)

VarintSize(v) == IF v = 0 THEN 0 ELSE 1 + sovSchedule(v)

BytesSize(bytes) == IF bytes = <<>> THEN 0 ELSE 1 + Len(bytes) + sovSchedule(Len(bytes))

MessageSize(l) == 1 + l + sovSchedule(l)

PointerSize(m, size) == IF m = Nil THEN 0 ELSE MessageSize(size)

RepeatedSize(sizes) ==
    LET sum[n \in 0 .. Len(sizes)] == IF n = 0 THEN 0 ELSE sum[n - 1] + MessageSize(sizes[n])
    IN  sum[Len(sizes)]

----------------------------------------------------------------------------
(* Fields.                                                                 *)

Uint64(name) == [name |-> name, kind |-> "varint"]
Bytes(name) == [name |-> name, kind |-> "bytes"]
Text(name) == [name |-> name, kind |-> "text"]
Message(name, type) == [name |-> name, kind |-> "message", type |-> type]
Repeated(name, type) == [name |-> name, kind |-> "repeated", type |-> type]

None == [n \in {} |-> Nil]

----------------------------------------------------------------------------
(* cosmos.base.v1beta1.Coin                                                *)

Coin == [Denom |-> <<>>, Amount |-> <<>>]

CoinUnmarshal == <<Bytes("Denom"), Text("Amount")>>

\* The amount is always written; the number nobody set is written as 0.
AmountText(c) == IF c.Amount = <<>> THEN <<48>> ELSE c.Amount

CoinMarshal(c) == BytesField(18, AmountText(c)) \o BytesField(10, c.Denom)

CoinSize(c) == BytesSize(c.Denom) + BytesSize(AmountText(c))

----------------------------------------------------------------------------
(* schedule.pb.go                                                          *)

ScheduledCall == [CallBody |-> <<>>]

ScheduledCallMarshal(m) == BytesField(10, m.CallBody)

ScheduledCallSize(m) == BytesSize(m.CallBody)

ScheduledCallUnmarshal == <<Bytes("CallBody")>>

----------------------------------------------------------------------------
(* params.pb.go                                                            *)

Params == [MinimumBalance |-> Coin, UpperBound |-> 0]

ParamsMarshal(m) ==
    VarintField(16, m.UpperBound) \o MessageField(10, CoinMarshal(m.MinimumBalance))

ParamsSize(m) == MessageSize(CoinSize(m.MinimumBalance)) + VarintSize(m.UpperBound)

ParamsUnmarshal == <<Message("MinimumBalance", "Coin"), Uint64("UpperBound")>>

----------------------------------------------------------------------------
(* tx.pb.go                                                                *)

MsgAddSchedule == [Signer |-> <<>>, Contract |-> <<>>, CallBody |-> <<>>, BlockHeight |-> 0]

MsgAddScheduleMarshal(m) ==
    VarintField(40, m.BlockHeight) \o BytesField(26, m.CallBody)
        \o BytesField(18, m.Contract) \o BytesField(10, m.Signer)

MsgAddScheduleSize(m) ==
    BytesSize(m.Signer) + BytesSize(m.Contract) + BytesSize(m.CallBody) + VarintSize(m.BlockHeight)

\* The mutation: the block height is expected where the proto file has no field.
BlockHeightInField4 ==
    <<Bytes("Signer"), Bytes("Contract"), Bytes("CallBody"), Uint64("BlockHeight")>>

MsgAddScheduleUnmarshal ==
    [n \in {1, 2, 3, 5} |->
        CASE n = 1 -> Bytes("Signer")
          [] n = 2 -> Bytes("Contract")
          [] n = 3 -> Bytes("CallBody")
          [] n = 5 -> Uint64("BlockHeight")]

MsgAddScheduleResponse == None

MsgAddScheduleResponseMarshal(m) == <<>>

MsgAddScheduleResponseSize(m) == 0

MsgAddScheduleResponseUnmarshal == None

MsgRemoveSchedule == [Signer |-> <<>>, Contract |-> <<>>]

MsgRemoveScheduleMarshal(m) == BytesField(18, m.Contract) \o BytesField(10, m.Signer)

MsgRemoveScheduleSize(m) == BytesSize(m.Signer) + BytesSize(m.Contract)

MsgRemoveScheduleUnmarshal == <<Bytes("Signer"), Bytes("Contract")>>

MsgRemoveScheduleResponse == None

MsgRemoveScheduleResponseMarshal(m) == <<>>

MsgRemoveScheduleResponseSize(m) == 0

MsgRemoveScheduleResponseUnmarshal == None

----------------------------------------------------------------------------
(* query.pb.go                                                             *)

QueryParamsRequest == None

QueryParamsRequestMarshal(m) == <<>>

QueryParamsRequestSize(m) == 0

QueryParamsRequestUnmarshal == None

QueryParamsResponse == [Params |-> Params]

QueryParamsResponseMarshal(m) == MessageField(10, ParamsMarshal(m.Params))

QueryParamsResponseSize(m) == MessageSize(ParamsSize(m.Params))

QueryParamsResponseUnmarshal == <<Message("Params", "Params")>>

QueryScheduledCallsRequest == None

QueryScheduledCallsRequestMarshal(m) == <<>>

QueryScheduledCallsRequestSize(m) == 0

QueryScheduledCallsRequestUnmarshal == None

QueryScheduledCall == [Contract |-> <<>>, CallBody |-> <<>>, Height |-> 0, Signer |-> <<>>]

QueryScheduledCallMarshal(m) ==
    BytesField(34, m.Signer) \o VarintField(24, m.Height)
        \o BytesField(18, m.CallBody) \o BytesField(10, m.Contract)

QueryScheduledCallSize(m) ==
    BytesSize(m.Contract) + BytesSize(m.CallBody) + VarintSize(m.Height) + BytesSize(m.Signer)

QueryScheduledCallUnmarshal ==
    <<Bytes("Contract"), Bytes("CallBody"), Uint64("Height"), Bytes("Signer")>>

QueryScheduledCallsResponse == [Calls |-> <<>>]

\* The mutation: the calls are written from the first to the last.
CallsInOrder(m) ==
    RepeatedField(10, [j \in DOMAIN m.Calls |->
                         QueryScheduledCallMarshal(m.Calls[Len(m.Calls) + 1 - j])])

QueryScheduledCallsResponseMarshal(m) ==
    RepeatedField(10, [j \in DOMAIN m.Calls |-> QueryScheduledCallMarshal(m.Calls[j])])

QueryScheduledCallsResponseSize(m) ==
    RepeatedSize([j \in DOMAIN m.Calls |-> QueryScheduledCallSize(m.Calls[j])])

QueryScheduledCallsResponseUnmarshal == <<Repeated("Calls", "QueryScheduledCall")>>

----------------------------------------------------------------------------
(* event.pb.go                                                             *)

AddScheduledCallEvent ==
    [BlockHeight |-> 0, ScheduledHeight |-> 0, Signer |-> <<>>, Contract |-> <<>>,
     Balance |-> Nil, CallBody |-> <<>>]

AddScheduledCallEventMarshal(m) ==
    BytesField(50, m.CallBody) \o PointerField(42, m.Balance, CoinMarshal(m.Balance))
        \o BytesField(34, m.Contract) \o BytesField(26, m.Signer)
        \o VarintField(16, m.ScheduledHeight) \o VarintField(8, m.BlockHeight)

AddScheduledCallEventSize(m) ==
    VarintSize(m.BlockHeight) + VarintSize(m.ScheduledHeight) + BytesSize(m.Signer)
        + BytesSize(m.Contract) + PointerSize(m.Balance, CoinSize(m.Balance))
        + BytesSize(m.CallBody)

AddScheduledCallEventUnmarshal ==
    <<Uint64("BlockHeight"), Uint64("ScheduledHeight"), Bytes("Signer"),
      Bytes("Contract"), Message("Balance", "Coin"), Bytes("CallBody")>>

ExecuteScheduledCallEvent ==
    [BlockHeight |-> 0, Gas |-> Nil, Signer |-> <<>>, Contract |-> <<>>,
     BalanceBefore |-> Nil, CallBody |-> <<>>]

ExecuteScheduledCallEventMarshal(m) ==
    BytesField(50, m.CallBody) \o PointerField(42, m.BalanceBefore, CoinMarshal(m.BalanceBefore))
        \o BytesField(34, m.Contract) \o BytesField(26, m.Signer)
        \o PointerField(18, m.Gas, CoinMarshal(m.Gas)) \o VarintField(8, m.BlockHeight)

\* The mutation: the length of the second coin is not counted.
SizeWithoutPrefix(m) ==
    VarintSize(m.BlockHeight) + PointerSize(m.Gas, CoinSize(m.Gas)) + BytesSize(m.Signer)
        + BytesSize(m.Contract) + BytesSize(m.CallBody)
        + (IF m.BalanceBefore = Nil THEN 0 ELSE 1 + CoinSize(m.BalanceBefore))

ExecuteScheduledCallEventSize(m) ==
    VarintSize(m.BlockHeight) + PointerSize(m.Gas, CoinSize(m.Gas)) + BytesSize(m.Signer)
        + BytesSize(m.Contract) + PointerSize(m.BalanceBefore, CoinSize(m.BalanceBefore))
        + BytesSize(m.CallBody)

ExecuteScheduledCallEventUnmarshal ==
    <<Uint64("BlockHeight"), Message("Gas", "Coin"), Bytes("Signer"),
      Bytes("Contract"), Message("BalanceBefore", "Coin"), Bytes("CallBody")>>

RemoveScheduledCallEvent ==
    [BlockHeight |-> 0, Signer |-> <<>>, Contract |-> <<>>, Balance |-> Nil, CallBody |-> <<>>]

RemoveScheduledCallEventMarshal(m) ==
    BytesField(50, m.CallBody) \o PointerField(42, m.Balance, CoinMarshal(m.Balance))
        \o BytesField(34, m.Contract) \o BytesField(26, m.Signer) \o VarintField(8, m.BlockHeight)

RemoveScheduledCallEventSize(m) ==
    VarintSize(m.BlockHeight) + BytesSize(m.Signer) + BytesSize(m.Contract)
        + PointerSize(m.Balance, CoinSize(m.Balance)) + BytesSize(m.CallBody)

RemoveScheduledCallEventUnmarshal ==
    [n \in {1, 3, 4, 5, 6} |->
        CASE n = 1 -> Uint64("BlockHeight")
          [] n = 3 -> Bytes("Signer")
          [] n = 4 -> Bytes("Contract")
          [] n = 5 -> Message("Balance", "Coin")
          [] n = 6 -> Bytes("CallBody")]

----------------------------------------------------------------------------
(* genesis.pb.go                                                           *)

GenesisState == [Params |-> Params, ScheduledCalls |-> <<>>]

GenesisStateMarshal(m) ==
    RepeatedField(18, [j \in DOMAIN m.ScheduledCalls |-> MsgAddScheduleMarshal(m.ScheduledCalls[j])])
        \o MessageField(10, ParamsMarshal(m.Params))

GenesisStateSize(m) ==
    MessageSize(ParamsSize(m.Params))
        + RepeatedSize([j \in DOMAIN m.ScheduledCalls |-> MsgAddScheduleSize(m.ScheduledCalls[j])])

GenesisStateUnmarshal ==
    <<Message("Params", "Params"), Repeated("ScheduledCalls", "MsgAddSchedule")>>

----------------------------------------------------------------------------
(* The messages by the name of their type.                                 *)

MessageTypes ==
    {"Coin", "ScheduledCall", "Params", "MsgAddSchedule", "MsgAddScheduleResponse",
     "MsgRemoveSchedule", "MsgRemoveScheduleResponse", "QueryParamsRequest",
     "QueryParamsResponse", "QueryScheduledCallsRequest", "QueryScheduledCall",
     "QueryScheduledCallsResponse", "AddScheduledCallEvent",
     "ExecuteScheduledCallEvent", "RemoveScheduledCallEvent", "GenesisState"}

Reset ==
    [t \in MessageTypes |->
        CASE t = "Coin" -> Coin
          [] t = "ScheduledCall" -> ScheduledCall
          [] t = "Params" -> Params
          [] t = "MsgAddSchedule" -> MsgAddSchedule
          [] t = "MsgAddScheduleResponse" -> MsgAddScheduleResponse
          [] t = "MsgRemoveSchedule" -> MsgRemoveSchedule
          [] t = "MsgRemoveScheduleResponse" -> MsgRemoveScheduleResponse
          [] t = "QueryParamsRequest" -> QueryParamsRequest
          [] t = "QueryParamsResponse" -> QueryParamsResponse
          [] t = "QueryScheduledCallsRequest" -> QueryScheduledCallsRequest
          [] t = "QueryScheduledCall" -> QueryScheduledCall
          [] t = "QueryScheduledCallsResponse" -> QueryScheduledCallsResponse
          [] t = "AddScheduledCallEvent" -> AddScheduledCallEvent
          [] t = "ExecuteScheduledCallEvent" -> ExecuteScheduledCallEvent
          [] t = "RemoveScheduledCallEvent" -> RemoveScheduledCallEvent
          [] t = "GenesisState" -> GenesisState]

Schema ==
    [t \in MessageTypes |->
        CASE t = "Coin" -> CoinUnmarshal
          [] t = "ScheduledCall" -> ScheduledCallUnmarshal
          [] t = "Params" -> ParamsUnmarshal
          [] t = "MsgAddSchedule" -> MsgAddScheduleUnmarshal
          [] t = "MsgAddScheduleResponse" -> MsgAddScheduleResponseUnmarshal
          [] t = "MsgRemoveSchedule" -> MsgRemoveScheduleUnmarshal
          [] t = "MsgRemoveScheduleResponse" -> MsgRemoveScheduleResponseUnmarshal
          [] t = "QueryParamsRequest" -> QueryParamsRequestUnmarshal
          [] t = "QueryParamsResponse" -> QueryParamsResponseUnmarshal
          [] t = "QueryScheduledCallsRequest" -> QueryScheduledCallsRequestUnmarshal
          [] t = "QueryScheduledCall" -> QueryScheduledCallUnmarshal
          [] t = "QueryScheduledCallsResponse" -> QueryScheduledCallsResponseUnmarshal
          [] t = "AddScheduledCallEvent" -> AddScheduledCallEventUnmarshal
          [] t = "ExecuteScheduledCallEvent" -> ExecuteScheduledCallEventUnmarshal
          [] t = "RemoveScheduledCallEvent" -> RemoveScheduledCallEventUnmarshal
          [] t = "GenesisState" -> GenesisStateUnmarshal]

WritesOf(t, m) ==
    CASE t = "Coin" -> CoinMarshal(m)
      [] t = "ScheduledCall" -> ScheduledCallMarshal(m)
      [] t = "Params" -> ParamsMarshal(m)
      [] t = "MsgAddSchedule" -> MsgAddScheduleMarshal(m)
      [] t = "MsgAddScheduleResponse" -> MsgAddScheduleResponseMarshal(m)
      [] t = "MsgRemoveSchedule" -> MsgRemoveScheduleMarshal(m)
      [] t = "MsgRemoveScheduleResponse" -> MsgRemoveScheduleResponseMarshal(m)
      [] t = "QueryParamsRequest" -> QueryParamsRequestMarshal(m)
      [] t = "QueryParamsResponse" -> QueryParamsResponseMarshal(m)
      [] t = "QueryScheduledCallsRequest" -> QueryScheduledCallsRequestMarshal(m)
      [] t = "QueryScheduledCall" -> QueryScheduledCallMarshal(m)
      [] t = "QueryScheduledCallsResponse" -> QueryScheduledCallsResponseMarshal(m)
      [] t = "AddScheduledCallEvent" -> AddScheduledCallEventMarshal(m)
      [] t = "ExecuteScheduledCallEvent" -> ExecuteScheduledCallEventMarshal(m)
      [] t = "RemoveScheduledCallEvent" -> RemoveScheduledCallEventMarshal(m)
      [] t = "GenesisState" -> GenesisStateMarshal(m)

SizeOf(t, m) ==
    CASE t = "Coin" -> CoinSize(m)
      [] t = "ScheduledCall" -> ScheduledCallSize(m)
      [] t = "Params" -> ParamsSize(m)
      [] t = "MsgAddSchedule" -> MsgAddScheduleSize(m)
      [] t = "MsgAddScheduleResponse" -> MsgAddScheduleResponseSize(m)
      [] t = "MsgRemoveSchedule" -> MsgRemoveScheduleSize(m)
      [] t = "MsgRemoveScheduleResponse" -> MsgRemoveScheduleResponseSize(m)
      [] t = "QueryParamsRequest" -> QueryParamsRequestSize(m)
      [] t = "QueryParamsResponse" -> QueryParamsResponseSize(m)
      [] t = "QueryScheduledCallsRequest" -> QueryScheduledCallsRequestSize(m)
      [] t = "QueryScheduledCall" -> QueryScheduledCallSize(m)
      [] t = "QueryScheduledCallsResponse" -> QueryScheduledCallsResponseSize(m)
      [] t = "AddScheduledCallEvent" -> AddScheduledCallEventSize(m)
      [] t = "ExecuteScheduledCallEvent" -> ExecuteScheduledCallEventSize(m)
      [] t = "RemoveScheduledCallEvent" -> RemoveScheduledCallEventSize(m)
      [] t = "GenesisState" -> GenesisStateSize(m)

\* m.Marshal() before it cuts the buffer, and the bytes it returns, dAtA[:n].
\* No bytes are returned if a write panics.
Buffer(t, m) == MarshalToSizedBuffer(SizeOf(t, m), WritesOf(t, m))

Marshalled(t, m) ==
    LET buf == Buffer(t, m)
    IN  IF buf.ok THEN SubSeq(buf.dAtA, 1, Len(buf.dAtA) - buf.i) ELSE <<>>

\* The writes use up the buffer that Size() reserved, and no more.
Fills(t, m) == Buffer(t, m).ok /\ Buffer(t, m).i = 0

=============================================================================
