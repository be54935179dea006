--------------------------- MODULE DecodedProofs ---------------------------
(***************************************************************************)
(* What Unmarshal reads is a message of its type, and the size of every    *)
(* message in it fits into a word, for every input.  So the buffer that is *)
(* reserved for it is filled exactly (SizeIsExact).                        *)
(***************************************************************************)
EXTENDS Decoded, UnmarshalProgress, MessagesProofs

----------------------------------------------------------------------------
(* What a message can hold that was read from fewer than Half bytes.       *)

Short == {b \in Seq(Byte) : Len(b) < Half}

\* Texts that sdk.Int reads, and the number that nobody set.
Digits == {b \in Seq(Byte) : b = <<>> \/ IntText(b)}

ReadCoins == [Denom : Short, Amount : Digits]

ReadParams == [MinimumBalance : ReadCoins, UpperBound : Uint64s]

ReadAdds == [Signer : Short, Contract : Short, CallBody : Short, BlockHeight : Uint64s]

ReadCalls == [Contract : Short, CallBody : Short, Height : Uint64s, Signer : Short]

\* The bytes in a message of which others hold a list.
Held(t, m) ==
    CASE t = "MsgAddSchedule" -> Len(m.Signer) + Len(m.Contract) + Len(m.CallBody)
      [] t = "QueryScheduledCall" -> Len(m.Contract) + Len(m.CallBody) + Len(m.Signer)
      [] OTHER -> 0

ListedAdds == {m \in ReadAdds : Held("MsgAddSchedule", m) < Half}

ListedCalls == {m \in ReadCalls : Held("QueryScheduledCall", m) < Half}

ReadAddEvents ==
    [BlockHeight : Uint64s, ScheduledHeight : Uint64s, Signer : Short, Contract : Short,
     Balance : ReadCoins \cup {Nil}, CallBody : Short]

ReadExecuteEvents ==
    [BlockHeight : Uint64s, Gas : ReadCoins \cup {Nil}, Signer : Short, Contract : Short,
     BalanceBefore : ReadCoins \cup {Nil}, CallBody : Short]

ReadRemoveEvents ==
    [BlockHeight : Uint64s, Signer : Short, Contract : Short, Balance : ReadCoins \cup {Nil},
     CallBody : Short]

ReadAs(t) ==
    CASE t = "Coin" -> ReadCoins
      [] t = "ScheduledCall" -> [CallBody : Short]
      [] t = "Params" -> ReadParams
      [] t = "MsgAddSchedule" -> ReadAdds
      [] t = "MsgAddScheduleResponse" -> {None}
      [] t = "MsgRemoveSchedule" -> [Signer : Short, Contract : Short]
      [] t = "MsgRemoveScheduleResponse" -> {None}
      [] t = "QueryParamsRequest" -> {None}
      [] t = "QueryParamsResponse" -> [Params : ReadParams]
      [] t = "QueryScheduledCallsRequest" -> {None}
      [] t = "QueryScheduledCall" -> ReadCalls
      [] t = "QueryScheduledCallsResponse" -> [Calls : Seq(ListedCalls)]
      [] t = "AddScheduledCallEvent" -> ReadAddEvents
      [] t = "ExecuteScheduledCallEvent" -> ReadExecuteEvents
      [] t = "RemoveScheduledCallEvent" -> ReadRemoveEvents
      [] t = "GenesisState" -> [Params : ReadParams, ScheduledCalls : Seq(ListedAdds)]

----------------------------------------------------------------------------
(* Sizes.                                                                  *)

\* The length of a varint is small against the numbers it can stand for.
LEMMA SovSmall ==
    ASSUME NEW v \in 0 .. Word - 1
    PROVE  sovSchedule(v) \in Nat \ {0} /\ 7 * sovSchedule(v) + 5 <= Half
<1>1. WordBits \in Nat \ {0} /\ Half \in Nat /\ Half = 2 ^ (WordBits - 1)
  BY WordFacts DEF Half
<1> DEFINE N == WordBits + 6
           pow == [n \in 0 .. N |-> 2 ^ n]
<1>2. N \in Nat /\ 0 \in 0 .. N
  BY <1>1
<1>3. \A n \in 0 .. N : pow[n] = 2 ^ n
  OBVIOUS
<1>4. pow[0] = 1 /\ \A n \in 0 .. N - 1 : pow[n] \in Nat /\ pow[n + 1] = 2 * pow[n]
  <2>1. \A n \in 0 .. N - 1 : n \in 0 .. N /\ n + 1 \in 0 .. N
    BY <1>2
  <2>2. 2 ^ 0 = 1 /\ \A n \in 0 .. N - 1 : 2 ^ n \in Nat /\ 2 ^ (n + 1) = 2 * 2 ^ n
    BY <2>1, WireAssumption DEF N
  <2> HIDE DEF pow, N
  <2> QED BY <1>2, <1>3, <2>1, <2>2
<1>5. pow[WordBits - 1] = Half /\ 8 < Half
  BY <1>1, <1>3, WireAssumption
<1> HIDE DEF pow, N
<1>6. /\ pow[0] = 1 /\ pow[1] = 2 * pow[0] /\ pow[2] = 2 * pow[1] /\ pow[3] = 2 * pow[2]
      /\ pow[4] = 2 * pow[3]
  <2>1. 6 < N /\ 0 + 1 = 1 /\ 1 + 1 = 2 /\ 2 + 1 = 3 /\ 3 + 1 = 4
    BY <1>1 DEF N
  <2>2. 0 \in 0 .. N - 1 /\ 1 \in 0 .. N - 1 /\ 2 \in 0 .. N - 1 /\ 3 \in 0 .. N - 1
    BY <1>2, <2>1
  <2> QED BY <1>4, <2>1, <2>2
<1>7. WordBits - 1 > 3
  <2>1. pow[0] = 1 /\ pow[1] = 2 /\ pow[2] = 4 /\ pow[3] = 8
    BY <1>6
  <2>2. WordBits - 1 \notin {0, 1, 2, 3}
    BY <1>5, <2>1
  <2> QED BY <1>1, <2>2
<1> DEFINE S == {n \in Nat : n + 4 <= N => pow[n + 4] \in Nat /\ n + 16 <= pow[n + 4]}
<1>8. 0 \in S
  BY <1>6
<1>9. ASSUME NEW n \in 1 .. N, n - 1 \in S PROVE n \in S
  <2> SUFFICES ASSUME n + 4 <= N PROVE pow[n + 4] \in Nat /\ n + 16 <= pow[n + 4]
    OBVIOUS
  <2> DEFINE k == n + 3
  <2>1. k \in 0 .. N - 1 /\ k + 1 = n + 4 /\ k = (n - 1) + 4 /\ (n - 1) + 4 <= N
    BY <1>2
  <2>2. pow[k] \in Nat /\ (n - 1) + 16 <= pow[k]
    BY <1>9, <2>1
  <2>3. pow[k + 1] = 2 * pow[k]
    BY <1>4, <2>1
  <2> HIDE DEF k
  <2> QED BY <2>1, <2>2, <2>3
<1>10. 0 .. N \subseteq S
  <2> HIDE DEF S
  <2> QED BY <1>2, <1>8, <1>9, UpTo
<1>11. WordBits + 11 <= Half
  <2>1. WordBits - 5 \in 0 .. N /\ (WordBits - 5) + 4 = WordBits - 1 /\ (WordBits - 5) + 4 <= N
    BY <1>1, <1>7 DEF N
  <2>2. WordBits - 5 \in S
    BY <1>10, <2>1
  <2>3. (WordBits - 5) + 16 <= pow[(WordBits - 5) + 4]
    BY <2>1, <2>2
  <2> QED BY <1>1, <1>5, <2>1, <2>3
<1>12. sovSchedule(v) \in 1 .. (WordBits + 6) \div 7
  BY SovIsLength, VarintLengthIs
<1> QED BY <1>1, <1>11, <1>12

\* A number that all lengths of varints stay below.
LEMMA SizeBounds ==
    \E S \in Nat : /\ 7 * S + 5 <= Half
                   /\ \A v \in Uint64s : sovSchedule(v) \in Nat /\ sovSchedule(v) <= S
                   /\ \A v \in Uint64s : VarintSize(v) \in Nat /\ VarintSize(v) <= 1 + S
                   /\ \A b \in Short : BytesSize(b) \in Nat /\ BytesSize(b) <= 1 + Len(b) + S
<1>1. Half \in Nat /\ Word = Half + Half /\ 0 \in Uint64s
  BY WordFacts DEF Uint64s
<1>2. \A v \in Uint64s : sovSchedule(v) \in Nat \ {0} /\ 7 * sovSchedule(v) + 5 <= Half
  BY SovSmall DEF Uint64s
<1> DEFINE S == (Half - 5) \div 7
<1>3. S \in Nat /\ 7 * S + 5 <= Half /\ \A n \in Nat : 7 * n + 5 <= Half => n <= S
  BY <1>1, <1>2
<1> HIDE DEF S
<1>4. \A v \in Uint64s : sovSchedule(v) \in Nat /\ sovSchedule(v) <= S
  BY <1>2, <1>3
<1>5. \A v \in Uint64s : VarintSize(v) \in Nat /\ VarintSize(v) <= 1 + S
  BY <1>3, <1>4 DEF VarintSize
<1>6. ASSUME NEW b \in Short PROVE BytesSize(b) \in Nat /\ BytesSize(b) <= 1 + Len(b) + S
  <2>1. Len(b) \in Nat /\ Len(b) \in Uint64s
    BY <1>1 DEF Short, Uint64s
  <2>2. sovSchedule(Len(b)) \in Nat /\ sovSchedule(Len(b)) <= S
    BY <1>4, <2>1
  <2> QED BY <1>3, <2>1, <2>2 DEF BytesSize
<1> QED BY <1>3, <1>4, <1>5, <1>6

\* Short slices are slices.
LEMMA ShortIsSlice == Short \subseteq Slice /\ Digits \subseteq Short
<1>1. Half \in Nat /\ Word = Half + Half /\ 8 < Half
  BY WordFacts, WireAssumption
<1>2. Short \subseteq Slice
  BY <1>1 DEF Short, Slice
<1>3. ASSUME NEW b \in Digits PROVE b \in Short
  <2>1. b \in Seq(Byte) /\ (Len(b) = 0 \/ Len(b) = 1)
    BY DEF Digits, IntText
  <2> QED BY <1>1, <2>1 DEF Short
<1> QED BY <1>2, <1>3

\* A coin that was read.
LEMMA ReadCoinSized ==
    ASSUME NEW c \in ReadCoins, NEW S \in Nat, 7 * S + 5 <= Half,
           \A b \in Short : BytesSize(b) \in Nat /\ BytesSize(b) <= 1 + Len(b) + S
    PROVE  c \in Coins /\ CoinSize(c) \in Nat /\ CoinSize(c) <= Half + 2 + 2 * S /\ c \in SizedCoins
<1>1. Half \in Nat /\ Word = Half + Half /\ 8 < Half
  BY WordFacts, WireAssumption
<1>2. c.Denom \in Short /\ c.Amount \in Digits
  BY DEF ReadCoins
<1>3. AmountText(c) \in Short /\ Len(AmountText(c)) <= 1
  <2>1. <<48>> \in Seq(Byte) /\ Len(<<48>>) = 1
    BY DEF Byte
  <2>2. c.Amount \in Seq(Byte) /\ Len(c.Amount) <= 1
    <3> DEFINE a == c.Amount
    <3>1. a \in Digits
      BY <1>2
    <3> HIDE DEF a
    <3>2. a \in Seq(Byte)
      BY <3>1 DEF Digits
    <3>3. a = <<>> => Len(a) <= 1
      BY <3>2
    <3>4. IntText(a) => Len(a) <= 1
      BY <3>2 DEF IntText
    <3>5. a = <<>> \/ IntText(a)
      BY <3>1 DEF Digits
    <3> QED BY <3>2, <3>3, <3>4, <3>5 DEF a
  <2> QED BY <1>1, <2>1, <2>2 DEF AmountText, Short
<1>4. c \in Coins
  BY <1>2, ShortIsSlice DEF ReadCoins, Coins
<1> DEFINE x == BytesSize(c.Denom)
           y == BytesSize(AmountText(c))
           n == Len(c.Denom)
           k == Len(AmountText(c))
<1>5. n \in Nat /\ n < Half /\ k \in Nat /\ k <= 1
  BY <1>2, <1>3 DEF Short
<1>6. x \in Nat /\ x <= 1 + n + S /\ y \in Nat /\ y <= 1 + k + S
  BY <1>2, <1>3
<1>7. CoinSize(c) = x + y
  BY DEF CoinSize
<1> HIDE DEF x, y, n, k
<1>8. CoinSize(c) \in Nat /\ CoinSize(c) <= Half + 2 + 2 * S
  BY <1>1, <1>5, <1>6, <1>7
<1>9. CoinSize(c) < Word
  BY <1>1, <1>8
<1> QED BY <1>4, <1>8, <1>9 DEF SizedCoins

\* Parameters that were read.
LEMMA ReadParamsSized == ReadParams \subseteq SizedParams
<1>1. Half \in Nat /\ Word = Half + Half /\ 8 < Half
  BY WordFacts, WireAssumption
<1>2. PICK S \in Nat : /\ 7 * S + 5 <= Half
                       /\ \A v \in Uint64s : sovSchedule(v) \in Nat /\ sovSchedule(v) <= S
                       /\ \A v \in Uint64s : VarintSize(v) \in Nat /\ VarintSize(v) <= 1 + S
                       /\ \A b \in Short : BytesSize(b) \in Nat /\ BytesSize(b) <= 1 + Len(b) + S
  BY SizeBounds
<1> SUFFICES ASSUME NEW p \in ReadParams PROVE p \in SizedParams
  OBVIOUS
<1> DEFINE c == p.MinimumBalance
           x == CoinSize(c)
           y == VarintSize(p.UpperBound)
<1>3. c \in ReadCoins /\ p.UpperBound \in Uint64s
  BY DEF ReadParams
<1>4. c \in SizedCoins /\ x \in Nat /\ x <= Half + 2 + 2 * S
  BY <1>2, <1>3, ReadCoinSized
<1>5. p \in ParamsType
  BY <1>3, <1>4 DEF ReadParams, ParamsType
<1>6. y \in Nat /\ y <= 1 + S
  BY <1>2, <1>3
<1>7. ParamsSize(p) = 1 + x + sovSchedule(x) + y
  BY DEF ParamsSize, MessageSize
<1> HIDE DEF x, y, c
<1>8. x \in Uint64s
  BY <1>1, <1>2, <1>4 DEF Uint64s
<1>9. sovSchedule(x) \in Nat /\ sovSchedule(x) <= S
  BY <1>2, <1>8
<1>10. ParamsSize(p) < Word
  BY <1>1, <1>2, <1>4, <1>6, <1>7, <1>9
<1> QED BY <1>5, <1>10 DEF SizedParams

\* Calls that were read as members of a list.
LEMMA ListedSized == ListedAdds \subseteq SizedAdds /\ ListedCalls \subseteq SizedCalls
<1>1. Half \in Nat /\ Word = Half + Half /\ 8 < Half
  BY WordFacts, WireAssumption
<1>2. PICK S \in Nat : /\ 7 * S + 5 <= Half
                       /\ \A v \in Uint64s : sovSchedule(v) \in Nat /\ sovSchedule(v) <= S
                       /\ \A v \in Uint64s : VarintSize(v) \in Nat /\ VarintSize(v) <= 1 + S
                       /\ \A b \in Short : BytesSize(b) \in Nat /\ BytesSize(b) <= 1 + Len(b) + S
  BY SizeBounds
<1>3. ASSUME NEW m \in ListedAdds PROVE m \in SizedAdds
  <2>1. /\ m \in ReadAdds /\ m.Signer \in Short /\ m.Contract \in Short /\ m.CallBody \in Short
        /\ m.BlockHeight \in Uint64s /\ Len(m.Signer) + Len(m.Contract) + Len(m.CallBody) < Half
    BY DEF ListedAdds, ReadAdds, Held
  <2>2. m \in Adds
    BY <2>1, ShortIsSlice DEF ReadAdds, Adds
  <2> DEFINE x == BytesSize(m.Signer)
             y == BytesSize(m.Contract)
             z == BytesSize(m.CallBody)
             v == VarintSize(m.BlockHeight)
             i == Len(m.Signer)
             j == Len(m.Contract)
             k == Len(m.CallBody)
  <2>3. x \in Nat /\ y \in Nat /\ z \in Nat /\ x <= 1 + i + S /\ y <= 1 + j + S /\ z <= 1 + k + S
    BY <1>2, <2>1
  <2>4. v \in Nat /\ v <= 1 + S
    BY <1>2, <2>1
  <2>5. i \in Nat /\ j \in Nat /\ k \in Nat /\ i + j + k < Half
    <3>1. m.Signer \in Seq(Byte) /\ m.Contract \in Seq(Byte) /\ m.CallBody \in Seq(Byte)
      BY <2>1 DEF Short
    <3>2. i \in Nat /\ j \in Nat /\ k \in Nat
      BY <3>1
    <3>3. i + j + k < Half
      BY <2>1
    <3> QED BY <3>2, <3>3
  <2>6. MsgAddScheduleSize(m) = x + y + z + v
    BY DEF MsgAddScheduleSize
  <2> HIDE DEF x, y, z, v, i, j, k
  <2>7. MsgAddScheduleSize(m) < Word
    BY <1>1, <1>2, <2>3, <2>4, <2>5, <2>6
  <2> QED BY <2>2, <2>7 DEF SizedAdds
<1>4. ASSUME NEW m \in ListedCalls PROVE m \in SizedCalls
  <2>1. /\ m \in ReadCalls /\ m.Signer \in Short /\ m.Contract \in Short /\ m.CallBody \in Short
        /\ m.Height \in Uint64s /\ Len(m.Contract) + Len(m.CallBody) + Len(m.Signer) < Half
    BY DEF ListedCalls, ReadCalls, Held
  <2>2. m \in Calls
    BY <2>1, ShortIsSlice DEF ReadCalls, Calls
  <2> DEFINE x == BytesSize(m.Contract)
             y == BytesSize(m.CallBody)
             z == BytesSize(m.Signer)
             v == VarintSize(m.Height)
             i == Len(m.Contract)
             j == Len(m.CallBody)
             k == Len(m.Signer)
  <2>3. x \in Nat /\ y \in Nat /\ z \in Nat /\ x <= 1 + i + S /\ y <= 1 + j + S /\ z <= 1 + k + S
    BY <1>2, <2>1
  <2>4. v \in Nat /\ v <= 1 + S
    BY <1>2, <2>1
  <2>5. i \in Nat /\ j \in Nat /\ k \in Nat /\ i + j + k < Half
    <3>1. m.Signer \in Seq(Byte) /\ m.Contract \in Seq(Byte) /\ m.CallBody \in Seq(Byte)
      BY <2>1 DEF Short
    <3>2. i \in Nat /\ j \in Nat /\ k \in Nat
      BY <3>1
    <3>3. i + j + k < Half
      BY <2>1
    <3> QED BY <3>2, <3>3
  <2>6. QueryScheduledCallSize(m) = x + y + v + z
    BY DEF QueryScheduledCallSize
  <2> HIDE DEF x, y, z, v, i, j, k
  <2>7. QueryScheduledCallSize(m) < Word
    BY <1>1, <1>2, <2>3, <2>4, <2>5, <2>6
  <2> QED BY <2>2, <2>7 DEF SizedCalls
<1> QED BY <1>3, <1>4

\* What was read is a message whose sizes fit into words.
LEMMA ReadIsMessage ==
    ASSUME NEW t \in MessageTypes, NEW m \in ReadAs(t)
    PROVE  m \in MessagesOf(t)
<1>1. Short \subseteq Slice /\ ReadParams \subseteq SizedParams
  BY ShortIsSlice, ReadParamsSized
<1>2. ReadCoins \subseteq SizedCoins /\ ReadCoins \subseteq Coins
  BY SizeBounds, ReadCoinSized
<1>3. Seq(ListedAdds) \subseteq Seq(SizedAdds) /\ Seq(ListedCalls) \subseteq Seq(SizedCalls)
  BY ListedSized
<1>4. CASE t \in {"MsgAddScheduleResponse", "MsgRemoveScheduleResponse", "QueryParamsRequest",
                  "QueryScheduledCallsRequest"}
  BY <1>4 DEF ReadAs, MessagesOf
<1>5. CASE t = "Coin"
  BY <1>2, <1>5 DEF ReadAs, MessagesOf
<1>6. CASE t = "ScheduledCall"
  BY <1>1, <1>6 DEF ReadAs, MessagesOf
<1>7. CASE t = "Params"
  BY <1>1, <1>7 DEF ReadAs, MessagesOf, SizedParams
<1>8. CASE t = "MsgAddSchedule"
  BY <1>1, <1>8 DEF ReadAs, MessagesOf, ReadAdds, Adds
<1>9. CASE t = "MsgRemoveSchedule"
  BY <1>1, <1>9 DEF ReadAs, MessagesOf
<1>10. CASE t = "QueryParamsResponse"
  BY <1>1, <1>10 DEF ReadAs, MessagesOf
<1>11. CASE t = "QueryScheduledCall"
  BY <1>1, <1>11 DEF ReadAs, MessagesOf, ReadCalls, Calls
<1>12. CASE t = "QueryScheduledCallsResponse"
  BY <1>3, <1>12 DEF ReadAs, MessagesOf
<1>13. CASE t = "AddScheduledCallEvent"
  BY <1>1, <1>2, <1>13 DEF ReadAs, MessagesOf, ReadAddEvents, AddEvents, CoinPointers
<1>14. CASE t = "ExecuteScheduledCallEvent"
  BY <1>1, <1>2, <1>14 DEF ReadAs, MessagesOf, ReadExecuteEvents, ExecuteEvents, CoinPointers
<1>15. CASE t = "RemoveScheduledCallEvent"
  BY <1>1, <1>2, <1>15 DEF ReadAs, MessagesOf, ReadRemoveEvents, RemoveEvents, CoinPointers
<1>16. CASE t = "GenesisState"
  BY <1>1, <1>3, <1>16 DEF ReadAs, MessagesOf
<1> QED
  BY <1>4, <1>5, <1>6, <1>7, <1>8, <1>9, <1>10, <1>11, <1>12, <1>13, <1>14, <1>15, <1>16
  DEF MessageTypes

----------------------------------------------------------------------------
(* Fields.                                                                 *)

\* The messages that a repeated field can get.
Listed(t) == {m \in ReadAs(t) : Held(t, m) < Half}

\* The values that a field can get.
ValuesOf(f) ==
    CASE f.kind = "varint" -> Uint64s
      [] f.kind = "bytes" -> Short
      [] f.kind = "text" -> Digits
      [] f.kind = "message" -> ReadAs(f.type)
      [] f.kind = "repeated" -> Seq(Listed(f.type))

KnownField(t, f) == \E n \in DOMAIN Schema[t] : f = Schema[t][n]

\* The tables of the fields, written out.
LEMMA FieldsOf ==
    ASSUME NEW t \in MessageTypes, NEW f, KnownField(t, f)
    PROVE  /\ t = "Coin" => f \in {Bytes("Denom"), Text("Amount")}
           /\ t = "ScheduledCall" => f = Bytes("CallBody")
           /\ t = "Params" => f \in {Message("MinimumBalance", "Coin"), Uint64("UpperBound")}
           /\ t = "MsgAddSchedule" => f \in {Bytes("Signer"), Bytes("Contract"), Bytes("CallBody"),
                                             Uint64("BlockHeight")}
           /\ t = "MsgRemoveSchedule" => f \in {Bytes("Signer"), Bytes("Contract")}
           /\ t = "QueryParamsResponse" => f = Message("Params", "Params")
           /\ t = "QueryScheduledCall" => f \in {Bytes("Contract"), Bytes("CallBody"), Uint64("Height"),
                                                 Bytes("Signer")}
           /\ t = "QueryScheduledCallsResponse" => f = Repeated("Calls", "QueryScheduledCall")
           /\ t = "AddScheduledCallEvent" =>
                 f \in {Uint64("BlockHeight"), Uint64("ScheduledHeight"), Bytes("Signer"),
                        Bytes("Contract"), Message("Balance", "Coin"), Bytes("CallBody")}
           /\ t = "ExecuteScheduledCallEvent" =>
                 f \in {Uint64("BlockHeight"), Message("Gas", "Coin"), Bytes("Signer"),
                        Bytes("Contract"), Message("BalanceBefore", "Coin"), Bytes("CallBody")}
           /\ t = "RemoveScheduledCallEvent" =>
                 f \in {Uint64("BlockHeight"), Bytes("Signer"), Bytes("Contract"),
                        Message("Balance", "Coin"), Bytes("CallBody")}
           /\ t = "GenesisState" => f \in {Message("Params", "Params"),
                                           Repeated("ScheduledCalls", "MsgAddSchedule")}
           /\ t \notin {"MsgAddScheduleResponse", "MsgRemoveScheduleResponse", "QueryParamsRequest",
                        "QueryScheduledCallsRequest"}
<1> PICK n \in DOMAIN Schema[t] : f = Schema[t][n]
  BY DEF KnownField
<1>1. CASE t = "Coin"
  BY <1>1 DEF Schema, CoinUnmarshal
<1>2. CASE t = "ScheduledCall"
  BY <1>2 DEF Schema, ScheduledCallUnmarshal
<1>3. CASE t = "Params"
  BY <1>3 DEF Schema, ParamsUnmarshal
<1>4. CASE t = "MsgAddSchedule"
  BY <1>4 DEF Schema, MsgAddScheduleUnmarshal
<1>5. CASE t = "MsgRemoveSchedule"
  BY <1>5 DEF Schema, MsgRemoveScheduleUnmarshal
<1>6. CASE t = "QueryParamsResponse"
  BY <1>6 DEF Schema, QueryParamsResponseUnmarshal
<1>7. CASE t = "QueryScheduledCall"
  BY <1>7 DEF Schema, QueryScheduledCallUnmarshal
<1>8. CASE t = "QueryScheduledCallsResponse"
  BY <1>8 DEF Schema, QueryScheduledCallsResponseUnmarshal
<1>9. CASE t = "AddScheduledCallEvent"
  BY <1>9 DEF Schema, AddScheduledCallEventUnmarshal
<1>10. CASE t = "ExecuteScheduledCallEvent"
  BY <1>10 DEF Schema, ExecuteScheduledCallEventUnmarshal
<1>11. CASE t = "RemoveScheduledCallEvent"
  BY <1>11 DEF Schema, RemoveScheduledCallEventUnmarshal
<1>12. CASE t = "GenesisState"
  BY <1>12 DEF Schema, GenesisStateUnmarshal
<1>13. CASE t \in {"MsgAddScheduleResponse", "MsgRemoveScheduleResponse", "QueryParamsRequest",
                   "QueryScheduledCallsRequest"}
  BY <1>13 DEF Schema, MsgAddScheduleResponseUnmarshal, MsgRemoveScheduleResponseUnmarshal,
               QueryParamsRequestUnmarshal, QueryScheduledCallsRequestUnmarshal, None
<1> QED
  BY <1>1, <1>2, <1>3, <1>4, <1>5, <1>6, <1>7, <1>8, <1>9, <1>10, <1>11, <1>12, <1>13
  DEF MessageTypes

\* What the constructors of the tables stand for.
LEMMA FieldValues ==
    /\ \A x : Uint64(x).name = x /\ Uint64(x).kind = "varint" /\ ValuesOf(Uint64(x)) = Uint64s
    /\ \A x : Bytes(x).name = x /\ Bytes(x).kind = "bytes" /\ ValuesOf(Bytes(x)) = Short
    /\ \A x : Text(x).name = x /\ Text(x).kind = "text" /\ ValuesOf(Text(x)) = Digits
    /\ \A x, y : /\ Message(x, y).name = x /\ Message(x, y).kind = "message"
                /\ Message(x, y).type = y /\ ValuesOf(Message(x, y)) = ReadAs(y)
    /\ \A x, y : /\ Repeated(x, y).name = x /\ Repeated(x, y).kind = "repeated"
                /\ Repeated(x, y).type = y /\ ValuesOf(Repeated(x, y)) = Seq(Listed(y))
BY DEF Uint64, Bytes, Text, Message, Repeated, ValuesOf

\* The messages that others contain.
LEMMA Nested ==
    /\ ReadAs("Coin") = ReadCoins /\ ReadAs("Params") = ReadParams
    /\ Listed("MsgAddSchedule") = ListedAdds /\ Listed("QueryScheduledCall") = ListedCalls
BY DEF ReadAs, Listed, ListedAdds, ListedCalls

\* A message stays one of its type when a field is set.
LEMMA SetTyped ==
    ASSUME NEW t \in MessageTypes, NEW f, KnownField(t, f), NEW m \in ReadAs(t), NEW v \in ValuesOf(f)
    PROVE  [m EXCEPT ![f.name] = v] \in ReadAs(t)
<1>1. CASE t = "Coin"
  <2>1. \/ f.name = "Denom" /\ v \in Short
        \/ f.name = "Amount" /\ v \in Digits
    BY <1>1, FieldsOf, FieldValues, Nested
  <2> QED BY <1>1, <2>1 DEF ReadAs, ReadCoins
<1>2. CASE t = "ScheduledCall"
  <2>1. f.name = "CallBody" /\ v \in Short
    BY <1>2, FieldsOf, FieldValues, Nested
  <2> QED BY <1>2, <2>1 DEF ReadAs
<1>3. CASE t = "Params"
  <2>1. \/ f.name = "MinimumBalance" /\ v \in ReadCoins
        \/ f.name = "UpperBound" /\ v \in Uint64s
    BY <1>3, FieldsOf, FieldValues, Nested
  <2> QED BY <1>3, <2>1 DEF ReadAs, ReadParams
<1>4. CASE t = "MsgAddSchedule"
  <2>1. \/ f.name \in {"Signer", "Contract", "CallBody"} /\ v \in Short
        \/ f.name = "BlockHeight" /\ v \in Uint64s
    BY <1>4, FieldsOf, FieldValues, Nested
  <2> QED BY <1>4, <2>1 DEF ReadAs, ReadAdds
<1>5. CASE t = "MsgRemoveSchedule"
  <2>1. f.name \in {"Signer", "Contract"} /\ v \in Short
    BY <1>5, FieldsOf, FieldValues, Nested
  <2> QED BY <1>5, <2>1 DEF ReadAs
<1>6. CASE t = "QueryParamsResponse"
  <2>1. f.name = "Params" /\ v \in ReadParams
    BY <1>6, FieldsOf, FieldValues, Nested
  <2> QED BY <1>6, <2>1 DEF ReadAs
<1>7. CASE t = "QueryScheduledCall"
  <2>1. \/ f.name \in {"Contract", "CallBody", "Signer"} /\ v \in Short
        \/ f.name = "Height" /\ v \in Uint64s
    BY <1>7, FieldsOf, FieldValues, Nested
  <2> QED BY <1>7, <2>1 DEF ReadAs, ReadCalls
<1>8. CASE t = "QueryScheduledCallsResponse"
  <2>1. f.name = "Calls" /\ v \in Seq(ListedCalls)
    BY <1>8, FieldsOf, FieldValues, Nested
  <2> QED BY <1>8, <2>1 DEF ReadAs
<1>9. CASE t = "AddScheduledCallEvent"
  <2>1. \/ f.name \in {"BlockHeight", "ScheduledHeight"} /\ v \in Uint64s
        \/ f.name \in {"Signer", "Contract", "CallBody"} /\ v \in Short
        \/ f.name = "Balance" /\ v \in ReadCoins
    BY <1>9, FieldsOf, FieldValues, Nested
  <2> QED BY <1>9, <2>1 DEF ReadAs, ReadAddEvents
<1>10. CASE t = "ExecuteScheduledCallEvent"
  <2>1. \/ f.name = "BlockHeight" /\ v \in Uint64s
        \/ f.name \in {"Gas", "BalanceBefore"} /\ v \in ReadCoins
        \/ f.name \in {"Signer", "Contract", "CallBody"} /\ v \in Short
    BY <1>10, FieldsOf, FieldValues, Nested
  <2> QED BY <1>10, <2>1 DEF ReadAs, ReadExecuteEvents
<1>11. CASE t = "RemoveScheduledCallEvent"
  <2>1. \/ f.name = "BlockHeight" /\ v \in Uint64s
        \/ f.name \in {"Signer", "Contract", "CallBody"} /\ v \in Short
        \/ f.name = "Balance" /\ v \in ReadCoins
    BY <1>11, FieldsOf, FieldValues, Nested
  <2> QED BY <1>11, <2>1 DEF ReadAs, ReadRemoveEvents
<1>12. CASE t = "GenesisState"
  <2>1. \/ f.name = "Params" /\ v \in ReadParams
        \/ f.name = "ScheduledCalls" /\ v \in Seq(ListedAdds)
    BY <1>12, FieldsOf, FieldValues, Nested
  <2> QED BY <1>12, <2>1 DEF ReadAs
<1> QED
  BY <1>1, <1>2, <1>3, <1>4, <1>5, <1>6, <1>7, <1>8, <1>9, <1>10, <1>11, <1>12, FieldsOf
  DEF MessageTypes

\* The kinds of the fields, and the types of those that hold messages.
LEMMA FieldKinds ==
    ASSUME NEW t \in MessageTypes, NEW f, KnownField(t, f)
    PROVE  /\ f.kind \in Kinds
           /\ f.kind = "message" => f.type \in {"Coin", "Params"}
           /\ f.kind = "repeated" => f.type \in {"MsgAddSchedule", "QueryScheduledCall"}
           /\ f.kind = "bytes" => ValuesOf(f) = Short
           /\ f.kind = "varint" => ValuesOf(f) = Uint64s
           /\ f.kind = "text" => ValuesOf(f) = Digits
           /\ f.kind = "message" => ValuesOf(f) = ReadAs(f.type)
           /\ f.kind = "repeated" => ValuesOf(f) = Seq(Listed(f.type))
<1>1. t = "Coin" =>
       \/ f.kind = "bytes"
       \/ f.kind = "text"
  BY FieldsOf, FieldValues
<1>2. t = "ScheduledCall" => f.kind = "bytes"
  BY FieldsOf, FieldValues
<1>3. t = "Params" =>
       \/ f.kind = "message" /\ f.type = "Coin"
       \/ f.kind = "varint"
  BY FieldsOf, FieldValues
<1>4. t = "MsgAddSchedule" =>
       \/ f.kind = "bytes"
       \/ f.kind = "varint"
  BY FieldsOf, FieldValues
<1>5. t = "MsgRemoveSchedule" => f.kind = "bytes"
  BY FieldsOf, FieldValues
<1>6. t = "QueryParamsResponse" => f.kind = "message" /\ f.type = "Params"
  BY FieldsOf, FieldValues
<1>7. t = "QueryScheduledCall" =>
       \/ f.kind = "bytes"
       \/ f.kind = "varint"
  BY FieldsOf, FieldValues
<1>8. t = "QueryScheduledCallsResponse" => f.kind = "repeated" /\ f.type = "QueryScheduledCall"
  BY FieldsOf, FieldValues
<1>9. t = "AddScheduledCallEvent" =>
       \/ f.kind = "varint"
       \/ f.kind = "bytes"
       \/ f.kind = "message" /\ f.type = "Coin"
  BY FieldsOf, FieldValues
<1>10. t = "ExecuteScheduledCallEvent" =>
       \/ f.kind = "varint"
       \/ f.kind = "message" /\ f.type = "Coin"
       \/ f.kind = "bytes"
  BY FieldsOf, FieldValues
<1>11. t = "RemoveScheduledCallEvent" =>
       \/ f.kind = "varint"
       \/ f.kind = "bytes"
       \/ f.kind = "message" /\ f.type = "Coin"
  BY FieldsOf, FieldValues
<1>12. t = "GenesisState" =>
       \/ f.kind = "message" /\ f.type = "Params"
       \/ f.kind = "repeated" /\ f.type = "MsgAddSchedule"
  BY FieldsOf, FieldValues
<1>13. f.kind \in Kinds
  BY <1>1, <1>2, <1>3, <1>4, <1>5, <1>6, <1>7, <1>8, <1>9, <1>10, <1>11, <1>12, FieldsOf
  DEF MessageTypes, Kinds
<1>14. f.kind = "message" => f.type \in {"Coin", "Params"}
  BY <1>1, <1>2, <1>3, <1>4, <1>5, <1>6, <1>7, <1>8, <1>9, <1>10, <1>11, <1>12, FieldsOf DEF MessageTypes
<1>15. f.kind = "repeated" => f.type \in {"MsgAddSchedule", "QueryScheduledCall"}
  BY <1>1, <1>2, <1>3, <1>4, <1>5, <1>6, <1>7, <1>8, <1>9, <1>10, <1>11, <1>12, FieldsOf DEF MessageTypes
<1> QED BY <1>13, <1>14, <1>15 DEF ValuesOf

\* What a field of a message holds: a value of the field, or the nil pointer.
LEMMA GetTyped ==
    ASSUME NEW t \in MessageTypes, NEW f, KnownField(t, f), NEW m \in ReadAs(t)
    PROVE  m[f.name] \in ValuesOf(f) \/ (f.kind = "message" /\ m[f.name] = Nil)
<1>1. CASE t = "Coin"
  <2>1. \/ f.name = "Denom" /\ ValuesOf(f) = Short
        \/ f.name = "Amount" /\ ValuesOf(f) = Digits
    BY <1>1, FieldsOf, FieldValues, Nested
  <2> QED BY <1>1, <2>1 DEF ReadAs, ReadCoins
<1>2. CASE t = "ScheduledCall"
  <2>1. f.name = "CallBody" /\ ValuesOf(f) = Short
    BY <1>2, FieldsOf, FieldValues, Nested
  <2> QED BY <1>2, <2>1 DEF ReadAs
<1>3. CASE t = "Params"
  <2>1. \/ f.name = "MinimumBalance" /\ ValuesOf(f) = ReadCoins
        \/ f.name = "UpperBound" /\ ValuesOf(f) = Uint64s
    BY <1>3, FieldsOf, FieldValues, Nested
  <2> QED BY <1>3, <2>1 DEF ReadAs, ReadParams
<1>4. CASE t = "MsgAddSchedule"
  <2>1. \/ f.name \in {"Signer", "Contract", "CallBody"} /\ ValuesOf(f) = Short
        \/ f.name = "BlockHeight" /\ ValuesOf(f) = Uint64s
    BY <1>4, FieldsOf, FieldValues, Nested
  <2> QED BY <1>4, <2>1 DEF ReadAs, ReadAdds
<1>5. CASE t = "MsgRemoveSchedule"
  <2>1. f.name \in {"Signer", "Contract"} /\ ValuesOf(f) = Short
    BY <1>5, FieldsOf, FieldValues, Nested
  <2> QED BY <1>5, <2>1 DEF ReadAs
<1>6. CASE t = "QueryParamsResponse"
  <2>1. f.name = "Params" /\ ValuesOf(f) = ReadParams
    BY <1>6, FieldsOf, FieldValues, Nested
  <2> QED BY <1>6, <2>1 DEF ReadAs
<1>7. CASE t = "QueryScheduledCall"
  <2>1. \/ f.name \in {"Contract", "CallBody", "Signer"} /\ ValuesOf(f) = Short
        \/ f.name = "Height" /\ ValuesOf(f) = Uint64s
    BY <1>7, FieldsOf, FieldValues, Nested
  <2> QED BY <1>7, <2>1 DEF ReadAs, ReadCalls
<1>8. CASE t = "QueryScheduledCallsResponse"
  <2>1. f.name = "Calls" /\ ValuesOf(f) = Seq(ListedCalls)
    BY <1>8, FieldsOf, FieldValues, Nested
  <2> QED BY <1>8, <2>1 DEF ReadAs
<1>9. CASE t = "AddScheduledCallEvent"
  <2>1. \/ f.name \in {"BlockHeight", "ScheduledHeight"} /\ ValuesOf(f) = Uint64s
        \/ f.name \in {"Signer", "Contract", "CallBody"} /\ ValuesOf(f) = Short
        \/ f.name = "Balance" /\ ValuesOf(f) = ReadCoins /\ f.kind = "message"
    BY <1>9, FieldsOf, FieldValues, Nested
  <2> QED BY <1>9, <2>1 DEF ReadAs, ReadAddEvents
<1>10. CASE t = "ExecuteScheduledCallEvent"
  <2>1. \/ f.name = "BlockHeight" /\ ValuesOf(f) = Uint64s
        \/ f.name \in {"Gas", "BalanceBefore"} /\ ValuesOf(f) = ReadCoins /\ f.kind = "message"
        \/ f.name \in {"Signer", "Contract", "CallBody"} /\ ValuesOf(f) = Short
    BY <1>10, FieldsOf, FieldValues, Nested
  <2> QED BY <1>10, <2>1 DEF ReadAs, ReadExecuteEvents
<1>11. CASE t = "RemoveScheduledCallEvent"
  <2>1. \/ f.name = "BlockHeight" /\ ValuesOf(f) = Uint64s
        \/ f.name \in {"Signer", "Contract", "CallBody"} /\ ValuesOf(f) = Short
        \/ f.name = "Balance" /\ ValuesOf(f) = ReadCoins /\ f.kind = "message"
    BY <1>11, FieldsOf, FieldValues, Nested
  <2> QED BY <1>11, <2>1 DEF ReadAs, ReadRemoveEvents
<1>12. CASE t = "GenesisState"
  <2>1. \/ f.name = "Params" /\ ValuesOf(f) = ReadParams
        \/ f.name = "ScheduledCalls" /\ ValuesOf(f) = Seq(ListedAdds)
    BY <1>12, FieldsOf, FieldValues, Nested
  <2> QED BY <1>12, <2>1 DEF ReadAs
<1> QED
  BY <1>1, <1>2, <1>3, <1>4, <1>5, <1>6, <1>7, <1>8, <1>9, <1>10, <1>11, <1>12, FieldsOf
  DEF MessageTypes

\* Reset() leaves a message of the type, which holds no bytes.
LEMMA ResetTyped ==
    ASSUME NEW t \in MessageTypes
    PROVE  Reset[t] \in ReadAs(t) /\ Held(t, Reset[t]) = 0
<1>1. <<>> \in Short /\ <<>> \in Digits /\ 0 \in Uint64s /\ Len(<<>>) = 0
  BY WordFacts DEF Short, Digits, Uint64s
<1>2. Coin \in ReadCoins
  BY <1>1 DEF Coin, ReadCoins
<1>3. Params \in ReadParams
  BY <1>1, <1>2 DEF Params, ReadParams
<1>4. <<>> \in Seq(ListedAdds) /\ <<>> \in Seq(ListedCalls)
  OBVIOUS
<1>5. CASE t = "Coin"
  <2>1. Reset[t] = Coin
    BY <1>5 DEF Reset
  <2> QED BY <1>1, <1>2, <1>3, <1>4, <1>5, <2>1 DEF ReadAs, Held, Coin, ReadCoins
<1>6. CASE t = "ScheduledCall"
  <2>1. Reset[t] = ScheduledCall
    BY <1>6 DEF Reset
  <2> QED BY <1>1, <1>2, <1>3, <1>4, <1>6, <2>1 DEF ReadAs, Held, ScheduledCall
<1>7. CASE t = "Params"
  <2>1. Reset[t] = Params
    BY <1>7 DEF Reset
  <2> QED BY <1>1, <1>2, <1>3, <1>4, <1>7, <2>1 DEF ReadAs, Held, Params, ReadParams
<1>8. CASE t = "MsgAddSchedule"
  <2>1. Reset[t] = MsgAddSchedule
    BY <1>8 DEF Reset
  <2> QED BY <1>1, <1>2, <1>3, <1>4, <1>8, <2>1 DEF ReadAs, Held, MsgAddSchedule, ReadAdds
<1>9. CASE t = "MsgRemoveSchedule"
  <2>1. Reset[t] = MsgRemoveSchedule
    BY <1>9 DEF Reset
  <2> QED BY <1>1, <1>2, <1>3, <1>4, <1>9, <2>1 DEF ReadAs, Held, MsgRemoveSchedule
<1>10. CASE t = "QueryParamsResponse"
  <2>1. Reset[t] = QueryParamsResponse
    BY <1>10 DEF Reset
  <2> QED BY <1>1, <1>2, <1>3, <1>4, <1>10, <2>1 DEF ReadAs, Held, QueryParamsResponse
<1>11. CASE t = "QueryScheduledCall"
  <2>1. Reset[t] = QueryScheduledCall
    BY <1>11 DEF Reset
  <2> QED BY <1>1, <1>2, <1>3, <1>4, <1>11, <2>1 DEF ReadAs, Held, QueryScheduledCall, ReadCalls
<1>12. CASE t = "QueryScheduledCallsResponse"
  <2>1. Reset[t] = QueryScheduledCallsResponse
    BY <1>12 DEF Reset
  <2> QED BY <1>1, <1>2, <1>3, <1>4, <1>12, <2>1 DEF ReadAs, Held, QueryScheduledCallsResponse
<1>13. CASE t = "AddScheduledCallEvent"
  <2>1. Reset[t] = AddScheduledCallEvent
    BY <1>13 DEF Reset
  <2> QED BY <1>1, <1>2, <1>3, <1>4, <1>13, <2>1 DEF ReadAs, Held, AddScheduledCallEvent, ReadAddEvents
<1>14. CASE t = "ExecuteScheduledCallEvent"
  <2>1. Reset[t] = ExecuteScheduledCallEvent
    BY <1>14 DEF Reset
  <2> QED BY <1>1, <1>2, <1>3, <1>4, <1>14, <2>1
        DEF ReadAs, Held, ExecuteScheduledCallEvent, ReadExecuteEvents
<1>15. CASE t = "RemoveScheduledCallEvent"
  <2>1. Reset[t] = RemoveScheduledCallEvent
    BY <1>15 DEF Reset
  <2> QED BY <1>1, <1>2, <1>3, <1>4, <1>15, <2>1
        DEF ReadAs, Held, RemoveScheduledCallEvent, ReadRemoveEvents
<1>16. CASE t = "GenesisState"
  <2>1. Reset[t] = GenesisState
    BY <1>16 DEF Reset
  <2> QED BY <1>1, <1>2, <1>3, <1>4, <1>16, <2>1 DEF ReadAs, Held, GenesisState
<1>17. CASE t = "MsgAddScheduleResponse"
  <2>1. Reset[t] = MsgAddScheduleResponse
    BY <1>17 DEF Reset
  <2> QED BY <1>1, <1>2, <1>3, <1>4, <1>17, <2>1 DEF ReadAs, Held, MsgAddScheduleResponse
<1>18. CASE t = "MsgRemoveScheduleResponse"
  <2>1. Reset[t] = MsgRemoveScheduleResponse
    BY <1>18 DEF Reset
  <2> QED BY <1>1, <1>2, <1>3, <1>4, <1>18, <2>1 DEF ReadAs, Held, MsgRemoveScheduleResponse
<1>19. CASE t = "QueryParamsRequest"
  <2>1. Reset[t] = QueryParamsRequest
    BY <1>19 DEF Reset
  <2> QED BY <1>1, <1>2, <1>3, <1>4, <1>19, <2>1 DEF ReadAs, Held, QueryParamsRequest
<1>20. CASE t = "QueryScheduledCallsRequest"
  <2>1. Reset[t] = QueryScheduledCallsRequest
    BY <1>20 DEF Reset
  <2> QED BY <1>1, <1>2, <1>3, <1>4, <1>20, <2>1 DEF ReadAs, Held, QueryScheduledCallsRequest
<1> QED
  BY <1>5, <1>6, <1>7, <1>8, <1>9, <1>10, <1>11, <1>12, <1>13, <1>14, <1>15, <1>16, <1>17, <1>18, <1>19, <1>20
  DEF MessageTypes

\* Setting a field adds no more bytes to a message than the value has.
LEMMA HeldSet ==
    ASSUME NEW t \in MessageTypes, NEW f, KnownField(t, f), NEW m \in ReadAs(t), NEW v \in ValuesOf(f)
    PROVE  /\ Held(t, m) \in Nat /\ Held(t, [m EXCEPT ![f.name] = v]) \in Nat
           /\ f.kind = "bytes" => Held(t, [m EXCEPT ![f.name] = v]) <= Held(t, m) + Len(v)
           /\ f.kind # "bytes" => Held(t, [m EXCEPT ![f.name] = v]) = Held(t, m)
<1> DEFINE w == [m EXCEPT ![f.name] = v]
<1>1. \A b \in Short : Len(b) \in Nat
  BY DEF Short
<1>2. CASE t = "MsgAddSchedule"
  <2> DEFINE i == Len(m.Signer)
             j == Len(m.Contract)
             k == Len(m.CallBody)
             x == Len(v)
  <2>1. m \in ReadAdds
    BY <1>2 DEF ReadAs
  <2>2. i \in Nat /\ j \in Nat /\ k \in Nat
    BY <1>1, <2>1 DEF ReadAdds
  <2>3. Held(t, m) = i + j + k /\ Held(t, w) = Len(w.Signer) + Len(w.Contract) + Len(w.CallBody)
    BY <1>2 DEF Held
  <2>4. CASE f = Bytes("Signer")
    <3>1. f.name = "Signer" /\ f.kind = "bytes" /\ v \in Short
      BY <2>4, FieldValues
    <3>2. w.Signer = v /\ w.Contract = m.Contract /\ w.CallBody = m.CallBody
      BY <2>1, <3>1 DEF ReadAdds
    <3>3. x \in Nat /\ Held(t, w) = x + j + k
      BY <1>1, <2>3, <3>1, <3>2
    <3> HIDE DEF w, i, j, k, x
    <3>4. Held(t, m) \in Nat /\ Held(t, w) \in Nat /\ Held(t, w) <= Held(t, m) + x
      <4>1. Held(t, m) = i + j + k
        BY <2>3
      <4> QED BY <2>2, <3>3, <4>1
    <3> QED BY <3>1, <3>4 DEF w, x
  <2>5. CASE f = Bytes("Contract")
    <3>1. f.name = "Contract" /\ f.kind = "bytes" /\ v \in Short
      BY <2>5, FieldValues
    <3>2. w.Signer = m.Signer /\ w.Contract = v /\ w.CallBody = m.CallBody
      BY <2>1, <3>1 DEF ReadAdds
    <3>3. x \in Nat /\ Held(t, w) = i + x + k
      BY <1>1, <2>3, <3>1, <3>2
    <3> HIDE DEF w, i, j, k, x
    <3>4. Held(t, m) \in Nat /\ Held(t, w) \in Nat /\ Held(t, w) <= Held(t, m) + x
      <4>1. Held(t, m) = i + j + k
        BY <2>3
      <4> QED BY <2>2, <3>3, <4>1
    <3> QED BY <3>1, <3>4 DEF w, x
  <2>6. CASE f = Bytes("CallBody")
    <3>1. f.name = "CallBody" /\ f.kind = "bytes" /\ v \in Short
      BY <2>6, FieldValues
    <3>2. w.Signer = m.Signer /\ w.Contract = m.Contract /\ w.CallBody = v
      BY <2>1, <3>1 DEF ReadAdds
    <3>3. x \in Nat /\ Held(t, w) = i + j + x
      BY <1>1, <2>3, <3>1, <3>2
    <3> HIDE DEF w, i, j, k, x
    <3>4. Held(t, m) \in Nat /\ Held(t, w) \in Nat /\ Held(t, w) <= Held(t, m) + x
      <4>1. Held(t, m) = i + j + k
        BY <2>3
      <4> QED BY <2>2, <3>3, <4>1
    <3> QED BY <3>1, <3>4 DEF w, x
  <2>7. CASE f = Uint64("BlockHeight")
    <3>1. f.name = "BlockHeight" /\ f.kind = "varint"
      BY <2>7, FieldValues
    <3>2. w.Signer = m.Signer /\ w.Contract = m.Contract /\ w.CallBody = m.CallBody
      BY <2>1, <3>1 DEF ReadAdds
    <3>3. Held(t, w) = Held(t, m)
      BY <2>3, <3>2
    <3> HIDE DEF w, i, j, k
    <3>4. Held(t, m) \in Nat
      BY <2>2, <2>3
    <3> QED BY <3>1, <3>3, <3>4 DEF w
  <2> QED BY <1>2, <2>4, <2>5, <2>6, <2>7, FieldsOf
<1>3. CASE t = "QueryScheduledCall"
  <2> DEFINE i == Len(m.Contract)
             j == Len(m.CallBody)
             k == Len(m.Signer)
             x == Len(v)
  <2>1. m \in ReadCalls
    BY <1>3 DEF ReadAs
  <2>2. i \in Nat /\ j \in Nat /\ k \in Nat
    BY <1>1, <2>1 DEF ReadCalls
  <2>3. Held(t, m) = i + j + k /\ Held(t, w) = Len(w.Contract) + Len(w.CallBody) + Len(w.Signer)
    BY <1>3 DEF Held
  <2>4. CASE f = Bytes("Contract")
    <3>1. f.name = "Contract" /\ f.kind = "bytes" /\ v \in Short
      BY <2>4, FieldValues
    <3>2. w.Contract = v /\ w.CallBody = m.CallBody /\ w.Signer = m.Signer
      BY <2>1, <3>1 DEF ReadCalls
    <3>3. x \in Nat /\ Held(t, w) = x + j + k
      BY <1>1, <2>3, <3>1, <3>2
    <3> HIDE DEF w, i, j, k, x
    <3>4. Held(t, m) \in Nat /\ Held(t, w) \in Nat /\ Held(t, w) <= Held(t, m) + x
      <4>1. Held(t, m) = i + j + k
        BY <2>3
      <4> QED BY <2>2, <3>3, <4>1
    <3> QED BY <3>1, <3>4 DEF w, x
  <2>5. CASE f = Bytes("CallBody")
    <3>1. f.name = "CallBody" /\ f.kind = "bytes" /\ v \in Short
      BY <2>5, FieldValues
    <3>2. w.Contract = m.Contract /\ w.CallBody = v /\ w.Signer = m.Signer
      BY <2>1, <3>1 DEF ReadCalls
    <3>3. x \in Nat /\ Held(t, w) = i + x + k
      BY <1>1, <2>3, <3>1, <3>2
    <3> HIDE DEF w, i, j, k, x
    <3>4. Held(t, m) \in Nat /\ Held(t, w) \in Nat /\ Held(t, w) <= Held(t, m) + x
      <4>1. Held(t, m) = i + j + k
        BY <2>3
      <4> QED BY <2>2, <3>3, <4>1
    <3> QED BY <3>1, <3>4 DEF w, x
  <2>6. CASE f = Bytes("Signer")
    <3>1. f.name = "Signer" /\ f.kind = "bytes" /\ v \in Short
      BY <2>6, FieldValues
    <3>2. w.Contract = m.Contract /\ w.CallBody = m.CallBody /\ w.Signer = v
      BY <2>1, <3>1 DEF ReadCalls
    <3>3. x \in Nat /\ Held(t, w) = i + j + x
      BY <1>1, <2>3, <3>1, <3>2
    <3> HIDE DEF w, i, j, k, x
    <3>4. Held(t, m) \in Nat /\ Held(t, w) \in Nat /\ Held(t, w) <= Held(t, m) + x
      <4>1. Held(t, m) = i + j + k
        BY <2>3
      <4> QED BY <2>2, <3>3, <4>1
    <3> QED BY <3>1, <3>4 DEF w, x
  <2>7. CASE f = Uint64("Height")
    <3>1. f.name = "Height" /\ f.kind = "varint"
      BY <2>7, FieldValues
    <3>2. w.Contract = m.Contract /\ w.CallBody = m.CallBody /\ w.Signer = m.Signer
      BY <2>1, <3>1 DEF ReadCalls
    <3>3. Held(t, w) = Held(t, m)
      BY <2>3, <3>2
    <3> HIDE DEF w, i, j, k
    <3>4. Held(t, m) \in Nat
      BY <2>2, <2>3
    <3> QED BY <3>1, <3>3, <3>4 DEF w
  <2> QED BY <1>3, <2>4, <2>5, <2>6, <2>7, FieldsOf
<1>4. CASE t \notin {"MsgAddSchedule", "QueryScheduledCall"}
  <2>1. Held(t, m) = 0 /\ Held(t, w) = 0
    BY <1>4 DEF Held
  <2>2. f.kind = "bytes" => Len(v) \in Nat
    BY <1>1, FieldKinds
  <2> HIDE DEF w
  <2>3. /\ Held(t, m) \in Nat /\ Held(t, w) \in Nat
        /\ f.kind = "bytes" => Held(t, w) <= Held(t, m) + Len(v)
        /\ f.kind # "bytes" => Held(t, w) = Held(t, m)
    BY <2>1, <2>2
  <2> QED BY <2>3 DEF w
<1> QED BY <1>2, <1>3, <1>4

----------------------------------------------------------------------------
(* The stack of messages.                                                  *)

\* The tables of the decoders are those of the messages.
Generated == Types = MessageTypes /\ Fields = Schema /\ Zero = Reset

Entries ==
    [into : {Nil} \cup UNION {{Schema[t][n] : n \in DOMAIN Schema[t]} : t \in MessageTypes},
     m : UNION {ReadAs(t) : t \in MessageTypes}]

\* A message is of the type its call reads, and its bytes lie behind the index.
Fitting(c, e) == e.m \in ReadAs(c.type) /\ Held(c.type, e.m) <= c.iNdEx

\* A message that is being read is for a field of the caller that can hold it.
Linked(c, d, e) ==
    /\ KnownField(c.type, e.into) /\ e.into.kind \in {"message", "repeated"}
    /\ e.into.type = d.type

Stacked(cs, ms) ==
    /\ ms \in Seq(Entries) /\ Len(ms) = Len(cs)
    /\ \A k \in 1 .. Len(cs) : Fitting(cs[k], ms[k])
    /\ \A k \in 1 .. Len(cs) - 1 : Linked(cs[k], cs[k + 1], ms[k + 1])

\* What ties the messages to the calls, the field and its start.
DInv ==
    /\ Stacked(calls, msgs)
    /\ pc \in {"value", "length"} => KnownField(Call.type, field)
    /\ pc = "value" => field.kind = "varint"
    /\ pc = "length" => field.kind # "varint"
    /\ pc \notin Final \cup {"loop"} => Held(Call.type, Msg) <= preIndex
    /\ pc = "done" => Len(calls) = 1

\* The top of the stack moves on.
LEMMA TopSet ==
    ASSUME NEW cs \in Seq(CallType), cs # <<>>, NEW ms, Stacked(cs, ms),
           NEW c \in CallType, c.type = cs[Len(cs)].type,
           NEW e \in Entries, e.into = ms[Len(ms)].into, Fitting(c, e)
    PROVE  Stacked([cs EXCEPT ![Len(cs)] = c], [ms EXCEPT ![Len(ms)] = e])
<1> DEFINE n == Len(cs)
           ds == [cs EXCEPT ![n] = c]
           fs == [ms EXCEPT ![n] = e]
<1>1. n \in Nat \ {0} /\ ms \in Seq(Entries) /\ Len(ms) = n /\ n \in 1 .. n
  BY DEF Stacked
<1>2. ds \in Seq(CallType) /\ Len(ds) = n /\ fs \in Seq(Entries) /\ Len(fs) = n
  BY <1>1
<1>3. /\ ds[n] = c /\ fs[n] = e
      /\ \A k \in 1 .. n - 1 : ds[k] = cs[k] /\ fs[k] = ms[k]
  BY <1>1
<1>4. /\ \A k \in 1 .. n : Fitting(cs[k], ms[k])
      /\ \A k \in 1 .. n - 1 : Linked(cs[k], cs[k + 1], ms[k + 1])
      /\ c.type = cs[n].type /\ e.into = ms[n].into
  BY <1>1 DEF Stacked
<1> HIDE DEF n, ds, fs
<1>5. \A k \in 1 .. n : Fitting(ds[k], fs[k])
  <2> TAKE k \in 1 .. n
  <2>1. CASE k = n
    BY <1>3, <2>1
  <2>2. CASE k # n
    <3>1. k \in 1 .. n - 1
      BY <1>1, <2>2
    <3> QED BY <1>3, <1>4, <3>1
  <2> QED BY <2>1, <2>2
<1>6. \A k \in 1 .. n - 1 : Linked(ds[k], ds[k + 1], fs[k + 1])
  <2> TAKE k \in 1 .. n - 1
  <2>1. ds[k] = cs[k] /\ Linked(cs[k], cs[k + 1], ms[k + 1])
    BY <1>3, <1>4
  <2>2. CASE k + 1 = n
    BY <1>3, <1>4, <2>1, <2>2 DEF Linked
  <2>3. CASE k + 1 # n
    <3>1. k + 1 \in 1 .. n - 1
      BY <1>1, <2>3
    <3> QED BY <1>3, <2>1, <3>1
  <2> QED BY <2>2, <2>3
<1>7. Stacked(ds, fs)
  BY <1>2, <1>5, <1>6 DEF Stacked
<1> QED BY <1>1, <1>7 DEF ds, fs, n

\* A call is entered.
LEMMA Push ==
    ASSUME NEW cs \in Seq(CallType), cs # <<>>, NEW ms, Stacked(cs, ms),
           NEW c \in CallType, NEW e \in Entries, Fitting(c, e), Linked(cs[Len(cs)], c, e)
    PROVE  Stacked(Append(cs, c), Append(ms, e))
<1> DEFINE n == Len(cs)
           ds == Append(cs, c)
           fs == Append(ms, e)
<1>1. n \in Nat \ {0} /\ ms \in Seq(Entries) /\ Len(ms) = n
  BY DEF Stacked
<1>2. ds \in Seq(CallType) /\ Len(ds) = n + 1 /\ fs \in Seq(Entries) /\ Len(fs) = n + 1
  BY <1>1
<1>3. /\ ds[n + 1] = c /\ fs[n + 1] = e
      /\ \A k \in 1 .. n : ds[k] = cs[k] /\ fs[k] = ms[k]
  BY <1>1
<1>4. /\ \A k \in 1 .. n : Fitting(cs[k], ms[k])
      /\ \A k \in 1 .. n - 1 : Linked(cs[k], cs[k + 1], ms[k + 1])
      /\ Linked(cs[n], c, e)
  BY <1>1 DEF Stacked
<1> HIDE DEF n, ds, fs
<1>5. \A k \in 1 .. n + 1 : Fitting(ds[k], fs[k])
  <2> TAKE k \in 1 .. n + 1
  <2>1. CASE k = n + 1
    BY <1>3, <2>1
  <2>2. CASE k # n + 1
    <3>1. k \in 1 .. n
      BY <1>1, <2>2
    <3> QED BY <1>3, <1>4, <3>1
  <2> QED BY <2>1, <2>2
<1>6. \A k \in 1 .. (n + 1) - 1 : Linked(ds[k], ds[k + 1], fs[k + 1])
  <2> TAKE k \in 1 .. (n + 1) - 1
  <2>1. ds[k] = cs[k] /\ k \in 1 .. n
    BY <1>1, <1>3
  <2>2. CASE k = n
    BY <1>3, <1>4, <2>1, <2>2
  <2>3. CASE k # n
    <3>1. k + 1 \in 1 .. n /\ k \in 1 .. n - 1
      BY <1>1, <2>1, <2>3
    <3> QED BY <1>3, <1>4, <2>1, <3>1
  <2> QED BY <2>2, <2>3
<1> QED BY <1>2, <1>5, <1>6 DEF Stacked, ds, fs

\* A call is left.
LEMMA Pop ==
    ASSUME NEW cs \in Seq(CallType), Len(cs) > 1, NEW ms, Stacked(cs, ms)
    PROVE  /\ Stacked(Outer(cs), Outer(ms))
           /\ Outer(cs) \in Seq(CallType) /\ Outer(cs) # <<>>
           /\ Len(Outer(cs)) = Len(cs) - 1 /\ Len(Outer(ms)) = Len(cs) - 1
           /\ Outer(cs)[Len(cs) - 1] = cs[Len(cs) - 1] /\ Outer(ms)[Len(cs) - 1] = ms[Len(cs) - 1]
<1> DEFINE n == Len(cs) - 1
           ds == Outer(cs)
           fs == Outer(ms)
<1>1. n \in Nat \ {0} /\ ms \in Seq(Entries) /\ Len(cs) = n + 1 /\ Len(ms) = n + 1 /\ n \in 1 .. n
  <2>1. Len(cs) \in Nat /\ Len(cs) > 1 /\ ms \in Seq(Entries) /\ Len(ms) = Len(cs)
    BY DEF Stacked
  <2>2. n \in Nat \ {0} /\ Len(cs) = n + 1
    BY <2>1, CallerBelow, Zenon
  <2> HIDE DEF n
  <2> QED BY <2>1, <2>2
<1> HIDE DEF n
<1>2. ds = SubSeq(cs, 1, n) /\ fs = SubSeq(ms, 1, n)
  <2>1. Len(cs) - 1 = n /\ Len(ms) - 1 = n
    BY <1>1
  <2> QED BY <2>1 DEF Outer
<1> HIDE DEF ds, fs
<1>3. /\ ds \in Seq(CallType) /\ Len(ds) = n /\ fs \in Seq(Entries) /\ Len(fs) = n
      /\ \A k \in 1 .. n : ds[k] = cs[k] /\ fs[k] = ms[k]
  BY <1>1, <1>2
<1>4. /\ \A k \in 1 .. n + 1 : Fitting(cs[k], ms[k])
      /\ \A k \in 1 .. (n + 1) - 1 : Linked(cs[k], cs[k + 1], ms[k + 1])
  BY <1>1 DEF Stacked
<1>5. \A k \in 1 .. n : Fitting(ds[k], fs[k])
  <2> TAKE k \in 1 .. n
  <2>1. k \in 1 .. n + 1
    BY <1>1
  <2> QED BY <1>3, <1>4, <2>1
<1>6. \A k \in 1 .. n - 1 : Linked(ds[k], ds[k + 1], fs[k + 1])
  <2> TAKE k \in 1 .. n - 1
  <2>1. k \in 1 .. n /\ k + 1 \in 1 .. n /\ k \in 1 .. (n + 1) - 1
    BY <1>1
  <2> QED BY <1>3, <1>4, <2>1
<1>7. Stacked(ds, fs) /\ ds # <<>>
  BY <1>1, <1>3, <1>5, <1>6 DEF Stacked
<1> QED BY <1>1, <1>3, <1>7 DEF n, ds, fs

\* The bytes held are a number.
LEMMA HeldNat ==
    ASSUME NEW t \in MessageTypes, NEW m \in ReadAs(t)
    PROVE  Held(t, m) \in Nat
<1>1. \A b \in Short : Len(b) \in Nat
  BY DEF Short
<1>2. CASE t = "MsgAddSchedule"
  <2>1. m \in ReadAdds
    BY <1>2 DEF ReadAs
  <2>2. Len(m.Signer) \in Nat /\ Len(m.Contract) \in Nat /\ Len(m.CallBody) \in Nat
    BY <1>1, <2>1 DEF ReadAdds
  <2> DEFINE i == Len(m.Signer)
             j == Len(m.Contract)
             k == Len(m.CallBody)
  <2>3. Held(t, m) = i + j + k
    BY <1>2 DEF Held
  <2>4. i \in Nat /\ j \in Nat /\ k \in Nat
    BY <2>2
  <2> HIDE DEF i, j, k
  <2> QED BY <2>3, <2>4
<1>3. CASE t = "QueryScheduledCall"
  <2>1. m \in ReadCalls
    BY <1>3 DEF ReadAs
  <2>2. Len(m.Contract) \in Nat /\ Len(m.CallBody) \in Nat /\ Len(m.Signer) \in Nat
    BY <1>1, <2>1 DEF ReadCalls
  <2> DEFINE i == Len(m.Contract)
             j == Len(m.CallBody)
             k == Len(m.Signer)
  <2>3. Held(t, m) = i + j + k
    BY <1>3 DEF Held
  <2>4. i \in Nat /\ j \in Nat /\ k \in Nat
    BY <2>2
  <2> HIDE DEF i, j, k
  <2> QED BY <2>3, <2>4
<1>4. CASE t \notin {"MsgAddSchedule", "QueryScheduledCall"}
  BY <1>4 DEF Held
<1> QED BY <1>2, <1>3, <1>4

\* The message of an entry is replaced by another one of a known type.
LEMMA EntryWith ==
    ASSUME NEW e \in Entries, NEW t \in MessageTypes, NEW m \in ReadAs(t)
    PROVE  [e EXCEPT !.m = m] \in Entries /\ [e EXCEPT !.m = m].into = e.into /\ [e EXCEPT !.m = m].m = m
<1>1. m \in UNION {ReadAs(u) : u \in MessageTypes}
  OBVIOUS
<1> DEFINE M == UNION {ReadAs(u) : u \in MessageTypes}
           I == {Nil} \cup UNION {{Schema[u][n] : n \in DOMAIN Schema[u]} : u \in MessageTypes}
<1>2. Entries = [into : I, m : M]
  BY DEF Entries
<1> HIDE DEF M, I
<1> QED BY <1>1, <1>2 DEF M

\* An entry for a field of a message.
LEMMA EntryFor ==
    ASSUME NEW s \in MessageTypes, NEW f, KnownField(s, f), NEW t \in MessageTypes, NEW m \in ReadAs(t)
    PROVE  [into |-> f, m |-> m] \in Entries
<1> DEFINE M == UNION {ReadAs(u) : u \in MessageTypes}
           I == {Nil} \cup UNION {{Schema[u][n] : n \in DOMAIN Schema[u]} : u \in MessageTypes}
<1>1. m \in M
  OBVIOUS
<1>2. f \in I
  BY DEF KnownField
<1>3. Entries = [into : I, m : M]
  BY DEF Entries
<1> HIDE DEF M, I
<1> QED BY <1>1, <1>2, <1>3

\* The innermost call and its message.
LEMMA TopFacts ==
    ASSUME Generated, TypeOK, SlicesNest, Stacked(calls, msgs)
    PROVE  /\ calls \in Seq(CallType) /\ calls # <<>> /\ Len(calls) \in Nat \ {0}
           /\ msgs \in Seq(Entries) /\ Len(msgs) = Len(calls)
           /\ Call \in CallType /\ Call.type \in MessageTypes
           /\ msgs[Len(msgs)] \in Entries /\ msgs[Len(msgs)].m = Msg
           /\ Msg \in ReadAs(Call.type)
           /\ Held(Call.type, Msg) \in Nat /\ Held(Call.type, Msg) <= Call.iNdEx
<1>1. calls \in Seq(CallType) /\ calls # <<>> /\ Len(calls) \in Nat \ {0} /\ Call \in CallType
      /\ Call.type \in MessageTypes
  BY CallFacts DEF Generated, TypeOK, CallType
<1>2. msgs \in Seq(Entries) /\ Len(msgs) = Len(calls)
  BY DEF Stacked
<1>3. Len(calls) \in 1 .. Len(calls) /\ msgs[Len(msgs)] \in Entries
  BY <1>1, <1>2
<1>4. Fitting(Call, msgs[Len(msgs)])
  BY <1>2, <1>3 DEF Stacked, Call
<1>5. msgs[Len(msgs)].m = Msg
  BY DEF Msg
<1> QED BY <1>1, <1>2, <1>3, <1>4, <1>5, HeldNat DEF Fitting

\* The innermost call gets another message of its type and another index.
LEMMA Refilled ==
    ASSUME Generated, TypeOK, SlicesNest, Stacked(calls, msgs), dAtA' = dAtA,
           NEW i \in Int, 0 <= i, i <= Call.l,
           calls' = [calls EXCEPT ![Len(calls)].iNdEx = i],
           NEW m \in ReadAs(Call.type), Held(Call.type, m) <= i,
           msgs' = [msgs EXCEPT ![Len(msgs)].m = m]
    PROVE  Stacked(calls', msgs') /\ Call'.type = Call.type /\ Msg' = m
<1> DEFINE n == Len(calls)
           c == [Call EXCEPT !.iNdEx = i]
           e == [msgs[n] EXCEPT !.m = m]
<1>1. /\ calls \in Seq(CallType) /\ calls # <<>> /\ n \in Nat \ {0}
      /\ msgs \in Seq(Entries) /\ Len(msgs) = n /\ Call \in CallType /\ Call.type \in MessageTypes
      /\ msgs[n] \in Entries /\ n \in 1 .. n
  BY TopFacts
<1>2. c \in CallType /\ c.type = Call.type /\ c.iNdEx = i
  BY <1>1 DEF CallType
<1>3. e \in Entries /\ e.into = msgs[n].into /\ e.m = m
  BY <1>1, EntryWith
<1>4. Fitting(c, e)
  BY <1>2, <1>3 DEF Fitting
<1>5. calls' = [calls EXCEPT ![n] = c] /\ msgs' = [msgs EXCEPT ![n] = e]
  BY <1>1 DEF Call
<1> HIDE DEF c, e
<1>6. Stacked([calls EXCEPT ![n] = c], [msgs EXCEPT ![Len(msgs)] = e])
  <2>1. c.type = calls[Len(calls)].type /\ e.into = msgs[Len(msgs)].into
    BY <1>1, <1>2, <1>3 DEF Call
  <2> QED BY <1>1, <1>2, <1>3, <1>4, <2>1, TopSet
<1>7. Len(calls') = n /\ Len(msgs') = n /\ calls'[n] = c /\ msgs'[n] = e
  BY <1>1, <1>5
<1> QED BY <1>1, <1>2, <1>3, <1>5, <1>6, <1>7 DEF Call, Msg

\* The innermost call moves on and its message stays.
LEMMA Moved ==
    ASSUME Generated, TypeOK, SlicesNest, Stacked(calls, msgs), dAtA' = dAtA,
           NEW i \in Int, i <= Call.l, Held(Call.type, Msg) <= i,
           calls' = [calls EXCEPT ![Len(calls)].iNdEx = i], msgs' = msgs
    PROVE  Stacked(calls', msgs') /\ Call'.type = Call.type /\ Msg' = Msg
<1>1. /\ Msg \in ReadAs(Call.type) /\ Held(Call.type, Msg) \in Nat /\ msgs \in Seq(Entries)
      /\ Len(msgs) \in 1 .. Len(msgs) /\ msgs[Len(msgs)] \in Entries /\ msgs[Len(msgs)].m = Msg
  BY TopFacts
<1>2. 0 <= i
  BY <1>1
<1>3. [msgs[Len(msgs)] EXCEPT !.m = Msg] = msgs[Len(msgs)]
  <2> DEFINE M == UNION {ReadAs(u) : u \in MessageTypes}
             I == {Nil} \cup UNION {{Schema[u][n] : n \in DOMAIN Schema[u]} : u \in MessageTypes}
  <2>1. msgs[Len(msgs)] \in [into : I, m : M]
    BY <1>1 DEF Entries
  <2> HIDE DEF M, I
  <2> QED BY <1>1, <2>1
<1>4. msgs' = [msgs EXCEPT ![Len(msgs)].m = Msg]
  BY <1>1, <1>3
<1> QED BY <1>1, <1>2, <1>4, Refilled

\* A field of the message is set.
LEMMA FieldSet ==
    ASSUME Generated, TypeOK, SlicesNest, Stacked(calls, msgs), dAtA' = dAtA,
           NEW i \in Int, i <= Call.l,
           calls' = [calls EXCEPT ![Len(calls)].iNdEx = i],
           KnownField(Call.type, field), NEW v \in ValuesOf(field), SetField(v),
           field.kind = "bytes" => Held(Call.type, Msg) + Len(v) <= i,
           field.kind # "bytes" => Held(Call.type, Msg) <= i
    PROVE  Stacked(calls', msgs') /\ Call'.type = Call.type
<1> DEFINE m == [Msg EXCEPT ![field.name] = v]
<1>1. /\ Msg \in ReadAs(Call.type) /\ Held(Call.type, Msg) \in Nat /\ msgs \in Seq(Entries)
      /\ Len(msgs) \in 1 .. Len(msgs) /\ msgs[Len(msgs)] \in Entries /\ msgs[Len(msgs)].m = Msg
      /\ Call.type \in MessageTypes
  BY TopFacts
<1>2. m \in ReadAs(Call.type)
  BY <1>1, SetTyped
<1>3. /\ Held(Call.type, m) \in Nat
      /\ field.kind = "bytes" => Held(Call.type, m) <= Held(Call.type, Msg) + Len(v)
      /\ field.kind # "bytes" => Held(Call.type, m) = Held(Call.type, Msg)
  <2> DEFINE t == Call.type
             x == Msg
             f == field
  <2>1. t \in MessageTypes /\ KnownField(t, f) /\ x \in ReadAs(t) /\ v \in ValuesOf(f)
    BY <1>1
  <2> HIDE DEF t, x, f
  <2>2. /\ Held(t, [x EXCEPT ![f.name] = v]) \in Nat
        /\ f.kind = "bytes" => Held(t, [x EXCEPT ![f.name] = v]) <= Held(t, x) + Len(v)
        /\ f.kind # "bytes" => Held(t, [x EXCEPT ![f.name] = v]) = Held(t, x)
    BY <2>1, HeldSet
  <2> QED BY <2>2 DEF t, x, f
<1>4. field.kind = "bytes" => Len(v) \in Nat
  BY <1>1, FieldKinds DEF Short
<1>5. msgs' = [msgs EXCEPT ![Len(msgs)].m = m]
  BY <1>1 DEF SetField
<1> HIDE DEF m
<1>6. 0 <= i /\ Held(Call.type, m) <= i
  BY <1>1, <1>3, <1>4
<1> QED BY <1>2, <1>5, <1>6, Refilled

----------------------------------------------------------------------------
(* Steps.                                                                  *)

\* An error leaves the messages as they are.
LEMMA FailKeepsMessages ==
    ASSUME DInv, NEW e, Fail(e)
    PROVE  DInv'
BY DEF DInv, Fail, Final

\* A byte of a varint moves an index forward.
LEMMA VarintByteKeepsMessages == Generated /\ PInv /\ DInv /\ VarintByte => DInv'
<1> SUFFICES ASSUME Generated, PInv, DInv, VarintByte PROVE DInv'
  OBVIOUS
<1>0. TypeOK /\ SlicesNest /\ Stacked(calls, msgs) /\ pc \in Reading
  BY DEF PInv, IInv, DInv, VarintByte
<1>1. CASE \E e : Fail(e)
  BY <1>1, FailKeepsMessages
<1>2. CASE /\ Index < Limit
           /\ IF pc \in InSkip
              THEN skip' = [iNdEx |-> skip.iNdEx + 1, depth |-> skip.depth] /\ UNCHANGED calls
              ELSE calls' = [calls EXCEPT ![Len(calls)].iNdEx = @ + 1] /\ UNCHANGED skip
           /\ UNCHANGED <<dAtA, msgs, pc, preIndex, field, err>>
  <2>1. CASE pc \in InSkip
    BY <1>2, <2>1 DEF DInv, Call, Msg
  <2>2. CASE pc \notin InSkip
    <3>1. /\ Call.iNdEx \in Int /\ Call.l \in Nat /\ Held(Call.type, Msg) \in Nat
          /\ Held(Call.type, Msg) <= Call.iNdEx
      BY <1>0, CallFacts, TopFacts
    <3>2. Call.iNdEx < Call.l
      BY <1>2, <2>2 DEF Index, Limit
    <3>3. Call.iNdEx + 1 \in Int /\ Call.iNdEx + 1 <= Call.l /\ Held(Call.type, Msg) <= Call.iNdEx + 1
      BY <3>1, <3>2
    <3>4. calls' = [calls EXCEPT ![Len(calls)].iNdEx = Call.iNdEx + 1]
      BY <1>2, <2>2 DEF Call
    <3>5. Stacked(calls', msgs') /\ Call'.type = Call.type /\ Msg' = Msg
      BY <1>0, <1>2, <3>3, <3>4, Moved
    <3>6. pc' = pc /\ field' = field /\ preIndex' = preIndex /\ pc \notin Final
      BY <1>0, <1>2 DEF Final, Reading, InSkip
    <3> QED BY <3>5, <3>6 DEF DInv, Final
  <2> QED BY <2>1, <2>2
<1> QED BY <1>1, <1>2 DEF VarintByte

\* A field starts behind everything that was read.
LEMMA LoopKeepsMessages == Generated /\ PInv /\ DInv /\ Loop => DInv'
<1> SUFFICES ASSUME Generated, PInv, DInv, Loop PROVE DInv'
  OBVIOUS
<1>0. TypeOK /\ SlicesNest /\ Stacked(calls, msgs)
  BY DEF PInv, IInv, DInv
<1>1. /\ calls' = [calls EXCEPT ![Len(calls)].iNdEx = Call.iNdEx] /\ msgs' = msgs /\ dAtA' = dAtA
      /\ pc' = "tag" /\ preIndex' = Call.iNdEx
  BY DEF Loop, GoTo
<1>2. Call.iNdEx \in Int /\ Call.iNdEx <= Call.l /\ Held(Call.type, Msg) <= Call.iNdEx
  BY <1>0, CallFacts, TopFacts
<1>3. Stacked(calls', msgs') /\ Call'.type = Call.type /\ Msg' = Msg
  BY <1>0, <1>1, <1>2, Moved
<1> QED BY <1>1, <1>2, <1>3 DEF DInv

\* A tag selects a field of the message, or sends the index back to the tag.
LEMMA TagReadKeepsMessages == Generated /\ PInv /\ DInv /\ TagRead => DInv'
<1> SUFFICES ASSUME Generated, PInv, DInv, TagRead PROVE DInv'
  OBVIOUS
<1> DEFINE n == FieldNum(acc.v)
           wt == WireType(acc.v)
           known == Fields[Call.type]
<1>0. TypeOK /\ SlicesNest /\ SkipFrom /\ Stacked(calls, msgs) /\ pc = "tag"
  BY DEF PInv, IInv, DInv, TagRead
<1>1. /\ Call.iNdEx \in Int /\ Call.iNdEx <= Call.l /\ Call.l \in Nat
      /\ preIndex \in Nat /\ preIndex <= Call.iNdEx
      /\ Held(Call.type, Msg) <= Call.iNdEx /\ Held(Call.type, Msg) <= preIndex
  BY <1>0, CallFacts, TopFacts DEF DInv, TypeOK, SkipFrom, Final
<1>2. CASE \E e : Fail(e)
  BY <1>2, FailKeepsMessages
<1>3. CASE /\ n \in DOMAIN known
           /\ wt = Expected(known[n])
           /\ field' = known[n]
           /\ GoTo(IF wt = 0 THEN "value" ELSE "length", Call.iNdEx)
           /\ UNCHANGED <<msgs, preIndex, skip>>
  <2>1. KnownField(Call.type, field')
    BY <1>3 DEF KnownField, Generated
  <2>2. /\ pc' = "value" => field'.kind = "varint"
        /\ pc' = "length" => field'.kind # "varint"
        /\ pc' \in {"value", "length"}
    BY <1>3 DEF Expected, GoTo
  <2>3. Stacked(calls', msgs') /\ Call'.type = Call.type /\ Msg' = Msg
    BY <1>0, <1>1, <1>3, Moved DEF GoTo
  <2> QED BY <1>1, <1>3, <2>1, <2>2, <2>3 DEF DInv
<1>4. CASE /\ GoTo("skip", preIndex)
           /\ UNCHANGED <<msgs, acc, preIndex, field>>
  <2>1. preIndex \in Int /\ preIndex <= Call.l
    BY <1>1
  <2>2. Stacked(calls', msgs') /\ Call'.type = Call.type /\ Msg' = Msg
    BY <1>0, <1>1, <1>4, <2>1, Moved DEF GoTo
  <2> QED BY <1>1, <1>4, <2>2 DEF DInv, GoTo
<1> QED BY <1>2, <1>3, <1>4 DEF TagRead

\* A number is stored.
LEMMA ValueReadKeepsMessages == Generated /\ PInv /\ DInv /\ ValueRead => DInv'
<1> SUFFICES ASSUME Generated, PInv, DInv, ValueRead PROVE DInv'
  OBVIOUS
<1>0. TypeOK /\ SlicesNest /\ Stacked(calls, msgs) /\ pc = "value"
  BY DEF PInv, IInv, DInv, ValueRead
<1>1. Call.iNdEx \in Int /\ Call.iNdEx <= Call.l /\ Held(Call.type, Msg) <= Call.iNdEx
      /\ Call.type \in MessageTypes
  BY <1>0, CallFacts, TopFacts
<1>2. KnownField(Call.type, field) /\ field.kind = "varint"
  BY <1>0 DEF DInv
<1>3. acc.v \in ValuesOf(field)
  <2>1. acc.v \in Uint64s
    BY <1>0 DEF TypeOK, Uint64s
  <2>2. ValuesOf(field) = Uint64s
    BY <1>1, <1>2, FieldKinds
  <2> QED BY <2>1, <2>2
<1>4. /\ SetField(acc.v) /\ dAtA' = dAtA /\ pc' = "loop"
      /\ calls' = [calls EXCEPT ![Len(calls)].iNdEx = Call.iNdEx]
  BY DEF ValueRead, GoTo
<1>5. Stacked(calls', msgs')
  <2>1. field.kind # "bytes"
    BY <1>2
  <2> QED BY <1>0, <1>1, <1>2, <1>3, <1>4, <2>1, FieldSet
<1> QED BY <1>4, <1>5 DEF DInv, Final

\* Nothing but the locals of skipSchedule changes.
LEMMA SkipToKeepsMessages ==
    ASSUME DInv, Skipping, NEW label \in {"skip", "skipped"} \cup InSkip, NEW i, NEW d, SkipTo(label, i, d)
    PROVE  DInv'
BY DEF DInv, SkipTo, Skipping, InSkip, Final, Call, Msg

\* An unknown field is skipped: the index ends up behind its tag.
LEMMA SkipKeepsMessages ==
    Generated /\ PInv /\ DInv /\ (SkipLoop \/ SkipTagRead \/ SkipValueRead \/ SkipLengthRead \/ Skipped)
       => DInv'
<1> SUFFICES ASSUME Generated, PInv, DInv,
                    SkipLoop \/ SkipTagRead \/ SkipValueRead \/ SkipLengthRead \/ Skipped
             PROVE  DInv'
  OBVIOUS
<1>0. TypeOK /\ SlicesNest /\ SkipFrom /\ Ahead /\ Stacked(calls, msgs)
  BY DEF PInv, IInv, DInv
<1>1. Skipping
  BY DEF SkipLoop, SkipTagRead, SkipValueRead, SkipLengthRead, Skipped, Skipping, InSkip
<1>2. CASE \E e : Fail(e)
  BY <1>2, FailKeepsMessages
<1>3. CASE \E label \in {"skip", "skipped"} \cup InSkip : \E i, d : SkipTo(label, i, d)
  BY <1>1, <1>3, SkipToKeepsMessages
<1>4. CASE /\ skip.iNdEx >= 0 /\ Plus(preIndex, skip.iNdEx) \in 0 .. Call.l
           /\ GoOnAt(Plus(preIndex, skip.iNdEx))
           /\ UNCHANGED <<msgs, acc, preIndex, field, skip>>
  <2> DEFINE i == Plus(preIndex, skip.iNdEx)
  <2>1. /\ preIndex \in Nat /\ skip.iNdEx \in Int /\ skip.iNdEx < Half /\ preIndex <= Call.l
        /\ Call.l < Half /\ Call.l \in Nat /\ Half \in Nat /\ preIndex < Half
    <3>1. preIndex \in Nat /\ skip.iNdEx \in Int
      BY <1>0 DEF TypeOK
    <3>2. skip.iNdEx < Half /\ preIndex = Call.iNdEx
      BY <1>0, <1>1 DEF Ahead, SkipFrom, Skipping
    <3>3. /\ Call.off \in Nat /\ Call.l \in Nat /\ Call.off + Call.l <= Len(dAtA) /\ Len(dAtA) \in Nat
          /\ Len(dAtA) < Half /\ Call.iNdEx <= Call.l
      BY <1>0, CallFacts
    <3> QED BY <3>1, <3>2, <3>3, WordFacts
  <2>2. i \in Int /\ i <= Call.l /\ i = preIndex + skip.iNdEx
    <3>1. i \in 0 .. Call.l
      BY <1>4
    <3>2. i >= 0 => i = preIndex + skip.iNdEx
      BY <1>4, <2>1, PlusExact
    <3> HIDE DEF i
    <3> QED BY <2>1, <3>1, <3>2
  <2>3. GoTo("loop", i) /\ msgs' = msgs
    BY <1>4 DEF GoOnAt
  <2>4. Held(Call.type, Msg) <= preIndex /\ Held(Call.type, Msg) \in Nat
    BY <1>0, <1>1, TopFacts DEF DInv, Skipping, InSkip, Final
  <2> HIDE DEF i
  <2>5. Held(Call.type, Msg) <= i
    BY <1>4, <2>1, <2>2, <2>4
  <2>6. Stacked(calls', msgs') /\ pc' = "loop"
    BY <1>0, <2>2, <2>3, <2>5, Moved DEF GoTo
  <2> QED BY <2>6 DEF DInv, Final
<1> QED BY <1>2, <1>3, <1>4 DEF SkipLoop, SkipTagRead, SkipValueRead, SkipLengthRead, Skipped, InSkip

\* Some bytes are stored, or a nested message is begun.
LEMMA LengthReadKeepsMessages == Generated /\ PInv /\ DInv /\ LengthRead => DInv'
<1> SUFFICES ASSUME Generated, PInv, DInv, LengthRead PROVE DInv'
  OBVIOUS
<1> DEFINE length == ToInt(acc.v)
           postIndex == Plus(Call.iNdEx, length)
           bytes == SubSeq(dAtA, Call.off + Call.iNdEx + 1, Call.off + postIndex)
           fits == ~BadLength(length, postIndex) /\ postIndex <= Call.l
<1>0. TypeOK /\ SlicesNest /\ Ahead /\ Stacked(calls, msgs) /\ pc = "length"
  BY DEF PInv, IInv, DInv, LengthRead
<1>1. /\ Call.iNdEx \in Int /\ 0 <= Call.iNdEx /\ Call.iNdEx <= Call.l /\ Call.l \in Nat
      /\ Call.off \in Nat /\ Call.off + Call.l <= Len(dAtA) /\ Len(dAtA) \in Nat /\ Len(dAtA) < Half
      /\ preIndex \in Nat /\ acc.v \in 0 .. Word - 1 /\ dAtA \in Seq(Byte) /\ preIndex < Call.iNdEx
  BY <1>0, CallFacts DEF TypeOK, Ahead
<1>2. Call.iNdEx < Half /\ Half \in Nat
  BY <1>1, WordFacts
<1>3. length \in Int /\ length < Half
  BY <1>1, ToIntRange
<1>4. ASSUME fits
      PROVE  /\ length \in Nat /\ postIndex = Call.iNdEx + length
             /\ postIndex \in Int /\ 0 <= postIndex /\ postIndex <= Call.l
  <2> HIDE DEF length
  <2>1. 0 <= length /\ 0 <= postIndex /\ postIndex <= Call.l
    <3>1. length \in Int /\ postIndex \in Int
      BY <1>1, <1>3, PlusType
    <3> HIDE DEF postIndex
    <3> QED BY <1>4, <3>1 DEF BadLength
  <2>2. postIndex \in Int /\ (postIndex >= 0 => postIndex = Call.iNdEx + length)
    BY <1>1, <1>2, <1>3, <2>1, PlusExact
  <2> HIDE DEF postIndex
  <2> QED BY <1>3, <2>1, <2>2
<1>5. ASSUME fits PROVE bytes \in Short /\ Len(bytes) = length
  <2>1. bytes = SubSeq(dAtA, Call.off + Call.iNdEx + 1, Call.off + Call.iNdEx + length)
    <3>1. Call.off + postIndex = Call.off + Call.iNdEx + length
      <4> HIDE DEF length, postIndex
      <4> QED BY <1>1, <1>4, <1>5
    <3> QED BY <3>1
  <2>2. length \in Nat /\ Call.iNdEx + length <= Call.l
    BY <1>4, <1>5
  <2> HIDE DEF length, bytes
  <2> DEFINE o == Call.off + Call.iNdEx
  <2>3. o \in Nat /\ o + length <= Len(dAtA)
    BY <1>1, <2>2
  <2>4. bytes = SubSeq(dAtA, o + 1, o + length)
    BY <2>1
  <2> HIDE DEF o
  <2>5. bytes \in Seq(Byte) /\ Len(bytes) = length
    BY <1>1, <2>2, <2>3, <2>4
  <2> QED BY <1>3, <2>5 DEF Short
<1>6. /\ KnownField(Call.type, field) /\ field.kind # "varint" /\ Call.type \in MessageTypes
      /\ Msg \in ReadAs(Call.type) /\ Call \in CallType
      /\ Held(Call.type, Msg) \in Nat /\ Held(Call.type, Msg) <= preIndex
  BY <1>0, TopFacts DEF DInv, Final
<1>7. CASE \E e : Fail(e)
  BY <1>7, FailKeepsMessages
<1> HIDE DEF bytes, postIndex, length, fits
<1>8. CASE /\ fits /\ field.kind = "bytes"
           /\ SetField(bytes)
           /\ GoTo("loop", postIndex)
  <2>1. bytes \in ValuesOf(field)
    BY <1>5, <1>6, <1>8, FieldKinds
  <2>2. Held(Call.type, Msg) + Len(bytes) <= postIndex /\ postIndex \in Int /\ postIndex <= Call.l
    BY <1>1, <1>4, <1>5, <1>6, <1>8
  <2>3. Stacked(calls', msgs') /\ pc' = "loop"
    BY <1>0, <1>6, <1>8, <2>1, <2>2, FieldSet DEF GoTo
  <2> QED BY <2>3 DEF DInv, Final
<1>9. CASE /\ fits /\ field.kind = "text" /\ (Len(bytes) = 0 \/ IntText(bytes))
           /\ SetField(IF Len(bytes) = 0 THEN Msg[field.name] ELSE bytes)
           /\ GoTo("loop", postIndex)
  <2> DEFINE v == IF Len(bytes) = 0 THEN Msg[field.name] ELSE bytes
  <2>1. v \in ValuesOf(field)
    <3>1. ValuesOf(field) = Digits
      BY <1>6, <1>9, FieldKinds
    <3>2. Msg[field.name] \in ValuesOf(field)
      BY <1>6, <1>9, GetTyped
    <3>3. Len(bytes) # 0 => bytes \in Digits
      BY <1>5, <1>9 DEF Digits, IntText, Short
    <3> QED BY <3>1, <3>2, <3>3
  <2>2. Held(Call.type, Msg) <= postIndex /\ postIndex \in Int /\ postIndex <= Call.l
    BY <1>1, <1>4, <1>6, <1>9
  <2>3. SetField(v) /\ field.kind # "bytes" /\ GoTo("loop", postIndex)
    BY <1>9
  <2> HIDE DEF v
  <2>4. Stacked(calls', msgs') /\ pc' = "loop"
    BY <1>0, <1>6, <2>1, <2>2, <2>3, FieldSet DEF GoTo
  <2> QED BY <2>4 DEF DInv, Final
<1>10. CASE /\ fits /\ field.kind \in {"message", "repeated"}
            /\ calls' = Append(calls, Frame(field.type, Call.off + Call.iNdEx, length))
            /\ msgs' = Append(msgs, [into |-> field, m |-> Inner])
            /\ pc' = "loop"
  <2> DEFINE t == field.type
             c == Frame(t, Call.off + Call.iNdEx, length)
             e == [into |-> field, m |-> Inner]
  <2>1. t \in MessageTypes
    BY <1>6, <1>10, FieldKinds DEF MessageTypes
  <2>2. Inner \in ReadAs(t) /\ Held(t, Inner) = 0
    <3>1. Zero[t] \in ReadAs(t) /\ Held(t, Zero[t]) = 0
      BY <2>1, ResetTyped DEF Generated
    <3>2. CASE field.kind = "repeated" \/ Msg[field.name] = Nil
      BY <3>1, <3>2 DEF Inner
    <3>3. CASE field.kind = "message" /\ Msg[field.name] # Nil
      <4>1. Inner = Msg[field.name]
        BY <3>3 DEF Inner
      <4>2. Msg[field.name] \in ReadAs(t) /\ t \in {"Coin", "Params"}
        BY <1>6, <3>3, GetTyped, FieldKinds
      <4> QED BY <4>1, <4>2 DEF Held
    <3> QED BY <1>10, <3>2, <3>3
  <2>3. c \in CallType /\ c.type = t /\ c.iNdEx = 0
    <3>1. Call.off + Call.iNdEx \in Nat /\ length \in Nat
      BY <1>1, <1>4, <1>10
    <3>2. t \in Types
      BY <2>1 DEF Generated
    <3> QED BY <3>1, <3>2 DEF Frame, CallType
  <2>4. e \in Entries /\ e.into = field /\ e.m = Inner
    BY <1>6, <2>1, <2>2, EntryFor
  <2>5. calls' = Append(calls, c) /\ msgs' = Append(msgs, e)
    BY <1>10
  <2> HIDE DEF c, e
  <2>6. Fitting(c, e)
    BY <2>2, <2>3, <2>4 DEF Fitting
  <2>7. Linked(calls[Len(calls)], c, e)
    BY <1>6, <1>10, <2>3, <2>4 DEF Linked, Call
  <2>8. calls \in Seq(CallType) /\ calls # <<>>
    BY <1>0, TopFacts
  <2>9. Stacked(calls', msgs')
    BY <1>0, <2>3, <2>4, <2>5, <2>6, <2>7, <2>8, Push
  <2> QED BY <1>10, <2>9 DEF DInv, Final
<1> QED BY <1>7, <1>8, <1>9, <1>10 DEF LengthRead, bytes, postIndex, length, fits

\* A message that was read is a value of the field it was read for, or makes one
\* with those that are there.
LEMMA ReturnedFits ==
    ASSUME NEW s \in MessageTypes, NEW f, KnownField(s, f), NEW x \in ReadAs(s), NEW m \in Listed(f.type)
    PROVE  /\ f.kind = "message" => m \in ValuesOf(f)
           /\ f.kind = "repeated" => Append(x[f.name], m) \in ValuesOf(f)
<1>1. f.kind = "message" => m \in ValuesOf(f)
  BY FieldKinds DEF Listed
<1>2. ASSUME f.kind = "repeated" PROVE Append(x[f.name], m) \in ValuesOf(f)
  <2>1. x[f.name] \in Seq(Listed(f.type)) /\ ValuesOf(f) = Seq(Listed(f.type))
    BY <1>2, GetTyped, FieldKinds
  <2> QED BY <2>1
<1> QED BY <1>1, <1>2

\* A message that is complete is stored in that of the caller.
LEMMA ReturnKeepsMessages == Generated /\ PInv /\ DInv /\ Return => DInv'
<1> SUFFICES ASSUME Generated, PInv, DInv, Return PROVE DInv'
  OBVIOUS
<1>0. TypeOK /\ SlicesNest /\ Stacked(calls, msgs) /\ pc = "loop"
  BY DEF PInv, IInv, DInv, Return
<1>1. CASE \E e : Fail(e)
  BY <1>1, FailKeepsMessages
<1>2. CASE Len(calls) = 1 /\ Finish
  BY <1>0, <1>2 DEF Finish, DInv, Final
<1> DEFINE n == Len(calls) - 1
           into == msgs[n + 1].into
<1>3. CASE /\ Len(calls) > 1
           /\ calls' = [Outer(calls) EXCEPT ![n].iNdEx = @ + Call.l]
           /\ msgs' = [Outer(msgs) EXCEPT ![n].m[into.name] =
                         IF into.kind = "repeated" THEN Append(@, Msg) ELSE Msg]
           /\ UNCHANGED <<dAtA, pc, acc, preIndex, field, skip, err>>
  <2> DEFINE caller == calls[n]
             old == msgs[n]
             v == IF into.kind = "repeated" THEN Append(old.m[into.name], Msg) ELSE Msg
             m == [old.m EXCEPT ![into.name] = v]
             c == [caller EXCEPT !.iNdEx = caller.iNdEx + Call.l]
             e == [old EXCEPT !.m = m]
  <2>1. /\ calls \in Seq(CallType) /\ Len(calls) \in Nat /\ msgs \in Seq(Entries)
        /\ Len(msgs) = Len(calls) /\ Call \in CallType /\ Call.type \in MessageTypes
        /\ Msg \in ReadAs(Call.type) /\ Held(Call.type, Msg) \in Nat /\ Held(Call.type, Msg) <= Call.iNdEx
    BY <1>0, TopFacts
  <2>2. n \in Nat \ {0} /\ Len(calls) = n + 1 /\ n \in 1 .. n /\ n \in 1 .. n + 1
    <3>1. n \in Nat \ {0} /\ Len(calls) = n + 1
      BY <1>3, <2>1, CallerBelow, Zenon
    <3> HIDE DEF n
    <3> QED BY <3>1
  <2>3. /\ Stacked(Outer(calls), Outer(msgs))
        /\ Outer(calls) \in Seq(CallType) /\ Outer(calls) # <<>>
        /\ Len(Outer(calls)) = n /\ Len(Outer(msgs)) = n
        /\ Outer(calls)[n] = caller /\ Outer(msgs)[n] = old
    BY <1>0, <1>3, <2>1, Pop
  <2>4. /\ calls' = [Outer(calls) EXCEPT ![n].iNdEx = @ + Call.l]
        /\ msgs' = [Outer(msgs) EXCEPT ![n].m[into.name] =
                         IF into.kind = "repeated" THEN Append(@, Msg) ELSE Msg]
    BY <1>3
  <2> HIDE DEF n
  <2>5. caller \in CallType /\ old \in Entries /\ calls[n + 1] = Call /\ msgs[n + 1].m = Msg
    BY <2>1, <2>2 DEF Call, Msg
  <2>6. Fitting(caller, old) /\ Linked(caller, Call, msgs[n + 1])
    <3>1. n \in 1 .. Len(calls) /\ n \in 1 .. Len(calls) - 1
      BY <2>2
    <3> QED BY <1>0, <2>5, <3>1 DEF Stacked
  <2>7. /\ caller.type \in MessageTypes /\ old.m \in ReadAs(caller.type)
        /\ Held(caller.type, old.m) <= caller.iNdEx /\ caller.iNdEx \in Int
        /\ KnownField(caller.type, into) /\ into.kind \in {"message", "repeated"}
        /\ into.type = Call.type
    BY <2>5, <2>6 DEF Fitting, Linked, CallType, Generated
  <2>8. Held(Call.type, Msg) < Half /\ Call.l \in Nat
    <3>1. /\ Call.off \in Nat /\ Call.l \in Nat /\ Call.off + Call.l <= Len(dAtA) /\ Len(dAtA) \in Nat
          /\ Len(dAtA) < Half /\ Call.iNdEx <= Call.l /\ Call.iNdEx \in Int
      BY <1>0, CallFacts
    <3> QED BY <2>1, <3>1, WordFacts
  <2>9. m \in ReadAs(caller.type) /\ Held(caller.type, m) = Held(caller.type, old.m)
    <3> DEFINE x == old.m
               f == into
               s == caller.type
               y == Msg
               w == v
    <3>1. /\ s \in MessageTypes /\ KnownField(s, f) /\ f.kind \in {"message", "repeated"}
          /\ x \in ReadAs(s) /\ y \in Listed(f.type)
      BY <2>1, <2>7, <2>8 DEF Listed
    <3>2. w = IF f.kind = "repeated" THEN Append(x[f.name], y) ELSE y
      OBVIOUS
    <3> HIDE DEF x, f, s, y, w
    <3>3. /\ f.kind = "message" => y \in ValuesOf(f)
          /\ f.kind = "repeated" => Append(x[f.name], y) \in ValuesOf(f)
      BY <3>1, ReturnedFits
    <3>4. w \in ValuesOf(f) /\ f.kind # "bytes"
      BY <3>1, <3>2, <3>3
    <3>5. [x EXCEPT ![f.name] = w] \in ReadAs(s)
      BY <3>1, <3>4, SetTyped
    <3>6. Held(s, [x EXCEPT ![f.name] = w]) = Held(s, x)
      BY <3>1, <3>4, HeldSet
    <3> QED BY <3>5, <3>6 DEF x, f, s, w
  <2>10. c \in CallType /\ c.type = caller.type /\ c.iNdEx = caller.iNdEx + Call.l
    <3>1. caller.iNdEx + Call.l \in Int
      BY <2>7, <2>8
    <3> HIDE DEF caller
    <3> QED BY <2>5, <3>1 DEF CallType
  <2>11. e \in Entries /\ e.into = old.into /\ e.m = m
    <3> HIDE DEF m
    <3> QED BY <2>5, <2>7, <2>9, EntryWith
  <2>12. calls' = [Outer(calls) EXCEPT ![n] = c] /\ msgs' = [Outer(msgs) EXCEPT ![n] = e]
    <3>1. n \in DOMAIN Outer(calls) /\ n \in DOMAIN Outer(msgs)
      <4>1. Outer(msgs) \in Seq(Entries)
        BY <2>3 DEF Stacked
      <4> QED BY <2>2, <2>3, <4>1
    <3> QED BY <2>3, <2>4, <3>1
  <2>13. Fitting(c, e)
    <3>1. Held(caller.type, old.m) \in Nat
      BY <2>7, HeldNat
    <3>2. Held(caller.type, m) <= caller.iNdEx + Call.l
      <4> HIDE DEF caller, old, m
      <4> QED BY <2>7, <2>8, <2>9, <3>1
    <3> HIDE DEF c, e, m, caller
    <3> QED BY <2>9, <2>10, <2>11, <3>2 DEF Fitting
  <2>14. Stacked(calls', msgs')
    <3> HIDE DEF c, e, caller, old
    <3>1. c.type = Outer(calls)[Len(Outer(calls))].type /\ e.into = Outer(msgs)[Len(Outer(msgs))].into
      BY <2>3, <2>10, <2>11
    <3>2. Stacked([Outer(calls) EXCEPT ![Len(Outer(calls))] = c],
                  [Outer(msgs) EXCEPT ![Len(Outer(msgs))] = e])
      BY <2>3, <2>10, <2>11, <2>13, <3>1, TopSet
    <3> QED BY <2>3, <2>12, <3>2
  <2> QED BY <1>0, <1>3, <2>14 DEF DInv, Final
<1> QED BY <1>1, <1>2, <1>3 DEF Return

----------------------------------------------------------------------------
(* Theorems.                                                               *)

\* The messages fit to the calls and the bytes behind the index, on every input.
THEOREM MessagesInvariance ==
    ASSUME Generated
    PROVE  Spec => [](PInv /\ DInv)
<1>1. UnmarshalVarsInit => DInv
  <2> SUFFICES ASSUME UnmarshalVarsInit PROVE DInv
    OBVIOUS
  <2>1. PICK in \in Inputs : UnmarshalInit(in[1], in[2])
    BY DEF UnmarshalVarsInit
  <2> DEFINE t == in[1]
             e == [into |-> Nil, m |-> Zero[t]]
             c == Frame(t, 0, Len(in[2]))
  <2>2. t \in MessageTypes
    BY UnmarshalAssumption DEF Generated
  <2>3. Zero[t] \in ReadAs(t) /\ Held(t, Zero[t]) = 0
    BY <2>2, ResetTyped DEF Generated
  <2>4. e \in Entries
    <3> DEFINE M == UNION {ReadAs(u) : u \in MessageTypes}
               I == {Nil} \cup UNION {{Schema[u][n] : n \in DOMAIN Schema[u]} : u \in MessageTypes}
    <3>1. Zero[t] \in M /\ Nil \in I
      BY <2>2, <2>3
    <3>2. Entries = [into : I, m : M]
      BY DEF Entries
    <3> HIDE DEF M, I
    <3> QED BY <3>1, <3>2
  <2>5. Fitting(c, e)
    BY <2>3 DEF Fitting, Frame
  <2>6. calls = <<c>> /\ msgs = <<e>> /\ pc = "loop"
    BY <2>1 DEF UnmarshalInit
  <2> HIDE DEF c, e
  <2>7. Stacked(calls, msgs)
    <3>1. msgs \in Seq(Entries) /\ Len(msgs) = 1 /\ Len(calls) = 1 /\ calls[1] = c /\ msgs[1] = e
      BY <2>4, <2>6
    <3> QED BY <2>5, <3>1 DEF Stacked
  <2> QED BY <2>6, <2>7 DEF DInv, Final
<1>2. UnmarshalVarsInit /\ IInv => PInv
  BY InitAhead DEF PInv
<1>3. ASSUME PInv, DInv, [Step]_vars PROVE PInv' /\ DInv'
  <2>1. CASE Step
    <3>1. PInv'
      BY <1>3, <2>1, StepMovesOn
    <3>2. DInv'
      BY <1>3, <2>1, VarintByteKeepsMessages, LoopKeepsMessages, TagReadKeepsMessages,
         ValueReadKeepsMessages, LengthReadKeepsMessages, ReturnKeepsMessages, SkipKeepsMessages DEF Step
    <3> QED BY <3>1, <3>2
  <2>2. CASE UNCHANGED vars
    <3>1. IInv'
      BY <1>3, <2>2 DEF PInv, IInv, vars, TypeOK, SlicesNest, SkipFrom, Call
    <3>2. Ahead'
      BY <1>3, <2>2 DEF PInv, vars, Ahead, Call, Skipping
    <3>3. DInv'
      BY <1>3, <2>2 DEF vars, DInv, Call, Msg
    <3> QED BY <3>1, <3>2, <3>3 DEF PInv
  <2> QED BY <1>3, <2>1, <2>2
<1>4. Spec => []IInv
  BY UnmarshalInvariance
<1> QED BY <1>1, <1>2, <1>3, <1>4, PTL DEF Spec

\* Every message that the generated decoders accept, of every byte string, can
\* be written again: the buffer that Size() reserves is filled exactly.
THEOREM ReceivedIsFilled ==
    ASSUME Generated
    PROVE  Spec => []Filled
<1>1. ASSUME PInv, DInv PROVE Filled
  <2> SUFFICES ASSUME pc = "done" PROVE Fills(Type, Msg)
    BY DEF Filled
  <2>1. Len(calls) = 1 /\ Stacked(calls, msgs) /\ TypeOK /\ SlicesNest
    BY <1>1 DEF DInv, PInv, IInv
  <2>2. Call = calls[1] /\ Call.type \in MessageTypes /\ Msg \in ReadAs(Call.type)
    BY <2>1, TopFacts DEF Call
  <2>3. Msg \in MessagesOf(Type) /\ Type \in MessageTypes
    BY <2>2, ReadIsMessage DEF Type
  <2> QED BY <2>3, SizeIsExact
<1> QED BY <1>1, MessagesInvariance, PTL

=============================================================================
