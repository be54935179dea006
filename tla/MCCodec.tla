------------------------------ MODULE MCCodec ------------------------------
(***************************************************************************)
(* Inputs for Codec: the encodings of sample messages, their prefixes,     *)
(* pairs of encodings one after the other, every short string over a small *)
(* alphabet, and strings chosen for the edges of the integers.             *)
(***************************************************************************)
EXTENDS Codec

CONSTANTS
    Alphabet,       \* bytes of the enumerated strings
    MaxLength,      \* bound: length of the enumerated strings
    Enumerated      \* the types the enumerated strings are read as

Strings == {<<>>, <<1, 2>>}
Numbers == {0, 1, 300, Word - 1}
Coins == {[Denom |-> d, Amount |-> a] : d \in {<<>>, <<98>>}, a \in {<<48>>, <<55>>}}
OneCoin == [Denom |-> <<98>>, Amount |-> <<55>>]
Balances == {Nil} \cup Coins
Long == [j \in 1 .. 130 |-> 7]

SomeParams == [MinimumBalance : Coins, UpperBound : Numbers]

SomeAdds == [Signer : Strings, Contract : Strings, CallBody : Strings, BlockHeight : {0, 300}]

SomeCalls == [Contract : Strings, CallBody : Strings, Height : {0, Word - 1}, Signer : Strings]

\* Lists of at most two members of a few.
Lists(S) == UNION {[1 .. n -> S] : n \in 0 .. 2}

OneCall == [Contract |-> <<1>>, CallBody |-> <<2>>, Height |-> 3, Signer |-> <<4>>]
OneAdd == [Signer |-> <<4>>, Contract |-> <<1>>, CallBody |-> Long, BlockHeight |-> 9]

MCSamples == [t \in MessageTypes |->
    CASE t = "Coin" -> Coins
      [] t = "ScheduledCall" -> [CallBody : Strings \cup {Long}]
      [] t = "Params" -> SomeParams
      [] t = "MsgAddSchedule" -> SomeAdds
      [] t = "MsgRemoveSchedule" -> [Signer : Strings \cup {Long}, Contract : Strings]
      [] t = "QueryParamsResponse" -> [Params : SomeParams]
      [] t = "QueryScheduledCall" -> SomeCalls
      [] t = "QueryScheduledCallsResponse" -> [Calls : Lists({QueryScheduledCall, OneCall})]
      [] t = "AddScheduledCallEvent" ->
            [BlockHeight : {0, 5}, ScheduledHeight : {0, 300}, Signer : Strings,
             Contract : Strings, Balance : {Nil, OneCoin},
             CallBody : {<<>>, <<9>>}]
      [] t = "ExecuteScheduledCallEvent" ->
            [BlockHeight : {0, 5}, Gas : Balances, Signer : {<<1>>}, Contract : Strings,
             BalanceBefore : Balances, CallBody : {<<>>, <<9>>}]
      [] t = "RemoveScheduledCallEvent" ->
            [BlockHeight : {0, Word - 1}, Signer : Strings, Contract : Strings,
             Balance : Balances, CallBody : {<<>>, <<9>>}]
      [] t = "GenesisState" ->
            [Params : {[MinimumBalance |-> OneCoin, UpperBound |-> n] : n \in {0, 300}},
             ScheduledCalls : Lists({MsgAddSchedule, OneAdd})]
      [] OTHER -> {None}]

\* Samples whose encoding is not the longest: prefixes and pairs are of these.
Small(t) == {s \in {Marshalled(t, m) : m \in MCSamples[t]} : Len(s) <= 12}

Prefixes(t) == UNION {{SubSeq(s, 1, n) : n \in 0 .. Len(s)} : s \in Small(t)}

Joined(t) == {s \o u : s, u \in {s \in Small(t) : Len(s) <= 6}}

Short == UNION {[1 .. n -> Alphabet] : n \in 0 .. MaxLength}

(***************************************************************************)
(* With 16 bit words: a field number that comes out as 1 and one that      *)
(* comes out negative, a length that reaches the largest int from behind   *)
(* another field, known or not, a varint of one byte too many, an unknown  *)
(* field that is cut off, an amount that is not a number, a message in two *)
(* parts, nested groups and a group with fields of every wire type.        *)
(***************************************************************************)
Edges ==
    {<<138, 16, 1, 7>>, <<130, 8>>, <<10, 0, 58, 251, 255, 1>>, <<10, 0, 10, 251, 255, 1>>,
     <<58, 255, 255, 3>>, <<59, 58, 255, 255, 3>>, <<59, 58, 255, 255, 1, 60>>,
     <<128, 128, 128, 0>>, <<58, 5, 1>>, <<18, 1, 65>>, <<10, 3, 18, 1, 65>>,
     <<10, 3, 18, 1, 55, 10, 3, 10, 1, 98>>, <<10, 2, 16, 7, 10, 5, 10, 3, 18, 1, 55>>, <<42, 3, 18, 1, 55>>,
     <<56, 255, 255, 255, 255>>, <<59, 59, 60, 60>>, <<59, 59, 60>>,
     <<59, 61, 1, 2, 3, 4, 57, 1, 2, 3, 4, 5, 6, 7, 8, 58, 1, 9, 56, 255, 0, 60>>}

MCInputs ==
    UNION {{t} \X ({Marshalled(t, m) : m \in MCSamples[t]} \cup Prefixes(t) \cup Joined(t) \cup Edges)
              : t \in MessageTypes}
    \cup Enumerated \X Short

\* The theorems about the decoders and what was marshalled are about this run.
Proved == INSTANCE RoundTripProofs

ASSUME HypothesesHold ==
    Proved!Generated /\ Proved!Wide /\ Proved!Sampled /\ Proved!NilIsNoCoin

=============================================================================
