--------------------------- MODULE UnmarshalProofs ---------------------------
(***************************************************************************)
(* TLAPS proofs about Unmarshal, for every table of fields, every word     *)
(* size and every input: the variables keep their types and no index       *)
(* leaves the bytes it belongs to.                                         *)
(***************************************************************************)
EXTENDS Unmarshal, TLAPS

\* What ties the locals of skipSchedule to its caller: it reads from where the
\* current field starts, and between two fields its index is not negative.
SkipFrom ==
    /\ pc = "tag" => preIndex <= Call.iNdEx
    /\ pc \in InSkip \cup {"skip", "skipped"} => preIndex = Call.iNdEx
    /\ pc \in InSkip \cup {"skip"} => skip.iNdEx >= 0

\* The inductive invariant.
IInv == TypeOK /\ SlicesNest /\ SkipFrom

CallType == [type : Types, off : Nat, l : Nat, iNdEx : Int]

----------------------------------------------------------------------------
(* Words.                                                                  *)

\* A word is two halves, of at least one each.
LEMMA WordFacts ==
    /\ Word \in Nat \ {0} /\ Half \in Nat \ {0} /\ Word = Half + Half
    /\ WordBits \in Nat \ {0}
<1>1. WordBits \in Nat \ {0} /\ WordBits \in 0 .. WordBits /\ WordBits - 1 \in 0 .. WordBits
  BY WireAssumption
<1>2. 2 ^ WordBits \in Nat \ {0} /\ 2 ^ (WordBits - 1) \in Nat \ {0}
  BY <1>1, WireAssumption
<1>3. 2 ^ ((WordBits - 1) + 1) = 2 * 2 ^ (WordBits - 1) /\ (WordBits - 1) + 1 = WordBits
  BY <1>1, WireAssumption
<1> QED
  BY <1>1, <1>2, <1>3 DEF Word, Half

\* A converted uint64 is below the first number that is no int.
LEMMA ToIntRange ==
    ASSUME NEW v \in 0 .. Word - 1
    PROVE  ToInt(v) \in Int /\ ToInt(v) < Half
BY WordFacts DEF ToInt

\* A sum of two ints that are not negative is either right or negative.
LEMMA PlusExact ==
    ASSUME NEW a \in Int, NEW b \in Int, 0 <= a, a < Half, 0 <= b, b < Half
    PROVE  /\ Plus(a, b) \in Int
           /\ Plus(a, b) >= 0 => Plus(a, b) = a + b
           /\ Plus(a, b) < Half
BY WordFacts DEF Plus

\* A sum that may wrap around is an integer.
LEMMA PlusType ==
    ASSUME NEW a \in Int, NEW b \in Int
    PROVE  Plus(a, b) \in Int
BY WordFacts DEF Plus

\* A varint stays within its word.
LEMMA OrShiftedType ==
    ASSUME NEW v \in 0 .. Word - 1, NEW b \in Byte, NEW s \in Nat, s < WordBits
    PROVE  OrShifted(v, b, s) \in 0 .. Word - 1
<1>1. 2 ^ s \in Nat
  BY WordFacts, WireAssumption
<1>2. b % 128 \in Nat
  BY DEF Byte
<1> DEFINE p == (b % 128) * 2 ^ s
<1>3. p \in Nat
  BY <1>1, <1>2
<1>4. v + p \in Nat
  BY <1>3, WordFacts
<1>5. (v + p) % Word \in 0 .. Word - 1
  <2> DEFINE n == v + p
  <2> HIDE DEF n
  <2> SUFFICES ASSUME n \in Nat PROVE n % Word \in 0 .. Word - 1
    BY <1>4 DEF n
  <2> QED BY WordFacts
<1> QED BY <1>5 DEF OrShifted

----------------------------------------------------------------------------
(* Steps.  What happens to the variables IInv speaks of.                   *)

\* The innermost call is the top of a stack that is not empty, and within the input.
LEMMA CallFacts ==
    ASSUME TypeOK, SlicesNest
    PROVE  /\ Len(calls) \in Nat \ {0} /\ Len(calls) \in DOMAIN calls
           /\ DOMAIN calls = 1 .. Len(calls)
           /\ Call \in CallType
           /\ Call.off \in Nat /\ Call.l \in Nat /\ Call.iNdEx \in Int /\ Call.type \in Types
           /\ 0 <= Call.iNdEx /\ Call.iNdEx <= Call.l /\ Call.off + Call.l <= Len(dAtA)
           /\ Len(dAtA) \in Nat /\ Len(dAtA) < Half
<1>1. calls \in Seq(CallType) /\ calls # <<>>
  BY DEF TypeOK, CallType
<1>2. Len(calls) \in Nat \ {0} /\ Len(calls) \in DOMAIN calls /\ DOMAIN calls = 1 .. Len(calls)
  BY <1>1
<1>3. Call \in CallType
  BY <1>1, <1>2 DEF Call
<1>4. 0 <= Call.iNdEx /\ Call.iNdEx <= Call.l /\ Call.off + Call.l <= Len(dAtA)
  BY <1>2 DEF SlicesNest, Call
<1>5. Len(dAtA) \in Nat /\ Len(dAtA) < Half
  BY DEF TypeOK
<1> QED
  BY <1>2, <1>3, <1>4, <1>5 DEF CallType

\* The index of the innermost call moves within its slice.
LEMMA MoveIndex ==
    ASSUME TypeOK, SlicesNest, NEW i \in Int, 0 <= i, i <= Call.l,
           calls' = [calls EXCEPT ![Len(calls)].iNdEx = i], dAtA' = dAtA
    PROVE  /\ calls' \in Seq(CallType) /\ calls' # <<>> /\ Len(calls') = Len(calls)
           /\ SlicesNest'
           /\ Call' = [Call EXCEPT !.iNdEx = i]
           /\ Call'.iNdEx = i /\ Call'.l = Call.l
<1> DEFINE n == Len(calls)
<1>1. calls \in Seq(CallType) /\ n \in Nat \ {0} /\ n \in DOMAIN calls /\ DOMAIN calls = 1 .. n
      /\ Call \in CallType /\ calls[n] = Call
  BY CallFacts DEF TypeOK, CallType, Call
<1>2. [Call EXCEPT !.iNdEx = i] \in CallType
  BY <1>1 DEF CallType
<1>3. calls' = [calls EXCEPT ![n] = [Call EXCEPT !.iNdEx = i]]
  BY <1>1
<1>4. calls' \in Seq(CallType) /\ Len(calls') = n /\ calls' # <<>>
  BY <1>1, <1>2, <1>3
<1>5. DOMAIN calls' = DOMAIN calls
  BY <1>3
<1>6. \A k \in DOMAIN calls : /\ calls'[k].off = calls[k].off /\ calls'[k].l = calls[k].l
                              /\ k # n => calls'[k] = calls[k]
  <2> SUFFICES ASSUME NEW k \in DOMAIN calls
               PROVE  /\ calls'[k].off = calls[k].off /\ calls'[k].l = calls[k].l
                      /\ k # n => calls'[k] = calls[k]
    OBVIOUS
  <2>1. CASE k = n
    BY <2>1, <1>1, <1>3 DEF CallType
  <2>2. CASE k # n
    BY <2>2, <1>1, <1>3
  <2> QED BY <2>1, <2>2
<1>7. calls'[n] = [Call EXCEPT !.iNdEx = i] /\ calls'[n].iNdEx = i
  BY <1>1, <1>3 DEF CallType
<1>8. Call' = [Call EXCEPT !.iNdEx = i] /\ Call'.iNdEx = i /\ Call'.l = Call.l
  BY <1>1, <1>4, <1>7 DEF Call, CallType
<1>9. SlicesNest'
  <2>1. ASSUME NEW k \in DOMAIN calls'
        PROVE  /\ 0 <= calls'[k].iNdEx /\ calls'[k].iNdEx <= calls'[k].l
               /\ calls'[k].off + calls'[k].l <= Len(dAtA')
    <3>1. CASE k = n
      BY <3>1, <1>1, <1>5, <1>6, <1>7, CallFacts
    <3>2. CASE k # n
      BY <3>2, <1>5, <1>6 DEF SlicesNest
    <3> QED BY <3>1, <3>2
  <2>2. ASSUME NEW k \in DOMAIN calls', k < Len(calls')
        PROVE  /\ calls'[k + 1].off = calls'[k].off + calls'[k].iNdEx
               /\ calls'[k].iNdEx + calls'[k + 1].l <= calls'[k].l
    <3>1. k \in DOMAIN calls /\ k # n /\ k + 1 \in DOMAIN calls /\ k < Len(calls)
      BY <2>2, <1>1, <1>4, <1>5
    <3>2. calls'[k] = calls[k] /\ calls'[k + 1].off = calls[k + 1].off /\ calls'[k + 1].l = calls[k + 1].l
      BY <3>1, <1>6
    <3> QED BY <3>1, <3>2 DEF SlicesNest
  <2> QED BY <2>1, <2>2 DEF SlicesNest
<1> QED BY <1>4, <1>8, <1>9

\* Nothing that IInv speaks of moves but the label, which is a final one.
LEMMA FailKeepsInv ==
    ASSUME IInv, NEW e, Fail(e)
    PROVE  IInv'
<1> USE DEF IInv, Fail
<1>1. TypeOK'
  BY DEF TypeOK, Labels, Reading, InSkip, Final
<1>2. SlicesNest'
  BY DEF SlicesNest
<1>3. SkipFrom'
  BY DEF SkipFrom, InSkip
<1> QED BY <1>1, <1>2, <1>3

\* The calls stay and skipSchedule goes on with other locals.
LEMMA SkipToKeepsInv ==
    ASSUME IInv, NEW label \in {"skip", "skipped"} \cup InSkip, NEW i \in Int, NEW d \in Nat,
           pc \in InSkip \cup {"skip", "skipped"},
           i >= 0 \/ label = "skipped",
           SkipTo(label, i, d)
    PROVE  IInv'
<1> USE DEF IInv, SkipTo
<1>1. NewVarint \in [shift : Nat, v : 0 .. Word - 1, more : BOOLEAN]
  BY WordFacts DEF NewVarint
<1>2. TypeOK'
  BY <1>1 DEF TypeOK, Labels, Reading, InSkip, Final
<1>3. SlicesNest'
  BY DEF SlicesNest
<1>4. Call' = Call
  BY DEF Call
<1>5. SkipFrom'
  BY <1>4 DEF SkipFrom, InSkip
<1> QED BY <1>2, <1>3, <1>5

\* A varint starts within its word.
LEMMA NewVarintType == NewVarint \in [shift : Nat, v : 0 .. Word - 1, more : BOOLEAN]
BY WordFacts DEF NewVarint

\* A label outside of skipSchedule is reached with an index inside the slice.
LEMMA GoToKeepsInv ==
    ASSUME IInv, NEW label \in {"loop", "skip", "tag", "value", "length"},
           NEW i \in Int, 0 <= i, i <= Call.l,
           GoTo(label, i),
           acc' \in [shift : Nat, v : 0 .. Word - 1, more : BOOLEAN],
           skip' \in [iNdEx : Int, depth : Nat],
           preIndex' \in Nat,
           label = "tag" => preIndex' <= i,
           label = "skip" => preIndex' = i /\ skip'.iNdEx = 0,
           label \in {"value", "length"} =>
               \E t \in Types : \E n \in DOMAIN Fields[t] : field' = Fields[t][n]
    PROVE  IInv'
<1>1. /\ calls' \in Seq(CallType) /\ calls' # <<>>
      /\ SlicesNest'
      /\ Call'.iNdEx = i
  BY MoveIndex DEF GoTo, IInv
<1>2. TypeOK'
  BY <1>1 DEF GoTo, IInv, TypeOK, CallType, Labels, Reading, InSkip, Final
<1>3. SkipFrom'
  BY <1>1 DEF GoTo, SkipFrom, InSkip
<1> QED BY <1>1, <1>2, <1>3 DEF IInv

\* A byte is read only in front of the end of the slice, so the index stays in it.
LEMMA VarintByteKeepsInv == IInv /\ VarintByte => IInv'
<1> SUFFICES ASSUME IInv, VarintByte PROVE IInv'
  OBVIOUS
<1>1. CASE \E e : Fail(e)
  BY <1>1, FailKeepsInv
<1>2. CASE /\ acc.shift < WordBits /\ Index < Limit
           /\ LET b == dAtA[Base + Index + 1] IN
              acc' = [shift |-> acc.shift + 7, v |-> OrShifted(acc.v, b, acc.shift), more |-> b >= 128]
           /\ IF pc \in InSkip
              THEN skip' = [iNdEx |-> skip.iNdEx + 1, depth |-> skip.depth] /\ UNCHANGED calls
              ELSE calls' = [calls EXCEPT ![Len(calls)].iNdEx = @ + 1] /\ UNCHANGED skip
           /\ UNCHANGED <<dAtA, msgs, pc, preIndex, field, err>>
  <2> DEFINE b == dAtA[Base + Index + 1]
  <2>0. TypeOK /\ SlicesNest /\ SkipFrom /\ pc \in Reading
    BY DEF IInv, VarintByte
  <2>1. Base + Index + 1 \in 1 .. Len(dAtA)
    <3>0. /\ Call.off \in Nat /\ Call.l \in Nat /\ Call.iNdEx \in Int
          /\ 0 <= Call.iNdEx /\ Call.off + Call.l <= Len(dAtA) /\ Len(dAtA) \in Nat
          /\ preIndex \in Nat /\ skip.iNdEx \in Int
      BY <2>0, CallFacts DEF TypeOK
    <3>1. CASE pc \in InSkip
      <4>1. preIndex = Call.iNdEx /\ skip.iNdEx >= 0
        BY <3>1, <2>0 DEF SkipFrom
      <4>2. Index = skip.iNdEx /\ Limit = Call.l - preIndex /\ Base = Call.off + preIndex
        BY <3>1 DEF Index, Limit, Base
      <4>3. Index < Limit
        BY <1>2
      <4> HIDE DEF Index, Limit, Base
      <4> QED BY <3>0, <4>1, <4>2, <4>3, SMTT(30)
    <3>2. CASE pc \notin InSkip
      BY <3>0, <3>2, <1>2 DEF Index, Limit, Base
    <3> QED BY <3>1, <3>2
  <2>2. b \in Byte
    BY <2>0, <2>1 DEF TypeOK
  <2>3. acc.shift \in Nat /\ acc.v \in 0 .. Word - 1
    BY <2>0 DEF TypeOK
  <2>4. OrShifted(acc.v, b, acc.shift) \in 0 .. Word - 1
    BY <2>2, <2>3, <1>2, OrShiftedType
  <2>5. acc' \in [shift : Nat, v : 0 .. Word - 1, more : BOOLEAN]
    BY <1>2, <2>2, <2>3, <2>4 DEF Byte
  <2>6. CASE pc \in InSkip
    <3>1. skip' \in [iNdEx : Int, depth : Nat] /\ skip'.iNdEx = skip.iNdEx + 1
      BY <2>6, <2>0, <1>2 DEF TypeOK
    <3>2. TypeOK'
      BY <2>6, <2>0, <1>2, <2>5, <3>1 DEF TypeOK
    <3>3. SlicesNest'
      BY <2>6, <2>0, <1>2 DEF SlicesNest
    <3>4. pc' = pc /\ preIndex' = preIndex /\ calls' = calls /\ skip.iNdEx \in Int
      BY <2>6, <2>0, <1>2 DEF TypeOK
    <3>5. Call' = Call
      BY <3>4 DEF Call
    <3>6. SkipFrom'
      BY <2>6, <2>0, <3>1, <3>4, <3>5 DEF SkipFrom, InSkip
    <3> QED BY <3>2, <3>3, <3>6 DEF IInv
  <2>7. CASE pc \notin InSkip
    <3>1. Call.iNdEx + 1 \in Int /\ 0 <= Call.iNdEx + 1 /\ Call.iNdEx + 1 <= Call.l
      BY <2>7, <2>0, <1>2, CallFacts DEF Index, Limit
    <3>2. calls' = [calls EXCEPT ![Len(calls)].iNdEx = Call.iNdEx + 1]
      BY <2>7, <1>2 DEF Call
    <3>3. /\ calls' \in Seq(CallType) /\ calls' # <<>>
          /\ SlicesNest'
          /\ Call'.iNdEx = Call.iNdEx + 1
      BY <2>0, <1>2, <3>1, <3>2, MoveIndex
    <3>4. TypeOK'
      BY <2>7, <2>0, <1>2, <2>5, <3>3 DEF TypeOK, CallType
    <3>5. pc' = pc /\ preIndex' = preIndex /\ pc \in {"tag", "value", "length"}
          /\ preIndex \in Nat /\ Call.iNdEx \in Int
      BY <2>7, <2>0, <1>2, CallFacts DEF Reading, TypeOK
    <3>6. SkipFrom'
      BY <2>0, <3>3, <3>5 DEF SkipFrom, InSkip
    <3> QED BY <3>3, <3>4, <3>6 DEF IInv
  <2> QED BY <2>6, <2>7
<1> QED BY <1>1, <1>2 DEF VarintByte

\* A field starts at the index, which is in front of the end of the slice.
LEMMA LoopKeepsInv == IInv /\ Loop => IInv'
<1> SUFFICES ASSUME IInv, Loop PROVE IInv'
  OBVIOUS
<1>1. TypeOK /\ SlicesNest
  BY DEF IInv
<1>2. Call.iNdEx \in Int /\ 0 <= Call.iNdEx /\ Call.iNdEx <= Call.l
  BY <1>1, CallFacts
<1>3. preIndex' = Call.iNdEx /\ acc' = NewVarint /\ skip' = skip /\ GoTo("tag", Call.iNdEx)
  BY DEF Loop
<1>4. skip' \in [iNdEx : Int, depth : Nat] /\ preIndex' \in Nat
  BY <1>1, <1>2, <1>3 DEF TypeOK
<1> QED BY <1>2, <1>3, <1>4, NewVarintType, GoToKeepsInv

\* A tag moves no index but that of a field to skip, which goes back to its start.
LEMMA TagReadKeepsInv == IInv /\ TagRead => IInv'
<1> SUFFICES ASSUME IInv, TagRead PROVE IInv'
  OBVIOUS
<1> DEFINE n == FieldNum(acc.v)
           wt == WireType(acc.v)
           known == Fields[Call.type]
<1>0. TypeOK /\ SlicesNest /\ SkipFrom /\ pc = "tag"
  BY DEF IInv, TagRead
<1>1. /\ Call.iNdEx \in Int /\ 0 <= Call.iNdEx /\ Call.iNdEx <= Call.l /\ Call.l \in Nat
      /\ Call.type \in Types
      /\ preIndex \in Nat /\ preIndex <= Call.iNdEx
      /\ skip \in [iNdEx : Int, depth : Nat]
      /\ acc \in [shift : Nat, v : 0 .. Word - 1, more : BOOLEAN]
  BY <1>0, CallFacts DEF TypeOK, SkipFrom
<1>2. CASE \E e : Fail(e)
  BY <1>2, FailKeepsInv
<1>3. CASE /\ n \in DOMAIN known
           /\ field' = known[n]
           /\ acc' = NewVarint
           /\ GoTo(IF wt = 0 THEN "value" ELSE "length", Call.iNdEx)
           /\ UNCHANGED <<msgs, preIndex, skip>>
  <2> DEFINE label == IF wt = 0 THEN "value" ELSE "length"
  <2>1. label \in {"value", "length"} /\ GoTo(label, Call.iNdEx)
    BY <1>3
  <2>2. \E t \in Types : \E k \in DOMAIN Fields[t] : field' = Fields[t][k]
    BY <1>1, <1>3
  <2>3. acc' = NewVarint /\ skip' = skip /\ preIndex' = preIndex
    BY <1>3
  <2> HIDE DEF label
  <2> QED BY <1>1, <2>1, <2>2, <2>3, NewVarintType, GoToKeepsInv
<1>4. CASE /\ skip' = [iNdEx |-> 0, depth |-> 0]
           /\ GoTo("skip", preIndex)
           /\ UNCHANGED <<msgs, acc, preIndex, field>>
  <2>1. preIndex \in Int /\ 0 <= preIndex /\ preIndex <= Call.l
    BY <1>1
  <2>2. skip' \in [iNdEx : Int, depth : Nat] /\ skip'.iNdEx = 0
        /\ acc' = acc /\ preIndex' = preIndex /\ GoTo("skip", preIndex)
    BY <1>4
  <2> QED BY <1>1, <2>1, <2>2, GoToKeepsInv
<1> QED BY <1>2, <1>3, <1>4 DEF TagRead

\* A value is stored; the index stays.
LEMMA ValueReadKeepsInv == IInv /\ ValueRead => IInv'
<1> SUFFICES ASSUME IInv, ValueRead PROVE IInv'
  OBVIOUS
<1>1. TypeOK /\ SlicesNest
  BY DEF IInv
<1>2. /\ Call.iNdEx \in Int /\ 0 <= Call.iNdEx /\ Call.iNdEx <= Call.l
      /\ preIndex \in Nat /\ skip \in [iNdEx : Int, depth : Nat]
      /\ acc \in [shift : Nat, v : 0 .. Word - 1, more : BOOLEAN]
  BY <1>1, CallFacts DEF TypeOK
<1>3. GoTo("loop", Call.iNdEx) /\ acc' = acc /\ preIndex' = preIndex /\ skip' = skip
  BY DEF ValueRead
<1> QED BY <1>2, <1>3, GoToKeepsInv

\* The slice of a nested message lies in front of its caller's index.
LEMMA PushKeepsSlices ==
    ASSUME TypeOK, SlicesNest, NEW t \in Types, NEW len \in Nat,
           Call.iNdEx + len <= Call.l,
           calls' = Append(calls, Frame(t, Call.off + Call.iNdEx, len)), dAtA' = dAtA
    PROVE  calls' \in Seq(CallType) /\ calls' # <<>> /\ SlicesNest'
<1> DEFINE n == Len(calls)
           new == Frame(t, Call.off + Call.iNdEx, len)
<1>1. calls \in Seq(CallType) /\ n \in Nat \ {0} /\ DOMAIN calls = 1 .. n
      /\ Call.off \in Nat /\ Call.iNdEx \in Int /\ Call.l \in Nat
      /\ 0 <= Call.iNdEx /\ Call.off + Call.l <= Len(dAtA) /\ Len(dAtA) \in Nat
  BY CallFacts DEF TypeOK, CallType
<1>2. Call.off + Call.iNdEx \in Nat
  BY <1>1
<1>3. new \in CallType /\ new.off = Call.off + Call.iNdEx /\ new.l = len /\ new.iNdEx = 0
  BY <1>2 DEF Frame, CallType
<1>a. calls' = Append(calls, new)
  OBVIOUS
<1> HIDE DEF new
<1>b. calls' \in Seq(CallType) /\ Len(calls') = n + 1
  BY <1>1, <1>3, <1>a
<1>4. calls' \in Seq(CallType) /\ calls' # <<>> /\ Len(calls') = n + 1
      /\ DOMAIN calls' = 1 .. n + 1
  BY <1>1, <1>b
<1>5. \A k \in 1 .. n : calls'[k] = calls[k]
  BY <1>1, <1>3, <1>a
<1>6. calls'[n + 1] = new
  BY <1>1, <1>3, <1>a
<1>7. calls[n] = Call
  BY DEF Call
<1>8. ASSUME NEW k \in DOMAIN calls'
      PROVE  /\ 0 <= calls'[k].iNdEx /\ calls'[k].iNdEx <= calls'[k].l
             /\ calls'[k].off + calls'[k].l <= Len(dAtA')
  <2>1. CASE k = n + 1
    <3>1. calls'[k] = new /\ Len(dAtA') = Len(dAtA)
      BY <2>1, <1>6
    <3>2. Call.off + Call.iNdEx + len <= Len(dAtA)
      BY <1>1
    <3> QED BY <3>1, <3>2, <1>3
  <2>2. CASE k # n + 1
    <3>1. k \in DOMAIN calls /\ calls'[k] = calls[k]
      BY <2>2, <1>1, <1>4, <1>5
    <3> QED BY <3>1 DEF SlicesNest
  <2> QED BY <2>1, <2>2
<1>9. ASSUME NEW k \in DOMAIN calls', k < Len(calls')
      PROVE  /\ calls'[k + 1].off = calls'[k].off + calls'[k].iNdEx
             /\ calls'[k].iNdEx + calls'[k + 1].l <= calls'[k].l
  <2>1. CASE k = n
    BY <2>1, <1>1, <1>3, <1>5, <1>6, <1>7
  <2>2. CASE k # n
    <3>1. k \in DOMAIN calls /\ k < Len(calls) /\ calls'[k] = calls[k] /\ calls'[k + 1] = calls[k + 1]
      BY <1>9, <2>2, <1>1, <1>4, <1>5
    <3> QED BY <3>1 DEF SlicesNest
  <2> QED BY <2>1, <2>2
<1> QED BY <1>4, <1>8, <1>9 DEF SlicesNest

\* A length that is accepted ends inside the slice, the sum with the index included.
LEMMA LengthReadKeepsInv == IInv /\ LengthRead => IInv'
<1> SUFFICES ASSUME IInv, LengthRead PROVE IInv'
  OBVIOUS
<1> DEFINE length == ToInt(acc.v)
           postIndex == Plus(Call.iNdEx, length)
           fits == ~BadLength(length, postIndex) /\ postIndex <= Call.l
<1>0. TypeOK /\ SlicesNest /\ pc = "length"
  BY DEF IInv, LengthRead
<1>1. /\ Call.iNdEx \in Int /\ 0 <= Call.iNdEx /\ Call.iNdEx <= Call.l /\ Call.l \in Nat
      /\ Call.off \in Nat /\ Call.off + Call.l <= Len(dAtA) /\ Len(dAtA) \in Nat /\ Len(dAtA) < Half
      /\ preIndex \in Nat /\ skip \in [iNdEx : Int, depth : Nat]
      /\ acc \in [shift : Nat, v : 0 .. Word - 1, more : BOOLEAN]
  BY <1>0, CallFacts DEF TypeOK
<1>2. Call.iNdEx < Half /\ Half \in Nat /\ acc.v \in 0 .. Word - 1
  BY <1>1, WordFacts
<1>3. length \in Int /\ length < Half
  BY <1>2, ToIntRange
<1>4. fits => /\ length \in Nat /\ postIndex = Call.iNdEx + length
              /\ postIndex \in Int /\ 0 <= postIndex /\ postIndex <= Call.l
  <2> HIDE DEF length
  <2> SUFFICES ASSUME fits PROVE /\ length \in Nat /\ postIndex = Call.iNdEx + length
                                 /\ postIndex \in Int /\ 0 <= postIndex /\ postIndex <= Call.l
    OBVIOUS
  <2>1. 0 <= length /\ 0 <= postIndex /\ postIndex <= Call.l
    <3>1. length \in Int /\ postIndex \in Int
      BY <1>1, <1>3, PlusType
    <3> HIDE DEF postIndex
    <3> QED BY <3>1 DEF BadLength
  <2>2. postIndex \in Int /\ (postIndex >= 0 => postIndex = Call.iNdEx + length)
    BY <1>1, <1>2, <1>3, <2>1, PlusExact
  <2> HIDE DEF postIndex
  <2> QED BY <1>3, <2>1, <2>2
<1>5. CASE \E e : Fail(e)
  BY <1>5, FailKeepsInv
<1>6. CASE fits /\ GoTo("loop", postIndex) /\ UNCHANGED <<acc, preIndex, field, skip>>
  <2>1. postIndex \in Int /\ 0 <= postIndex /\ postIndex <= Call.l
    BY <1>4, <1>6
  <2>2. GoTo("loop", postIndex) /\ acc' = acc /\ preIndex' = preIndex /\ skip' = skip
    BY <1>6
  <2> HIDE DEF postIndex
  <2> QED BY <1>1, <2>1, <2>2, GoToKeepsInv
<1>7. CASE /\ fits /\ field.kind \in {"message", "repeated"}
           /\ calls' = Append(calls, Frame(field.type, Call.off + Call.iNdEx, length))
           /\ pc' = "loop"
           /\ UNCHANGED <<dAtA, acc, preIndex, field, skip, err>>
  <2>1. field.type \in Types
    BY <1>0, <1>7, UnmarshalAssumption DEF TypeOK
  <2>2. length \in Nat /\ Call.iNdEx + length <= Call.l
    BY <1>4, <1>7
  <2>3. calls' = Append(calls, Frame(field.type, Call.off + Call.iNdEx, length)) /\ dAtA' = dAtA
    BY <1>7
  <2> HIDE DEF length
  <2>4. calls' \in Seq(CallType) /\ calls' # <<>> /\ SlicesNest'
    BY <1>0, <2>1, <2>2, <2>3, PushKeepsSlices
  <2>5. TypeOK'
    BY <1>0, <1>7, <2>4 DEF TypeOK, CallType, Labels
  <2>6. SkipFrom'
    BY <1>7 DEF SkipFrom, InSkip
  <2> QED BY <2>4, <2>5, <2>6 DEF IInv
<1> QED BY <1>5, <1>6, <1>7 DEF LengthRead

\* The stack has a caller below its innermost call.
LEMMA CallerBelow ==
    ASSUME NEW len \in Nat, len > 1
    PROVE  len - 1 \in Nat \ {0} /\ len - 1 < len /\ len = (len - 1) + 1
OBVIOUS

\* The innermost call returns to its caller.
Popped == calls' = [Outer(calls) EXCEPT ![Len(calls) - 1].iNdEx = @ + Call.l]

\* A call that returns leaves its caller behind the slice it was given.
LEMMA PopKeepsSlices ==
    ASSUME TypeOK, SlicesNest, Len(calls) > 1, dAtA' = dAtA, Popped
    PROVE  calls' \in Seq(CallType) /\ calls' # <<>> /\ SlicesNest'
<1> DEFINE n == Len(calls) - 1
           outer == Outer(calls)
           caller == calls[n]
           back == [type |-> caller.type, off |-> caller.off, l |-> caller.l,
                    iNdEx |-> caller.iNdEx + Call.l]
<1>0. calls \in Seq(CallType) /\ Len(calls) \in Nat /\ DOMAIN calls = 1 .. Len(calls)
      /\ Call.l \in Nat
  BY CallFacts DEF TypeOK, CallType
<1>1. calls \in Seq(CallType) /\ n \in Nat \ {0} /\ DOMAIN calls = 1 .. n + 1
      /\ n \in DOMAIN calls /\ n < Len(calls) /\ Len(calls) = n + 1 /\ Call.l \in Nat
  <2>1. Len(calls) \in Nat /\ Len(calls) > 1
    BY <1>0
  <2>2. n \in Nat \ {0} /\ n < Len(calls) /\ Len(calls) = n + 1
    BY <2>1, CallerBelow, Zenon
  <2> HIDE DEF n
  <2> QED BY <1>0, <2>2
<1>2. caller \in CallType /\ calls[n + 1] = Call
  BY <1>1 DEF Call
<1>3. caller.iNdEx \in Int /\ caller.l \in Nat /\ caller.off \in Nat /\ caller.type \in Types
      /\ 0 <= caller.iNdEx /\ caller.iNdEx + Call.l <= caller.l
      /\ caller.off + caller.l <= Len(dAtA)
  BY <1>1, <1>2 DEF SlicesNest, CallType
<1>4. back \in CallType /\ back.iNdEx = caller.iNdEx + Call.l /\ back.l = caller.l /\ back.off = caller.off
  <2>1. caller.iNdEx + Call.l \in Int
    BY <1>1, <1>3
  <2> HIDE DEF caller
  <2> QED BY <1>3, <2>1 DEF CallType
<1>5. outer \in Seq(CallType) /\ Len(outer) = n /\ \A k \in 1 .. n : outer[k] = calls[k]
  BY <1>1 DEF Outer
<1>6. DOMAIN outer = 1 .. n /\ outer[n] = caller
  BY <1>1, <1>5
<1>7. calls' = [outer EXCEPT ![n] = back]
  <2>1. calls' = [outer EXCEPT ![n] = [caller EXCEPT !.iNdEx = caller.iNdEx + Call.l]]
    BY <1>6 DEF Popped
  <2>2. [caller EXCEPT !.iNdEx = caller.iNdEx + Call.l] = back
    BY <1>2 DEF CallType
  <2> QED BY <2>1, <2>2
<1> HIDE DEF n, outer, caller, back
<1>8. calls' \in Seq(CallType) /\ Len(calls') = n /\ DOMAIN calls' = 1 .. n /\ calls' # <<>>
  <2>1. n \in Nat \ {0} /\ n \in 1 .. n /\ back \in CallType
    BY <1>1, <1>4
  <2>2. n \in DOMAIN outer
    BY <2>1, <1>6
  <2>3. calls' \in Seq(CallType) /\ Len(calls') = n
    BY <2>1, <2>2, <1>5, <1>7
  <2> QED BY <2>1, <2>3
<1>9. calls'[n] = back /\ \A k \in 1 .. n - 1 : calls'[k] = calls[k]
  BY <1>1, <1>5, <1>6, <1>7
<1>10. ASSUME NEW k \in DOMAIN calls'
       PROVE  /\ 0 <= calls'[k].iNdEx /\ calls'[k].iNdEx <= calls'[k].l
              /\ calls'[k].off + calls'[k].l <= Len(dAtA')
  <2>1. CASE k = n
    <3>1. calls'[k].iNdEx = caller.iNdEx + Call.l /\ calls'[k].l = caller.l /\ calls'[k].off = caller.off
      BY <2>1, <1>4, <1>9
    <3> QED BY <3>1, <1>1, <1>3
  <2>2. CASE k # n
    <3>1. k \in DOMAIN calls /\ calls'[k] = calls[k]
      BY <2>2, <1>1, <1>8, <1>9
    <3> QED BY <3>1 DEF SlicesNest
  <2> QED BY <2>1, <2>2
<1>11. ASSUME NEW k \in DOMAIN calls', k < Len(calls')
       PROVE  /\ calls'[k + 1].off = calls'[k].off + calls'[k].iNdEx
              /\ calls'[k].iNdEx + calls'[k + 1].l <= calls'[k].l
  <2>1. k \in DOMAIN calls /\ k < Len(calls) /\ k \in 1 .. n - 1
    BY <1>11, <1>1, <1>8
  <2>2. calls'[k] = calls[k]
    BY <2>1, <1>9
  <2>3. calls'[k + 1].off = calls[k + 1].off /\ calls'[k + 1].l = calls[k + 1].l
    <3>1. CASE k + 1 = n
      BY <3>1, <1>4, <1>9 DEF caller
    <3>2. CASE k + 1 # n
      BY <3>2, <2>1, <1>1, <1>9
    <3> QED BY <3>1, <3>2
  <2> QED BY <2>1, <2>2, <2>3 DEF SlicesNest
<1> QED BY <1>8, <1>10, <1>11 DEF SlicesNest

\* A call that is done hands its caller the bytes it was given, no more.
LEMMA ReturnKeepsInv == IInv /\ Return => IInv'
<1> SUFFICES ASSUME IInv, Return PROVE IInv'
  OBVIOUS
<1>0. TypeOK /\ SlicesNest /\ SkipFrom /\ pc = "loop"
  BY DEF IInv, Return
<1>1. CASE Len(calls) = 1 /\ \E e : Fail(e)
  BY <1>1, FailKeepsInv
<1>2. CASE Finish
  <2>1. TypeOK'
    BY <1>0, <1>2 DEF Finish, TypeOK, Labels, Final
  <2>2. SlicesNest'
    BY <1>0, <1>2 DEF Finish, SlicesNest
  <2>3. SkipFrom'
    BY <1>2 DEF Finish, SkipFrom, InSkip
  <2> QED BY <2>1, <2>2, <2>3 DEF IInv
<1>3. CASE /\ Len(calls) > 1
           /\ Popped
           /\ UNCHANGED <<dAtA, pc, acc, preIndex, field, skip, err>>
  <2>1. calls' \in Seq(CallType) /\ calls' # <<>> /\ SlicesNest'
    BY <1>0, <1>3, PopKeepsSlices
  <2>2. TypeOK'
    BY <1>0, <1>3, <2>1 DEF TypeOK, CallType
  <2>3. SkipFrom'
    BY <1>0, <1>3 DEF SkipFrom, InSkip
  <2> QED BY <2>1, <2>2, <2>3 DEF IInv
<1> QED BY <1>1, <1>2, <1>3 DEF Return, Popped

\* skipSchedule moves an index of its own; its caller takes it over once checked.
LEMMA SkipKeepsInv ==
    IInv /\ (SkipLoop \/ SkipTagRead \/ SkipValueRead \/ SkipLengthRead \/ Skipped) => IInv'
<1> SUFFICES ASSUME IInv, SkipLoop \/ SkipTagRead \/ SkipValueRead \/ SkipLengthRead \/ Skipped
             PROVE  IInv'
  OBVIOUS
<1>0. TypeOK /\ SlicesNest /\ SkipFrom
  BY DEF IInv
<1>1. /\ Call.iNdEx \in Int /\ 0 <= Call.iNdEx /\ Call.iNdEx <= Call.l /\ Call.l \in Nat
      /\ preIndex \in Nat /\ skip \in [iNdEx : Int, depth : Nat]
      /\ skip.iNdEx \in Int /\ skip.depth \in Nat
      /\ acc \in [shift : Nat, v : 0 .. Word - 1, more : BOOLEAN]
      /\ acc.v \in 0 .. Word - 1
  BY <1>0, CallFacts DEF TypeOK
<1>2. CASE \E e : Fail(e)
  BY <1>2, FailKeepsInv
<1>3. ASSUME SkipLoop, ~\E e : Fail(e) PROVE IInv'
  <2>1. SkipTo("skipTag", skip.iNdEx, skip.depth) /\ pc = "skip"
    BY <1>3 DEF SkipLoop
  <2>2. skip.iNdEx >= 0
    BY <1>0, <2>1 DEF SkipFrom
  <2> QED BY <1>1, <2>1, <2>2, SkipToKeepsInv DEF InSkip
<1>4. ASSUME SkipTagRead, ~\E e : Fail(e) PROVE IInv'
  <2>1. pc = "skipTag" /\ skip.iNdEx >= 0
    BY <1>0, <1>4 DEF SkipTagRead, SkipFrom, InSkip
  <2>2. PICK label \in {"skipValue", "skipLength", "skipped"}, i \in Int, d \in Nat :
           /\ SkipTo(label, i, d)
           /\ i = skip.iNdEx \/ label = "skipped"
    <3>1. Plus(skip.iNdEx, 8) \in Int /\ Plus(skip.iNdEx, 4) \in Int
      <4>1. 8 \in Int /\ 4 \in Int
        OBVIOUS
      <4> QED BY <1>1, <4>1, PlusType
    <3>2. skip.depth + 1 \in Nat /\ (skip.depth # 0 => skip.depth - 1 \in Nat)
      BY <1>1
    <3> QED BY <1>1, <1>4, <3>1, <3>2 DEF SkipTagRead
  <2> QED BY <2>1, <2>2, SkipToKeepsInv DEF InSkip
<1>5. ASSUME SkipValueRead PROVE IInv'
  <2>1. SkipTo("skipped", skip.iNdEx, skip.depth) /\ pc = "skipValue"
    BY <1>5 DEF SkipValueRead
  <2> QED BY <1>1, <2>1, SkipToKeepsInv DEF InSkip
<1>6. ASSUME SkipLengthRead, ~\E e : Fail(e) PROVE IInv'
  <2>1. SkipTo("skipped", Plus(skip.iNdEx, ToInt(acc.v)), skip.depth) /\ pc = "skipLength"
    BY <1>6 DEF SkipLengthRead
  <2>2. Plus(skip.iNdEx, ToInt(acc.v)) \in Int
    BY <1>1, ToIntRange, PlusType
  <2> QED BY <1>1, <2>1, <2>2, SkipToKeepsInv DEF InSkip
<1>7. ASSUME Skipped, ~\E e : Fail(e) PROVE IInv'
  <2>1. CASE SkipTo("skip", skip.iNdEx, skip.depth) /\ skip.iNdEx >= 0
    BY <1>1, <1>7, <2>1, SkipToKeepsInv DEF InSkip, Skipped
  <2>2. CASE /\ Plus(preIndex, skip.iNdEx) \in 0 .. Call.l
             /\ GoOnAt(Plus(preIndex, skip.iNdEx))
             /\ UNCHANGED <<msgs, acc, preIndex, field, skip>>
    <3> DEFINE i == Plus(preIndex, skip.iNdEx)
    <3>1. i \in Int /\ 0 <= i /\ i <= Call.l /\ GoTo("loop", i)
          /\ acc' = acc /\ preIndex' = preIndex /\ skip' = skip
      BY <1>1, <2>2 DEF GoOnAt
    <3> HIDE DEF i
    <3> QED BY <1>1, <3>1, GoToKeepsInv
  <2> QED BY <1>7, <2>1, <2>2 DEF Skipped
<1> QED BY <1>2, <1>3, <1>4, <1>5, <1>6, <1>7

----------------------------------------------------------------------------
(* Theorems.                                                               *)

\* IInv is an inductive invariant.
THEOREM UnmarshalInvariance == Spec => []IInv
<1>1. UnmarshalVarsInit => IInv
  <2> SUFFICES ASSUME UnmarshalVarsInit PROVE IInv
    OBVIOUS
  <2>1. PICK in \in Inputs : UnmarshalInit(in[1], in[2])
    BY DEF UnmarshalVarsInit
  <2>2. in[1] \in Types /\ in[2] \in Seq(Byte) /\ Len(in[2]) < Half /\ Len(in[2]) \in Nat
    BY UnmarshalAssumption
  <2>3. Frame(in[1], 0, Len(in[2])) \in CallType
    BY <2>2 DEF Frame, CallType
  <2>4. /\ calls = <<Frame(in[1], 0, Len(in[2]))>> /\ dAtA = in[2] /\ pc = "loop"
        /\ acc = NewVarint /\ preIndex = 0 /\ skip = [iNdEx |-> 0, depth |-> 0]
    BY <2>1 DEF UnmarshalInit
  <2>5. calls \in Seq(CallType) /\ calls # <<>> /\ Len(calls) = 1 /\ DOMAIN calls = {1}
        /\ calls[1] = Frame(in[1], 0, Len(in[2]))
    BY <2>3, <2>4
  <2>6. TypeOK
    BY <2>2, <2>4, <2>5, NewVarintType DEF TypeOK, CallType, Labels
  <2>7. SlicesNest
    BY <2>2, <2>4, <2>5 DEF SlicesNest, Frame
  <2>8. SkipFrom
    BY <2>4 DEF SkipFrom, InSkip
  <2> QED BY <2>6, <2>7, <2>8 DEF IInv
<1>2. IInv /\ [Step]_vars => IInv'
  <2> SUFFICES ASSUME IInv, [Step]_vars PROVE IInv'
    OBVIOUS
  <2>1. CASE Step
    BY <2>1, VarintByteKeepsInv, LoopKeepsInv, TagReadKeepsInv, ValueReadKeepsInv,
       LengthReadKeepsInv, ReturnKeepsInv, SkipKeepsInv DEF Step
  <2>2. CASE UNCHANGED vars
    <3>1. TypeOK'
      BY <2>2 DEF vars, IInv, TypeOK
    <3>2. SlicesNest'
      BY <2>2 DEF vars, IInv, SlicesNest
    <3>3. SkipFrom'
      BY <2>2 DEF vars, IInv, SkipFrom, Call
    <3> QED BY <3>1, <3>2, <3>3 DEF IInv
  <2> QED BY <2>1, <2>2
<1> QED BY <1>1, <1>2, PTL DEF Spec

\* Every varint, index and label keeps its type, for every input: a varint of
\* any bytes stays within its word (the shifts in Unmarshal lose what is beyond).
THEOREM UnmarshalTypeCorrect == Spec => []TypeOK
<1>1. IInv => TypeOK
  BY DEF IInv
<1> QED BY <1>1, UnmarshalInvariance, PTL

\* The arithmetic of an index in a slice that starts inside of another one.
LEMMA WithinSlice ==
    ASSUME NEW off \in Nat, NEW pre \in Nat, NEW i \in Int, NEW l \in Nat, NEW n \in Nat,
           i >= 0, i < l - pre, off + l <= n
    PROVE  off + pre + i + 1 \in 1 .. n
OBVIOUS

\* No byte string, as any of the messages, makes Unmarshal or skipSchedule
\* index or slice outside of the bytes it was given.
THEOREM NoReadOutOfBounds == Spec => []InBounds
<1>1. IInv => InBounds
  <2> SUFFICES ASSUME IInv, pc \in Reading, Index < Limit
               PROVE  Base + Index + 1 \in DOMAIN dAtA
    BY DEF IInv, InBounds
  <2>a. Index < Limit
    OBVIOUS
  <2>0. TypeOK /\ SlicesNest /\ SkipFrom
    BY DEF IInv
  <2>1. /\ Call.off \in Nat /\ Call.l \in Nat /\ Call.iNdEx \in Int
        /\ 0 <= Call.iNdEx /\ Call.off + Call.l <= Len(dAtA) /\ Len(dAtA) \in Nat
        /\ preIndex \in Nat /\ skip.iNdEx \in Int
        /\ DOMAIN dAtA = 1 .. Len(dAtA)
    BY <2>0, CallFacts DEF TypeOK
  <2>2. CASE pc \in InSkip
    <3>1. preIndex = Call.iNdEx /\ skip.iNdEx >= 0
      BY <2>2, <2>0 DEF SkipFrom
    <3>2. Index = skip.iNdEx /\ Limit = Call.l - preIndex /\ Base = Call.off + preIndex
      BY <2>2 DEF Index, Limit, Base
    <3>3. skip.iNdEx < Call.l - preIndex
      BY <2>a, <3>2
    <3>4. Call.off + preIndex + skip.iNdEx + 1 \in 1 .. Len(dAtA)
      BY <2>1, <3>1, <3>3, WithinSlice
    <3> QED BY <2>1, <3>2, <3>4
  <2>3. CASE pc \notin InSkip
    <3>1. Index = Call.iNdEx /\ Limit = Call.l /\ Base = Call.off
      BY <2>3 DEF Index, Limit, Base
    <3>2. Call.iNdEx < Call.l
      BY <2>a, <3>1
    <3>3. Call.off + Call.iNdEx + 1 \in 1 .. Len(dAtA)
      BY <2>1, <3>2
    <3> QED BY <2>1, <3>1, <3>3
  <2> QED BY <2>2, <2>3
<1> QED BY <1>1, UnmarshalInvariance, PTL

=============================================================================
