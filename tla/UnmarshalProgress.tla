-------------------------- MODULE UnmarshalProgress --------------------------
(***************************************************************************)
(* TLAPS proof that every step of Unmarshal leaves less to do, for every   *)
(* table of fields, every word size and every input.  The order of Work is *)
(* well-founded: no input is read for ever.                                *)
(***************************************************************************)
EXTENDS UnmarshalProofs, WellFoundedInduction

\* Past a tag the index is behind the start of the field, of the message's
\* slice or of the one skipSchedule was given, and within an int.
Ahead ==
    /\ pc \in {"value", "length"} \/ (pc = "tag" /\ ~acc.more) => preIndex < Call.iNdEx
    /\ pc \in {"skipValue", "skipLength"} \/ (pc = "skipTag" /\ ~acc.more) => skip.iNdEx > 0
    /\ pc = "skipped" => skip.iNdEx # 0
    /\ Skipping => skip.iNdEx < Half

PInv == IInv /\ Ahead

----------------------------------------------------------------------------
(* The measure.                                                            *)

\* The order of two tuples by the first number they differ in.
LEMMA LessCases ==
    ASSUME NEW a1, NEW a2, NEW a3, NEW a4, NEW a5, NEW b1, NEW b2, NEW b3, NEW b4, NEW b5,
           \/ a1 < b1
           \/ a1 = b1 /\ a2 < b2
           \/ a1 = b1 /\ a2 = b2 /\ a3 < b3
           \/ a1 = b1 /\ a2 = b2 /\ a3 = b3 /\ a4 < b4
           \/ a1 = b1 /\ a2 = b2 /\ a3 = b3 /\ a4 = b4 /\ a5 < b5
    PROVE  Less(<<a1, a2, a3, a4, a5>>, <<b1, b2, b3, b4, b5>>)
<1> DEFINE a == <<a1, a2, a3, a4, a5>>
           b == <<b1, b2, b3, b4, b5>>
<1>1. DOMAIN a = 1 .. 5
  OBVIOUS
<1>2. /\ a[1] = a1 /\ a[2] = a2 /\ a[3] = a3 /\ a[4] = a4 /\ a[5] = a5
      /\ b[1] = b1 /\ b[2] = b2 /\ b[3] = b3 /\ b[4] = b4 /\ b[5] = b5
  OBVIOUS
<1> HIDE DEF a, b
<1>3. \E n \in 1 .. 5 : a[n] < b[n] /\ \A m \in 1 .. n - 1 : a[m] = b[m]
  <2>1. CASE a1 < b1
    BY <1>2, <2>1
  <2>2. CASE a1 = b1 /\ a2 < b2
    <3>1. \A m \in 1 .. 2 - 1 : a[m] = b[m]
      BY <1>2, <2>2
    <3> QED BY <1>2, <2>2, <3>1
  <2>3. CASE a1 = b1 /\ a2 = b2 /\ a3 < b3
    <3>1. \A m \in 1 .. 3 - 1 : a[m] = b[m]
      BY <1>2, <2>3
    <3> QED BY <1>2, <2>3, <3>1
  <2>4. CASE a1 = b1 /\ a2 = b2 /\ a3 = b3 /\ a4 < b4
    <3>1. \A m \in 1 .. 4 - 1 : a[m] = b[m]
      BY <1>2, <2>4
    <3> QED BY <1>2, <2>4, <3>1
  <2>5. CASE a1 = b1 /\ a2 = b2 /\ a3 = b3 /\ a4 = b4 /\ a5 < b5
    <3>1. \A m \in 1 .. 5 - 1 : a[m] = b[m]
      BY <1>2, <2>5
    <3> QED BY <1>2, <2>5, <3>1
  <2> QED BY <2>1, <2>2, <2>3, <2>4, <2>5
<1>4. Less(a, b)
  BY <1>1, <1>3 DEF Less
<1> QED BY <1>4 DEF a, b

\* Of some tuples, those with the least number at n.
LEMMA LeastAt ==
    ASSUME NEW S \in SUBSET [1 .. 5 -> Nat], S # {}, NEW n \in 1 .. 5
    PROVE  \E x \in S : \A y \in S : ~(y[n] < x[n])
<1> DEFINE V == {x[n] : x \in S}
<1>1. V \subseteq Nat /\ V # {}
  OBVIOUS
<1>2. PICK v \in V : \A w \in V : ~(<<w, v>> \in OpToRel(<, Nat))
  <2> HIDE DEF V
  <2> QED BY <1>1, NatLessThanWellFounded, WFMin
<1>3. \A w \in V : ~(w < v)
  BY <1>1, <1>2 DEF OpToRel
<1> QED BY <1>3

\* The order is well-founded: what is left to do cannot become less for ever.
THEOREM NoEndlessDescent ==
    ASSUME NEW f \in [Nat -> [1 .. 5 -> Nat]]
    PROVE  \E n \in Nat : ~Less(f[n + 1], f[n])
<1> SUFFICES ASSUME \A n \in Nat : Less(f[n + 1], f[n]) PROVE FALSE
  OBVIOUS
<1>0. 1 \in 1 .. 5 /\ 2 \in 1 .. 5 /\ 3 \in 1 .. 5 /\ 4 \in 1 .. 5 /\ 5 \in 1 .. 5
  OBVIOUS
<1> DEFINE S0 == {f[n] : n \in Nat}
<1>1. S0 \in SUBSET [1 .. 5 -> Nat] /\ S0 # {}
  OBVIOUS
<1> HIDE DEF S0
<1>2. PICK x1 \in S0 : \A y \in S0 : ~(y[1] < x1[1])
  BY <1>0, <1>1, LeastAt
<1> DEFINE S1 == {y \in S0 : y[1] = x1[1]}
<1>3. S1 \in SUBSET [1 .. 5 -> Nat] /\ S1 # {}
  BY <1>1
<1>4. PICK x2 \in S1 : \A y \in S1 : ~(y[2] < x2[2])
  <2> HIDE DEF S1
  <2> QED BY <1>0, <1>3, LeastAt
<1> DEFINE S2 == {y \in S1 : y[2] = x2[2]}
<1>5. S2 \in SUBSET [1 .. 5 -> Nat] /\ S2 # {}
  BY <1>3
<1>6. PICK x3 \in S2 : \A y \in S2 : ~(y[3] < x3[3])
  <2> HIDE DEF S2
  <2> QED BY <1>0, <1>5, LeastAt
<1> DEFINE S3 == {y \in S2 : y[3] = x3[3]}
<1>7. S3 \in SUBSET [1 .. 5 -> Nat] /\ S3 # {}
  BY <1>5
<1>8. PICK x4 \in S3 : \A y \in S3 : ~(y[4] < x4[4])
  <2> HIDE DEF S3
  <2> QED BY <1>0, <1>7, LeastAt
<1> DEFINE S4 == {y \in S3 : y[4] = x4[4]}
<1>9. S4 \in SUBSET [1 .. 5 -> Nat] /\ S4 # {}
  BY <1>7
<1>10. PICK x \in S4 : \A y \in S4 : ~(y[5] < x[5])
  <2> HIDE DEF S4
  <2> QED BY <1>0, <1>9, LeastAt
<1>11. x \in S0 /\ x[1] = x1[1] /\ x[2] = x2[2] /\ x[3] = x3[3] /\ x[4] = x4[4]
  OBVIOUS
<1>12. PICK y \in S0 : Less(y, x)
  BY <1>11 DEF S0
<1>13. DOMAIN y = 1 .. 5
  BY <1>1
<1>14. PICK n \in 1 .. 5 : y[n] < x[n] /\ \A m \in 1 .. n - 1 : y[m] = x[m]
  BY <1>12, <1>13 DEF Less
<1>15. n \in {1, 2, 3, 4, 5}
  OBVIOUS
<1>16. n # 1
  BY <1>2, <1>14
<1>17. y[1] = x[1] /\ y \in S1
  <2>1. 1 \in 1 .. n - 1
    BY <1>15, <1>16
  <2> QED BY <1>11, <1>14, <2>1
<1>18. n # 2
  BY <1>4, <1>11, <1>14, <1>17
<1>19. y[2] = x[2] /\ y \in S2
  <2>1. 2 \in 1 .. n - 1
    BY <1>15, <1>16, <1>18
  <2> QED BY <1>11, <1>14, <1>17, <2>1
<1>20. n # 3
  BY <1>6, <1>11, <1>14, <1>19
<1>21. y[3] = x[3] /\ y \in S3
  <2>1. 3 \in 1 .. n - 1
    BY <1>15, <1>16, <1>18, <1>20
  <2> QED BY <1>11, <1>14, <1>19, <2>1
<1>22. n # 4
  BY <1>8, <1>11, <1>14, <1>21
<1>23. y[4] = x[4] /\ y \in S4
  <2>1. 4 \in 1 .. n - 1
    BY <1>15, <1>16, <1>18, <1>20, <1>22
  <2> QED BY <1>11, <1>14, <1>21, <2>1
<1>24. n = 5
  BY <1>15, <1>16, <1>18, <1>20, <1>22
<1> QED BY <1>10, <1>14, <1>23, <1>24

\* What is left is counted in natural numbers, and there is something left
\* until Unmarshal returns.
LEMMA WorkTyped ==
    ASSUME PInv
    PROVE  /\ BytesLeft \in Nat /\ (pc \notin Final => BytesLeft > 0)
           /\ Len(calls) \in Nat /\ Part \in Nat /\ Unread \in Nat /\ AtIndex \in Nat
           /\ Work \in [1 .. 5 -> Nat]
<1>1. TypeOK /\ SlicesNest /\ SkipFrom /\ Ahead
  BY DEF PInv, IInv
<1>2. /\ Call.off \in Nat /\ Call.l \in Nat /\ Call.iNdEx \in Int
      /\ 0 <= Call.iNdEx /\ Call.iNdEx <= Call.l /\ Call.off + Call.l <= Len(dAtA)
      /\ Len(dAtA) \in Nat /\ Len(calls) \in Nat
      /\ preIndex \in Nat /\ skip.iNdEx \in Int /\ pc \in Labels
  BY <1>1, CallFacts DEF TypeOK
<1>3. pc \notin Final \cup {"loop"} => preIndex <= Call.iNdEx
  <2>1. CASE pc = "tag"
    BY <1>1, <2>1 DEF SkipFrom
  <2>2. CASE pc \in {"value", "length"}
    BY <1>1, <1>2, <2>2 DEF Ahead
  <2>3. CASE pc \in InSkip \cup {"skip", "skipped"}
    BY <1>1, <1>2, <2>3 DEF SkipFrom
  <2> QED BY <1>2, <2>1, <2>2, <2>3 DEF Labels, Reading
<1>4. BytesLeft \in Nat /\ (pc \notin Final => BytesLeft > 0)
  BY <1>2, <1>3 DEF BytesLeft
<1>5. Part \in Nat /\ AtIndex \in Nat
  <2>1. Part \in {0, 1, 2}
    BY DEF Part
  <2>2. AtIndex \in {0, 1, 2, 3}
    BY DEF AtIndex
  <2> QED BY <2>1, <2>2
<1>6. Unread \in Nat
  <2>1. CASE Skipping
    BY <1>2, <2>1 DEF Unread
  <2>2. CASE ~Skipping
    BY <1>2, <2>2 DEF Unread
  <2> QED BY <2>1, <2>2
<1>7. Work \in [1 .. 5 -> Nat]
  BY <1>2, <1>4, <1>5, <1>6, SMTT(30) DEF Work
<1> QED BY <1>2, <1>4, <1>5, <1>6, <1>7

\* A return with an error leaves nothing.
LEMMA FailMovesOn ==
    ASSUME PInv, pc \notin Final, NEW e, Fail(e)
    PROVE  PInv' /\ Less(Work', Work)
<1>1. IInv'
  BY FailKeepsInv DEF PInv
<1>2. Ahead'
  BY DEF Fail, Ahead, Skipping, InSkip
<1>3. BytesLeft' = 0 /\ BytesLeft \in Nat /\ BytesLeft > 0
  BY WorkTyped DEF Fail, BytesLeft, Final
<1>4. BytesLeft' < BytesLeft
  BY <1>3
<1>5. Less(Work', Work)
  BY <1>4, LessCases DEF Work
<1> QED BY <1>1, <1>2, <1>5 DEF PInv

\* The next field starts behind the current one.
LEMMA NextFieldMovesOn ==
    ASSUME PInv, pc \notin Final \cup {"loop"}, IInv',
           NEW i \in Int, preIndex < i, i <= Call.l, GoTo("loop", i)
    PROVE  PInv' /\ Less(Work', Work)
<1>1. TypeOK /\ SlicesNest
  BY DEF PInv, IInv
<1>2. /\ Call.off \in Nat /\ Call.l \in Nat /\ Call.off + Call.l <= Len(dAtA)
      /\ Len(dAtA) \in Nat /\ preIndex \in Nat
  BY <1>1, CallFacts DEF TypeOK
<1>3. 0 <= i /\ dAtA' = dAtA /\ pc' = "loop"
  BY <1>2 DEF GoTo
<1>4. Call' = [Call EXCEPT !.iNdEx = i] /\ Call'.iNdEx = i
  BY <1>1, <1>3, MoveIndex DEF GoTo
<1>5. Call'.off = Call.off
  BY <1>1, <1>4, CallFacts DEF CallType
<1>6. BytesLeft = Len(dAtA) + 1 - (Call.off + preIndex)
  BY DEF BytesLeft
<1>7. BytesLeft' = Len(dAtA) + 1 - (Call.off + i)
  BY <1>3, <1>4, <1>5 DEF BytesLeft, Final
<1>8. BytesLeft' < BytesLeft
  BY <1>2, <1>6, <1>7
<1>9. Less(Work', Work)
  BY <1>8, LessCases DEF Work
<1>10. Ahead'
  BY <1>3 DEF Ahead, Skipping, InSkip
<1> QED BY <1>9, <1>10 DEF PInv

\* A byte is read: the index moves in front of a field that has not moved.
LEMMA VarintByteMovesOn == PInv /\ VarintByte => PInv' /\ Less(Work', Work)
<1> SUFFICES ASSUME PInv, VarintByte PROVE PInv' /\ Less(Work', Work)
  OBVIOUS
<1>0. /\ TypeOK /\ SlicesNest /\ SkipFrom /\ Ahead /\ IInv' /\ pc \in Reading
      /\ pc \notin Final /\ acc.more
  BY VarintByteKeepsInv DEF PInv, IInv, VarintByte, Reading, InSkip, Final
<1>1. CASE \E e : Fail(e)
  BY <1>0, <1>1, FailMovesOn
<1>2. CASE /\ Index < Limit
           /\ IF pc \in InSkip
              THEN skip' = [iNdEx |-> skip.iNdEx + 1, depth |-> skip.depth] /\ UNCHANGED calls
              ELSE calls' = [calls EXCEPT ![Len(calls)].iNdEx = @ + 1] /\ UNCHANGED skip
           /\ UNCHANGED <<dAtA, msgs, pc, preIndex, field, err>>
  <2>1. /\ Call.off \in Nat /\ Call.l \in Nat /\ Call.iNdEx \in Int
        /\ 0 <= Call.iNdEx /\ Call.iNdEx <= Call.l /\ Call.off + Call.l <= Len(dAtA)
        /\ Len(dAtA) \in Nat /\ Len(dAtA) < Half /\ Half \in Nat
        /\ preIndex \in Nat /\ skip.iNdEx \in Int
    BY <1>0, CallFacts, WordFacts DEF TypeOK
  <2>2. pc' = pc /\ preIndex' = preIndex /\ dAtA' = dAtA /\ Part' = Part /\ pc # "loop"
    BY <1>0, <1>2 DEF Part, Reading, InSkip
  <2>3. CASE pc \in InSkip
    <3>1. calls' = calls /\ Call' = Call /\ skip'.iNdEx = skip.iNdEx + 1
      BY <1>2, <2>3 DEF Call
    <3>2. BytesLeft' = BytesLeft
      BY <2>2, <3>1 DEF BytesLeft
    <3>3. skip.iNdEx >= 0 /\ skip.iNdEx < Call.l - preIndex
      BY <1>0, <1>2, <2>3 DEF SkipFrom, Index, Limit
    <3>4. Skipping /\ Skipping'
      BY <2>2, <2>3 DEF Skipping
    <3>5. Unread = Call.l - preIndex - skip.iNdEx
      BY <2>1, <3>3, <3>4 DEF Unread
    <3>6. Unread' = Call.l - preIndex - (skip.iNdEx + 1)
      BY <2>1, <2>2, <3>1, <3>3, <3>4 DEF Unread
    <3>7. Unread' < Unread
      BY <2>1, <3>5, <3>6
    <3>8. Less(Work', Work)
      BY <2>2, <3>1, <3>2, <3>7, LessCases DEF Work
    <3>9. skip'.iNdEx > 0 /\ skip'.iNdEx < Half
      BY <2>1, <3>1, <3>3
    <3>10. Ahead'
      BY <2>2, <2>3, <3>9 DEF Ahead, InSkip
    <3> QED BY <1>0, <3>8, <3>10 DEF PInv
  <2>4. CASE pc \notin InSkip
    <3>1. calls' = [calls EXCEPT ![Len(calls)].iNdEx = Call.iNdEx + 1]
      BY <1>2, <2>4 DEF Call
    <3>2. Call.iNdEx < Call.l
      BY <1>2, <2>4 DEF Index, Limit
    <3>3. /\ Call' = [Call EXCEPT !.iNdEx = Call.iNdEx + 1] /\ Call'.iNdEx = Call.iNdEx + 1
          /\ Call'.l = Call.l /\ Len(calls') = Len(calls)
      <4>1. Call.iNdEx + 1 \in Int /\ 0 <= Call.iNdEx + 1 /\ Call.iNdEx + 1 <= Call.l
        BY <2>1, <3>2
      <4> QED BY <1>0, <2>2, <3>1, <4>1, MoveIndex
    <3>4. Call'.off = Call.off
      BY <1>0, <3>3, CallFacts DEF CallType
    <3>5. BytesLeft' = BytesLeft
      BY <2>2, <3>4 DEF BytesLeft
    <3>6. ~Skipping /\ ~Skipping'
      BY <1>0, <2>2, <2>4 DEF Skipping, Reading, InSkip
    <3>7. Unread = Call.l - Call.iNdEx
      BY <2>1, <3>6 DEF Unread
    <3>8. Unread' = Call.l - (Call.iNdEx + 1)
      BY <2>1, <3>2, <3>3, <3>6 DEF Unread
    <3>9. Unread' < Unread
      BY <2>1, <3>7, <3>8
    <3>10. Less(Work', Work)
      BY <2>2, <3>3, <3>5, <3>9, LessCases DEF Work
    <3>11. preIndex <= Call.iNdEx
      <4>1. CASE pc = "tag"
        BY <1>0, <4>1 DEF SkipFrom
      <4>2. CASE pc \in {"value", "length"}
        BY <1>0, <2>1, <4>2 DEF Ahead
      <4> QED BY <1>0, <2>4, <4>1, <4>2 DEF Reading
    <3>12. preIndex' < Call'.iNdEx
      BY <2>1, <2>2, <3>3, <3>11
    <3>13. Ahead'
      BY <1>0, <2>2, <2>4, <3>6, <3>12 DEF Ahead, Reading, InSkip
    <3> QED BY <1>0, <3>10, <3>13 DEF PInv
  <2> QED BY <2>3, <2>4
<1> QED BY <1>1, <1>2 DEF VarintByte

\* The body of the loop is entered.
LEMMA LoopMovesOn == PInv /\ Loop => PInv' /\ Less(Work', Work)
<1> SUFFICES ASSUME PInv, Loop PROVE PInv' /\ Less(Work', Work)
  OBVIOUS
<1>0. TypeOK /\ SlicesNest /\ IInv' /\ pc = "loop" /\ pc' = "tag"
  BY LoopKeepsInv DEF PInv, IInv, Loop, GoTo
<1>1. /\ Call.iNdEx \in Int /\ 0 <= Call.iNdEx /\ Call.iNdEx <= Call.l /\ Call \in CallType
      /\ preIndex' = Call.iNdEx /\ acc' = NewVarint /\ dAtA' = dAtA
      /\ calls' = [calls EXCEPT ![Len(calls)].iNdEx = Call.iNdEx]
  BY <1>0, CallFacts DEF Loop, GoTo
<1>2. Call' = [Call EXCEPT !.iNdEx = Call.iNdEx] /\ Len(calls') = Len(calls)
  BY <1>0, <1>1, MoveIndex
<1>3. Call'.off = Call.off
  BY <1>1, <1>2 DEF CallType
<1>4. BytesLeft' = BytesLeft
  BY <1>0, <1>1, <1>3 DEF BytesLeft, Final
<1>5. Part = 2 /\ Part' = 1
  BY <1>0 DEF Part, Reading, InSkip
<1>6. Part' < Part
  BY <1>5
<1>7. Less(Work', Work)
  BY <1>2, <1>4, <1>6, LessCases DEF Work
<1>8. Ahead'
  BY <1>0, <1>1 DEF Ahead, Skipping, InSkip, NewVarint
<1> QED BY <1>0, <1>7, <1>8 DEF PInv

\* A tag is followed by its value or length, or by the skipping of its field,
\* for which the index goes back.
LEMMA TagReadMovesOn == PInv /\ TagRead => PInv' /\ Less(Work', Work)
<1> SUFFICES ASSUME PInv, TagRead PROVE PInv' /\ Less(Work', Work)
  OBVIOUS
<1>0. TypeOK /\ SlicesNest /\ SkipFrom /\ Ahead /\ IInv' /\ pc = "tag" /\ ~acc.more
  BY TagReadKeepsInv DEF PInv, IInv, TagRead
<1>1. /\ Call.iNdEx \in Int /\ 0 <= Call.iNdEx /\ Call.iNdEx <= Call.l /\ Call \in CallType
      /\ preIndex \in Nat /\ preIndex <= Call.iNdEx /\ Call.l \in Nat
  BY <1>0, CallFacts DEF TypeOK, SkipFrom
<1>2. CASE \E e : Fail(e)
  BY <1>0, <1>2, FailMovesOn DEF Final
<1>3. CASE /\ \E label \in {"value", "length"} : GoTo(label, Call.iNdEx)
           /\ acc' = NewVarint
           /\ UNCHANGED <<msgs, preIndex, skip>>
  <2>1. /\ pc' \in {"value", "length"} /\ acc' = NewVarint /\ preIndex' = preIndex
        /\ dAtA' = dAtA /\ calls' = [calls EXCEPT ![Len(calls)].iNdEx = Call.iNdEx]
    BY <1>3 DEF GoTo
  <2>2. /\ Call' = [Call EXCEPT !.iNdEx = Call.iNdEx] /\ Call'.iNdEx = Call.iNdEx
        /\ Call'.l = Call.l /\ Len(calls') = Len(calls)
    BY <1>0, <1>1, <2>1, MoveIndex
  <2>3. Call'.off = Call.off
    BY <1>1, <2>2 DEF CallType
  <2>4. BytesLeft' = BytesLeft
    BY <1>0, <2>1, <2>3 DEF BytesLeft, Final
  <2>5. Part' = Part
    BY <1>0, <2>1 DEF Part, Reading, InSkip
  <2>6. ~Skipping /\ ~Skipping'
    BY <1>0, <2>1 DEF Skipping, InSkip
  <2>7. Unread' = Unread
    BY <2>2, <2>6 DEF Unread
  <2>8. AtIndex = 3 /\ AtIndex' = 0
    BY <1>0, <2>1 DEF AtIndex, Reading, NewVarint
  <2>9. AtIndex' < AtIndex
    BY <2>8
  <2>10. Less(Work', Work)
    BY <2>2, <2>4, <2>5, <2>7, <2>9, LessCases DEF Work
  <2>11. preIndex < Call.iNdEx
    BY <1>0 DEF Ahead
  <2>12. Ahead'
    BY <2>1, <2>2, <2>6, <2>11 DEF Ahead
  <2> QED BY <1>0, <2>10, <2>12 DEF PInv
<1>4. CASE /\ skip' = [iNdEx |-> 0, depth |-> 0]
           /\ GoTo("skip", preIndex)
           /\ UNCHANGED <<msgs, acc, preIndex, field>>
  <2>1. /\ pc' = "skip" /\ preIndex' = preIndex /\ skip'.iNdEx = 0
        /\ dAtA' = dAtA /\ calls' = [calls EXCEPT ![Len(calls)].iNdEx = preIndex]
    BY <1>4 DEF GoTo
  <2>2. Call' = [Call EXCEPT !.iNdEx = preIndex] /\ Len(calls') = Len(calls)
    <3>1. preIndex \in Int /\ 0 <= preIndex /\ preIndex <= Call.l
      BY <1>1
    <3> QED BY <1>0, <2>1, <3>1, MoveIndex
  <2>3. Call'.off = Call.off
    BY <1>1, <2>2 DEF CallType
  <2>4. BytesLeft' = BytesLeft
    BY <1>0, <2>1, <2>3 DEF BytesLeft, Final
  <2>5. Part = 1 /\ Part' = 0
    BY <1>0, <2>1 DEF Part, Reading, InSkip
  <2>6. Part' < Part
    BY <2>5
  <2>7. Less(Work', Work)
    BY <2>2, <2>4, <2>6, LessCases DEF Work
  <2>8. Ahead'
    BY <2>1, WordFacts DEF Ahead
  <2> QED BY <1>0, <2>7, <2>8 DEF PInv
<1>5. (\E e : Fail(e)) \/ (\E label \in {"value", "length"} : GoTo(label, Call.iNdEx)
                               /\ acc' = NewVarint /\ UNCHANGED <<msgs, preIndex, skip>>)
         \/ (skip' = [iNdEx |-> 0, depth |-> 0] /\ GoTo("skip", preIndex)
                /\ UNCHANGED <<msgs, acc, preIndex, field>>)
  BY DEF TagRead
<1> QED BY <1>2, <1>3, <1>4, <1>5

\* A value is stored and the next field follows it.
LEMMA ValueReadMovesOn == PInv /\ ValueRead => PInv' /\ Less(Work', Work)
<1> SUFFICES ASSUME PInv, ValueRead PROVE PInv' /\ Less(Work', Work)
  OBVIOUS
<1>1. TypeOK /\ SlicesNest /\ Ahead /\ IInv' /\ pc = "value" /\ GoTo("loop", Call.iNdEx)
  BY ValueReadKeepsInv DEF PInv, IInv, ValueRead
<1>2. Call.iNdEx \in Int /\ Call.iNdEx <= Call.l /\ preIndex < Call.iNdEx
  BY <1>1, CallFacts DEF Ahead
<1> QED BY <1>1, <1>2, NextFieldMovesOn DEF Final

\* The bytes of a field lie behind its length, and a nested message starts there.
LEMMA LengthReadMovesOn == PInv /\ LengthRead => PInv' /\ Less(Work', Work)
<1> SUFFICES ASSUME PInv, LengthRead PROVE PInv' /\ Less(Work', Work)
  OBVIOUS
<1> DEFINE length == ToInt(acc.v)
           postIndex == Plus(Call.iNdEx, length)
           fits == ~BadLength(length, postIndex) /\ postIndex <= Call.l
<1>0. TypeOK /\ SlicesNest /\ Ahead /\ IInv' /\ pc = "length"
  BY LengthReadKeepsInv DEF PInv, IInv, LengthRead
<1>1. /\ Call.iNdEx \in Int /\ 0 <= Call.iNdEx /\ Call.iNdEx <= Call.l /\ Call.l \in Nat
      /\ Call.off \in Nat /\ Call.off + Call.l <= Len(dAtA) /\ Len(dAtA) \in Nat /\ Len(dAtA) < Half
      /\ preIndex \in Nat /\ preIndex < Call.iNdEx /\ acc.v \in 0 .. Word - 1
      /\ calls \in Seq(CallType) /\ Len(calls) \in Nat
  BY <1>0, CallFacts DEF TypeOK, Ahead, CallType
<1>2. fits => postIndex \in Int /\ preIndex < postIndex /\ length \in Nat
  <2>1. length \in Int /\ length < Half /\ Half \in Nat /\ Call.iNdEx < Half
    <3>1. Half \in Nat /\ Call.iNdEx < Half
      BY <1>1, WordFacts
    <3> QED BY <1>1, <3>1, ToIntRange
  <2> SUFFICES ASSUME fits PROVE postIndex \in Int /\ preIndex < postIndex /\ length \in Nat
    OBVIOUS
  <2> HIDE DEF length
  <2>2. postIndex \in Int
    BY <1>1, <2>1, PlusType
  <2>3. 0 <= length /\ 0 <= postIndex
    <3> HIDE DEF postIndex
    <3> QED BY <2>1, <2>2 DEF BadLength
  <2>4. postIndex >= 0 => postIndex = Call.iNdEx + length
    BY <1>1, <2>1, <2>3, PlusExact
  <2> HIDE DEF postIndex
  <2> QED BY <1>1, <2>1, <2>2, <2>3, <2>4
<1>3. CASE \E e : Fail(e)
  BY <1>0, <1>3, FailMovesOn DEF Final
<1>4. CASE fits /\ GoTo("loop", postIndex)
  <2> HIDE DEF postIndex
  <2> QED BY <1>0, <1>2, <1>4, NextFieldMovesOn DEF Final
<1>5. CASE /\ fits /\ field.kind \in {"message", "repeated"}
           /\ calls' = Append(calls, Frame(field.type, Call.off + Call.iNdEx, length))
           /\ pc' = "loop"
           /\ UNCHANGED <<dAtA, acc, preIndex, field, skip, err>>
  <2> DEFINE new == Frame(field.type, Call.off + Call.iNdEx, length)
  <2>1. field.type \in Types
    BY <1>0, <1>5, UnmarshalAssumption DEF TypeOK
  <2>2. new \in CallType /\ new.off = Call.off + Call.iNdEx /\ new.iNdEx = 0
    BY <1>1, <1>2, <1>5, <2>1 DEF Frame, CallType
  <2>3. calls' = Append(calls, new)
    BY <1>5
  <2> HIDE DEF new
  <2>4. Len(calls') = Len(calls) + 1 /\ calls'[Len(calls) + 1] = new
    BY <1>1, <2>2, <2>3
  <2>5. Call' = new
    BY <2>4 DEF Call
  <2>6. BytesLeft = Len(dAtA) + 1 - (Call.off + preIndex)
    BY <1>0 DEF BytesLeft, Final
  <2>7. BytesLeft' = Len(dAtA) + 1 - (Call.off + Call.iNdEx + 0)
    BY <1>5, <2>2, <2>5 DEF BytesLeft, Final
  <2>8. BytesLeft' < BytesLeft
    BY <1>1, <2>6, <2>7
  <2>9. Less(Work', Work)
    BY <2>8, LessCases DEF Work
  <2>10. Ahead'
    BY <1>5 DEF Ahead, Skipping, InSkip
  <2> QED BY <1>0, <2>9, <2>10 DEF PInv
<1> QED BY <1>3, <1>4, <1>5 DEF LengthRead

\* A call returns to where its slice ends.
LEMMA ReturnMovesOn == PInv /\ Return => PInv' /\ Less(Work', Work)
<1> SUFFICES ASSUME PInv, Return PROVE PInv' /\ Less(Work', Work)
  OBVIOUS
<1>0. TypeOK /\ SlicesNest /\ IInv' /\ pc = "loop" /\ Call.iNdEx >= Call.l
  BY ReturnKeepsInv DEF PInv, IInv, Return
<1>1. CASE \E e : Fail(e)
  BY <1>0, <1>1, FailMovesOn DEF Final
<1>2. CASE Finish
  <2>1. pc' = "done"
    BY <1>2 DEF Finish
  <2>2. BytesLeft' = 0 /\ BytesLeft \in Nat /\ BytesLeft > 0
    BY <1>0, <2>1, WorkTyped DEF BytesLeft, Final
  <2>3. BytesLeft' < BytesLeft
    BY <2>2
  <2>4. Less(Work', Work)
    BY <2>3, LessCases DEF Work
  <2>5. Ahead'
    BY <2>1 DEF Ahead, Skipping, InSkip
  <2> QED BY <1>0, <2>4, <2>5 DEF PInv
<1>3. CASE /\ Len(calls) > 1
           /\ Popped
           /\ UNCHANGED <<dAtA, pc, acc, preIndex, field, skip, err>>
  <2> DEFINE n == Len(calls) - 1
             caller == calls[n]
  <2>1. /\ calls \in Seq(CallType) /\ DOMAIN calls = 1 .. Len(calls) /\ Len(calls) \in Nat
        /\ Call.l \in Nat /\ Call.iNdEx \in Int /\ Call.off \in Nat /\ Call.iNdEx = Call.l
    BY <1>0, CallFacts DEF TypeOK, CallType
  <2>2. n \in Nat \ {0} /\ n < Len(calls) /\ Len(calls) = n + 1
    <3>1. Len(calls) > 1
      BY <1>3
    <3> QED BY <2>1, <3>1, CallerBelow
  <2>3. calls' = [Outer(calls) EXCEPT ![n].iNdEx = @ + Call.l]
    BY <1>3 DEF Popped
  <2> HIDE DEF n
  <2>4. n \in DOMAIN calls /\ caller \in CallType /\ calls[n + 1] = Call
    BY <2>1, <2>2 DEF Call
  <2>5. Outer(calls) \in Seq(CallType) /\ Len(Outer(calls)) = n /\ Outer(calls)[n] = caller
    BY <2>1, <2>2 DEF Outer
  <2>6. /\ Call.off = caller.off + caller.iNdEx
        /\ caller.off \in Nat /\ caller.iNdEx \in Int
    BY <1>0, <2>2, <2>4 DEF SlicesNest, CallType
  <2>7. Len(calls') = n /\ calls'[n].off = caller.off /\ calls'[n].iNdEx = caller.iNdEx + Call.l
    <3>1. calls' = [Outer(calls) EXCEPT ![n] = [caller EXCEPT !.iNdEx = caller.iNdEx + Call.l]]
      BY <2>3, <2>5
    <3>2. n \in DOMAIN Outer(calls)
      BY <2>2, <2>5
    <3> DEFINE back == [caller EXCEPT !.iNdEx = caller.iNdEx + Call.l]
    <3>3. back \in CallType /\ back.off = caller.off /\ back.iNdEx = caller.iNdEx + Call.l
      <4>1. caller.iNdEx + Call.l \in Int
        BY <2>1, <2>6
      <4> HIDE DEF caller
      <4> QED BY <2>4, <4>1 DEF CallType
    <3>4. calls' = [Outer(calls) EXCEPT ![n] = back]
      BY <3>1
    <3> HIDE DEF back
    <3>5. Len(calls') = n /\ calls'[n] = back
      BY <2>2, <2>5, <3>2, <3>3, <3>4
    <3> QED BY <3>3, <3>5
  <2>8. Call'.off = caller.off /\ Call'.iNdEx = caller.iNdEx + Call.l
    BY <2>7 DEF Call
  <2>9. BytesLeft = Len(dAtA) + 1 - (Call.off + Call.iNdEx)
    BY <1>0 DEF BytesLeft, Final
  <2>10. BytesLeft' = Len(dAtA) + 1 - (caller.off + (caller.iNdEx + Call.l))
    BY <1>0, <1>3, <2>8 DEF BytesLeft, Final
  <2>11. BytesLeft' = BytesLeft
    BY <2>1, <2>6, <2>9, <2>10
  <2>12. Len(calls') < Len(calls)
    BY <2>2, <2>7
  <2>13. Less(Work', Work)
    BY <2>11, <2>12, LessCases DEF Work
  <2>14. Ahead'
    BY <1>0, <1>3 DEF Ahead, Skipping, InSkip
  <2> QED BY <1>0, <2>13, <2>14 DEF PInv
<1> QED BY <1>1, <1>2, <1>3 DEF Return, Popped

\* skipSchedule goes on at the same index or further on, or gives it up.
LEMMA SkipToMovesOn ==
    ASSUME PInv, Skipping, skip.iNdEx >= 0, IInv',
           NEW label \in {"skip", "skipped"} \cup InSkip, NEW i \in Int, NEW d \in Nat,
           SkipTo(label, i, d), i < 0 \/ i >= skip.iNdEx, i < Half,
           label \in {"skipValue", "skipLength"} => i > 0,
           label = "skipped" => i # 0,
           AtIndex' < AtIndex
    PROVE  PInv' /\ Less(Work', Work)
<1>1. TypeOK /\ SlicesNest /\ SkipFrom
  BY DEF PInv, IInv
<1>2. /\ Call.l \in Nat /\ preIndex \in Nat /\ skip.iNdEx \in Int
      /\ preIndex <= Call.l
  BY <1>1, CallFacts DEF TypeOK, SkipFrom, Skipping
<1>3. /\ pc' = label /\ skip'.iNdEx = i /\ acc' = NewVarint /\ calls' = calls
      /\ dAtA' = dAtA /\ preIndex' = preIndex /\ Call' = Call
  BY DEF SkipTo, Call
<1>4. Skipping' /\ Part = 0 /\ Part' = 0
  BY <1>3 DEF Skipping, Part, Reading, InSkip
<1>5. BytesLeft' = BytesLeft
  BY <1>3 DEF BytesLeft, Skipping, InSkip, Final
<1>6. Unread = IF skip.iNdEx <= Call.l - preIndex THEN Call.l - preIndex - skip.iNdEx ELSE 0
  BY <1>2 DEF Unread
<1>7. Unread' = IF 0 <= i /\ i <= Call.l - preIndex THEN Call.l - preIndex - i ELSE 0
  BY <1>2, <1>3, <1>4 DEF Unread
<1>8. Unread' < Unread \/ Unread' = Unread
  BY <1>2, <1>6, <1>7
<1>9. Less(Work', Work)
  BY <1>3, <1>4, <1>5, <1>8, LessCases DEF Work
<1>10. Ahead'
  BY <1>3 DEF Ahead, NewVarint, InSkip
<1> QED BY <1>9, <1>10 DEF PInv

\* What is skipped has a tag at least; an index that wraps around is negative.
LEMMA SkipMovesOn ==
    PInv /\ (SkipLoop \/ SkipTagRead \/ SkipValueRead \/ SkipLengthRead \/ Skipped)
       => PInv' /\ Less(Work', Work)
<1> SUFFICES ASSUME PInv, SkipLoop \/ SkipTagRead \/ SkipValueRead \/ SkipLengthRead \/ Skipped
             PROVE  PInv' /\ Less(Work', Work)
  OBVIOUS
<1>0. TypeOK /\ SlicesNest /\ SkipFrom /\ Ahead /\ IInv'
  BY SkipKeepsInv DEF PInv, IInv
<1>1. /\ Call.l \in Nat /\ Call.off + Call.l <= Len(dAtA) /\ Call.off \in Nat
      /\ Len(dAtA) \in Nat /\ Len(dAtA) < Half /\ Half \in Nat /\ 8 < Half
      /\ preIndex \in Nat /\ Call.iNdEx <= Call.l
      /\ skip.iNdEx \in Int /\ skip.depth \in Nat /\ acc.v \in 0 .. Word - 1
  BY <1>0, CallFacts, WordFacts, WireAssumption DEF TypeOK
<1>2. Skipping /\ pc \notin Final /\ skip.iNdEx < Half /\ preIndex <= Call.l
  <2>1. Skipping /\ pc \notin Final
    BY DEF SkipLoop, SkipTagRead, SkipValueRead, SkipLengthRead, Skipped, Skipping, InSkip, Final
  <2> QED BY <1>0, <1>1, <2>1 DEF Ahead, SkipFrom, Skipping
<1>3. CASE \E e : Fail(e)
  BY <1>2, <1>3, FailMovesOn
<1>4. ASSUME SkipLoop, ~\E e : Fail(e) PROVE PInv' /\ Less(Work', Work)
  <2>1. SkipTo("skipTag", skip.iNdEx, skip.depth) /\ pc = "skip"
    BY <1>4 DEF SkipLoop
  <2>2. skip.iNdEx >= 0
    BY <1>0, <2>1 DEF SkipFrom
  <2>3. AtIndex = 1 /\ AtIndex' = 0
    BY <2>1 DEF AtIndex, SkipTo, NewVarint, Reading, InSkip
  <2>4. AtIndex' < AtIndex
    BY <2>3
  <2> QED BY <1>0, <1>1, <1>2, <2>1, <2>2, <2>4, SkipToMovesOn DEF InSkip
<1>5. ASSUME SkipTagRead, ~\E e : Fail(e) PROVE PInv' /\ Less(Work', Work)
  <2>1. pc = "skipTag" /\ ~acc.more /\ skip.iNdEx > 0
    BY <1>0, <1>5 DEF SkipTagRead, Ahead
  <2>2. \A b \in {4, 8} : LET i == Plus(skip.iNdEx, b)
                          IN  i \in Int /\ i < Half /\ i # 0 /\ (i < 0 \/ i >= skip.iNdEx)
    <3> SUFFICES ASSUME NEW b \in {4, 8}
                 PROVE  LET i == Plus(skip.iNdEx, b)
                        IN  i \in Int /\ i < Half /\ i # 0 /\ (i < 0 \/ i >= skip.iNdEx)
      OBVIOUS
    <3>1. b \in Int /\ 0 <= b /\ b < Half /\ 0 <= skip.iNdEx
      BY <1>1, <2>1
    <3> DEFINE i == Plus(skip.iNdEx, b)
    <3>2. i \in Int /\ (i >= 0 => i = skip.iNdEx + b) /\ i < Half
      BY <1>1, <1>2, <3>1, PlusExact
    <3> HIDE DEF i
    <3>3. i # 0 /\ (i < 0 \/ i >= skip.iNdEx)
      BY <1>1, <2>1, <3>1, <3>2
    <3> QED BY <3>2, <3>3 DEF i
  <2>3. PICK label \in {"skipValue", "skipLength", "skipped"}, i \in Int, d \in Nat :
           /\ SkipTo(label, i, d)
           /\ i < Half /\ i # 0
           /\ i < 0 \/ i >= skip.iNdEx
           /\ label # "skipped" => i = skip.iNdEx
    <3>1. skip.depth + 1 \in Nat /\ (skip.depth # 0 => skip.depth - 1 \in Nat)
      BY <1>1
    <3>2. skip.iNdEx # 0 /\ skip.iNdEx >= skip.iNdEx
      BY <1>1, <2>1
    <3> QED BY <1>1, <1>2, <1>5, <2>2, <3>1, <3>2 DEF SkipTagRead
  <2>4. AtIndex = 3 /\ AtIndex' \in {0, 2}
    BY <2>1, <2>3 DEF AtIndex, SkipTo, NewVarint, Reading, InSkip
  <2>5. AtIndex' < AtIndex
    BY <2>4
  <2>6. skip.iNdEx >= 0 /\ (label \in {"skipValue", "skipLength"} => i > 0)
    BY <1>1, <2>1, <2>3
  <2> QED BY <1>0, <1>2, <2>3, <2>5, <2>6, SkipToMovesOn DEF InSkip
<1>6. ASSUME SkipValueRead PROVE PInv' /\ Less(Work', Work)
  <2>1. SkipTo("skipped", skip.iNdEx, skip.depth) /\ pc = "skipValue" /\ ~acc.more
    BY <1>6 DEF SkipValueRead
  <2>2. skip.iNdEx > 0
    BY <1>0, <2>1 DEF Ahead
  <2>3. AtIndex = 3 /\ AtIndex' = 2
    BY <2>1 DEF AtIndex, SkipTo, Reading, InSkip
  <2>4. AtIndex' < AtIndex /\ skip.iNdEx >= 0 /\ skip.iNdEx # 0
    BY <1>1, <2>2, <2>3
  <2> QED BY <1>0, <1>1, <1>2, <2>1, <2>4, SkipToMovesOn DEF InSkip
<1>7. ASSUME SkipLengthRead, ~\E e : Fail(e) PROVE PInv' /\ Less(Work', Work)
  <2> DEFINE length == ToInt(acc.v)
             i == Plus(skip.iNdEx, length)
  <2>1. /\ SkipTo("skipped", i, skip.depth) /\ pc = "skipLength" /\ ~acc.more
        /\ length >= 0
    BY <1>7 DEF SkipLengthRead
  <2>2. skip.iNdEx > 0
    BY <1>0, <2>1 DEF Ahead
  <2>3. length \in Int /\ length < Half
    BY <1>1, ToIntRange
  <2> HIDE DEF length
  <2>4. i \in Int /\ (i >= 0 => i = skip.iNdEx + length) /\ i < Half
    <3>1. 0 <= skip.iNdEx /\ 0 <= length
      BY <1>1, <2>1, <2>2, <2>3
    <3> QED BY <1>1, <1>2, <2>3, <3>1, PlusExact
  <2> HIDE DEF i
  <2>5. AtIndex = 3 /\ AtIndex' = 2
    BY <2>1 DEF AtIndex, SkipTo, Reading, InSkip
  <2>6. /\ AtIndex' < AtIndex /\ skip.iNdEx >= 0 /\ i # 0
        /\ i < 0 \/ i >= skip.iNdEx
    BY <1>1, <2>1, <2>2, <2>3, <2>4, <2>5
  <2> QED BY <1>0, <1>1, <1>2, <2>1, <2>4, <2>6, SkipToMovesOn
<1>8. ASSUME Skipped, ~\E e : Fail(e) PROVE PInv' /\ Less(Work', Work)
  <2>1. pc = "skipped" /\ skip.iNdEx > 0
    BY <1>0, <1>1, <1>8 DEF Skipped, Ahead
  <2>2. CASE SkipTo("skip", skip.iNdEx, skip.depth)
    <3>1. AtIndex = 2 /\ AtIndex' = 1
      BY <2>1, <2>2 DEF AtIndex, SkipTo, Reading, InSkip
    <3>2. AtIndex' < AtIndex /\ skip.iNdEx >= 0
      BY <1>1, <2>1, <3>1
    <3> QED BY <1>0, <1>1, <1>2, <2>2, <3>2, SkipToMovesOn DEF InSkip
  <2>3. CASE /\ Plus(preIndex, skip.iNdEx) \in 0 .. Call.l
             /\ GoOnAt(Plus(preIndex, skip.iNdEx))
    <3> DEFINE i == Plus(preIndex, skip.iNdEx)
    <3>1. i \in Int /\ 0 <= i /\ i <= Call.l /\ GoTo("loop", i)
      BY <1>1, <2>3 DEF GoOnAt
    <3>2. i = preIndex + skip.iNdEx
      <4>1. preIndex < Half /\ 0 <= preIndex /\ preIndex \in Int /\ 0 <= skip.iNdEx
        BY <1>1, <1>2, <2>1
      <4> QED BY <1>1, <1>2, <3>1, <4>1, PlusExact
    <3> HIDE DEF i
    <3>3. preIndex < i
      BY <1>1, <2>1, <3>2
    <3> QED BY <1>0, <2>1, <3>1, <3>3, NextFieldMovesOn DEF Final
  <2> QED BY <1>8, <2>2, <2>3 DEF Skipped
<1> QED BY <1>3, <1>4, <1>5, <1>6, <1>7, <1>8

----------------------------------------------------------------------------
(* The theorem.                                                            *)

\* At first nothing has been read.
LEMMA InitAhead == UnmarshalVarsInit => Ahead
  BY DEF UnmarshalVarsInit, UnmarshalInit, Ahead, Skipping, InSkip

\* Every step, of every decoder on every input, leaves less to do.
LEMMA StepMovesOn == PInv /\ Step => PInv' /\ Less(Work', Work)
  BY VarintByteMovesOn, LoopMovesOn, TagReadMovesOn, ValueReadMovesOn, LengthReadMovesOn,
     ReturnMovesOn, SkipMovesOn DEF Step

\* No byte string makes Unmarshal or skipSchedule go round in circles: each
\* step leaves less of the input, of the calls under way or of the field.
THEOREM DecodersMoveOn == Spec => MovesOn
<1> DEFINE T == Work \in [1 .. 5 -> Nat]
           A == Work' \in [1 .. 5 -> Nat] /\ Less(Work', Work)
<1>1. IInv /\ Ahead /\ [Step]_vars => Ahead'
  <2>1. ASSUME PInv, UNCHANGED vars PROVE Ahead'
    BY <2>1 DEF PInv, vars, Ahead, Call, Skipping
  <2> QED BY <2>1, StepMovesOn DEF PInv
<1>2. IInv /\ Ahead /\ T' /\ [Step]_vars => [A]_vars
  BY StepMovesOn DEF PInv
<1>3. IInv /\ Ahead => T
  BY WorkTyped DEF PInv
<1>4. Spec => [](IInv /\ Ahead)
  BY <1>1, InitAhead, UnmarshalInvariance, PTL DEF Spec
<1> QED BY <1>2, <1>3, <1>4, PTL DEF Spec, MovesOn

=============================================================================
