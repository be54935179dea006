--------------------------- MODULE MessagesProofs ---------------------------
(***************************************************************************)
(* TLAPS proofs about the writers of the generated code, for every message *)
(* of every type and every word size: Size reserves what Marshal writes.   *)
(***************************************************************************)
EXTENDS Messages, SequenceTheorems, WellFoundedInduction, TLAPS

\* A write that puts as many bytes as it has made room for.
WriteType == {w \in [room : Nat, bytes : Seq(Byte)] : Len(w.bytes) = w.room}

\* Writes that take n bytes together.
Takes(writes, n) == writes \in Seq(WriteType) /\ Room(writes) = n /\ n \in Nat

----------------------------------------------------------------------------
(* Induction, on sets of numbers.                                          *)

\* A set of natural numbers that is not empty has a least member.
LEMMA LeastMember ==
    ASSUME NEW S \in SUBSET Nat, S # {}
    PROVE  \E n \in S : \A m \in S : n <= m
<1>1. PICK n \in S : \A m \in S : ~(<<m, n>> \in OpToRel(<, Nat))
  BY NatLessThanWellFounded, WFMin
<1>2. \A m \in S : ~(m < n)
  BY <1>1 DEF OpToRel
<1> QED BY <1>2

\* What holds of 0 and is handed on holds of all numbers up to N.
LEMMA UpTo ==
    ASSUME NEW N \in Nat, NEW S, 0 \in S, \A n \in 1 .. N : n - 1 \in S => n \in S
    PROVE  0 .. N \subseteq S
<1> DEFINE D == {n \in 0 .. N : n \notin S}
<1>1. SUFFICES ASSUME D # {} PROVE FALSE
  OBVIOUS
<1>2. PICK d \in D : \A m \in D : d <= m
  <2>1. D \in SUBSET Nat
    OBVIOUS
  <2> HIDE DEF D
  <2> QED BY <1>1, <2>1, LeastMember
<1>3. d \in 1 .. N /\ d - 1 \in 0 .. N /\ d - 1 < d
  BY <1>2
<1>4. d - 1 \notin D
  BY <1>2, <1>3
<1> QED BY <1>3, <1>4

\* g starts with start and each value follows from the one before.
Follows(g, N, S, start, step) ==
    g \in [0 .. N -> S] /\ g[0] = start /\ \A n \in 1 .. N : g[n] = step[<<n, g[n - 1]>>]

\* There is such a function along every 0 .. N.
LEMMA Along ==
    ASSUME NEW N \in Nat, NEW S, NEW start \in S, NEW step \in [(1 .. N) \X S -> S]
    PROVE  \E g : Follows(g, N, S, start, step)
<1> DEFINE Good(k, g) == g[0] = start /\ \A n \in 1 .. k : g[n] = step[<<n, g[n - 1]>>]
           G == {k \in 0 .. N : \E g \in [0 .. k -> S] : Good(k, g)}
<1>1. 0 \in G
  <2>1. [n \in 0 .. 0 |-> start] \in [0 .. 0 -> S] /\ Good(0, [n \in 0 .. 0 |-> start])
    OBVIOUS
  <2>2. 0 \in 0 .. N
    OBVIOUS
  <2> HIDE DEF Good
  <2> QED BY <2>1, <2>2
<1>2. ASSUME NEW k \in 1 .. N, k - 1 \in G PROVE k \in G
  <2>1. PICK g \in [0 .. k - 1 -> S] : Good(k - 1, g)
    BY <1>2
  <2> DEFINE h == [n \in 0 .. k |-> IF n = k THEN step[<<k, g[k - 1]>>] ELSE g[n]]
  <2>2. k - 1 \in 0 .. k - 1 /\ g[k - 1] \in S
    OBVIOUS
  <2>3. h \in [0 .. k -> S]
    <3>1. step[<<k, g[k - 1]>>] \in S
      BY <2>2
    <3>2. \A n \in 0 .. k : n # k => n \in 0 .. k - 1 /\ g[n] \in S
      OBVIOUS
    <3> QED BY <3>1, <3>2
  <2>4. h[0] = start
    BY <2>1
  <2>5. ASSUME NEW n \in 1 .. k PROVE h[n] = step[<<n, h[n - 1]>>]
    <3>1. CASE n = k
      <4>1. h[n] = step[<<k, g[k - 1]>>] /\ h[n - 1] = g[k - 1]
        BY <3>1
      <4> QED BY <3>1, <4>1
    <3>2. CASE n # k
      <4>1. n \in 1 .. k - 1 /\ h[n] = g[n] /\ h[n - 1] = g[n - 1]
        BY <3>2
      <4>2. g[n] = step[<<n, g[n - 1]>>]
        BY <2>1, <4>1
      <4> QED BY <4>1, <4>2
    <3> QED BY <3>1, <3>2
  <2> HIDE DEF h
  <2>6. Good(k, h)
    BY <2>4, <2>5
  <2> QED BY <2>3, <2>6
<1>3. N \in G
  <2>1. \A n \in 1 .. N : n - 1 \in G => n \in G
    BY <1>2
  <2> HIDE DEF G
  <2>2. 0 .. N \subseteq G
    BY <1>1, <2>1, UpTo
  <2> QED BY <2>2
<1> QED BY <1>3 DEF Follows

----------------------------------------------------------------------------
(* Room.                                                                   *)

\* The room that the first 0, 1, 2, ... writes take.
RoomOf(writes, r) ==
    /\ r \in [0 .. Len(writes) -> Nat] /\ r[0] = 0
    /\ \A n \in 1 .. Len(writes) : r[n] = r[n - 1] + writes[n].room

\* There are such numbers, and the last one is Room.
LEMMA RoomExists ==
    ASSUME NEW writes \in Seq(WriteType)
    PROVE  \E r : RoomOf(writes, r) /\ Room(writes) = r[Len(writes)]
<1> DEFINE N == Len(writes)
           Is(r) == r = [n \in 0 .. N |-> IF n = 0 THEN 0 ELSE r[n - 1] + writes[n].room]
           room == CHOOSE r : Is(r)
<1>1. N \in Nat /\ \A n \in 1 .. N : writes[n].room \in Nat
  <2>1. \A w \in WriteType : w.room \in Nat
    BY DEF WriteType
  <2> QED BY <2>1
<1> DEFINE step == [p \in (1 .. N) \X Nat |-> p[2] + writes[p[1]].room]
<1>2. step \in [(1 .. N) \X Nat -> Nat]
  BY <1>1
<1>3. PICK g : g \in [0 .. N -> Nat] /\ g[0] = 0 /\ \A n \in 1 .. N : g[n] = step[<<n, g[n - 1]>>]
  <2>1. N \in Nat /\ 0 \in Nat
    BY <1>1
  <2> HIDE DEF step, N
  <2>2. \E g : Follows(g, N, Nat, 0, step)
    BY <1>2, <2>1, Along
  <2> QED BY <2>2 DEF Follows
<1>4. \A n \in 1 .. N : g[n] = g[n - 1] + writes[n].room
  <2> SUFFICES ASSUME NEW n \in 1 .. N PROVE g[n] = g[n - 1] + writes[n].room
    OBVIOUS
  <2>1. n - 1 \in 0 .. N /\ g[n - 1] \in Nat
    BY <1>1, <1>3
  <2>2. <<n, g[n - 1]>> \in (1 .. N) \X Nat
    BY <2>1
  <2> QED BY <1>3, <2>2
<1>5. Is(g)
  BY <1>1, <1>3, <1>4
<1>6. Is(room)
  <2> HIDE DEF Is
  <2> QED BY <1>5
<1>7. Room(writes) = room[N]
  BY DEF Room
<1> HIDE DEF room
<1>8. room[0] = 0 /\ \A n \in 1 .. N : room[n] = room[n - 1] + writes[n].room
  BY <1>1, <1>6
<1>9. \A n \in 0 .. N : room[n] \in Nat
  <2> DEFINE S == {n \in 0 .. N : room[n] \in Nat}
  <2>1. 0 \in S /\ \A n \in 1 .. N : n - 1 \in S => n \in S
    <3> HIDE DEF N
    <3>1. 0 \in S
      BY <1>1, <1>8
    <3>2. ASSUME NEW n \in 1 .. N, n - 1 \in S PROVE n \in S
      <4>1. room[n] = room[n - 1] + writes[n].room /\ room[n - 1] \in Nat /\ writes[n].room \in Nat
        BY <1>1, <1>8, <3>2
      <4> QED BY <1>1, <4>1
    <3> QED BY <3>1, <3>2
  <2>2. 0 .. N \subseteq S
    <3> HIDE DEF S, N
    <3> QED BY <1>1, <2>1, UpTo
  <2> QED BY <2>2
<1>10. room \in [0 .. N -> Nat]
  BY <1>6, <1>9
<1> QED BY <1>7, <1>8, <1>10 DEF RoomOf

\* There is one such sequence of numbers.
LEMMA RoomUnique ==
    ASSUME NEW writes \in Seq(WriteType), NEW r, NEW q, RoomOf(writes, r), RoomOf(writes, q)
    PROVE  r[Len(writes)] = q[Len(writes)]
<1> DEFINE N == Len(writes)
           S == {n \in 0 .. N : r[n] = q[n]}
<1>1. N \in Nat
  OBVIOUS
<1>2. 0 \in S /\ \A n \in 1 .. N : n - 1 \in S => n \in S
  BY <1>1 DEF RoomOf
<1>3. 0 .. N \subseteq S
  <2> HIDE DEF S, N
  <2> QED BY <1>1, <1>2, UpTo
<1> QED BY <1>1, <1>3

\* So Room is what adds up.
LEMMA RoomIs ==
    ASSUME NEW writes \in Seq(WriteType), NEW r, RoomOf(writes, r)
    PROVE  Room(writes) = r[Len(writes)] /\ Room(writes) \in Nat
<1>1. PICK q : RoomOf(writes, q) /\ Room(writes) = q[Len(writes)]
  BY RoomExists
<1>2. r[Len(writes)] = q[Len(writes)]
  BY <1>1, RoomUnique
<1>3. r[Len(writes)] \in Nat
  BY DEF RoomOf
<1> QED BY <1>1, <1>2, <1>3

\* No writes take no room, one takes its own.
LEMMA RoomOfFew ==
    /\ Takes(<<>>, 0)
    /\ \A w \in WriteType : Takes(<<w>>, w.room)
<1>1. RoomOf(<<>>, [n \in 0 .. 0 |-> 0]) /\ <<>> \in Seq(WriteType)
  BY DEF RoomOf
<1>2. Takes(<<>>, 0)
  <2>1. [n \in 0 .. 0 |-> 0][Len(<<>>)] = 0
    OBVIOUS
  <2> QED BY <1>1, <2>1, RoomIs DEF Takes
<1>3. ASSUME NEW w \in WriteType PROVE Takes(<<w>>, w.room)
  <2> DEFINE r == [n \in 0 .. 1 |-> IF n = 0 THEN 0 ELSE w.room]
  <2>1. w.room \in Nat
    BY DEF WriteType
  <2>2. <<w>> \in Seq(WriteType) /\ Len(<<w>>) = 1 /\ <<w>>[1] = w
    OBVIOUS
  <2>3. RoomOf(<<w>>, r) /\ r[1] = w.room
    BY <2>1, <2>2 DEF RoomOf
  <2> HIDE DEF r
  <2> QED BY <2>1, <2>2, <2>3, RoomIs DEF Takes
<1> QED BY <1>2, <1>3

\* Writes after others take their room in addition.
LEMMA RoomOfBoth ==
    ASSUME NEW a, NEW m, Takes(a, m), NEW b, NEW n, Takes(b, n)
    PROVE  Takes(a \o b, m + n)
<1>1. a \in Seq(WriteType) /\ b \in Seq(WriteType) /\ m \in Nat /\ n \in Nat
      /\ Room(a) = m /\ Room(b) = n
  BY DEF Takes
<1>2. PICK r : RoomOf(a, r) /\ m = r[Len(a)]
  BY <1>1, RoomExists
<1>3. PICK q : RoomOf(b, q) /\ n = q[Len(b)]
  BY <1>1, RoomExists
<1> DEFINE A == Len(a)
           B == Len(b)
           c == a \o b
           s == [k \in 0 .. A + B |-> IF k <= A THEN r[k] ELSE m + q[k - A]]
<1>4. /\ A \in Nat /\ B \in Nat /\ c \in Seq(WriteType) /\ Len(c) = A + B
      /\ \A k \in 1 .. A + B : c[k] = IF k <= A THEN a[k] ELSE b[k - A]
  BY <1>1
<1> HIDE DEF c
<1>5. /\ r \in [0 .. A -> Nat] /\ r[0] = 0 /\ \A k \in 1 .. A : r[k] = r[k - 1] + a[k].room
      /\ q \in [0 .. B -> Nat] /\ q[0] = 0 /\ \A k \in 1 .. B : q[k] = q[k - 1] + b[k].room
      /\ m = r[A] /\ n = q[B]
  BY <1>2, <1>3 DEF RoomOf
<1> HIDE DEF A, B
<1>6. s \in [0 .. A + B -> Nat]
  <2> SUFFICES ASSUME NEW k \in 0 .. A + B PROVE s[k] \in Nat
    OBVIOUS
  <2>1. CASE k <= A
    BY <1>4, <1>5, <2>1
  <2>2. CASE k > A
    <3>1. k - A \in 0 .. B
      BY <1>4, <2>2
    <3>2. q[k - A] \in Nat
      BY <1>5, <3>1
    <3>3. s[k] = m + q[k - A]
      BY <1>4, <2>2
    <3> HIDE DEF s
    <3> QED BY <1>1, <3>2, <3>3
  <2> QED BY <1>4, <2>1, <2>2
<1>7. s[0] = 0
  BY <1>4, <1>5
<1>8. ASSUME NEW k \in 1 .. A + B PROVE s[k] = s[k - 1] + c[k].room
  <2>1. CASE k <= A
    <3>1. k \in 1 .. A /\ s[k] = r[k] /\ s[k - 1] = r[k - 1] /\ c[k] = a[k]
      BY <1>4, <2>1
    <3> QED BY <1>5, <3>1
  <2>2. CASE k = A + 1
    <3>1. /\ k - A = 1 /\ 1 \in 1 .. B /\ s[k] = m + q[1] /\ s[k - 1] = r[A] /\ c[k] = b[1]
      BY <1>4, <2>2
    <3>2. q[1] = q[1 - 1] + b[1].room
      BY <1>5, <3>1
    <3>3. q[1] = b[1].room
      <4>1. q[1] \in Nat /\ b[1].room \in Nat
        <5>1. b[1] \in WriteType
          BY <1>1, <3>1 DEF B
        <5>2. 1 \in 0 .. B
          BY <1>4, <3>1
        <5> QED BY <1>5, <5>1, <5>2 DEF WriteType
      <4> QED BY <1>5, <3>2, <4>1
    <3> QED BY <1>5, <3>1, <3>3
  <2>3. CASE k > A + 1
    <3>1. /\ k - A \in 1 .. B /\ s[k] = m + q[k - A] /\ s[k - 1] = m + q[(k - A) - 1] /\ c[k] = b[k - A]
          /\ k - A \in 0 .. B /\ (k - A) - 1 \in 0 .. B
      BY <1>4, <2>3
    <3>2. q[k - A] = q[(k - A) - 1] + b[k - A].room
      BY <1>5, <3>1
    <3>3. b[k - A].room \in Nat
      <4>1. b[k - A] \in WriteType
        BY <1>1, <3>1 DEF B
      <4> QED BY <4>1 DEF WriteType
    <3>4. q[k - A] \in Nat /\ q[(k - A) - 1] \in Nat
      BY <1>5, <3>1
    <3> DEFINE x == q[k - A]
               y == q[(k - A) - 1]
               z == b[k - A].room
    <3> HIDE DEF x, y, z
    <3>5. s[k] = m + x /\ s[k - 1] = m + y /\ c[k].room = z
          /\ x = y + z /\ x \in Nat /\ y \in Nat /\ z \in Nat
      BY <3>1, <3>2, <3>3, <3>4 DEF x, y, z
    <3> QED BY <1>1, <3>5
  <2> QED BY <1>4, <2>1, <2>2, <2>3
<1>9. s[A + B] = m + n
  BY <1>1, <1>4, <1>5
<1> HIDE DEF s
<1>10. RoomOf(c, s)
  BY <1>4, <1>6, <1>7, <1>8 DEF RoomOf
<1>11. Room(c) = m + n
  BY <1>4, <1>9, <1>10, RoomIs
<1> QED BY <1>1, <1>4, <1>11 DEF Takes, c

----------------------------------------------------------------------------
(* Varints.                                                                *)

\* The powers of two, as far as they are used, grow.
LEMMA PowersGrow ==
    \A n \in 0 .. WordBits + 7 : \A m \in 0 .. n : 2 ^ m \in Nat \ {0} /\ 2 ^ m <= 2 ^ n
<1> DEFINE N == WordBits + 7
           pow == [n \in 0 .. N |-> 2 ^ n]
           S == {n \in 0 .. N : pow[n] \in Nat \ {0} /\ \A m \in 0 .. n : pow[m] \in Nat \ {0} /\ pow[m] <= pow[n]}
<1>1. N \in Nat /\ WordBits \in Nat
  BY WireAssumption
<1>2. pow[0] = 1 /\ \A n \in 0 .. N - 1 : pow[n] \in Nat \ {0} /\ pow[n + 1] = 2 * pow[n]
  <2>1. \A n \in 0 .. N : pow[n] = 2 ^ n
    OBVIOUS
  <2>2. \A n \in 0 .. N - 1 : n \in 0 .. WordBits + 6 /\ n \in 0 .. N /\ n + 1 \in 0 .. N
    BY <1>1
  <2>3. 2 ^ 0 = 1 /\ \A n \in 0 .. N - 1 : 2 ^ n \in Nat \ {0} /\ 2 ^ (n + 1) = 2 * 2 ^ n
    BY <2>2, WireAssumption
  <2>4. 0 \in 0 .. N
    BY <1>1
  <2> HIDE DEF pow, N
  <2> QED BY <2>1, <2>2, <2>3, <2>4
<1>3. \A n \in 0 .. N : pow[n] = 2 ^ n
  OBVIOUS
<1> HIDE DEF pow, N
<1>4. 0 \in S
  BY <1>1, <1>2
<1>5. ASSUME NEW n \in 1 .. N, n - 1 \in S PROVE n \in S
  <2>1. n - 1 \in 0 .. N - 1 /\ (n - 1) + 1 = n
    BY <1>1
  <2>2. pow[n] = 2 * pow[n - 1] /\ pow[n - 1] \in Nat \ {0}
    BY <1>2, <2>1
  <2>3. \A m \in 0 .. n : m = n \/ m \in 0 .. n - 1
    BY <1>1
  <2> QED BY <1>1, <1>5, <2>2, <2>3
<1>6. 0 .. N \subseteq S
  <2> HIDE DEF S
  <2> QED BY <1>1, <1>4, <1>5, UpTo
<1>7. \A n \in 0 .. N : \A m \in 0 .. n : pow[m] \in Nat \ {0} /\ pow[m] <= pow[n] /\ m \in 0 .. N
  BY <1>1, <1>6
<1> QED BY <1>3, <1>7 DEF N

\* The number of bits that sovSchedule counts, and the bytes the loop writes.
BitLength(odd) == CHOOSE n \in 1 .. WordBits : 2 ^ (n - 1) <= odd /\ odd < 2 ^ n

VarintLength(v) ==
    CHOOSE n \in 1 .. (WordBits + 6) \div 7 : v < 2 ^ (7 * n) /\ (n = 1 \/ v >= 2 ^ (7 * (n - 1)))

\* Every word that is not 0 has a bit length.
LEMMA BitLengthIs ==
    ASSUME NEW odd \in 1 .. Word - 1
    PROVE  /\ BitLength(odd) \in 1 .. WordBits
           /\ 2 ^ (BitLength(odd) - 1) <= odd /\ odd < 2 ^ BitLength(odd)
<1> DEFINE S == {n \in 1 .. WordBits : odd < 2 ^ n}
<1>1. WordBits \in Nat \ {0} /\ Word \in Nat /\ Word = 2 ^ WordBits
  BY WireAssumption, PowersGrow DEF Word
<1>2. WordBits \in S
  BY <1>1
<1>3. PICK n \in S : \A m \in S : n <= m
  <2>1. S \in SUBSET Nat /\ S # {}
    BY <1>2
  <2> HIDE DEF S
  <2> QED BY <2>1, LeastMember
<1>4. n \in 1 .. WordBits /\ odd < 2 ^ n
  OBVIOUS
<1>5. 2 ^ (n - 1) <= odd
  <2>1. CASE n = 1
    BY <2>1, WireAssumption
  <2>2. CASE n # 1
    <3>1. n - 1 \in 1 .. WordBits /\ n - 1 \notin S /\ n - 1 \in 0 .. WordBits + 7
      BY <1>1, <1>3, <1>4, <2>2
    <3>2. ~(odd < 2 ^ (n - 1)) /\ 2 ^ (n - 1) \in Nat
      BY <1>1, <3>1, PowersGrow
    <3> QED BY <1>1, <3>2
  <2> QED BY <2>1, <2>2
<1> QED BY <1>4, <1>5 DEF BitLength

\* Every word has a number of bytes that its varint takes.
LEMMA VarintLengthIs ==
    ASSUME NEW v \in 0 .. Word - 1
    PROVE  /\ VarintLength(v) \in 1 .. (WordBits + 6) \div 7
           /\ v < 2 ^ (7 * VarintLength(v))
           /\ VarintLength(v) = 1 \/ v >= 2 ^ (7 * (VarintLength(v) - 1))
<1> DEFINE K == (WordBits + 6) \div 7
           S == {n \in 1 .. K : v < 2 ^ (7 * n)}
<1>1. WordBits \in Nat \ {0} /\ Word = 2 ^ WordBits
  BY WireAssumption DEF Word
<1>2. K \in Nat /\ 1 <= K /\ 7 * K \in WordBits .. WordBits + 6
  BY <1>1
<1> HIDE DEF K
<1>3. K \in S
  <2>1. 2 ^ WordBits <= 2 ^ (7 * K) /\ 2 ^ WordBits \in Nat /\ 2 ^ (7 * K) \in Nat
    <3>1. 7 * K \in 0 .. WordBits + 7 /\ WordBits \in 0 .. 7 * K /\ 7 * K \in 0 .. 7 * K
      BY <1>1, <1>2
    <3> QED BY <3>1, PowersGrow
  <2> QED BY <1>1, <1>2, <2>1
<1>4. PICK n \in S : \A m \in S : n <= m
  <2>1. S \in SUBSET Nat /\ S # {}
    BY <1>3
  <2> HIDE DEF S
  <2> QED BY <2>1, LeastMember
<1>5. n \in 1 .. K /\ v < 2 ^ (7 * n)
  OBVIOUS
<1>6. n = 1 \/ v >= 2 ^ (7 * (n - 1))
  <2> SUFFICES ASSUME n # 1 PROVE v >= 2 ^ (7 * (n - 1))
    OBVIOUS
  <2>1. n - 1 \in 1 .. K /\ n - 1 \notin S /\ 7 * (n - 1) \in 0 .. WordBits + 7
    BY <1>1, <1>2, <1>4, <1>5
  <2>2. ~(v < 2 ^ (7 * (n - 1))) /\ 2 ^ (7 * (n - 1)) \in Nat
    BY <1>1, <2>1, PowersGrow
  <2> QED BY <1>1, <2>2
<1> QED BY <1>5, <1>6 DEF VarintLength, K

\* The size that is reserved for a varint is the number of bytes the loop writes.
LEMMA SovIsLength ==
    ASSUME NEW v \in 0 .. Word - 1
    PROVE  sovSchedule(v) = VarintLength(v) /\ sovSchedule(v) \in Nat \ {0}
<1> DEFINE odd == IF v % 2 = 0 THEN v + 1 ELSE v
           len == BitLength(odd)
           c == VarintLength(v)
<1>1. WordBits \in Nat \ {0} /\ Word \in Nat /\ Word = 2 ^ WordBits
  BY WireAssumption, PowersGrow DEF Word
<1>2. sovSchedule(v) = (len + 6) \div 7
  BY DEF sovSchedule, BitLength
<1>3. c \in 1 .. (WordBits + 6) \div 7 /\ v < 2 ^ (7 * c) /\ (c = 1 \/ v >= 2 ^ (7 * (c - 1)))
  BY VarintLengthIs
<1>4. c \in Nat \ {0} /\ 7 * c \in 1 .. WordBits + 6 /\ 7 * (c - 1) \in 0 .. WordBits + 6
  BY <1>1, <1>3
<1> HIDE DEF c
<1>5. \A n \in 1 .. WordBits + 6 : \E h \in Nat : 2 ^ n = 2 * h
  <2> SUFFICES ASSUME NEW n \in 1 .. WordBits + 6 PROVE \E h \in Nat : 2 ^ n = 2 * h
    OBVIOUS
  <2>1. n - 1 \in 0 .. WordBits + 6 /\ (n - 1) + 1 = n
    BY <1>1
  <2>2. 2 ^ (n - 1) \in Nat /\ 2 ^ n = 2 * 2 ^ (n - 1)
    BY <2>1, WireAssumption
  <2> QED BY <2>2
<1>6. odd \in 1 .. Word - 1 /\ odd < 2 ^ (7 * c) /\ v <= odd
  <2>1. PICK h \in Nat : Word = 2 * h
    BY <1>1, <1>5
  <2>2. PICK k \in Nat : 2 ^ (7 * c) = 2 * k
    BY <1>4, <1>5
  <2>3. v < 2 * h /\ v < 2 * k
    BY <1>3, <2>1, <2>2
  <2>4. odd \in Nat /\ odd < 2 * h /\ odd < 2 * k /\ 1 <= odd /\ v <= odd
    BY <2>3
  <2> QED BY <2>1, <2>2, <2>4
<1> HIDE DEF odd
<1>7. len \in 1 .. WordBits /\ 2 ^ (len - 1) <= odd /\ odd < 2 ^ len
  BY <1>6, BitLengthIs
<1> HIDE DEF len
<1>8. \A m, n \in 0 .. WordBits + 7 : 2 ^ m < 2 ^ n => m < n
  <2> SUFFICES ASSUME NEW m \in 0 .. WordBits + 7, NEW n \in 0 .. WordBits + 7, ~(m < n)
               PROVE  ~(2 ^ m < 2 ^ n)
    OBVIOUS
  <2>1. n \in 0 .. m /\ m \in 0 .. m
    BY <1>1
  <2>2. 2 ^ n <= 2 ^ m /\ 2 ^ n \in Nat /\ 2 ^ m \in Nat
    BY <2>1, PowersGrow
  <2> QED BY <2>2
<1>9. /\ len - 1 \in 0 .. WordBits + 7 /\ len \in 0 .. WordBits + 7
      /\ 7 * c \in 0 .. WordBits + 7 /\ 7 * (c - 1) \in 0 .. WordBits + 7
  BY <1>1, <1>4, <1>7
<1>10. /\ 2 ^ (len - 1) \in Nat /\ 2 ^ len \in Nat /\ 2 ^ (7 * c) \in Nat
       /\ 2 ^ (7 * (c - 1)) \in Nat /\ odd \in Nat
  <2>1. \A n \in 0 .. WordBits + 7 : 2 ^ n \in Nat
    BY <1>1, PowersGrow
  <2> QED BY <1>1, <1>6, <1>9, <2>1
<1>11. len - 1 < 7 * c
  <2>1. 2 ^ (len - 1) < 2 ^ (7 * c)
    BY <1>6, <1>7, <1>10
  <2> QED BY <1>8, <1>9, <2>1
<1>12. c = 1 \/ 7 * (c - 1) < len
  <2> SUFFICES ASSUME c # 1 PROVE 7 * (c - 1) < len
    OBVIOUS
  <2>1. 2 ^ (7 * (c - 1)) < 2 ^ len
    BY <1>3, <1>6, <1>7, <1>10
  <2> QED BY <1>8, <1>9, <2>1
<1>13. (len + 6) \div 7 = c
  BY <1>4, <1>7, <1>11, <1>12
<1> QED BY <1>2, <1>4, <1>13 DEF c

\* encodeVarintSchedule makes room for what it writes.
LEMMA VarintTakes ==
    ASSUME NEW v \in 0 .. Word - 1
    PROVE  encodeVarintSchedule(v) \in WriteType /\ encodeVarintSchedule(v).room = sovSchedule(v)
<1> DEFINE c == VarintLength(v)
           bytes == [j \in 1 .. c |->
                       ((v \div 2 ^ (7 * (j - 1))) % 128) + (IF j < c THEN 128 ELSE 0)]
<1>1. encodeVarintSchedule(v) = [room |-> sovSchedule(v), bytes |-> bytes]
  BY DEF encodeVarintSchedule, VarintLength
<1>2. c \in Nat /\ sovSchedule(v) = c /\ 7 * (c - 1) <= WordBits /\ v \in Nat
  <2>1. c \in 1 .. (WordBits + 6) \div 7 /\ sovSchedule(v) = c
    BY SovIsLength, VarintLengthIs
  <2>2. WordBits \in Nat
    BY WireAssumption
  <2> HIDE DEF c
  <2> QED BY <2>1, <2>2
<1> HIDE DEF c
<1>3. \A j \in 1 .. c : bytes[j] \in Byte
  <2> SUFFICES ASSUME NEW j \in 1 .. c PROVE bytes[j] \in Byte
    OBVIOUS
  <2>1. 7 * (j - 1) \in 0 .. WordBits + 7
    BY <1>2, WireAssumption
  <2>2. 2 ^ (7 * (j - 1)) \in Nat \ {0}
    BY <1>2, <2>1, WireAssumption, PowersGrow
  <2> DEFINE d == 2 ^ (7 * (j - 1))
             x == v \div d
  <2> HIDE DEF d
  <2>3. x \in Int
    BY <1>2, <2>2 DEF d
  <2> HIDE DEF x
  <2>4. x % 128 \in 0 .. 127
    BY <2>3
  <2> QED BY <2>4 DEF Byte, x, d
<1>4. bytes \in Seq(Byte) /\ Len(bytes) = c
  <2> HIDE DEF bytes
  <2>1. bytes = [j \in 1 .. c |-> bytes[j]]
    BY DEF bytes
  <2> QED BY <1>2, <1>3, <2>1
<1> HIDE DEF bytes
<1> QED BY <1>1, <1>2, <1>4 DEF WriteType

----------------------------------------------------------------------------
(* Fields.                                                                 *)

\* copy() makes room for what it copies.
LEMMA CopyTakes ==
    ASSUME NEW bytes \in Seq(Byte)
    PROVE  Copy(bytes) \in WriteType /\ Copy(bytes).room = Len(bytes)
BY DEF Copy, WriteType

\* Joining short sequences.
LEMMA Joined ==
    ASSUME NEW T, NEW a \in T, NEW b \in T, NEW c \in T
    PROVE  <<a>> \o <<b>> = <<a, b>> /\ <<a>> \o <<b, c>> = <<a, b, c>>
<1>1. <<a>> \in Seq(T) /\ <<b>> \in Seq(T) /\ <<b, c>> \in Seq(T)
  OBVIOUS
<1>2. Len(<<a>> \o <<b>>) = 2 /\ (<<a>> \o <<b>>)[1] = a /\ (<<a>> \o <<b>>)[2] = b
  BY <1>1
<1>3. /\ Len(<<a>> \o <<b, c>>) = 3 /\ (<<a>> \o <<b, c>>)[1] = a
      /\ (<<a>> \o <<b, c>>)[2] = b /\ (<<a>> \o <<b, c>>)[3] = c
  BY <1>1
<1>4. <<a>> \o <<b>> \in Seq(T) /\ <<a, b>> \in Seq(T)
      /\ <<a>> \o <<b, c>> \in Seq(T) /\ <<a, b, c>> \in Seq(T)
  BY <1>1
<1>5. <<a>> \o <<b>> = <<a, b>>
  <2>1. Len(<<a, b>>) = 2 /\ \A i \in 1 .. 2 : (<<a>> \o <<b>>)[i] = <<a, b>>[i]
    BY <1>2
  <2> QED BY <1>2, <1>4, <2>1, SeqEqual
<1>6. <<a>> \o <<b, c>> = <<a, b, c>>
  <2>1. Len(<<a, b, c>>) = 3 /\ \A i \in 1 .. 3 : (<<a>> \o <<b, c>>)[i] = <<a, b, c>>[i]
    BY <1>3
  <2> QED BY <1>3, <1>4, <2>1, SeqEqual
<1> QED BY <1>5, <1>6

\* A length in front of what it is the length of, and a tag in front of both.
LEMMA PrefixTakes ==
    ASSUME NEW v \in 0 .. Word - 1, NEW tag \in Byte
    PROVE  Takes(<<encodeVarintSchedule(v), Copy(<<tag>>)>>, sovSchedule(v) + 1)
<1> DEFINE a == encodeVarintSchedule(v)
           b == Copy(<<tag>>)
<1>1. Takes(<<a>>, sovSchedule(v))
  BY VarintTakes, RoomOfFew
<1>2. Takes(<<b>>, 1)
  <2>1. <<tag>> \in Seq(Byte) /\ Len(<<tag>>) = 1
    OBVIOUS
  <2>2. b \in WriteType /\ b.room = 1
    BY <2>1, CopyTakes
  <2> QED BY <2>2, RoomOfFew
<1> HIDE DEF a, b
<1>3. Takes(<<a>> \o <<b>>, sovSchedule(v) + 1)
  BY <1>1, <1>2, RoomOfBoth
<1>4. <<a>> \o <<b>> = <<a, b>>
  <2>1. a \in WriteType /\ b \in WriteType
    BY <1>1, <1>2 DEF Takes
  <2> QED BY <2>1, Joined
<1> QED BY <1>3, <1>4 DEF a, b

\* A field of type uint64.
LEMMA VarintFieldTakes ==
    ASSUME NEW v \in 0 .. Word - 1, NEW tag \in Byte
    PROVE  Takes(VarintField(tag, v), VarintSize(v))
<1>1. CASE v = 0
  BY <1>1, RoomOfFew DEF VarintField, VarintSize
<1>2. CASE v # 0
  <2>1. sovSchedule(v) + 1 = 1 + sovSchedule(v)
    BY SovIsLength
  <2> QED BY <1>2, <2>1, PrefixTakes DEF VarintField, VarintSize
<1> QED BY <1>1, <1>2

\* The byte slices whose length a varint can hold.
Slice == {b \in Seq(Byte) : Len(b) < Word}

\* A field of type string or []byte.
LEMMA BytesFieldTakes ==
    ASSUME NEW b \in Slice, NEW tag \in Byte
    PROVE  Takes(BytesField(tag, b), BytesSize(b))
<1>1. CASE b = <<>>
  BY <1>1, RoomOfFew DEF BytesField, BytesSize
<1>2. CASE b # <<>>
  <2> DEFINE x == Copy(b)
             y == encodeVarintSchedule(Len(b))
             z == Copy(<<tag>>)
  <2>1. b \in Seq(Byte) /\ Len(b) \in 0 .. Word - 1
    <3>1. Word \in Nat
      BY WireAssumption, PowersGrow DEF Word
    <3> QED BY <3>1 DEF Slice
  <2>2. Takes(<<x>>, Len(b))
    BY <2>1, CopyTakes, RoomOfFew
  <2>3. Takes(<<y, z>>, sovSchedule(Len(b)) + 1)
    BY <2>1, PrefixTakes
  <2>4. sovSchedule(Len(b)) \in Nat
    BY <2>1, SovIsLength
  <2> HIDE DEF x, y, z
  <2>5. Takes(<<x>> \o <<y, z>>, Len(b) + (sovSchedule(Len(b)) + 1))
    BY <2>2, <2>3, RoomOfBoth
  <2>6. <<x>> \o <<y, z>> = <<x, y, z>>
    <3>1. x \in WriteType /\ y \in WriteType /\ z \in WriteType
      BY <2>2, <2>3 DEF Takes
    <3> QED BY <3>1, Joined
  <2>7. Len(b) + (sovSchedule(Len(b)) + 1) = 1 + Len(b) + sovSchedule(Len(b))
    BY <2>1, <2>4
  <2>8. Takes(<<x, y, z>>, 1 + Len(b) + sovSchedule(Len(b)))
    BY <2>5, <2>6, <2>7
  <2> QED BY <1>2, <2>8 DEF BytesField, BytesSize, x, y, z
<1> QED BY <1>1, <1>2

\* A field that is a message.
LEMMA MessageFieldTakes ==
    ASSUME NEW writes, NEW n, Takes(writes, n), n < Word, NEW tag \in Byte
    PROVE  Takes(MessageField(tag, writes), MessageSize(n))
<1>1. n \in Nat /\ Room(writes) = n
  BY DEF Takes
<1>2. n \in 0 .. Word - 1
  <2>1. Word \in Nat
    BY WireAssumption, PowersGrow DEF Word
  <2> QED BY <1>1, <2>1
<1> DEFINE p == <<encodeVarintSchedule(n), Copy(<<tag>>)>>
<1>3. Takes(p, sovSchedule(n) + 1) /\ sovSchedule(n) \in Nat
  BY <1>2, PrefixTakes, SovIsLength
<1>4. MessageField(tag, writes) = writes \o p
  BY <1>1 DEF MessageField
<1> HIDE DEF p
<1>5. Takes(writes \o p, n + (sovSchedule(n) + 1))
  BY <1>3, RoomOfBoth
<1>6. n + (sovSchedule(n) + 1) = 1 + n + sovSchedule(n)
  BY <1>1, <1>3
<1> QED BY <1>4, <1>5, <1>6 DEF MessageSize

\* A field that is a pointer to a message.
LEMMA PointerFieldTakes ==
    ASSUME NEW m, NEW writes, NEW n, m # Nil => Takes(writes, n) /\ n < Word, NEW tag \in Byte
    PROVE  Takes(PointerField(tag, m, writes), PointerSize(m, n))
<1>1. CASE m = Nil
  BY <1>1, RoomOfFew DEF PointerField, PointerSize
<1>2. CASE m # Nil
  BY <1>2, MessageFieldTakes DEF PointerField, PointerSize
<1> QED BY <1>1, <1>2

\* What a repeated field writes for its first 0, 1, 2, ... elements.
FirstsOf(tag, s, first) ==
    /\ first \in [0 .. Len(s) -> Seq(WriteType)] /\ first[0] = <<>>
    /\ \A n \in 1 .. Len(s) : first[n] = MessageField(tag, s[n]) \o first[n - 1]

\* There are such writes, and the last are those of the field.
LEMMA FirstsExist ==
    ASSUME NEW N \in Nat, NEW s, DOMAIN s = 1 .. N, Len(s) = N, NEW tag,
           \A n \in 1 .. N : MessageField(tag, s[n]) \in Seq(WriteType)
    PROVE  \E first : FirstsOf(tag, s, first) /\ RepeatedField(tag, s) = first[N]
<1> DEFINE F(n) == MessageField(tag, s[n])
           IsF(f) == f = [n \in 0 .. N |-> IF n = 0 THEN <<>> ELSE F(n) \o f[n - 1]]
           first == CHOOSE f : IsF(f)
<1>1. RepeatedField(tag, s) = first[N]
  BY DEF RepeatedField
<1>2. \A n \in 1 .. N : F(n) \in Seq(WriteType)
  OBVIOUS
<1> HIDE DEF F
<1> DEFINE step == [p \in (1 .. N) \X Seq(WriteType) |-> F(p[1]) \o p[2]]
<1>3. step \in [(1 .. N) \X Seq(WriteType) -> Seq(WriteType)]
  BY <1>2, SMTT(30)
<1>4. PICK g : Follows(g, N, Seq(WriteType), <<>>, step)
  <2>1. <<>> \in Seq(WriteType)
    OBVIOUS
  <2> HIDE DEF step
  <2> QED BY <1>3, <2>1, Along
<1>5. \A n \in 1 .. N : g[n] = F(n) \o g[n - 1]
  <2> SUFFICES ASSUME NEW n \in 1 .. N PROVE g[n] = F(n) \o g[n - 1]
    OBVIOUS
  <2>1. n - 1 \in 0 .. N /\ g[n - 1] \in Seq(WriteType)
    BY <1>4 DEF Follows
  <2>2. <<n, g[n - 1]>> \in (1 .. N) \X Seq(WriteType)
    BY <2>1
  <2>3. g[n] = step[<<n, g[n - 1]>>]
    BY <1>4 DEF Follows
  <2> QED BY <2>2, <2>3
<1>6. g \in [0 .. N -> Seq(WriteType)] /\ g[0] = <<>>
  BY <1>4 DEF Follows
<1>7. IsF(g)
  <2>1. g = [n \in 0 .. N |-> g[n]]
    BY <1>6
  <2>2. \A n \in 0 .. N : g[n] = IF n = 0 THEN <<>> ELSE F(n) \o g[n - 1]
    <3>1. \A n \in 0 .. N : n = 0 \/ n \in 1 .. N
      OBVIOUS
    <3> QED BY <1>5, <1>6, <3>1
  <2> QED BY <2>1, <2>2, Zenon
<1>8. IsF(first)
  <2> HIDE DEF IsF
  <2> QED BY <1>7
<1> HIDE DEF first
<1>9. \A n \in 0 .. N : first[n] = IF n = 0 THEN <<>> ELSE F(n) \o first[n - 1]
  BY <1>8, Zenon
<1>10. first[0] = <<>> /\ \A n \in 1 .. N : first[n] = F(n) \o first[n - 1]
  <2>1. 0 \in 0 .. N /\ \A n \in 1 .. N : n \in 0 .. N /\ n # 0
    OBVIOUS
  <2> QED BY <1>9, <2>1
<1> DEFINE S == {n \in 0 .. N : first[n] \in Seq(WriteType)}
<1>11. 0 \in S
  <2>1. <<>> \in Seq(WriteType) /\ 0 \in 0 .. N
    OBVIOUS
  <2>2. first[0] \in Seq(WriteType)
    BY <1>10, <2>1, Zenon
  <2> QED BY <2>1, <2>2, Zenon
<1>12. ASSUME NEW n \in 1 .. N, n - 1 \in S PROVE n \in S
  <2> DEFINE x == F(n)
             y == first[n - 1]
  <2>1. y \in Seq(WriteType) /\ x \in Seq(WriteType)
    BY <1>2, <1>12
  <2>2. first[n] = x \o y
    BY <1>10
  <2> HIDE DEF x, y
  <2>3. first[n] \in Seq(WriteType)
    BY <2>1, <2>2
  <2> QED BY <2>3
<1>13. 0 .. N \subseteq S
  <2> HIDE DEF S
  <2> QED BY <1>11, <1>12, UpTo
<1>14. first \in [0 .. N -> Seq(WriteType)]
  <2>1. first = [n \in 0 .. N |-> first[n]]
    <3>1. first = [n \in 0 .. N |-> IF n = 0 THEN <<>> ELSE F(n) \o first[n - 1]]
      BY <1>8
    <3> QED BY <1>9, <3>1, Zenon
  <2>2. \A n \in 0 .. N : first[n] \in Seq(WriteType)
    BY <1>13
  <2> QED BY <2>1, <2>2
<1>15. FirstsOf(tag, s, first)
  BY <1>10, <1>14 DEF FirstsOf, F
<1> QED BY <1>1, <1>15

\* The elements of a repeated field are written from the last to the first and
\* counted from the first to the last.
LEMMA RepeatedFieldTakes ==
    ASSUME NEW N \in Nat, NEW s \in [1 .. N -> Seq(WriteType)], NEW sizes \in [1 .. N -> Nat],
           \A n \in 1 .. N : Takes(s[n], sizes[n]) /\ sizes[n] < Word,
           NEW tag \in Byte
    PROVE  Takes(RepeatedField(tag, s), RepeatedSize(sizes))
<1> DEFINE F(n) == MessageField(tag, s[n])
           Z(n) == MessageSize(sizes[n])
           IsS(f) == f = [n \in 0 .. N |-> IF n = 0 THEN 0 ELSE f[n - 1] + Z(n)]
           sum == CHOOSE f : IsS(f)
<1>1. Len(s) = N /\ Len(sizes) = N
  OBVIOUS
<1>2. RepeatedSize(sizes) = sum[N]
  BY <1>1 DEF RepeatedSize
<1>3. \A n \in 1 .. N : Takes(F(n), Z(n))
  BY MessageFieldTakes
<1> HIDE DEF F, Z
<1>4. \A n \in 1 .. N : F(n) \in Seq(WriteType) /\ Z(n) \in Nat
  BY <1>3 DEF Takes
<1>5. PICK first : FirstsOf(tag, s, first) /\ RepeatedField(tag, s) = first[N]
  <2>1. DOMAIN s = 1 .. N
    OBVIOUS
  <2> QED BY <1>1, <1>4, <2>1, FirstsExist DEF F
<1>6. IsS(sum)
  <2> DEFINE step == [p \in (1 .. N) \X Nat |-> p[2] + Z(p[1])]
  <2>1. step \in [(1 .. N) \X Nat -> Nat]
    BY <1>4, SMTT(30)
  <2>2. PICK g : Follows(g, N, Nat, 0, step)
    <3>1. 0 \in Nat
      OBVIOUS
    <3> HIDE DEF step
    <3> QED BY <2>1, <3>1, Along
  <2>3. \A n \in 1 .. N : g[n] = g[n - 1] + Z(n)
    <3> SUFFICES ASSUME NEW n \in 1 .. N PROVE g[n] = g[n - 1] + Z(n)
      OBVIOUS
    <3>1. n - 1 \in 0 .. N /\ g[n - 1] \in Nat
      BY <2>2 DEF Follows
    <3>2. <<n, g[n - 1]>> \in (1 .. N) \X Nat
      BY <3>1
    <3>3. g[n] = step[<<n, g[n - 1]>>]
      BY <2>2 DEF Follows
    <3> QED BY <3>2, <3>3
  <2>4. g \in [0 .. N -> Nat] /\ g[0] = 0
    BY <2>2 DEF Follows
  <2>5. IsS(g)
    BY <2>3, <2>4
  <2> HIDE DEF IsS
  <2> QED BY <2>5
<1> HIDE DEF sum
<1>7. first[0] = <<>> /\ \A n \in 1 .. N : first[n] = F(n) \o first[n - 1]
  BY <1>1, <1>5 DEF FirstsOf, F
<1>8. sum[0] = 0 /\ \A n \in 1 .. N : sum[n] = sum[n - 1] + Z(n)
  BY <1>6
<1> DEFINE S == {n \in 0 .. N : Takes(first[n], sum[n])}
<1>9. 0 \in S
  BY <1>7, <1>8, RoomOfFew
<1>10. ASSUME NEW n \in 1 .. N, n - 1 \in S PROVE n \in S
  <2>1. Takes(first[n - 1], sum[n - 1]) /\ Takes(F(n), Z(n))
    BY <1>3, <1>10
  <2>2. Takes(F(n) \o first[n - 1], Z(n) + sum[n - 1])
    BY <2>1, RoomOfBoth
  <2>3. Z(n) \in Nat /\ sum[n - 1] \in Nat
    BY <2>1 DEF Takes
  <2>4. Z(n) + sum[n - 1] = sum[n]
    BY <1>8, <2>3
  <2>5. first[n] = F(n) \o first[n - 1]
    BY <1>7
  <2>6. Takes(first[n], sum[n])
    BY <2>2, <2>4, <2>5, Zenon
  <2> QED BY <2>6
<1>11. N \in S
  <2> HIDE DEF S
  <2>1. 0 .. N \subseteq S
    BY <1>9, <1>10, UpTo
  <2> QED BY <2>1
<1> QED BY <1>2, <1>5, <1>11

----------------------------------------------------------------------------
(* The buffer.                                                             *)

\* What the first writes take is not more than what all take.
LEMMA RoomGrows ==
    ASSUME NEW writes \in Seq(WriteType), NEW r, RoomOf(writes, r)
    PROVE  \A n \in 0 .. Len(writes) : r[n] <= r[Len(writes)]
<1> DEFINE N == Len(writes)
           S == {k \in 0 .. N : r[N - k] <= r[N]}
<1>1. N \in Nat /\ \A n \in 1 .. N : writes[n].room \in Nat
  <2>1. \A w \in WriteType : w.room \in Nat
    BY DEF WriteType
  <2> QED BY <2>1
<1>2. r \in [0 .. N -> Nat] /\ \A n \in 1 .. N : r[n] = r[n - 1] + writes[n].room
  BY DEF RoomOf
<1> HIDE DEF N
<1>3. 0 \in S
  BY <1>1, <1>2
<1>4. ASSUME NEW k \in 1 .. N, k - 1 \in S PROVE k \in S
  <2> DEFINE n == N - (k - 1)
  <2>1. n \in 1 .. N /\ n \in 0 .. N /\ n - 1 \in 0 .. N /\ n - 1 = N - k
    BY <1>1
  <2>2. r[n] <= r[N]
    BY <1>4
  <2> HIDE DEF n
  <2>3. r[n] = r[n - 1] + writes[n].room /\ r[n] \in Nat /\ r[n - 1] \in Nat /\ r[N] \in Nat
        /\ writes[n].room \in Nat
    BY <1>1, <1>2, <2>1
  <2>4. r[n - 1] <= r[N]
    BY <2>2, <2>3
  <2> QED BY <1>1, <2>1, <2>4
<1>5. 0 .. N \subseteq S
  <2> HIDE DEF S
  <2> QED BY <1>1, <1>3, <1>4, UpTo
<1>6. \A n \in 0 .. N : N - n \in 0 .. N /\ N - (N - n) = n
  BY <1>1
<1> QED BY <1>5, <1>6 DEF N

BufferType(size) == [dAtA : [1 .. size -> Byte], i : Int, ok : BOOLEAN]

\* A write within the room that is left.
LEMMA WriteKeeps ==
    ASSUME NEW size \in Nat, NEW buf \in BufferType(size), NEW w \in WriteType
    PROVE  /\ Write(buf, w) \in BufferType(size)
           /\ Write(buf, w).i = buf.i - w.room
           /\ buf.ok /\ 0 <= buf.i - w.room /\ buf.i <= size => Write(buf, w).ok
<1> DEFINE i == buf.i - w.room
           ok == buf.ok /\ i >= 0 /\ i + Len(w.bytes) <= Len(buf.dAtA)
           d == IF ok THEN [j \in DOMAIN buf.dAtA |->
                              IF j - i \in DOMAIN w.bytes THEN w.bytes[j - i] ELSE buf.dAtA[j]]
                      ELSE buf.dAtA
<1>1. Write(buf, w) = [dAtA |-> d, i |-> i, ok |-> ok]
  BY DEF Write
<1>2. /\ buf.dAtA \in [1 .. size -> Byte] /\ buf.i \in Int /\ buf.ok \in BOOLEAN
      /\ w.room \in Nat /\ w.bytes \in Seq(Byte) /\ Len(w.bytes) = w.room
  BY DEF BufferType, WriteType
<1>3. i \in Int /\ Len(buf.dAtA) = size /\ DOMAIN buf.dAtA = 1 .. size
  BY <1>2
<1>4. d \in [1 .. size -> Byte]
  <2>1. \A j \in 1 .. size : j - i \in DOMAIN w.bytes => w.bytes[j - i] \in Byte
    BY <1>2
  <2>2. \A j \in 1 .. size : buf.dAtA[j] \in Byte
    BY <1>2
  <2> HIDE DEF i, ok
  <2> QED BY <1>2, <1>3, <2>1, <2>2
<1>5. ok \in BOOLEAN
  OBVIOUS
<1>6. buf.ok /\ 0 <= i /\ buf.i <= size => ok
  BY <1>2, <1>3
<1> HIDE DEF d, ok, i
<1>7. Write(buf, w) \in BufferType(size)
  BY <1>1, <1>3, <1>4, <1>5 DEF BufferType
<1>8. Write(buf, w).i = i /\ Write(buf, w).ok = ok
  BY <1>1
<1> QED BY <1>6, <1>7, <1>8 DEF i

\* The buffer of size bytes after the first 0, 1, 2, ... writes.
Empty(size) == [dAtA |-> [j \in 1 .. size |-> 0], i |-> size, ok |-> TRUE]

BufferOf(writes, size, buf) ==
    /\ buf[0] = Empty(size)
    /\ \A n \in 1 .. Len(writes) : buf[n] = Write(buf[n - 1], writes[n])

\* There are such buffers, and the last one is what MarshalToSizedBuffer leaves.
LEMMA BufferExists ==
    ASSUME NEW writes \in Seq(WriteType), NEW size \in Nat
    PROVE  \E buf : /\ BufferOf(writes, size, buf)
                   /\ MarshalToSizedBuffer(size, writes) = buf[Len(writes)]
<1> DEFINE N == Len(writes)
           start == Empty(size)
           Is(f) == f = [n \in 0 .. N |-> IF n = 0 THEN start ELSE Write(f[n - 1], writes[n])]
           buf == CHOOSE f : Is(f)
           T == BufferType(size)
<1>2. N \in Nat /\ \A n \in 1 .. N : writes[n] \in WriteType
  OBVIOUS
<1>3. MarshalToSizedBuffer(size, writes) = buf[N]
  BY DEF MarshalToSizedBuffer, Empty
<1>4. start \in T
  BY DEF BufferType, Byte, Empty
<1> HIDE DEF start, N, T
<1>5. \A n \in 1 .. N : \A b \in T : Write(b, writes[n]) \in T
  BY <1>2, WriteKeeps DEF T
<1>6. Is(buf)
  <2> DEFINE step == [p \in (1 .. N) \X T |-> Write(p[2], writes[p[1]])]
  <2>1. step \in [(1 .. N) \X T -> T]
    BY <1>5
  <2>2. PICK g : Follows(g, N, T, start, step)
    <3> HIDE DEF step
    <3> QED BY <1>2, <1>4, <2>1, Along
  <2>3. \A n \in 1 .. N : g[n] = Write(g[n - 1], writes[n])
    <3> SUFFICES ASSUME NEW n \in 1 .. N PROVE g[n] = Write(g[n - 1], writes[n])
      OBVIOUS
    <3>1. n - 1 \in 0 .. N /\ g[n - 1] \in T
      BY <1>2, <2>2 DEF Follows
    <3>2. <<n, g[n - 1]>> \in (1 .. N) \X T
      BY <3>1
    <3>3. g[n] = step[<<n, g[n - 1]>>]
      BY <2>2 DEF Follows
    <3> QED BY <3>2, <3>3
  <2>4. g \in [0 .. N -> T] /\ g[0] = start
    BY <2>2 DEF Follows
  <2>5. Is(g)
    <3>1. g = [n \in 0 .. N |-> g[n]]
      BY <2>4
    <3>2. \A n \in 0 .. N : g[n] = IF n = 0 THEN start ELSE Write(g[n - 1], writes[n])
      <4>1. \A n \in 0 .. N : n = 0 \/ n \in 1 .. N
        BY <1>2
      <4> QED BY <2>3, <2>4, <4>1
    <3> QED BY <3>1, <3>2, Zenon
  <2> HIDE DEF Is
  <2> QED BY <2>5
<1> HIDE DEF buf
<1>7. buf[0] = start /\ \A n \in 1 .. N : buf[n] = Write(buf[n - 1], writes[n])
  <2>1. 0 \in 0 .. N /\ \A n \in 1 .. N : n \in 0 .. N /\ n # 0
    BY <1>2
  <2>2. \A n \in 0 .. N : buf[n] = IF n = 0 THEN start ELSE Write(buf[n - 1], writes[n])
    BY <1>6, Zenon
  <2> QED BY <2>1, <2>2
<1> QED BY <1>3, <1>7 DEF BufferOf, start, N

\* Writes that take the size of the buffer fill it.
LEMMA BufferFilled ==
    ASSUME NEW writes, NEW size, Takes(writes, size)
    PROVE  MarshalToSizedBuffer(size, writes).ok /\ MarshalToSizedBuffer(size, writes).i = 0
<1> DEFINE N == Len(writes)
           T == BufferType(size)
<1>1. size \in Nat /\ writes \in Seq(WriteType) /\ Room(writes) = size
  BY DEF Takes
<1>2. N \in Nat /\ \A n \in 1 .. N : writes[n] \in WriteType
  BY <1>1
<1>3. PICK buf : BufferOf(writes, size, buf) /\ MarshalToSizedBuffer(size, writes) = buf[N]
  BY <1>1, BufferExists
<1>4. Empty(size) \in T /\ Empty(size).i = size /\ Empty(size).ok
  BY <1>1 DEF BufferType, Byte, Empty
<1>5. buf[0] = Empty(size) /\ \A n \in 1 .. N : buf[n] = Write(buf[n - 1], writes[n])
  BY <1>3 DEF BufferOf
<1> HIDE DEF N, T
<1>8. PICK r : RoomOf(writes, r) /\ size = r[N]
  BY <1>1, RoomExists DEF N
<1>9. /\ r \in [0 .. N -> Nat] /\ r[0] = 0
      /\ \A n \in 1 .. N : r[n] = r[n - 1] + writes[n].room
      /\ \A n \in 0 .. N : r[n] <= size
  BY <1>1, <1>8, RoomGrows DEF RoomOf, N
<1> DEFINE S == {n \in 0 .. N : buf[n] \in T /\ buf[n].ok /\ buf[n].i = size - r[n]}
<1>10. 0 \in S
  BY <1>1, <1>2, <1>4, <1>5, <1>9
<1>11. ASSUME NEW n \in 1 .. N, n - 1 \in S PROVE n \in S
  <2> DEFINE b == buf[n - 1]
             w == writes[n]
  <2>1. b \in T /\ b.ok /\ b.i = size - r[n - 1]
    BY <1>11
  <2>2. n \in 0 .. N /\ n - 1 \in 0 .. N
    BY <1>2
  <2>3. w \in WriteType /\ w.room \in Nat
    BY <1>2 DEF WriteType
  <2>4. /\ r[n] \in Nat /\ r[n - 1] \in Nat /\ r[n] <= size /\ r[n] = r[n - 1] + w.room
    BY <1>9, <2>2
  <2>5. buf[n] = Write(b, w)
    BY <1>5
  <2> HIDE DEF b, w
  <2>6. b.i - w.room = size - r[n] /\ 0 <= b.i - w.room /\ b.i <= size
    BY <1>1, <2>1, <2>3, <2>4
  <2>7. Write(b, w) \in T /\ Write(b, w).ok /\ Write(b, w).i = size - r[n]
    BY <1>1, <2>1, <2>3, <2>6, WriteKeeps DEF T
  <2> QED BY <2>2, <2>5, <2>7
<1>12. N \in S
  <2> HIDE DEF S
  <2>1. 0 .. N \subseteq S
    BY <1>2, <1>10, <1>11, UpTo
  <2> QED BY <1>2, <2>1
<1>13. buf[N].ok /\ buf[N].i = 0
  BY <1>1, <1>8, <1>12
<1> QED BY <1>3, <1>13

----------------------------------------------------------------------------
(* Messages: the values a variable of each Go type can have, as far as the *)
(* lengths and sizes that are written in front of a field are uint64s.     *)

Uint64s == 0 .. Word - 1

Coins == [Denom : Slice, Amount : Slice]

SizedCoins == {c \in Coins : CoinSize(c) < Word}

ParamsType == [MinimumBalance : SizedCoins, UpperBound : Uint64s]

SizedParams == {p \in ParamsType : ParamsSize(p) < Word}

Adds == [Signer : Slice, Contract : Slice, CallBody : Slice, BlockHeight : Uint64s]

SizedAdds == {m \in Adds : MsgAddScheduleSize(m) < Word}

Calls == [Contract : Slice, CallBody : Slice, Height : Uint64s, Signer : Slice]

SizedCalls == {m \in Calls : QueryScheduledCallSize(m) < Word}

CoinPointers == SizedCoins \cup {Nil}

AddEvents ==
    [BlockHeight : Uint64s, ScheduledHeight : Uint64s, Signer : Slice, Contract : Slice,
     Balance : CoinPointers, CallBody : Slice]

ExecuteEvents ==
    [BlockHeight : Uint64s, Gas : CoinPointers, Signer : Slice, Contract : Slice,
     BalanceBefore : CoinPointers, CallBody : Slice]

RemoveEvents ==
    [BlockHeight : Uint64s, Signer : Slice, Contract : Slice, Balance : CoinPointers, CallBody : Slice]

MessagesOf(t) ==
    CASE t = "Coin" -> Coins
      [] t = "ScheduledCall" -> [CallBody : Slice]
      [] t = "Params" -> ParamsType
      [] t = "MsgAddSchedule" -> Adds
      [] t = "MsgAddScheduleResponse" -> {None}
      [] t = "MsgRemoveSchedule" -> [Signer : Slice, Contract : Slice]
      [] t = "MsgRemoveScheduleResponse" -> {None}
      [] t = "QueryParamsRequest" -> {None}
      [] t = "QueryParamsResponse" -> [Params : SizedParams]
      [] t = "QueryScheduledCallsRequest" -> {None}
      [] t = "QueryScheduledCall" -> Calls
      [] t = "QueryScheduledCallsResponse" -> [Calls : Seq(SizedCalls)]
      [] t = "AddScheduledCallEvent" -> AddEvents
      [] t = "ExecuteScheduledCallEvent" -> ExecuteEvents
      [] t = "RemoveScheduledCallEvent" -> RemoveEvents
      [] t = "GenesisState" -> [Params : SizedParams, ScheduledCalls : Seq(SizedAdds)]

\* Several fields after each other.
LEMMA RoomOfFour ==
    ASSUME NEW a, NEW i, Takes(a, i), NEW b, NEW j, Takes(b, j),
           NEW c, NEW k, Takes(c, k), NEW d, NEW l, Takes(d, l)
    PROVE  Takes(a \o b \o c \o d, i + j + k + l)
<1>1. Takes(a \o b, i + j)
  BY RoomOfBoth
<1>2. Takes(a \o b \o c, i + j + k)
  BY <1>1, RoomOfBoth
<1> QED BY <1>2, RoomOfBoth

\* The order in which sizes are added up does not matter.
LEMMA TakesNumber ==
    ASSUME NEW a, NEW i, Takes(a, i)
    PROVE  i \in Nat
BY DEF Takes

\* Coin.Marshal writes what Coin.Size counts.
LEMMA CoinTakes ==
    ASSUME NEW c \in Coins
    PROVE  Takes(CoinMarshal(c), CoinSize(c))
<1>1. c.Denom \in Slice /\ c.Amount \in Slice
  BY DEF Coins
<1>2. AmountText(c) \in Slice
  <2>1. <<48>> \in Seq(Byte) /\ Len(<<48>>) = 1
    BY DEF Byte
  <2>2. Word \in Nat /\ 1 < Word
    BY WireAssumption, PowersGrow DEF Word
  <2> QED BY <1>1, <2>1, <2>2 DEF AmountText, Slice
<1> DEFINE x == BytesSize(AmountText(c))
           y == BytesSize(c.Denom)
<1>3. Takes(BytesField(18, AmountText(c)), x) /\ Takes(BytesField(10, c.Denom), y)
  BY <1>1, <1>2, BytesFieldTakes DEF Byte
<1> HIDE DEF x, y
<1>4. Takes(CoinMarshal(c), x + y)
  BY <1>3, RoomOfBoth DEF CoinMarshal
<1>5. x + y = y + x
  BY <1>3, TakesNumber
<1> QED BY <1>4, <1>5 DEF CoinSize, x, y

\* The same for a field that points to a Coin.
LEMMA CoinPointerTakes ==
    ASSUME NEW c \in CoinPointers, NEW tag \in Byte
    PROVE  Takes(PointerField(tag, c, CoinMarshal(c)), PointerSize(c, CoinSize(c)))
<1>1. c # Nil => Takes(CoinMarshal(c), CoinSize(c)) /\ CoinSize(c) < Word
  BY CoinTakes DEF CoinPointers, SizedCoins
<1> QED BY <1>1, PointerFieldTakes

\* Params.Marshal writes what Params.Size counts.
LEMMA ParamsTakes ==
    ASSUME NEW m \in ParamsType
    PROVE  Takes(ParamsMarshal(m), ParamsSize(m))
<1> DEFINE x == VarintSize(m.UpperBound)
           y == MessageSize(CoinSize(m.MinimumBalance))
           a == VarintField(16, m.UpperBound)
           b == MessageField(10, CoinMarshal(m.MinimumBalance))
<1>1. Takes(a, x)
  BY VarintFieldTakes DEF ParamsType, Uint64s, Byte
<1>2. Takes(b, y)
  <2>1. Takes(CoinMarshal(m.MinimumBalance), CoinSize(m.MinimumBalance))
        /\ CoinSize(m.MinimumBalance) < Word
    BY CoinTakes DEF ParamsType, SizedCoins
  <2> QED BY <2>1, MessageFieldTakes DEF Byte
<1>3. ParamsMarshal(m) = a \o b /\ ParamsSize(m) = y + x
  BY DEF ParamsMarshal, ParamsSize
<1> HIDE DEF x, y, a, b
<1>4. Takes(a \o b, x + y)
  BY <1>1, <1>2, RoomOfBoth
<1>5. x + y = y + x
  BY <1>1, <1>2, TakesNumber
<1> QED BY <1>3, <1>4, <1>5

\* MsgAddSchedule.Marshal writes what MsgAddSchedule.Size counts.
LEMMA MsgAddScheduleTakes ==
    ASSUME NEW m \in Adds
    PROVE  Takes(MsgAddScheduleMarshal(m), MsgAddScheduleSize(m))
<1> DEFINE i == VarintSize(m.BlockHeight)
           j == BytesSize(m.CallBody)
           k == BytesSize(m.Contract)
           l == BytesSize(m.Signer)
           a == VarintField(40, m.BlockHeight)
           b == BytesField(26, m.CallBody)
           c == BytesField(18, m.Contract)
           d == BytesField(10, m.Signer)
<1>1. Takes(a, i)
  BY VarintFieldTakes DEF Adds, Uint64s, Byte
<1>2. Takes(b, j) /\ Takes(c, k) /\ Takes(d, l)
  BY BytesFieldTakes DEF Adds, Byte
<1>3. MsgAddScheduleMarshal(m) = a \o b \o c \o d /\ MsgAddScheduleSize(m) = l + k + j + i
  BY DEF MsgAddScheduleMarshal, MsgAddScheduleSize
<1> HIDE DEF a, b, c, d, i, j, k, l
<1>4. Takes(a \o b \o c \o d, i + j + k + l)
  BY <1>1, <1>2, RoomOfFour
<1>5. i + j + k + l = l + k + j + i
  BY <1>1, <1>2, TakesNumber
<1> QED BY <1>3, <1>4, <1>5

\* QueryScheduledCall.Marshal writes what QueryScheduledCall.Size counts.
LEMMA QueryScheduledCallTakes ==
    ASSUME NEW m \in Calls
    PROVE  Takes(QueryScheduledCallMarshal(m), QueryScheduledCallSize(m))
<1> DEFINE i == BytesSize(m.Signer)
           j == VarintSize(m.Height)
           k == BytesSize(m.CallBody)
           l == BytesSize(m.Contract)
           a == BytesField(34, m.Signer)
           b == VarintField(24, m.Height)
           c == BytesField(18, m.CallBody)
           d == BytesField(10, m.Contract)
<1>1. Takes(b, j)
  BY VarintFieldTakes DEF Calls, Uint64s, Byte
<1>2. Takes(a, i) /\ Takes(c, k) /\ Takes(d, l)
  BY BytesFieldTakes DEF Calls, Byte
<1>3. QueryScheduledCallMarshal(m) = a \o b \o c \o d /\ QueryScheduledCallSize(m) = l + k + j + i
  BY DEF QueryScheduledCallMarshal, QueryScheduledCallSize
<1> HIDE DEF a, b, c, d, i, j, k, l
<1>4. Takes(a \o b \o c \o d, i + j + k + l)
  BY <1>1, <1>2, RoomOfFour
<1>5. i + j + k + l = l + k + j + i
  BY <1>1, <1>2, TakesNumber
<1> QED BY <1>3, <1>4, <1>5

\* AddScheduledCallEvent.Marshal writes what AddScheduledCallEvent.Size counts.
LEMMA AddScheduledCallEventTakes ==
    ASSUME NEW m \in AddEvents
    PROVE  Takes(AddScheduledCallEventMarshal(m), AddScheduledCallEventSize(m))
<1> DEFINE i == BytesSize(m.CallBody)
           j == PointerSize(m.Balance, CoinSize(m.Balance))
           k == BytesSize(m.Contract)
           l == BytesSize(m.Signer)
           p == VarintSize(m.ScheduledHeight)
           q == VarintSize(m.BlockHeight)
           a == BytesField(50, m.CallBody)
           b == PointerField(42, m.Balance, CoinMarshal(m.Balance))
           c == BytesField(34, m.Contract)
           d == BytesField(26, m.Signer)
           e == VarintField(16, m.ScheduledHeight)
           f == VarintField(8, m.BlockHeight)
<1>1. Takes(e, p) /\ Takes(f, q)
  BY VarintFieldTakes DEF AddEvents, Uint64s, Byte
<1>2. Takes(a, i) /\ Takes(c, k) /\ Takes(d, l)
  BY BytesFieldTakes DEF AddEvents, Byte
<1>3. Takes(b, j)
  BY CoinPointerTakes DEF AddEvents, Byte
<1>4. AddScheduledCallEventMarshal(m) = a \o b \o c \o d \o e \o f
      /\ AddScheduledCallEventSize(m) = q + p + l + k + j + i
  BY DEF AddScheduledCallEventMarshal, AddScheduledCallEventSize
<1> HIDE DEF a, b, c, d, e, f, i, j, k, l, p, q
<1>5. Takes(a \o b \o c \o d, i + j + k + l)
  BY <1>1, <1>2, <1>3, RoomOfFour
<1>6. Takes(a \o b \o c \o d \o e, i + j + k + l + p)
  BY <1>1, <1>2, <1>3, <1>5, RoomOfBoth
<1>7. Takes(a \o b \o c \o d \o e \o f, i + j + k + l + p + q)
  BY <1>1, <1>2, <1>3, <1>6, RoomOfBoth
<1>8. i + j + k + l + p + q = q + p + l + k + j + i
  BY <1>1, <1>2, <1>3, TakesNumber
<1> QED BY <1>4, <1>7, <1>8

\* ExecuteScheduledCallEvent.Marshal writes what ExecuteScheduledCallEvent.Size counts.
LEMMA ExecuteScheduledCallEventTakes ==
    ASSUME NEW m \in ExecuteEvents
    PROVE  Takes(ExecuteScheduledCallEventMarshal(m), ExecuteScheduledCallEventSize(m))
<1> DEFINE i == BytesSize(m.CallBody)
           j == PointerSize(m.BalanceBefore, CoinSize(m.BalanceBefore))
           k == BytesSize(m.Contract)
           l == BytesSize(m.Signer)
           p == PointerSize(m.Gas, CoinSize(m.Gas))
           q == VarintSize(m.BlockHeight)
           a == BytesField(50, m.CallBody)
           b == PointerField(42, m.BalanceBefore, CoinMarshal(m.BalanceBefore))
           c == BytesField(34, m.Contract)
           d == BytesField(26, m.Signer)
           e == PointerField(18, m.Gas, CoinMarshal(m.Gas))
           f == VarintField(8, m.BlockHeight)
<1>1. Takes(f, q)
  BY VarintFieldTakes DEF ExecuteEvents, Uint64s, Byte
<1>2. Takes(a, i) /\ Takes(c, k) /\ Takes(d, l)
  BY BytesFieldTakes DEF ExecuteEvents, Byte
<1>3. Takes(b, j) /\ Takes(e, p)
  BY CoinPointerTakes DEF ExecuteEvents, Byte
<1>4. ExecuteScheduledCallEventMarshal(m) = a \o b \o c \o d \o e \o f
      /\ ExecuteScheduledCallEventSize(m) = q + p + l + k + j + i
  BY DEF ExecuteScheduledCallEventMarshal, ExecuteScheduledCallEventSize
<1> HIDE DEF a, b, c, d, e, f, i, j, k, l, p, q
<1>5. Takes(a \o b \o c \o d, i + j + k + l)
  BY <1>1, <1>2, <1>3, RoomOfFour
<1>6. Takes(a \o b \o c \o d \o e, i + j + k + l + p)
  BY <1>1, <1>2, <1>3, <1>5, RoomOfBoth
<1>7. Takes(a \o b \o c \o d \o e \o f, i + j + k + l + p + q)
  BY <1>1, <1>2, <1>3, <1>6, RoomOfBoth
<1>8. i + j + k + l + p + q = q + p + l + k + j + i
  BY <1>1, <1>2, <1>3, TakesNumber
<1> QED BY <1>4, <1>7, <1>8

\* RemoveScheduledCallEvent.Marshal writes what RemoveScheduledCallEvent.Size counts.
LEMMA RemoveScheduledCallEventTakes ==
    ASSUME NEW m \in RemoveEvents
    PROVE  Takes(RemoveScheduledCallEventMarshal(m), RemoveScheduledCallEventSize(m))
<1> DEFINE i == BytesSize(m.CallBody)
           j == PointerSize(m.Balance, CoinSize(m.Balance))
           k == BytesSize(m.Contract)
           l == BytesSize(m.Signer)
           p == VarintSize(m.BlockHeight)
           a == BytesField(50, m.CallBody)
           b == PointerField(42, m.Balance, CoinMarshal(m.Balance))
           c == BytesField(34, m.Contract)
           d == BytesField(26, m.Signer)
           e == VarintField(8, m.BlockHeight)
<1>1. Takes(e, p)
  BY VarintFieldTakes DEF RemoveEvents, Uint64s, Byte
<1>2. Takes(a, i) /\ Takes(c, k) /\ Takes(d, l)
  BY BytesFieldTakes DEF RemoveEvents, Byte
<1>3. Takes(b, j)
  BY CoinPointerTakes DEF RemoveEvents, Byte
<1>4. RemoveScheduledCallEventMarshal(m) = a \o b \o c \o d \o e
      /\ RemoveScheduledCallEventSize(m) = p + l + k + j + i
  BY DEF RemoveScheduledCallEventMarshal, RemoveScheduledCallEventSize
<1> HIDE DEF a, b, c, d, e, i, j, k, l, p
<1>5. Takes(a \o b \o c \o d, i + j + k + l)
  BY <1>1, <1>2, <1>3, RoomOfFour
<1>6. Takes(a \o b \o c \o d \o e, i + j + k + l + p)
  BY <1>1, <1>2, <1>3, <1>5, RoomOfBoth
<1>7. i + j + k + l + p = p + l + k + j + i
  BY <1>1, <1>2, <1>3, TakesNumber
<1> QED BY <1>4, <1>6, <1>7

\* MsgRemoveSchedule.Marshal writes what MsgRemoveSchedule.Size counts.
LEMMA MsgRemoveScheduleTakes ==
    ASSUME NEW m \in [Signer : Slice, Contract : Slice]
    PROVE  Takes(MsgRemoveScheduleMarshal(m), MsgRemoveScheduleSize(m))
<1> DEFINE i == BytesSize(m.Contract)
           j == BytesSize(m.Signer)
           a == BytesField(18, m.Contract)
           b == BytesField(10, m.Signer)
<1>1. Takes(a, i) /\ Takes(b, j)
  BY BytesFieldTakes DEF Byte
<1>2. MsgRemoveScheduleMarshal(m) = a \o b /\ MsgRemoveScheduleSize(m) = j + i
  BY DEF MsgRemoveScheduleMarshal, MsgRemoveScheduleSize
<1> HIDE DEF a, b, i, j
<1>3. Takes(a \o b, i + j)
  BY <1>1, RoomOfBoth
<1>4. i + j = j + i
  BY <1>1, TakesNumber
<1> QED BY <1>2, <1>3, <1>4

\* A Params field, which is never a pointer.
LEMMA ParamsFieldTakes ==
    ASSUME NEW p \in SizedParams, NEW tag \in Byte
    PROVE  Takes(MessageField(tag, ParamsMarshal(p)), MessageSize(ParamsSize(p)))
BY ParamsTakes, MessageFieldTakes DEF SizedParams

\* QueryScheduledCallsResponse.Marshal writes what QueryScheduledCallsResponse.Size counts.
LEMMA QueryScheduledCallsResponseTakes ==
    ASSUME NEW m \in [Calls : Seq(SizedCalls)]
    PROVE  Takes(QueryScheduledCallsResponseMarshal(m), QueryScheduledCallsResponseSize(m))
<1> DEFINE N == Len(m.Calls)
           s == [j \in DOMAIN m.Calls |-> QueryScheduledCallMarshal(m.Calls[j])]
           sizes == [j \in DOMAIN m.Calls |-> QueryScheduledCallSize(m.Calls[j])]
<1>1. N \in Nat /\ DOMAIN m.Calls = 1 .. N /\ \A n \in 1 .. N : m.Calls[n] \in SizedCalls
  OBVIOUS
<1>2. \A c \in SizedCalls : /\ Takes(QueryScheduledCallMarshal(c), QueryScheduledCallSize(c))
                            /\ QueryScheduledCallSize(c) < Word
  BY QueryScheduledCallTakes DEF SizedCalls
<1> HIDE DEF N
<1>3. \A n \in 1 .. N : Takes(s[n], sizes[n]) /\ sizes[n] < Word
  BY <1>1, <1>2
<1>4. s \in [1 .. N -> Seq(WriteType)] /\ sizes \in [1 .. N -> Nat]
  <2>1. \A n \in 1 .. N : s[n] \in Seq(WriteType) /\ sizes[n] \in Nat
    BY <1>3 DEF Takes
  <2> QED BY <1>1, <2>1
<1>5. /\ QueryScheduledCallsResponseMarshal(m) = RepeatedField(10, s)
      /\ QueryScheduledCallsResponseSize(m) = RepeatedSize(sizes)
  BY DEF QueryScheduledCallsResponseMarshal, QueryScheduledCallsResponseSize
<1> HIDE DEF s, sizes
<1>6. 10 \in Byte
  BY DEF Byte
<1>7. Takes(RepeatedField(10, s), RepeatedSize(sizes))
  BY <1>1, <1>3, <1>4, <1>6, RepeatedFieldTakes
<1> QED BY <1>5, <1>7

\* GenesisState.Marshal writes what GenesisState.Size counts.
LEMMA GenesisStateTakes ==
    ASSUME NEW m \in [Params : SizedParams, ScheduledCalls : Seq(SizedAdds)]
    PROVE  Takes(GenesisStateMarshal(m), GenesisStateSize(m))
<1> DEFINE N == Len(m.ScheduledCalls)
           s == [j \in DOMAIN m.ScheduledCalls |-> MsgAddScheduleMarshal(m.ScheduledCalls[j])]
           sizes == [j \in DOMAIN m.ScheduledCalls |-> MsgAddScheduleSize(m.ScheduledCalls[j])]
           a == RepeatedField(18, s)
           i == RepeatedSize(sizes)
           b == MessageField(10, ParamsMarshal(m.Params))
           j == MessageSize(ParamsSize(m.Params))
<1>1. N \in Nat /\ DOMAIN m.ScheduledCalls = 1 .. N /\ \A n \in 1 .. N : m.ScheduledCalls[n] \in SizedAdds
  OBVIOUS
<1>2. \A c \in SizedAdds : /\ Takes(MsgAddScheduleMarshal(c), MsgAddScheduleSize(c))
                           /\ MsgAddScheduleSize(c) < Word
  BY MsgAddScheduleTakes DEF SizedAdds
<1>3. Takes(b, j)
  BY ParamsFieldTakes DEF Byte
<1>4. GenesisStateMarshal(m) = a \o b /\ GenesisStateSize(m) = j + i
  BY DEF GenesisStateMarshal, GenesisStateSize
<1> HIDE DEF N, b, j
<1>5. \A n \in 1 .. N : Takes(s[n], sizes[n]) /\ sizes[n] < Word
  BY <1>1, <1>2
<1>6. s \in [1 .. N -> Seq(WriteType)] /\ sizes \in [1 .. N -> Nat]
  <2>1. \A n \in 1 .. N : s[n] \in Seq(WriteType) /\ sizes[n] \in Nat
    BY <1>5 DEF Takes
  <2> QED BY <1>1, <2>1
<1> HIDE DEF s, sizes
<1>7. Takes(a, i)
  <2>1. 18 \in Byte
    BY DEF Byte
  <2> QED BY <1>1, <1>5, <1>6, <2>1, RepeatedFieldTakes
<1> HIDE DEF a, i
<1>8. Takes(a \o b, i + j)
  BY <1>3, <1>7, RoomOfBoth
<1>9. i + j = j + i
  BY <1>3, <1>7, TakesNumber
<1> QED BY <1>4, <1>8, <1>9

\* The writes of every message take what its Size says.
LEMMA EveryMessageTakes ==
    ASSUME NEW t \in MessageTypes, NEW m \in MessagesOf(t)
    PROVE  Takes(WritesOf(t, m), SizeOf(t, m))
<1>1. CASE t = "Coin"
  BY <1>1, CoinTakes DEF MessagesOf, WritesOf, SizeOf
<1>2. CASE t = "ScheduledCall"
  BY <1>2, BytesFieldTakes DEF MessagesOf, WritesOf, SizeOf, ScheduledCallMarshal, ScheduledCallSize, Byte
<1>3. CASE t = "Params"
  BY <1>3, ParamsTakes DEF MessagesOf, WritesOf, SizeOf
<1>4. CASE t = "MsgAddSchedule"
  BY <1>4, MsgAddScheduleTakes DEF MessagesOf, WritesOf, SizeOf
<1>5. CASE t = "MsgAddScheduleResponse"
  BY <1>5, RoomOfFew
  DEF MessagesOf, WritesOf, SizeOf, MsgAddScheduleResponseMarshal, MsgAddScheduleResponseSize
<1>6. CASE t = "MsgRemoveSchedule"
  BY <1>6, MsgRemoveScheduleTakes DEF MessagesOf, WritesOf, SizeOf
<1>7. CASE t = "MsgRemoveScheduleResponse"
  BY <1>7, RoomOfFew
  DEF MessagesOf, WritesOf, SizeOf, MsgRemoveScheduleResponseMarshal, MsgRemoveScheduleResponseSize
<1>8. CASE t = "QueryParamsRequest"
  BY <1>8, RoomOfFew DEF MessagesOf, WritesOf, SizeOf, QueryParamsRequestMarshal, QueryParamsRequestSize
<1>9. CASE t = "QueryParamsResponse"
  BY <1>9, ParamsFieldTakes
  DEF MessagesOf, WritesOf, SizeOf, QueryParamsResponseMarshal, QueryParamsResponseSize, Byte
<1>10. CASE t = "QueryScheduledCallsRequest"
  BY <1>10, RoomOfFew
  DEF MessagesOf, WritesOf, SizeOf, QueryScheduledCallsRequestMarshal, QueryScheduledCallsRequestSize
<1>11. CASE t = "QueryScheduledCall"
  BY <1>11, QueryScheduledCallTakes DEF MessagesOf, WritesOf, SizeOf
<1>12. CASE t = "QueryScheduledCallsResponse"
  BY <1>12, QueryScheduledCallsResponseTakes DEF MessagesOf, WritesOf, SizeOf
<1>13. CASE t = "AddScheduledCallEvent"
  BY <1>13, AddScheduledCallEventTakes DEF MessagesOf, WritesOf, SizeOf
<1>14. CASE t = "ExecuteScheduledCallEvent"
  BY <1>14, ExecuteScheduledCallEventTakes DEF MessagesOf, WritesOf, SizeOf
<1>15. CASE t = "RemoveScheduledCallEvent"
  BY <1>15, RemoveScheduledCallEventTakes DEF MessagesOf, WritesOf, SizeOf
<1>16. CASE t = "GenesisState"
  BY <1>16, GenesisStateTakes DEF MessagesOf, WritesOf, SizeOf
<1> QED BY <1>1, <1>2, <1>3, <1>4, <1>5, <1>6, <1>7, <1>8,
           <1>9, <1>10, <1>11, <1>12, <1>13, <1>14, <1>15, <1>16 DEF MessageTypes

\* Size() reserves exactly the bytes MarshalToSizedBuffer writes, for every
\* message of every type: no write is outside of the buffer, where Go panics,
\* and no byte in front of the first write is left over, which Marshal would
\* return in place of the message's end.
THEOREM SizeIsExact == \A t \in MessageTypes : \A m \in MessagesOf(t) : Fills(t, m)
<1> SUFFICES ASSUME NEW t \in MessageTypes, NEW m \in MessagesOf(t) PROVE Fills(t, m)
  OBVIOUS
<1>1. Takes(WritesOf(t, m), SizeOf(t, m))
  BY EveryMessageTakes
<1> QED BY <1>1, BufferFilled DEF Fills, Buffer

=============================================================================
