-------------------------- MODULE RoundTripProofs --------------------------
(***************************************************************************)
(* Unmarshal reads back what Marshal wrote, for every message: the bytes   *)
(* that a list of writes leaves, how the bytes of a message are made up of *)
(* those of its fields, and how the decoder takes them apart again.        *)
(***************************************************************************)
EXTENDS DecodedProofs

----------------------------------------------------------------------------
(* The bytes that writes leave in the buffer.                              *)

\* Joining byte strings.
LEMMA JoinBytes ==
    ASSUME NEW x \in Seq(Byte), NEW y \in Seq(Byte)
    PROVE  /\ x \o y \in Seq(Byte) /\ Len(x \o y) = Len(x) + Len(y)
           /\ <<>> \o x = x /\ x \o <<>> = x
           /\ \A i \in 1 .. Len(x) : (x \o y)[i] = x[i]
           /\ \A i \in 1 .. Len(y) : (x \o y)[Len(x) + i] = y[i]
           /\ \A z \in Seq(Byte) : (x \o y) \o z = x \o (y \o z)
<1>1. /\ x \o y \in Seq(Byte) /\ Len(x \o y) = Len(x) + Len(y)
      /\ \A i \in 1 .. Len(x) + Len(y) : (x \o y)[i] = IF i <= Len(x) THEN x[i] ELSE y[i - Len(x)]
  BY ConcatProperties
<1>2. <<>> \o x = x /\ x \o <<>> = x
  BY ConcatEmptySeq
<1>3. \A z \in Seq(Byte) : (x \o y) \o z = x \o (y \o z)
  BY ConcatAssociative
<1> DEFINE j == x \o y
<1>4. Len(x) \in Nat /\ Len(y) \in Nat
  OBVIOUS
<1>5. \A i \in 1 .. Len(x) : j[i] = x[i]
  <2> HIDE DEF j
  <2>1. \A i \in 1 .. Len(x) + Len(y) : j[i] = IF i <= Len(x) THEN x[i] ELSE y[i - Len(x)]
    BY <1>1 DEF j
  <2> QED BY <1>4, <2>1
<1>6. \A i \in 1 .. Len(y) : j[Len(x) + i] = y[i]
  <2> HIDE DEF j
  <2>1. \A i \in 1 .. Len(x) + Len(y) : j[i] = IF i <= Len(x) THEN x[i] ELSE y[i - Len(x)]
    BY <1>1 DEF j
  <2>2. \A i \in 1 .. Len(y) : /\ Len(x) + i \in 1 .. Len(x) + Len(y)
                               /\ ~(Len(x) + i <= Len(x)) /\ (Len(x) + i) - Len(x) = i
    BY <1>4
  <2> QED BY <2>1, <2>2
<1> QED BY <1>1, <1>2, <1>3, <1>5, <1>6

\* The bytes after the first 0, 1, 2, ... writes: each one is put in front.
TextOf(writes, g) ==
    /\ g \in [0 .. Len(writes) -> Seq(Byte)] /\ g[0] = <<>>
    /\ \A n \in 1 .. Len(writes) : g[n] = writes[n].bytes \o g[n - 1]

\* Writes that take n bytes together and leave s.
Puts(writes, n, s) ==
    Takes(writes, n) /\ \E g : TextOf(writes, g) /\ s = g[Len(writes)]

\* All writes leave some bytes.
LEMMA TextExists ==
    ASSUME NEW writes, NEW n, Takes(writes, n)
    PROVE  \E s : Puts(writes, n, s)
<1> DEFINE N == Len(writes)
           step == [p \in (1 .. N) \X Seq(Byte) |-> writes[p[1]].bytes \o p[2]]
<1>1. N \in Nat /\ \A k \in 1 .. N : writes[k].bytes \in Seq(Byte)
  <2>1. \A w \in WriteType : w.bytes \in Seq(Byte)
    BY DEF WriteType
  <2> QED BY <2>1 DEF Takes
<1>2. step \in [(1 .. N) \X Seq(Byte) -> Seq(Byte)]
  <2> HIDE DEF N
  <2> QED BY <1>1, SMTT(30)
<1>3. PICK g : Follows(g, N, Seq(Byte), <<>>, step)
  <2>1. <<>> \in Seq(Byte)
    OBVIOUS
  <2> HIDE DEF step, N
  <2> QED BY <1>1, <1>2, <2>1, Along
<1>4. g \in [0 .. N -> Seq(Byte)] /\ g[0] = <<>>
  BY <1>3 DEF Follows
<1>5. \A k \in 1 .. N : g[k] = writes[k].bytes \o g[k - 1]
  <2> SUFFICES ASSUME NEW k \in 1 .. N PROVE g[k] = writes[k].bytes \o g[k - 1]
    OBVIOUS
  <2>1. k - 1 \in 0 .. N /\ g[k - 1] \in Seq(Byte)
    <3> HIDE DEF N, step
    <3>1. k - 1 \in 0 .. N
      BY <1>1
    <3> QED BY <1>4, <3>1
  <2>2. <<k, g[k - 1]>> \in (1 .. N) \X Seq(Byte)
    BY <2>1
  <2>3. g[k] = step[<<k, g[k - 1]>>]
    BY <1>3 DEF Follows
  <2> QED BY <2>2, <2>3
<1>6. TextOf(writes, g)
  BY <1>4, <1>5 DEF TextOf
<1> QED BY <1>6 DEF Puts

\* The bytes are as many as the writes take.
LEMMA PutsLen ==
    ASSUME NEW writes, NEW n, NEW s, Puts(writes, n, s)
    PROVE  s \in Seq(Byte) /\ Len(s) = n /\ n \in Nat
<1>1. writes \in Seq(WriteType) /\ Room(writes) = n /\ n \in Nat
  BY DEF Puts, Takes
<1>2. PICK g : TextOf(writes, g) /\ s = g[Len(writes)]
  BY DEF Puts
<1>3. PICK r : RoomOf(writes, r) /\ n = r[Len(writes)]
  BY <1>1, RoomExists
<1> DEFINE N == Len(writes)
           S == {k \in 0 .. N : Len(g[k]) = r[k]}
<1>4. N \in Nat
  BY <1>1
<1>5. 0 \in S
  BY <1>2, <1>3, <1>4 DEF TextOf, RoomOf
<1>6. ASSUME NEW k \in 1 .. N, k - 1 \in S PROVE k \in S
  <2>1. g[k] = writes[k].bytes \o g[k - 1] /\ r[k] = r[k - 1] + writes[k].room
    BY <1>2, <1>3 DEF TextOf, RoomOf
  <2>2. k - 1 \in 0 .. N /\ k \in 0 .. N
    BY <1>4
  <2>3. g[k - 1] \in Seq(Byte) /\ r[k - 1] \in Nat
    BY <1>2, <1>3, <2>2 DEF TextOf, RoomOf
  <2>4. writes[k].bytes \in Seq(Byte) /\ Len(writes[k].bytes) = writes[k].room
    <3>1. writes[k] \in WriteType
      BY <1>1
    <3> QED BY <3>1 DEF WriteType
  <2>5. Len(g[k]) = Len(writes[k].bytes) + Len(g[k - 1])
    <3> DEFINE x == writes[k].bytes
               y == g[k - 1]
    <3>1. x \in Seq(Byte) /\ y \in Seq(Byte)
      BY <2>3, <2>4
    <3> HIDE DEF x, y
    <3>2. Len(x \o y) = Len(x) + Len(y)
      BY <3>1, JoinBytes
    <3> QED BY <2>1, <3>2 DEF x, y
  <2>6. Len(g[k]) = r[k]
    <3>1. Len(g[k - 1]) = r[k - 1] /\ writes[k].room \in Nat
      BY <1>6, <2>4
    <3> QED BY <2>1, <2>3, <2>4, <2>5, <3>1
  <2> QED BY <2>2, <2>6
<1>7. 0 .. N \subseteq S
  <2> HIDE DEF S, N
  <2> QED BY <1>4, <1>5, <1>6, UpTo
<1>8. N \in 0 .. N
  BY <1>4
<1>9. g[N] \in Seq(Byte)
  BY <1>2, <1>8 DEF TextOf
<1> QED BY <1>1, <1>2, <1>3, <1>7, <1>8, <1>9

\* No writes leave nothing, one leaves its bytes.
LEMMA PutsFew ==
    /\ Puts(<<>>, 0, <<>>)
    /\ \A w \in WriteType : Puts(<<w>>, w.room, w.bytes)
<1>1. Puts(<<>>, 0, <<>>)
  <2> DEFINE g == [k \in 0 .. 0 |-> <<>>]
  <2>1. TextOf(<<>>, g) /\ g[Len(<<>>)] = <<>>
    BY DEF TextOf
  <2> QED BY <2>1, RoomOfFew DEF Puts
<1>2. ASSUME NEW w \in WriteType PROVE Puts(<<w>>, w.room, w.bytes)
  <2> DEFINE g == [k \in 0 .. 1 |-> IF k = 0 THEN <<>> ELSE w.bytes]
  <2>1. w.bytes \in Seq(Byte)
    BY DEF WriteType
  <2>2. Len(<<w>>) = 1 /\ <<w>>[1] = w
    OBVIOUS
  <2>3. g \in [0 .. 1 -> Seq(Byte)] /\ g[0] = <<>> /\ g[1] = w.bytes
    BY <2>1
  <2>4. w.bytes \o <<>> = w.bytes
    BY <2>1, ConcatEmptySeq
  <2> HIDE DEF g
  <2>5. \A k \in 1 .. 1 : g[k] = <<w>>[k].bytes \o g[k - 1]
    <3>1. 1 - 1 = 0 /\ \A k \in 1 .. 1 : k = 1
      OBVIOUS
    <3> QED BY <2>2, <2>3, <2>4, <3>1
  <2>6. TextOf(<<w>>, g)
    BY <2>2, <2>3, <2>5 DEF TextOf
  <2> QED BY <2>2, <2>3, <2>6, RoomOfFew DEF Puts
<1> QED BY <1>1, <1>2

\* What is written later is in front.
LEMMA PutsBoth ==
    ASSUME NEW a, NEW m, NEW s, Puts(a, m, s), NEW b, NEW n, NEW u, Puts(b, n, u)
    PROVE  Puts(a \o b, m + n, u \o s)
<1>1. a \in Seq(WriteType) /\ b \in Seq(WriteType) /\ Takes(a \o b, m + n)
  <2>1. Takes(a, m) /\ Takes(b, n)
    BY DEF Puts
  <2>2. Takes(a \o b, m + n)
    BY <2>1, RoomOfBoth
  <2> QED BY <2>1, <2>2 DEF Takes
<1>2. PICK g : TextOf(a, g) /\ s = g[Len(a)]
  BY DEF Puts
<1>3. PICK h : TextOf(b, h) /\ u = h[Len(b)]
  BY DEF Puts
<1> DEFINE A == Len(a)
           B == Len(b)
           c == a \o b
           f == [k \in 0 .. A + B |-> IF k <= A THEN g[k] ELSE h[k - A] \o s]
<1>4. /\ A \in Nat /\ B \in Nat /\ c \in Seq(WriteType) /\ Len(c) = A + B
      /\ \A k \in 1 .. A + B : c[k] = IF k <= A THEN a[k] ELSE b[k - A]
  BY <1>1
<1>5. /\ g \in [0 .. A -> Seq(Byte)] /\ g[0] = <<>> /\ \A k \in 1 .. A : g[k] = a[k].bytes \o g[k - 1]
      /\ h \in [0 .. B -> Seq(Byte)] /\ h[0] = <<>> /\ \A k \in 1 .. B : h[k] = b[k].bytes \o h[k - 1]
      /\ s = g[A] /\ u = h[B]
  BY <1>2, <1>3 DEF TextOf
<1>6. \A k \in 1 .. B : b[k].bytes \in Seq(Byte)
  <2>1. \A w \in WriteType : w.bytes \in Seq(Byte)
    BY DEF WriteType
  <2> QED BY <1>1, <2>1
<1> HIDE DEF A, B, c
<1>7. s \in Seq(Byte) /\ u \in Seq(Byte) /\ <<>> \o s = s
  <2>1. s \in Seq(Byte) /\ u \in Seq(Byte)
    BY <1>4, <1>5
  <2> QED BY <2>1, ConcatEmptySeq
<1>8. (\A k \in 0 .. A : f[k] = g[k]) /\ (\A j \in 1 .. B : f[A + j] = h[j] \o s)
  <2>1. ASSUME NEW k \in 0 .. A PROVE f[k] = g[k]
    BY <1>4
  <2>2. ASSUME NEW j \in 1 .. B PROVE f[A + j] = h[j] \o s
    <3>1. A + j \in 0 .. A + B /\ ~(A + j <= A) /\ (A + j) - A = j
      BY <1>4
    <3> QED BY <3>1
  <2> QED BY <2>1, <2>2
<1>9. f = [k \in 0 .. A + B |-> f[k]]
  OBVIOUS
<1> HIDE DEF f
<1>10. \A j \in 0 .. B : f[A + j] = h[j] \o s
  <2> TAKE j \in 0 .. B
  <2>1. CASE j = 0
    <3>1. A + j = A /\ A \in 0 .. A
      BY <1>4, <2>1
    <3> QED BY <1>5, <1>7, <1>8, <2>1, <3>1
  <2>2. CASE j \in 1 .. B
    BY <1>8, <2>2
  <2> QED BY <1>4, <2>1, <2>2, SMTT(30)
<1>11. \A k \in 0 .. A + B : k \in 0 .. A \/ \E j \in 1 .. B : k = A + j
  <2> SUFFICES ASSUME NEW k \in 0 .. A + B, k \notin 0 .. A PROVE \E j \in 1 .. B : k = A + j
    OBVIOUS
  <2>1. k - A \in 1 .. B /\ k = A + (k - A)
    BY <1>4
  <2> QED BY <2>1
<1>12. f \in [0 .. A + B -> Seq(Byte)]
  <2>1. \A j \in 1 .. B : h[j] \o s \in Seq(Byte)
    <3> TAKE j \in 1 .. B
    <3>1. h[j] \in Seq(Byte)
      BY <1>4, <1>5
    <3> QED BY <1>7, <3>1, JoinBytes
  <2>2. \A k \in 0 .. A : g[k] \in Seq(Byte)
    BY <1>5
  <2>3. \A k \in 0 .. A + B : f[k] \in Seq(Byte)
    BY <1>8, <1>11, <2>1, <2>2
  <2> QED BY <1>9, <2>3
<1>13. \A k \in 1 .. A + B : f[k] = c[k].bytes \o f[k - 1]
  <2> TAKE k \in 1 .. A + B
  <2>1. CASE k \in 0 .. A
    <3>1. k \in 1 .. A /\ k - 1 \in 0 .. A /\ c[k] = a[k]
      BY <1>4, <2>1
    <3> QED BY <1>5, <1>8, <2>1, <3>1
  <2>2. CASE \E j \in 1 .. B : k = A + j
    <3> PICK j \in 1 .. B : k = A + j
      BY <2>2
    <3>1. j - 1 \in 0 .. B /\ k - 1 = A + (j - 1) /\ c[k] = b[j]
      BY <1>4
    <3>2. f[k] = h[j] \o s /\ f[k - 1] = h[j - 1] \o s
      BY <1>8, <1>10, <3>1
    <3>3. h[j] = b[j].bytes \o h[j - 1] /\ h[j - 1] \in Seq(Byte) /\ b[j].bytes \in Seq(Byte)
      BY <1>5, <1>6, <3>1
    <3>4. (b[j].bytes \o h[j - 1]) \o s = b[j].bytes \o (h[j - 1] \o s)
      <4> DEFINE x == b[j].bytes
                 y == h[j - 1]
      <4>1. x \in Seq(Byte) /\ y \in Seq(Byte)
        BY <3>3
      <4> HIDE DEF x, y
      <4>2. (x \o y) \o s = x \o (y \o s)
        BY <1>7, <4>1, JoinBytes, SMTT(30)
      <4> QED BY <4>2 DEF x, y
    <3> QED BY <3>1, <3>2, <3>3, <3>4
  <2>3. k \in 0 .. A + B
    BY <1>4
  <2> QED BY <1>11, <2>1, <2>2, <2>3
<1>14. f[0] = <<>> /\ f[A + B] = u \o s
  <2>1. 0 \in 0 .. A /\ B \in 0 .. B
    BY <1>4
  <2> QED BY <1>5, <1>8, <1>10, <2>1
<1>15. TextOf(c, f)
  BY <1>4, <1>12, <1>13, <1>14 DEF TextOf
<1> QED BY <1>1, <1>4, <1>14, <1>15 DEF Puts, c

\* A write within the room that is left changes that room only.
LEMMA WriteAt ==
    ASSUME NEW size \in Nat, NEW buf \in BufferType(size), NEW w \in WriteType, buf.ok,
           NEW i \in Nat, i = buf.i - w.room, buf.i <= size
    PROVE  /\ \A j \in 1 .. w.room : Write(buf, w).dAtA[i + j] = w.bytes[j]
           /\ \A k \in 1 .. size - buf.i : Write(buf, w).dAtA[buf.i + k] = buf.dAtA[buf.i + k]
<1>1. /\ buf.dAtA \in [1 .. size -> Byte] /\ buf.i \in Int /\ DOMAIN buf.dAtA = 1 .. size
      /\ w.room \in Nat /\ w.bytes \in Seq(Byte) /\ Len(w.bytes) = w.room
      /\ DOMAIN w.bytes = 1 .. w.room
  BY DEF BufferType, WriteType
<1>2. Len(buf.dAtA) = size
  BY <1>1
<1>3. i + Len(w.bytes) <= Len(buf.dAtA) /\ i >= 0
  BY <1>1, <1>2
<1>4. \A x \in 1 .. size : Write(buf, w).dAtA[x] =
         IF x - i \in DOMAIN w.bytes THEN w.bytes[x - i] ELSE buf.dAtA[x]
  BY <1>1, <1>3 DEF Write
<1> DEFINE d == Write(buf, w).dAtA
<1>5. \A x \in 1 .. size : d[x] = IF x - i \in 1 .. w.room THEN w.bytes[x - i] ELSE buf.dAtA[x]
  BY <1>1, <1>4
<1> HIDE DEF d
<1> DEFINE a == buf.i
           n == w.room
<1>0. a \in Int /\ n \in Nat /\ i = a - n /\ a <= size
  BY <1>1
<1> HIDE DEF a, n
<1>6. ASSUME NEW j \in 1 .. w.room PROVE d[i + j] = w.bytes[j]
  <2>1. j \in 1 .. n
    BY DEF n
  <2>2. i + j \in 1 .. size /\ (i + j) - i = j
    BY <1>0, <2>1
  <2> QED BY <1>5, <2>2
<1>7. ASSUME NEW k \in 1 .. size - buf.i PROVE d[buf.i + k] = buf.dAtA[buf.i + k]
  <2>1. k \in 1 .. size - a
    BY DEF a
  <2>2. a + k \in 1 .. size /\ (a + k) - i \notin 1 .. n
    BY <1>0, <2>1
  <2> QED BY <1>5, <2>2 DEF a, n
<1> QED BY <1>6, <1>7 DEF d

\* The buffer that writes fill holds the bytes they put.
LEMMA BufferHolds ==
    ASSUME NEW writes, NEW size, NEW s, Puts(writes, size, s)
    PROVE  MarshalToSizedBuffer(size, writes).dAtA = s
<1> DEFINE N == Len(writes)
           T == BufferType(size)
<1>1. writes \in Seq(WriteType) /\ size \in Nat /\ Room(writes) = size
  BY DEF Puts, Takes
<1>2. N \in Nat /\ \A n \in 1 .. N : writes[n] \in WriteType
  BY <1>1
<1>3. PICK buf : BufferOf(writes, size, buf) /\ MarshalToSizedBuffer(size, writes) = buf[N]
  BY <1>1, BufferExists
<1>4. PICK r : RoomOf(writes, r) /\ size = r[N]
  BY <1>1, RoomExists
<1>5. PICK g : TextOf(writes, g) /\ s = g[N]
  BY DEF Puts
<1>6. /\ r \in [0 .. N -> Nat] /\ r[0] = 0
      /\ \A n \in 1 .. N : r[n] = r[n - 1] + writes[n].room
      /\ \A n \in 0 .. N : r[n] <= size
  BY <1>1, <1>4, RoomGrows DEF RoomOf
<1>7. /\ g \in [0 .. N -> Seq(Byte)] /\ g[0] = <<>>
      /\ \A n \in 1 .. N : g[n] = writes[n].bytes \o g[n - 1]
  BY <1>5 DEF TextOf
<1>8. buf[0] = Empty(size) /\ \A n \in 1 .. N : buf[n] = Write(buf[n - 1], writes[n])
  BY <1>3 DEF BufferOf
<1>9. Empty(size) \in T /\ Empty(size).i = size /\ Empty(size).ok
  BY <1>1 DEF BufferType, Byte, Empty
<1> HIDE DEF N, T
<1> DEFINE Same(n) == \A j \in 1 .. r[n] : buf[n].dAtA[(size - r[n]) + j] = g[n][j]
           S == {n \in 0 .. N : /\ buf[n] \in T /\ buf[n].ok /\ buf[n].i = size - r[n]
                                /\ Len(g[n]) = r[n] /\ Same(n)}
<1>10. 0 \in S
  BY <1>1, <1>2, <1>6, <1>7, <1>8, <1>9, SMTT(30)
<1>11. ASSUME NEW n \in 1 .. N, n - 1 \in S PROVE n \in S
  <2> DEFINE b == buf[n - 1]
             w == writes[n]
             x == w.bytes
             y == g[n - 1]
             i == size - r[n]
  <2>1. b \in T /\ b.ok /\ b.i = size - r[n - 1] /\ Len(y) = r[n - 1] /\ Same(n - 1)
    BY <1>11
  <2>2. n \in 0 .. N /\ n - 1 \in 0 .. N
    BY <1>2
  <2>3. w \in WriteType /\ w.room \in Nat /\ x \in Seq(Byte) /\ Len(x) = w.room
    BY <1>2 DEF WriteType
  <2>4. r[n] \in Nat /\ r[n - 1] \in Nat /\ r[n] <= size /\ r[n] = r[n - 1] + w.room
    BY <1>6, <2>2
  <2>5. buf[n] = Write(b, w) /\ g[n] = x \o y /\ y \in Seq(Byte)
    BY <1>7, <1>8, <2>2
  <2>6. \A k \in 1 .. r[n - 1] : b.dAtA[(size - r[n - 1]) + k] = y[k]
    BY <2>1
  <2> HIDE DEF b, w, x, y, Same
  <2>7. i \in Nat /\ i = b.i - w.room /\ b.i <= size /\ 0 <= i
    BY <1>1, <2>1, <2>3, <2>4, SMTT(30)
  <2>8. Write(b, w) \in T /\ Write(b, w).ok /\ Write(b, w).i = i
    BY <1>1, <2>1, <2>3, <2>7, WriteKeeps DEF T
  <2> DEFINE d == Write(b, w).dAtA
  <2>9. /\ \A j \in 1 .. w.room : d[i + j] = w.bytes[j]
        /\ \A k \in 1 .. size - b.i : d[b.i + k] = b.dAtA[b.i + k]
    <3>1. b \in BufferType(size) /\ b.ok
      BY <2>1 DEF T
    <3> HIDE DEF i
    <3> QED BY <1>1, <2>3, <2>7, <3>1, WriteAt
  <2>10. /\ Len(x \o y) = Len(x) + Len(y)
         /\ \A j \in 1 .. Len(x) : (x \o y)[j] = x[j]
         /\ \A k \in 1 .. Len(y) : (x \o y)[Len(x) + k] = y[k]
    BY <2>3, <2>5, JoinBytes
  <2> DEFINE z == x \o y
  <2> HIDE DEF d, z, i
  <2>11. \A j \in 1 .. r[n] : d[i + j] = z[j]
    <3> TAKE j \in 1 .. r[n]
    <3>1. CASE j <= w.room
      <4>1. j \in 1 .. w.room /\ j \in 1 .. Len(x)
        BY <2>3, <2>4, <3>1
      <4> QED BY <2>9, <2>10, <4>1 DEF x, z
    <3>2. CASE ~(j <= w.room)
      <4> DEFINE k == j - w.room
      <4>0. j \in Nat /\ j <= r[n] /\ b.i = size - r[n - 1] /\ b.i = i + w.room
            /\ Len(x) = w.room /\ Len(y) = r[n - 1] /\ size - b.i = r[n - 1]
        BY <1>1, <2>1, <2>3, <2>4, <2>7
      <4>1. k \in 1 .. r[n - 1] /\ k \in 1 .. size - b.i /\ k \in 1 .. Len(y)
            /\ b.i + k = i + j /\ Len(x) + k = j /\ b.i = size - r[n - 1]
        BY <2>3, <2>4, <2>7, <3>2, <4>0
      <4> HIDE DEF k
      <4>2. d[b.i + k] = b.dAtA[b.i + k] /\ b.dAtA[b.i + k] = y[k] /\ z[Len(x) + k] = y[k]
        BY <2>6, <2>9, <2>10, <4>1 DEF z
      <4> QED BY <4>1, <4>2
    <3> QED BY <3>1, <3>2
  <2>12. Same(n)
    BY <2>5, <2>11 DEF Same, d, z, i
  <2>13. Len(g[n]) = r[n]
    BY <2>1, <2>3, <2>4, <2>5, <2>10
  <2> QED BY <2>2, <2>5, <2>8, <2>12, <2>13 DEF i
<1>12. N \in S
  <2> HIDE DEF S
  <2>1. 0 .. N \subseteq S
    BY <1>2, <1>10, <1>11, UpTo
  <2> QED BY <1>2, <2>1
<1> DEFINE d == buf[N].dAtA
<1>13. d \in [1 .. size -> Byte] /\ \A j \in 1 .. size : d[j] = s[j]
  <2>1. buf[N] \in T /\ Same(N)
    BY <1>12
  <2>2. size - size = 0 /\ \A j \in 1 .. size : 0 + j = j
    BY <1>1
  <2>3. \A j \in 1 .. size : d[(size - size) + j] = s[j]
    BY <1>4, <1>5, <2>1
  <2>4. d \in [1 .. size -> Byte]
    BY <2>1 DEF T, BufferType
  <2> HIDE DEF d
  <2> QED BY <2>2, <2>3, <2>4
<1>14. s \in Seq(Byte) /\ Len(s) = size
  BY PutsLen
<1>15. d = s
  <2> HIDE DEF d
  <2>1. s \in [1 .. size -> Byte]
    BY <1>14
  <2>2. d = [j \in 1 .. size |-> d[j]] /\ s = [j \in 1 .. size |-> s[j]]
    BY <1>13, <2>1
  <2> QED BY <1>13, <2>2, Zenon
<1> QED BY <1>3, <1>15

\* The bytes of a message are those that its writes put.
LEMMA MarshalledIs ==
    ASSUME NEW t \in MessageTypes, NEW m \in MessagesOf(t)
    PROVE  Puts(WritesOf(t, m), SizeOf(t, m), Marshalled(t, m))
<1> DEFINE W == WritesOf(t, m)
           n == SizeOf(t, m)
<1>1. Takes(W, n)
  BY EveryMessageTakes
<1>2. Buffer(t, m) = MarshalToSizedBuffer(n, W)
  BY DEF Buffer
<1> HIDE DEF W, n
<1>3. PICK s : Puts(W, n, s)
  BY <1>1, TextExists
<1>4. MarshalToSizedBuffer(n, W).dAtA = s
  BY <1>3, BufferHolds
<1>5. MarshalToSizedBuffer(n, W).ok /\ MarshalToSizedBuffer(n, W).i = 0
  BY <1>1, BufferFilled
<1>6. s \in Seq(Byte) /\ Len(s) \in Nat
  BY <1>3, PutsLen
<1>7. Marshalled(t, m) = SubSeq(s, 1, Len(s) - 0)
  BY <1>2, <1>4, <1>5 DEF Marshalled
<1>8. SubSeq(s, 1, Len(s) - 0) = s
  BY <1>6
<1> QED BY <1>3, <1>7, <1>8 DEF W, n

----------------------------------------------------------------------------
(* Varints.                                                                *)

\* The bytes of a varint.
Varint(v) == encodeVarintSchedule(v).bytes

\* Seven doublings.
LEMMA Times128 ==
    ASSUME NEW n \in Nat, n <= WordBits
    PROVE  2 ^ n \in Nat \ {0} /\ 2 ^ (n + 7) = 128 * 2 ^ n
<1> DEFINE pow == [k \in 0 .. WordBits + 7 |-> 2 ^ k]
<1>1. \A k \in 0 .. WordBits + 6 : pow[k] \in Nat \ {0} /\ pow[k + 1] = 2 * pow[k]
  <2>1. WordBits \in Nat /\ \A k \in 0 .. WordBits + 6 : 2 ^ k \in Nat \ {0} /\ 2 ^ (k + 1) = 2 * 2 ^ k
    BY WireAssumption
  <2>2. \A k \in 0 .. WordBits + 6 : k \in 0 .. WordBits + 7 /\ k + 1 \in 0 .. WordBits + 7
    BY <2>1
  <2> QED BY <2>1, <2>2
<1>2. n \in 0 .. WordBits + 7 /\ n + 7 \in 0 .. WordBits + 7
  BY WireAssumption
<1>3. pow[n] = 2 ^ n /\ pow[n + 7] = 2 ^ (n + 7)
  BY <1>2
<1> HIDE DEF pow
<1>4. /\ n + 1 + 1 = n + 2 /\ n + 2 + 1 = n + 3 /\ n + 3 + 1 = n + 4 /\ n + 4 + 1 = n + 5
      /\ n + 5 + 1 = n + 6 /\ n + 6 + 1 = n + 7
      /\ n \in 0 .. WordBits + 6 /\ n + 1 \in 0 .. WordBits + 6 /\ n + 2 \in 0 .. WordBits + 6
      /\ n + 3 \in 0 .. WordBits + 6 /\ n + 4 \in 0 .. WordBits + 6 /\ n + 5 \in 0 .. WordBits + 6
      /\ n + 6 \in 0 .. WordBits + 6
  BY WireAssumption
<1>5. /\ pow[n] \in Nat \ {0} /\ pow[n + 1] = 2 * pow[n] /\ pow[n + 2] = 2 * pow[n + 1]
      /\ pow[n + 3] = 2 * pow[n + 2] /\ pow[n + 4] = 2 * pow[n + 3] /\ pow[n + 5] = 2 * pow[n + 4]
      /\ pow[n + 6] = 2 * pow[n + 5] /\ pow[n + 7] = 2 * pow[n + 6]
  BY <1>1, <1>4
<1>6. pow[n + 7] = 128 * pow[n]
  BY <1>5
<1> QED BY <1>3, <1>5, <1>6

\* The length of a varint, from its bounds.
LEMMA VarintLengthUnique ==
    ASSUME NEW v \in Uint64s, NEW n \in 1 .. (WordBits + 6) \div 7,
           v < 2 ^ (7 * n), n = 1 \/ v >= 2 ^ (7 * (n - 1))
    PROVE  n = VarintLength(v)
<1> DEFINE c == VarintLength(v)
           K == (WordBits + 6) \div 7
           p(k) == 2 ^ (7 * k)
<1>1. c \in 1 .. K /\ v < p(c) /\ (c = 1 \/ v >= p(c - 1))
  BY VarintLengthIs DEF Uint64s
<1>2. v < p(n) /\ (n = 1 \/ v >= p(n - 1)) /\ v \in Nat
  BY WordFacts DEF Uint64s
<1>3. \A k \in 0 .. K : \A m \in 0 .. k : p(m) \in Nat /\ p(m) <= p(k)
  <2> TAKE k \in 0 .. K
  <2> TAKE m \in 0 .. k
  <2>1. 7 * k \in 0 .. WordBits + 7 /\ 7 * m \in 0 .. 7 * k
    BY WireAssumption
  <2> QED BY <2>1, PowersGrow
<1>4. K \in Nat
  BY WireAssumption
<1> HIDE DEF c, K, p
<1>5. ~(c < n)
  <2> SUFFICES ASSUME c < n PROVE FALSE
    OBVIOUS
  <2>1. n - 1 \in 0 .. K /\ c \in 0 .. n - 1 /\ n # 1
    BY <1>1, <1>4 DEF K
  <2>2. p(c) \in Nat /\ p(n - 1) \in Nat /\ p(c) <= p(n - 1)
    <3>1. n - 1 \in 0 .. n - 1
      BY <2>1, <1>4
    <3> QED BY <1>3, <2>1, <3>1
  <2> QED BY <1>1, <1>2, <2>1, <2>2
<1>6. ~(n < c)
  <2> SUFFICES ASSUME n < c PROVE FALSE
    OBVIOUS
  <2>0. n \in 1 .. K
    BY DEF K
  <2>1. c - 1 \in 0 .. K /\ n \in 0 .. c - 1 /\ c # 1
    BY <1>1, <1>4, <2>0
  <2>2. p(n) \in Nat /\ p(c - 1) \in Nat /\ p(n) <= p(c - 1)
    <3>1. c - 1 \in 0 .. c - 1
      BY <2>1, <1>4
    <3> QED BY <1>3, <2>1, <3>1
  <2> QED BY <1>1, <1>2, <2>1, <2>2
<1> QED BY <1>1, <1>4, <1>5, <1>6 DEF c

\* The bytes of a varint one by one.
LEMMA VarintBytes ==
    ASSUME NEW v \in Uint64s
    PROVE  /\ Varint(v) \in Seq(Byte) /\ Len(Varint(v)) = VarintLength(v)
           /\ \A j \in 1 .. VarintLength(v) :
                 Varint(v)[j] = ((v \div 2 ^ (7 * (j - 1))) % 128)
                                   + (IF j < VarintLength(v) THEN 128 ELSE 0)
<1> DEFINE c == VarintLength(v)
           bytes == [j \in 1 .. c |->
                       ((v \div 2 ^ (7 * (j - 1))) % 128) + (IF j < c THEN 128 ELSE 0)]
<1>1. Varint(v) = bytes
  BY DEF Varint, encodeVarintSchedule, VarintLength
<1>2. encodeVarintSchedule(v) \in WriteType /\ encodeVarintSchedule(v).room = c
  BY VarintTakes, SovIsLength DEF Uint64s
<1>3. Varint(v) \in Seq(Byte) /\ Len(Varint(v)) = c
  BY <1>2 DEF WriteType, Varint
<1>4. \A j \in 1 .. c : bytes[j] = ((v \div 2 ^ (7 * (j - 1))) % 128) + (IF j < c THEN 128 ELSE 0)
  BY Zenon
<1> HIDE DEF bytes
<1> QED BY <1>1, <1>3, <1>4

\* Division step by step.
LEMMA DivDiv ==
    ASSUME NEW v \in Nat, NEW p \in Nat \ {0}
    PROVE  (v \div 128) \div p = v \div (128 * p)
OBVIOUS

\* A varint is a byte, or the low bits with a mark and the varint of the others.
LEMMA VarintUnfold ==
    ASSUME NEW v \in Uint64s
    PROVE  /\ v < 128 => Varint(v) = <<v>>
           /\ v >= 128 => /\ v \div 128 \in Uint64s
                          /\ Varint(v) = <<128 + (v % 128)>> \o Varint(v \div 128)
<1> DEFINE c == VarintLength(v)
           K == (WordBits + 6) \div 7
           p(k) == 2 ^ (7 * k)
           q == v \div 128
<1>1. /\ v \in Nat /\ WordBits \in Nat /\ K \in Nat /\ 7 * K <= WordBits + 6
  BY WordFacts DEF Uint64s
<1>2. c \in 1 .. K /\ v < p(c) /\ (c = 1 \/ v >= p(c - 1))
  BY VarintLengthIs DEF Uint64s
<1>3. \A k \in 0 .. K : p(k) \in Nat \ {0}
  <2> TAKE k \in 0 .. K
  <2>1. 7 * k \in 0 .. WordBits + 7 /\ 7 * k \in 0 .. 7 * k
    BY <1>1
  <2> QED BY <2>1, PowersGrow
<1>4. \A k \in 0 .. K - 1 : p(k + 1) = 128 * p(k)
  <2> TAKE k \in 0 .. K - 1
  <2>1. 7 * k \in Nat /\ 7 * k <= WordBits /\ 7 * (k + 1) = 7 * k + 7
    BY <1>1
  <2> QED BY <2>1, Times128
<1>5. p(0) = 1 /\ p(1) = 128
  <2>1. 7 * 0 = 0 /\ 0 + 1 = 1 /\ 0 \in 0 .. K - 1
    BY <1>1, <1>2
  <2>2. p(0) = 1
    BY <2>1, WireAssumption
  <2>3. p(0 + 1) = 128 * p(0)
    BY <1>4, <2>1
  <2> QED BY <2>1, <2>2, <2>3
<1>6. /\ Varint(v) \in Seq(Byte) /\ Len(Varint(v)) = c
      /\ \A j \in 1 .. c : Varint(v)[j] = ((v \div p(j - 1)) % 128) + (IF j < c THEN 128 ELSE 0)
  BY VarintBytes
<1>7. ASSUME v < 128 PROVE Varint(v) = <<v>>
  <2> HIDE DEF c, p, K
  <2>1. c = 1
    <3> SUFFICES ASSUME c # 1 PROVE FALSE
      OBVIOUS
    <3> DEFINE k == c - 2
    <3>1. k \in 0 .. K - 1 /\ k \in 0 .. K /\ k + 1 = c - 1
      BY <1>1, <1>2
    <3>2. p(k) \in Nat \ {0} /\ p(k + 1) = 128 * p(k) /\ v >= p(k + 1)
      BY <1>2, <1>3, <1>4, <3>1
    <3> HIDE DEF k
    <3> QED BY <1>1, <1>7, <3>2
  <2>2. Varint(v)[1] = v
    <3>1. Varint(v)[1] = ((v \div p(1 - 1)) % 128) + (IF 1 < c THEN 128 ELSE 0)
      BY <1>6, <2>1
    <3>2. 1 - 1 = 0 /\ (v \div 1) % 128 = v
      BY <1>1, <1>7
    <3> QED BY <1>1, <1>5, <2>1, <3>1, <3>2
  <2>3. v \in Byte
    BY <1>1, <1>7 DEF Byte
  <2> DEFINE s == Varint(v)
  <2>4. s \in Seq(Byte) /\ Len(s) = 1 /\ s[1] = v
    BY <1>6, <2>1, <2>2
  <2> HIDE DEF s
  <2>5. s = <<v>>
    <3>1. <<v>> \in Seq(Byte) /\ Len(<<v>>) = 1 /\ <<v>>[1] = v
      BY <2>3
    <3>2. \A i \in 1 .. 1 : s[i] = <<v>>[i]
      BY <2>4, <3>1
    <3> QED BY <2>4, <3>1, <3>2, SeqEqual
  <2> QED BY <2>5 DEF s
<1>8. ASSUME v >= 128
      PROVE  q \in Uint64s /\ Varint(v) = <<128 + (v % 128)>> \o Varint(q)
  <2>1. q \in Uint64s /\ q \in Nat
    BY <1>1, WordFacts DEF Uint64s
  <2>2. c \in 2 .. K
    <3> HIDE DEF c, p, K
    <3>1. c # 1
      BY <1>1, <1>2, <1>5, <1>8
    <3> QED BY <1>1, <1>2, <3>1
  <2> DEFINE d == c - 1
  <2>3. d \in 1 .. K /\ d + 1 = c
    BY <1>1, <2>2
  <2>4. VarintLength(q) = d
    <3> HIDE DEF p, c, K
    <3>1. q < p(d)
      <4>1. p(d + 1) = 128 * p(d) /\ p(d) \in Nat
        <5>1. d \in 0 .. K - 1 /\ d \in 0 .. K
          BY <1>1, <2>2, <2>3
        <5> QED BY <1>3, <1>4, <5>1
      <4>2. v < 128 * p(d)
        BY <1>2, <2>3, <4>1
      <4> HIDE DEF d
      <4> QED BY <1>1, <4>1, <4>2
    <3>2. d = 1 \/ q >= p(d - 1)
      <4> SUFFICES ASSUME d # 1 PROVE q >= p(d - 1)
        OBVIOUS
      <4>1. d - 1 \in 0 .. K - 1 /\ d - 1 \in 0 .. K /\ (d - 1) + 1 = d /\ c - 1 = d
        BY <1>1, <2>2, <2>3
      <4>2. p(d) = 128 * p(d - 1) /\ p(d - 1) \in Nat
        BY <1>3, <1>4, <4>1
      <4>3. v >= p(d)
        BY <1>2, <2>2, <4>1
      <4> HIDE DEF d
      <4> QED BY <1>1, <4>2, <4>3
    <3> HIDE DEF q, d
    <3>3. d \in 1 .. (WordBits + 6) \div 7
      BY <2>3 DEF K
    <3> QED BY <2>1, <3>1, <3>2, <3>3, VarintLengthUnique DEF p
  <2>5. /\ Varint(q) \in Seq(Byte) /\ Len(Varint(q)) = d
        /\ \A j \in 1 .. d : Varint(q)[j] = ((q \div p(j - 1)) % 128) + (IF j < d THEN 128 ELSE 0)
    <3> HIDE DEF q
    <3> QED BY <2>1, <2>4, VarintBytes
  <2> DEFINE b == 128 + (v % 128)
             x == <<b>>
             y == Varint(q)
             s == Varint(v)
  <2>6. b \in Byte /\ x \in Seq(Byte) /\ Len(x) = 1 /\ x[1] = b
    BY <1>1 DEF Byte
  <2>7. s[1] = b
    <3>1. s[1] = ((v \div p(1 - 1)) % 128) + (IF 1 < c THEN 128 ELSE 0)
      <4>1. 1 \in 1 .. c
        BY <2>2
      <4> QED BY <1>6, <4>1
    <3>2. 1 - 1 = 0 /\ v \div 1 = v /\ 1 < c
      BY <1>1, <2>2
    <3>3. s[1] = ((v \div 1) % 128) + 128
      <4> HIDE DEF s, p, c
      <4> QED BY <1>5, <3>1, <3>2
    <3> HIDE DEF s
    <3> QED BY <1>1, <3>2, <3>3
  <2>8. \A j \in 1 .. d : s[1 + j] = y[j]
    <3> TAKE j \in 1 .. d
    <3> HIDE DEF c, K, d
    <3>1. 1 + j \in 1 .. c /\ (1 + j) - 1 = j /\ (1 + j < c <=> j < d)
          /\ j - 1 \in 0 .. K - 1 /\ j - 1 \in 0 .. K /\ (j - 1) + 1 = j
      BY <1>1, <2>2, <2>3
    <3>2. s[1 + j] = ((v \div p(j)) % 128) + (IF j < d THEN 128 ELSE 0)
      <4>1. s[1 + j] = ((v \div p((1 + j) - 1)) % 128) + (IF 1 + j < c THEN 128 ELSE 0)
        BY <1>6, <3>1
      <4> HIDE DEF s, p
      <4> QED BY <3>1, <4>1
    <3>3. y[j] = ((q \div p(j - 1)) % 128) + (IF j < d THEN 128 ELSE 0)
      BY <2>5
    <3>4. p(j) = 128 * p(j - 1) /\ p(j - 1) \in Nat \ {0}
      <4> HIDE DEF p
      <4>1. p((j - 1) + 1) = 128 * p(j - 1) /\ p(j - 1) \in Nat \ {0}
        BY <1>3, <1>4, <3>1
      <4> QED BY <3>1, <4>1
    <3>5. q \div p(j - 1) = v \div p(j)
      <4> HIDE DEF p
      <4> QED BY <1>1, <3>4, DivDiv
    <3> HIDE DEF s, y, p, q
    <3> QED BY <3>2, <3>3, <3>5
  <2>9. /\ x \o y \in Seq(Byte) /\ Len(x \o y) = Len(x) + Len(y)
        /\ \A i \in 1 .. Len(x) : (x \o y)[i] = x[i]
        /\ \A i \in 1 .. Len(y) : (x \o y)[Len(x) + i] = y[i]
    <3>1. x \in Seq(Byte) /\ y \in Seq(Byte)
      BY <2>5, <2>6
    <3> HIDE DEF x, y
    <3> QED BY <3>1, JoinBytes
  <2>10. s \in Seq(Byte) /\ Len(s) = 1 + d
    BY <1>6, <2>3
  <2> DEFINE z == x \o y
  <2>11. z \in Seq(Byte) /\ Len(z) = 1 + d
    BY <2>5, <2>6, <2>9
  <2>12. \A i \in 1 .. 1 + d : s[i] = z[i]
    <3>1. s[1] = z[1] /\ \A j \in 1 .. d : s[1 + j] = z[1 + j]
      BY <2>5, <2>6, <2>7, <2>8, <2>9
    <3>2. \A i \in 1 .. 1 + d : i = 1 \/ (i - 1 \in 1 .. d /\ 1 + (i - 1) = i)
      BY <2>3, <1>1
    <3> HIDE DEF s, z, d
    <3> QED BY <3>1, <3>2
  <2>13. s = z
    <3> HIDE DEF s, z, d
    <3> QED BY <2>10, <2>11, <2>12, SeqEqual
  <2> QED BY <2>1, <2>13
<1> QED BY <1>7, <1>8

----------------------------------------------------------------------------
(* The bytes of a field and of a message.                                  *)

\* The amounts of the coins in a message are numbers that sdk.Int reads back.
AmountsSet(t, m) ==
    CASE t = "Coin" -> IntText(m.Amount)
      [] t = "Params" -> IntText(m.MinimumBalance.Amount)
      [] t \in {"QueryParamsResponse", "GenesisState"} -> IntText(m.Params.MinimumBalance.Amount)
      [] t \in {"AddScheduledCallEvent", "RemoveScheduledCallEvent"} ->
            m.Balance = Nil \/ IntText(m.Balance.Amount)
      [] t = "ExecuteScheduledCallEvent" ->
            (m.Gas = Nil \/ IntText(m.Gas.Amount))
               /\ (m.BalanceBefore = Nil \/ IntText(m.BalanceBefore.Amount))
      [] OTHER -> TRUE

Complete(t) == {m \in MessagesOf(t) : AmountsSet(t, m)}

\* The bytes in front of the contents of field number n: the tag, and the
\* number or the length.
Prefix(n, f, x) == <<8 * n + Expected(f)>> \o Varint(x)

\* The value v of the field f of a message a is in the number x and the bytes body.
Content(f, a, v, x, body) ==
    /\ x \in Uint64s /\ body \in Seq(Byte)
    /\ \/ f.kind = "varint" /\ v = x /\ body = <<>>
       \/ f.kind = "bytes" /\ v = body /\ x = Len(body)
       \/ f.kind = "text" /\ v = body /\ x = Len(body) /\ IntText(body)
       \/ /\ f.kind \in {"message", "repeated"}
          /\ v \in Complete(f.type) /\ body = Marshalled(f.type, v) /\ x = Len(body)
          /\ f.kind = "message" => a[f.name] \in {Nil, Reset[f.type]}

\* The message a after a value of the field f has been read.
StoreIn(f, a, v) == [a EXCEPT ![f.name] = IF f.kind = "repeated" THEN Append(@, v) ELSE v]

\* The bytes p are those of a field, which makes b of the message a.
Piece(t, a, b, p) ==
    \E n \in DOMAIN Schema[t] : \E x, v, body :
        /\ p = Prefix(n, Schema[t][n], x) \o body
        /\ Content(Schema[t][n], a, v, x, body)
        /\ b = StoreIn(Schema[t][n], a, v)

\* The bytes s are pieces, which make c of the message a.  The last n of them
\* are rest[n], and part[n] is the message they are read into.
ReadsBy(t, a, c, s, N, rest, part) ==
    /\ N \in Nat /\ rest \in [0 .. N -> Seq(Byte)]
    /\ rest[0] = <<>> /\ part[0] = c /\ rest[N] = s /\ part[N] = a
    /\ \A n \in 1 .. N : \E p : rest[n] = p \o rest[n - 1] /\ Piece(t, part[n], part[n - 1], p)

Reads(t, a, c, s) == \E N, rest, part : ReadsBy(t, a, c, s, N, rest, part)

\* The fields have small numbers, so that a tag is one byte.
LEMMA TagIsByte ==
    ASSUME NEW t \in MessageTypes, NEW n \in DOMAIN Schema[t]
    PROVE  n \in 1 .. 6 /\ Expected(Schema[t][n]) \in {0, 2} /\ 8 * n + Expected(Schema[t][n]) \in Byte
<1>1. n \in 1 .. 6
  <2>1. CASE t \in {"Coin", "ScheduledCall", "Params", "MsgAddSchedule", "MsgRemoveSchedule"}
    BY <2>1 DEF Schema, CoinUnmarshal, ScheduledCallUnmarshal, ParamsUnmarshal,
                MsgAddScheduleUnmarshal, MsgRemoveScheduleUnmarshal
  <2>2. CASE t \in {"QueryParamsResponse", "QueryScheduledCall", "QueryScheduledCallsResponse", "GenesisState"}
    BY <2>2 DEF Schema, QueryParamsResponseUnmarshal, QueryScheduledCallUnmarshal,
                QueryScheduledCallsResponseUnmarshal, GenesisStateUnmarshal
  <2>3. CASE t \in {"AddScheduledCallEvent", "ExecuteScheduledCallEvent", "RemoveScheduledCallEvent"}
    BY <2>3 DEF Schema, AddScheduledCallEventUnmarshal, ExecuteScheduledCallEventUnmarshal,
                RemoveScheduledCallEventUnmarshal
  <2>4. CASE t \in {"MsgAddScheduleResponse", "MsgRemoveScheduleResponse", "QueryParamsRequest",
                    "QueryScheduledCallsRequest"}
    BY <2>4 DEF Schema, MsgAddScheduleResponseUnmarshal, MsgRemoveScheduleResponseUnmarshal,
                QueryParamsRequestUnmarshal, QueryScheduledCallsRequestUnmarshal, None
  <2> QED BY <2>1, <2>2, <2>3, <2>4 DEF MessageTypes
<1>2. Expected(Schema[t][n]) \in {0, 2}
  BY DEF Expected
<1> QED BY <1>1, <1>2 DEF Byte

\* A piece is a string of at least one byte.
LEMMA PieceLen ==
    ASSUME NEW t \in MessageTypes, NEW a, NEW b, NEW p, Piece(t, a, b, p)
    PROVE  p \in Seq(Byte) /\ Len(p) > 0
<1> PICK n \in DOMAIN Schema[t] : \E x, v, body :
        /\ p = Prefix(n, Schema[t][n], x) \o body
        /\ Content(Schema[t][n], a, v, x, body)
  BY DEF Piece
<1> PICK x, v, body :
        /\ p = Prefix(n, Schema[t][n], x) \o body
        /\ Content(Schema[t][n], a, v, x, body)
  OBVIOUS
<1> DEFINE tag == 8 * n + Expected(Schema[t][n])
           h == <<tag>>
           y == Varint(x)
           q == h \o y
<1>1. body \in Seq(Byte) /\ x \in Uint64s
  BY DEF Content
<1>2. h \in Seq(Byte) /\ Len(h) = 1
  BY TagIsByte
<1>3. y \in Seq(Byte)
  BY <1>1, VarintBytes
<1>4. p = q \o body
  BY DEF Prefix
<1> HIDE DEF h, y
<1>5. q \in Seq(Byte) /\ Len(q) = 1 + Len(y)
  <2>1. h \o y \in Seq(Byte) /\ Len(h \o y) = Len(h) + Len(y)
    BY <1>2, <1>3, JoinBytes
  <2> QED BY <1>2, <2>1
<1> HIDE DEF q
<1>6. p \in Seq(Byte) /\ Len(p) = Len(q) + Len(body)
  BY <1>1, <1>4, <1>5, JoinBytes
<1>7. Len(y) \in Nat /\ Len(body) \in Nat
  BY <1>1, <1>3
<1> QED BY <1>5, <1>6, <1>7

\* No bytes leave a message as it is.
LEMMA ReadsNothing ==
    ASSUME NEW t, NEW a
    PROVE  Reads(t, a, a, <<>>)
<1> DEFINE rest == [n \in 0 .. 0 |-> <<>>]
           part == [n \in 0 .. 0 |-> a]
<1>1. rest \in [0 .. 0 -> Seq(Byte)] /\ rest[0] = <<>> /\ part[0] = a
  OBVIOUS
<1>2. ReadsBy(t, a, a, <<>>, 0, rest, part)
  BY <1>1 DEF ReadsBy
<1> QED BY <1>2 DEF Reads

\* A piece in front of others.
LEMMA ReadsMore ==
    ASSUME NEW t \in MessageTypes, NEW a, NEW b, NEW c, NEW p, NEW s, Piece(t, a, b, p), Reads(t, b, c, s)
    PROVE  Reads(t, a, c, p \o s) /\ s \in Seq(Byte)
<1>1. PICK N, rest, part : ReadsBy(t, b, c, s, N, rest, part)
  BY DEF Reads
<1>2. /\ N \in Nat /\ rest \in [0 .. N -> Seq(Byte)]
      /\ rest[0] = <<>> /\ part[0] = c /\ rest[N] = s /\ part[N] = b
      /\ \A n \in 1 .. N : \E q : rest[n] = q \o rest[n - 1] /\ Piece(t, part[n], part[n - 1], q)
  BY <1>1 DEF ReadsBy
<1>3. p \in Seq(Byte) /\ s \in Seq(Byte)
  BY <1>2, PieceLen
<1>4. p \o s \in Seq(Byte)
  BY <1>3, JoinBytes
<1> DEFINE M == N + 1
           new == [n \in 0 .. M |-> IF n = M THEN p \o s ELSE rest[n]]
           msg == [n \in 0 .. M |-> IF n = M THEN a ELSE part[n]]
<1>5. M \in Nat /\ M \in 0 .. M /\ \A n \in 0 .. N : n \in 0 .. M /\ n # M
  BY <1>2
<1>6. /\ new[M] = p \o s /\ msg[M] = a
      /\ \A n \in 0 .. N : new[n] = rest[n] /\ msg[n] = part[n]
  BY <1>5, Zenon
<1>7. new = [n \in 0 .. M |-> new[n]]
  OBVIOUS
<1> HIDE DEF new, msg
<1>8. \A n \in 0 .. M : n = M \/ n \in 0 .. N
  BY <1>2
<1> HIDE DEF M
<1>9. new \in [0 .. M -> Seq(Byte)]
  <2>1. \A n \in 0 .. M : new[n] \in Seq(Byte)
    BY <1>2, <1>4, <1>6, <1>8
  <2> QED BY <1>7, <2>1
<1>10. \A n \in 1 .. M : \E q : new[n] = q \o new[n - 1] /\ Piece(t, msg[n], msg[n - 1], q)
  <2> TAKE n \in 1 .. M
  <2>1. n - 1 \in 0 .. N /\ (n = M \/ n \in 1 .. N) /\ (n = M => n - 1 = N)
    BY <1>2, <1>5 DEF M
  <2>2. CASE n = M
    <3>1. n - 1 = N /\ new[n] = p \o s /\ new[n - 1] = s /\ msg[n] = a /\ msg[n - 1] = b
      BY <1>2, <1>6, <2>1, <2>2
    <3> QED BY <3>1
  <2>3. CASE n \in 1 .. N
    <3>1. n \in 0 .. N
      BY <2>3
    <3>2. PICK q : rest[n] = q \o rest[n - 1] /\ Piece(t, part[n], part[n - 1], q)
      BY <1>2, <2>3
    <3>3. new[n] = q \o new[n - 1] /\ Piece(t, msg[n], msg[n - 1], q)
      BY <1>6, <2>1, <3>1, <3>2
    <3> QED BY <3>3
  <2> QED BY <2>1, <2>2, <2>3
<1>11. 0 \in 0 .. N
  BY <1>2
<1>12. ReadsBy(t, a, c, p \o s, M, new, msg)
  BY <1>2, <1>5, <1>6, <1>9, <1>10, <1>11 DEF ReadsBy
<1> QED BY <1>3, <1>12 DEF Reads

\* What is read begins with a piece, unless there is nothing left.
LEMMA ReadsFirst ==
    ASSUME NEW t \in MessageTypes, NEW a, NEW c, NEW s, Reads(t, a, c, s)
    PROVE  /\ s \in Seq(Byte)
           /\ s = <<>> => a = c
           /\ s # <<>> => \E b, p, u : s = p \o u /\ Piece(t, a, b, p) /\ Reads(t, b, c, u)
<1>1. PICK N, rest, part : ReadsBy(t, a, c, s, N, rest, part)
  BY DEF Reads
<1>2. /\ N \in Nat /\ rest \in [0 .. N -> Seq(Byte)]
      /\ rest[0] = <<>> /\ part[0] = c /\ rest[N] = s /\ part[N] = a
      /\ \A n \in 1 .. N : \E q : rest[n] = q \o rest[n - 1] /\ Piece(t, part[n], part[n - 1], q)
  BY <1>1 DEF ReadsBy
<1>3. s \in Seq(Byte)
  BY <1>2
<1>4. CASE N = 0
  BY <1>2, <1>3, <1>4
<1>5. CASE N # 0
  <2> DEFINE M == N - 1
             u == rest[M]
             b == part[M]
  <2>1. N \in 1 .. N /\ M \in Nat /\ M \in 0 .. N /\ \A n \in 0 .. M : n \in 0 .. N
    BY <1>2, <1>5
  <2>2. PICK p : s = p \o u /\ Piece(t, a, b, p)
    BY <1>2, <2>1
  <2>3. Reads(t, b, c, u)
    <3> DEFINE r == [n \in 0 .. M |-> rest[n]]
    <3> HIDE DEF M
    <3>1. r \in [0 .. M -> Seq(Byte)] /\ r[0] = <<>> /\ r[M] = u
      BY <1>2, <2>1
    <3>2. \A n \in 1 .. M : \E q : r[n] = q \o r[n - 1] /\ Piece(t, part[n], part[n - 1], q)
      <4> TAKE n \in 1 .. M
      <4>1. n \in 1 .. N /\ n \in 0 .. M /\ n - 1 \in 0 .. M
        BY <1>2, <2>1 DEF M
      <4>2. r[n] = rest[n] /\ r[n - 1] = rest[n - 1]
        BY <4>1
      <4> HIDE DEF r
      <4> QED BY <1>2, <4>1, <4>2
    <3> HIDE DEF r
    <3>3. ReadsBy(t, b, c, u, M, r, part)
      BY <1>2, <2>1, <3>1, <3>2 DEF ReadsBy
    <3> QED BY <3>3 DEF Reads
  <2>4. p \in Seq(Byte) /\ Len(p) > 0 /\ u \in Seq(Byte)
    BY <1>2, <2>1, <2>2, PieceLen
  <2>5. s # <<>>
    <3> HIDE DEF u
    <3>1. Len(p \o u) = Len(p) + Len(u)
      BY <2>4, JoinBytes
    <3>2. Len(p) \in Nat /\ Len(u) \in Nat
      BY <2>4
    <3>3. Len(s) # 0
      BY <2>2, <2>4, <3>1, <3>2
    <3> QED BY <3>3
  <2> QED BY <1>3, <2>2, <2>3, <2>5
<1> QED BY <1>4, <1>5

----------------------------------------------------------------------------
(* The writer of a message puts the bytes of its fields in front of one    *)
(* another.                                                                *)

\* The writes W leave bytes that make c of the message a.
Encodes(t, a, c, W) == \E n, s : Puts(W, n, s) /\ Reads(t, a, c, s)

\* Writes one after the other are writes.
LEMMA JoinWrites ==
    ASSUME NEW x \in Seq(WriteType), NEW y \in Seq(WriteType)
    PROVE  x \o y \in Seq(WriteType) /\ <<>> \o x = x /\ x \o <<>> = x
<1>1. x \o y \in Seq(WriteType)
  BY ConcatProperties
<1>2. <<>> \o x = x /\ x \o <<>> = x
  BY ConcatEmptySeq
<1> QED BY <1>1, <1>2

\* Writes can be grouped in any way.
LEMMA RegroupWrites ==
    ASSUME NEW x \in Seq(WriteType), NEW y \in Seq(WriteType), NEW z \in Seq(WriteType)
    PROVE  (x \o y) \o z = x \o (y \o z)
BY ConcatAssociative

\* What encodes a message is a list of writes.
LEMMA EncodesWrites ==
    ASSUME NEW t, NEW a, NEW c, NEW W, Encodes(t, a, c, W)
    PROVE  W \in Seq(WriteType) /\ W \o <<>> = W
<1>1. W \in Seq(WriteType)
  BY DEF Encodes, Puts, Takes
<1> QED BY <1>1, JoinWrites

\* Nothing has been written yet.
NoWrites == <<>>

\* No writes leave a message as it is.
LEMMA EncodesStart ==
    ASSUME NEW t, NEW m
    PROVE  Encodes(t, m, m, NoWrites)
BY PutsFew, ReadsNothing DEF Encodes, NoWrites

\* A field in front of what is written already.
LEMMA EncodesField ==
    ASSUME NEW t \in MessageTypes, NEW n \in DOMAIN Schema[t], NEW f, f = Schema[t][n],
           NEW a, NEW b, NEW c, NEW W, Encodes(t, b, c, W),
           NEW V, NEW k, NEW x, NEW v, NEW body, Puts(V, k, Prefix(n, f, x) \o body),
           Content(f, a, v, x, body), b = StoreIn(f, a, v)
    PROVE  Encodes(t, a, c, W \o V)
<1> DEFINE p == Prefix(n, f, x) \o body
<1>1. Piece(t, a, b, p)
  BY DEF Piece
<1>2. Puts(V, k, p)
  OBVIOUS
<1> HIDE DEF p
<1>3. PICK m, s : Puts(W, m, s) /\ Reads(t, b, c, s)
  BY DEF Encodes
<1>4. Reads(t, a, c, p \o s)
  BY <1>1, <1>3, ReadsMore
<1>5. Puts(W \o V, m + k, p \o s)
  BY <1>2, <1>3, PutsBoth
<1> QED BY <1>4, <1>5 DEF Encodes

\* Writes behind no others.
LEMMA TakesAlone ==
    ASSUME NEW V, NEW k, Takes(V, k)
    PROVE  NoWrites \o V = V
<1>1. V \in Seq(WriteType)
  BY DEF Takes
<1> QED BY <1>1, JoinWrites DEF NoWrites

\* The number or length of a field, then its tag in front.
LEMMA PrefixPuts ==
    ASSUME NEW v \in Uint64s, NEW tag \in Byte
    PROVE  Puts(<<encodeVarintSchedule(v), Copy(<<tag>>)>>, sovSchedule(v) + 1, <<tag>> \o Varint(v))
<1> DEFINE a == encodeVarintSchedule(v)
           b == Copy(<<tag>>)
<1>1. a \in WriteType /\ a.room = sovSchedule(v) /\ a.bytes = Varint(v)
  BY VarintTakes DEF Uint64s, Varint
<1>2. b \in WriteType /\ b.room = 1 /\ b.bytes = <<tag>>
  <2>1. <<tag>> \in Seq(Byte) /\ Len(<<tag>>) = 1
    OBVIOUS
  <2>2. b \in WriteType /\ b.room = 1
    BY <2>1, CopyTakes
  <2> QED BY <2>2 DEF Copy
<1> HIDE DEF a, b
<1>3. Puts(<<a>>, sovSchedule(v), Varint(v)) /\ Puts(<<b>>, 1, <<tag>>)
  BY <1>1, <1>2, PutsFew
<1>4. Puts(<<a>> \o <<b>>, sovSchedule(v) + 1, <<tag>> \o Varint(v))
  BY <1>3, PutsBoth
<1>5. <<a>> \o <<b>> = <<a, b>>
  BY <1>1, <1>2, Joined
<1> QED BY <1>4, <1>5 DEF a, b

\* One write and two more.
LEMMA PutsThree ==
    ASSUME NEW w \in WriteType, NEW e \in WriteType, NEW g \in WriteType,
           NEW m, NEW s, Puts(<<w>>, m, s), NEW n, NEW u, Puts(<<e, g>>, n, u)
    PROVE  Puts(<<w, e, g>>, m + n, u \o s)
<1>1. Puts(<<w>> \o <<e, g>>, m + n, u \o s)
  BY PutsBoth
<1>2. <<w>> \o <<e, g>> = <<w, e, g>>
  BY Joined
<1> QED BY <1>1, <1>2

\* A number, which is left out if it is 0.
LEMMA EncodesVarint ==
    ASSUME NEW t \in MessageTypes, NEW n \in DOMAIN Schema[t], NEW f, f = Schema[t][n], f.kind = "varint",
           NEW a, NEW b, NEW c, NEW W, Encodes(t, b, c, W),
           NEW v \in Uint64s, b = [a EXCEPT ![f.name] = v], v = 0 => a = b, NEW tag, tag = 8 * n
    PROVE  Encodes(t, a, c, W \o VarintField(tag, v))
<1>1. CASE v = 0
  <2>1. VarintField(tag, v) = <<>>
    BY <1>1 DEF VarintField
  <2>2. Encodes(t, a, c, W) /\ W \o <<>> = W
    BY <1>1, EncodesWrites
  <2> QED BY <2>1, <2>2
<1>2. CASE v # 0
  <2> DEFINE V == <<encodeVarintSchedule(v), Copy(<<tag>>)>>
             k == sovSchedule(v) + 1
             p == Prefix(n, f, v)
  <2>1. tag = 8 * n + Expected(f) /\ tag \in Byte
    <3>1. Expected(f) = 0 /\ n \in 1 .. 6 /\ 8 * n + Expected(f) \in Byte
      BY TagIsByte DEF Expected
    <3> QED BY <3>1
  <2>2. Puts(V, k, p)
    BY <2>1, PrefixPuts DEF Prefix
  <2>3. p \in Seq(Byte)
    BY <2>2, PutsLen
  <2> HIDE DEF V, k, p
  <2>4. p \o <<>> = p
    BY <2>3, JoinBytes
  <2>5. Content(f, a, v, v, <<>>) /\ b = StoreIn(f, a, v)
    BY DEF Content, StoreIn
  <2>6. Puts(V, k, Prefix(n, f, v) \o <<>>)
    BY <2>2, <2>4 DEF p
  <2>7. Encodes(t, a, c, W \o V)
    BY <2>5, <2>6, EncodesField
  <2> QED BY <1>2, <2>7 DEF VarintField, V
<1> QED BY <1>1, <1>2

\* A string, a byte slice or the text of a number, which is left out if empty.
LEMMA EncodesBytes ==
    ASSUME NEW t \in MessageTypes, NEW n \in DOMAIN Schema[t], NEW f, f = Schema[t][n],
           f.kind \in {"bytes", "text"},
           NEW a, NEW b, NEW c, NEW W, Encodes(t, b, c, W),
           NEW v \in Slice, f.kind = "text" => IntText(v),
           b = [a EXCEPT ![f.name] = v], v = <<>> => a = b, NEW tag, tag = 8 * n + 2
    PROVE  Encodes(t, a, c, W \o BytesField(tag, v))
<1>1. CASE v = <<>>
  <2>1. BytesField(tag, v) = <<>>
    BY <1>1 DEF BytesField
  <2>2. Encodes(t, a, c, W) /\ W \o <<>> = W
    BY <1>1, EncodesWrites
  <2> QED BY <2>1, <2>2
<1>2. CASE v # <<>>
  <2> DEFINE x == Len(v)
             w == Copy(v)
             e == encodeVarintSchedule(x)
             g == Copy(<<tag>>)
             p == Prefix(n, f, x)
  <2>1. tag = 8 * n + Expected(f) /\ tag \in Byte
    <3>1. Expected(f) = 2 /\ 8 * n + Expected(f) \in Byte
      BY TagIsByte DEF Expected
    <3> QED BY <3>1
  <2>2. v \in Seq(Byte) /\ x \in Uint64s
    BY WordFacts DEF Slice, Uint64s
  <2>3. w \in WriteType /\ w.room = x /\ w.bytes = v
    <3>1. w \in WriteType /\ w.room = x
      BY <2>2, CopyTakes
    <3> QED BY <3>1 DEF Copy
  <2>4. e \in WriteType /\ g \in WriteType
    <3>1. <<tag>> \in Seq(Byte)
      BY <2>1
    <3> QED BY <2>2, <3>1, CopyTakes, VarintTakes DEF Uint64s
  <2>5. Puts(<<e, g>>, sovSchedule(x) + 1, p)
    BY <2>1, <2>2, PrefixPuts DEF Prefix
  <2> HIDE DEF w, e, g, p, x
  <2>6. Puts(<<w>>, x, v)
    BY <2>3, PutsFew
  <2>7. Puts(<<w, e, g>>, x + (sovSchedule(x) + 1), p \o v)
    <3>1. w \in WriteType
      BY <2>3
    <3> QED BY <2>4, <2>5, <2>6, <3>1, PutsThree
  <2>9. Content(f, a, v, x, v) /\ b = StoreIn(f, a, v)
    <3>1. x = Len(v)
      BY DEF x
    <3> QED BY <2>2, <3>1 DEF Content, StoreIn
  <2>10. Encodes(t, a, c, W \o <<w, e, g>>)
    BY <2>7, <2>9, EncodesField DEF p
  <2> QED BY <1>2, <2>10 DEF BytesField, w, e, g, x
<1> QED BY <1>1, <1>2

\* A message in the message.
LEMMA EncodesMessage ==
    ASSUME NEW t \in MessageTypes, NEW n \in DOMAIN Schema[t], NEW f, f = Schema[t][n],
           f.kind \in {"message", "repeated"}, f.type \in MessageTypes,
           NEW a, NEW b, NEW c, NEW W, Encodes(t, b, c, W),
           NEW v \in Complete(f.type), SizeOf(f.type, v) < Word,
           f.kind = "message" => a[f.name] \in {Nil, Reset[f.type]},
           b = StoreIn(f, a, v), NEW tag, tag = 8 * n + 2
    PROVE  Encodes(t, a, c, W \o MessageField(tag, WritesOf(f.type, v)))
<1> DEFINE x == SizeOf(f.type, v)
           U == WritesOf(f.type, v)
           s == Marshalled(f.type, v)
           P == <<encodeVarintSchedule(x), Copy(<<tag>>)>>
           p == Prefix(n, f, x)
<1>1. tag = 8 * n + Expected(f) /\ tag \in Byte
  <2>1. Expected(f) = 2 /\ 8 * n + Expected(f) \in Byte
    BY TagIsByte DEF Expected
  <2> QED BY <2>1
<1>2. Puts(U, x, s)
  BY MarshalledIs DEF Complete
<1>3. Len(s) = x /\ s \in Seq(Byte) /\ x \in Nat /\ Room(U) = x
  BY <1>2, PutsLen DEF Puts, Takes
<1>4. x \in Uint64s
  BY <1>3, WordFacts DEF Uint64s
<1>5. Puts(P, sovSchedule(x) + 1, p)
  BY <1>1, <1>4, PrefixPuts DEF Prefix
<1>6. MessageField(tag, U) = U \o P
  BY <1>3 DEF MessageField
<1>7. Content(f, a, v, x, s)
  BY <1>3, <1>4 DEF Content
<1> HIDE DEF x, U, s, P, p
<1>8. Puts(U \o P, x + (sovSchedule(x) + 1), p \o s)
  BY <1>2, <1>5, PutsBoth
<1>9. Encodes(t, a, c, W \o (U \o P))
  BY <1>7, <1>8, EncodesField DEF p
<1> QED BY <1>6, <1>9 DEF U

\* A message in the message, or none.
LEMMA EncodesPointer ==
    ASSUME NEW t \in MessageTypes, NEW n \in DOMAIN Schema[t], NEW f, f = Schema[t][n],
           f.kind = "message", f.type \in MessageTypes,
           NEW a, NEW b, NEW c, NEW W, Encodes(t, b, c, W), NEW v,
           v # Nil => v \in Complete(f.type) /\ SizeOf(f.type, v) < Word,
           a[f.name] \in {Nil, Reset[f.type]},
           b = [a EXCEPT ![f.name] = v], v = Nil => a = b, NEW tag, tag = 8 * n + 2
    PROVE  Encodes(t, a, c, W \o PointerField(tag, v, WritesOf(f.type, v)))
<1>1. CASE v = Nil
  <2>1. PointerField(tag, v, WritesOf(f.type, v)) = <<>>
    BY <1>1 DEF PointerField
  <2>2. Encodes(t, a, c, W) /\ W \o <<>> = W
    BY <1>1, EncodesWrites
  <2> QED BY <2>1, <2>2
<1>2. CASE v # Nil
  <2>1. b = StoreIn(f, a, v)
    BY DEF StoreIn
  <2> QED BY <1>2, <2>1, EncodesMessage DEF PointerField
<1> QED BY <1>1, <1>2

\* The message a with v in its field f.
With(a, f, v) == [a EXCEPT ![f.name] = v]

\* A list in a message that gets longer.
LEMMA StoreNext ==
    ASSUME NEW f, f.kind = "repeated", NEW a, f.name \in DOMAIN a, NEW y, NEW v
    PROVE  StoreIn(f, With(a, f, y), v) = With(a, f, Append(y, v))
<1> DEFINE z == f.name
           w == Append(y, v)
           b == [a EXCEPT ![z] = y]
<1>1. StoreIn(f, b, v) = [b EXCEPT ![z] = Append(b[z], v)]
  BY DEF StoreIn
<1>2. b[z] = y /\ DOMAIN b = DOMAIN a
  OBVIOUS
<1>3. [b EXCEPT ![z] = w] = [a EXCEPT ![z] = w]
  <2> HIDE DEF z, w
  <2> QED OBVIOUS
<1> QED BY <1>1, <1>2, <1>3 DEF With

\* The elements of a list up to the next one.
LEMMA FirstElements ==
    ASSUME NEW T, NEW L \in Seq(T), NEW k \in 1 .. Len(L)
    PROVE  /\ SubSeq(L, 1, k) = Append(SubSeq(L, 1, k - 1), L[k])
           /\ SubSeq(L, 1, Len(L)) = L /\ SubSeq(L, 1, 0) = <<>>
<1> DEFINE x == SubSeq(L, 1, k)
           u == SubSeq(L, 1, k - 1)
           y == Append(u, L[k])
<1>1. k \in Nat /\ k - 1 \in Nat /\ Len(L) \in Nat /\ k <= Len(L) /\ L[k] \in T
  OBVIOUS
<1>2. x \in Seq(T) /\ Len(x) = k /\ \A i \in 1 .. k : x[i] = L[i]
  OBVIOUS
<1>3. u \in Seq(T) /\ Len(u) = k - 1 /\ \A i \in 1 .. k - 1 : u[i] = L[i]
  BY <1>1
<1>4. y \in Seq(T) /\ Len(y) = k /\ \A i \in 1 .. k : y[i] = L[i]
  <2> HIDE DEF u
  <2>1. y \in Seq(T) /\ Len(y) = Len(u) + 1 /\ \A i \in 1 .. Len(u) : y[i] = u[i] /\ y[Len(u) + 1] = L[k]
    BY <1>1, <1>3, AppendProperties
  <2>2. y[k] = L[k]
    BY <1>1, <1>3, AppendProperties
  <2> HIDE DEF y
  <2> QED BY <1>1, <1>3, <2>1, <2>2
<1>5. x = y
  <2> HIDE DEF x, y
  <2>1. \A i \in 1 .. Len(x) : x[i] = y[i]
    BY <1>2, <1>4
  <2> QED BY <1>2, <1>4, <2>1, SeqEqual
<1>6. SubSeq(L, 1, Len(L)) = L /\ SubSeq(L, 1, 0) = <<>>
  OBVIOUS
<1> QED BY <1>5, <1>6

\* What holds of writes W, and goes on to hold when those of the Nth element
\* are added, of the one before, and so on, holds of W and all of them.
LEMMA FromLast ==
    ASSUME NEW N \in Nat, NEW F \in [1 .. N -> Seq(WriteType)],
           NEW first \in [0 .. N -> Seq(WriteType)], first[0] = <<>>,
           \A j \in 1 .. N : first[j] = F[j] \o first[j - 1],
           NEW W \in Seq(WriteType), NEW R, <<N, W>> \in R,
           \A k \in 1 .. N : \A U \in Seq(WriteType) : <<k, U>> \in R => <<k - 1, U \o F[k]>> \in R
    PROVE  <<0, W \o first[N]>> \in R
<1> DEFINE D == W \o first[N]
           Q(k) == \E U \in Seq(WriteType) : <<k, U>> \in R /\ U \o first[k] = D
           S == {k \in 0 .. N : Q(N - k)}
<1> HIDE DEF D
<1>1. 0 \in S
  <2>1. Q(N)
    BY DEF D
  <2>2. N - 0 = N
    OBVIOUS
  <2> HIDE DEF Q
  <2> QED BY <2>1, <2>2
<1>2. ASSUME NEW j \in 1 .. N, j - 1 \in S PROVE j \in S
  <2> DEFINE k == N - (j - 1)
  <2>1. k \in 1 .. N /\ k \in 0 .. N /\ k - 1 \in 0 .. N /\ N - j = k - 1 /\ j \in 0 .. N
    OBVIOUS
  <2>2. Q(k)
    <3> HIDE DEF Q
    <3> QED BY <1>2
  <2> HIDE DEF k
  <2>3. PICK U \in Seq(WriteType) : <<k, U>> \in R /\ U \o first[k] = D
    BY <2>2
  <2> DEFINE x == F[k]
             y == first[k - 1]
  <2>4. x \in Seq(WriteType) /\ y \in Seq(WriteType) /\ first[k] = x \o y
    BY <2>1
  <2>5. <<k - 1, U \o x>> \in R
    BY <2>1, <2>3
  <2> HIDE DEF x, y
  <2>6. (U \o x) \o y = U \o (x \o y) /\ U \o x \in Seq(WriteType)
    <3>1. U \in Seq(WriteType)
      BY <2>3
    <3>2. U \o x \in Seq(WriteType)
      BY <2>4, <3>1, JoinWrites
    <3>3. (U \o x) \o y = U \o (x \o y)
      BY <2>4, <3>1, RegroupWrites
    <3> QED BY <3>2, <3>3
  <2>7. (U \o x) \o y = D
    BY <2>3, <2>4, <2>6
  <2>8. Q(k - 1)
    BY <2>5, <2>6, <2>7 DEF y
  <2> HIDE DEF Q
  <2> QED BY <2>1, <2>8
<1>3. N \in S
  <2> HIDE DEF S
  <2>1. 0 .. N \subseteq S
    BY <1>1, <1>2, UpTo
  <2> QED BY <2>1
<1>4. PICK U \in Seq(WriteType) : <<0, U>> \in R /\ U \o first[0] = D
  <2>1. N - N = 0
    OBVIOUS
  <2>2. Q(0)
    <3> HIDE DEF Q
    <3> QED BY <1>3, <2>1
  <2> QED BY <2>2
<1>5. U \o <<>> = U
  BY JoinWrites
<1> QED BY <1>4, <1>5 DEF D

\* The list in field f of a message is empty.
EmptyIn(a, f) == f.name \in DOMAIN a /\ With(a, f, <<>>) = a

\* The elements L of field number n have been written in front of W.
ListWritten(t, n, f, L, a, c, W, s, tag) ==
    /\ Encodes(t, a, c, W \o RepeatedField(tag, s))
    /\ NoWrites \o RepeatedField(tag, s) = RepeatedField(tag, s)

\* A list of messages: they are written from the last to the first.
LEMMA EncodesRepeated ==
    ASSUME NEW t \in MessageTypes, NEW n \in DOMAIN Schema[t], NEW f, f = Schema[t][n],
           f.kind = "repeated", f.type \in MessageTypes,
           NEW L \in Seq(Complete(f.type)), \A j \in 1 .. Len(L) : SizeOf(f.type, L[j]) < Word,
           NEW a, EmptyIn(a, f),
           NEW c, NEW W, Encodes(t, With(a, f, L), c, W),
           NEW s, DOMAIN s = 1 .. Len(L), Len(s) = Len(L),
           \A j \in 1 .. Len(L) : s[j] = WritesOf(f.type, L[j]), NEW tag, tag = 8 * n + 2
    PROVE  ListWritten(t, n, f, L, a, c, W, s, tag)
<1> DEFINE N == Len(L)
           F(j) == MessageField(tag, s[j])
           At(k) == With(a, f, SubSeq(L, 1, k))
<1>1. N \in Nat /\ DOMAIN L = 1 .. N /\ DOMAIN s = 1 .. N /\ Len(s) = N
      /\ \A j \in 1 .. N : s[j] = WritesOf(f.type, L[j]) /\ L[j] \in Complete(f.type)
  OBVIOUS
<1>2. tag \in Byte
  <2>1. Expected(f) = 2 /\ 8 * n + Expected(f) \in Byte
    BY TagIsByte DEF Expected
  <2> QED BY <2>1
<1>3. \A j \in 1 .. N : F(j) \in Seq(WriteType)
  <2> TAKE j \in 1 .. N
  <2>1. Takes(WritesOf(f.type, L[j]), SizeOf(f.type, L[j])) /\ SizeOf(f.type, L[j]) < Word
    BY <1>1, EveryMessageTakes DEF Complete
  <2>2. Takes(MessageField(tag, WritesOf(f.type, L[j])), MessageSize(SizeOf(f.type, L[j])))
    BY <1>2, <2>1, MessageFieldTakes
  <2> QED BY <1>1, <2>2 DEF Takes
<1>4. PICK first : FirstsOf(tag, s, first) /\ RepeatedField(tag, s) = first[N]
  <2>1. N \in Nat /\ DOMAIN s = 1 .. N /\ Len(s) = N
    BY <1>1
  <2>2. \A j \in 1 .. N : MessageField(tag, s[j]) \in Seq(WriteType)
    BY <1>3
  <2> HIDE DEF N
  <2> QED BY <2>1, <2>2, FirstsExist, ZenonT(150)
<1>5. /\ first \in [0 .. N -> Seq(WriteType)] /\ first[0] = <<>>
      /\ \A j \in 1 .. N : first[j] = F(j) \o first[j - 1]
  BY <1>1, <1>4 DEF FirstsOf
<1>6. \A k \in 1 .. N : At(k) = StoreIn(f, At(k - 1), L[k])
  <2> TAKE k \in 1 .. N
  <2>1. SubSeq(L, 1, k) = Append(SubSeq(L, 1, k - 1), L[k])
    BY FirstElements
  <2> DEFINE y == SubSeq(L, 1, k - 1)
  <2>2. StoreIn(f, With(a, f, y), L[k]) = With(a, f, Append(y, L[k]))
    <3>1. f.name \in DOMAIN a
      BY DEF EmptyIn
    <3> HIDE DEF y
    <3> QED BY <3>1, StoreNext
  <2> QED BY <2>1, <2>2
<1>7. At(N) = With(a, f, L) /\ At(0) = a
  <2>1. SubSeq(L, 1, N) = L /\ SubSeq(L, 1, 0) = <<>>
    OBVIOUS
  <2> QED BY <2>1 DEF EmptyIn
<1> DEFINE G == [j \in 1 .. N |-> F(j)]
           R == {p \in (0 .. N) \X Seq(WriteType) : Encodes(t, At(p[1]), c, p[2])}
<1>8. W \in Seq(WriteType) /\ <<N, W>> \in R
  <2>1. W \in Seq(WriteType)
    BY EncodesWrites
  <2>2. N \in 0 .. N
    BY <1>1
  <2>3. Encodes(t, At(N), c, W)
    BY <1>7
  <2> HIDE DEF N, At
  <2> QED BY <2>1, <2>2, <2>3
<1>9. G \in [1 .. N -> Seq(WriteType)] /\ \A j \in 1 .. N : G[j] = F(j) /\ first[j] = G[j] \o first[j - 1]
  <2> HIDE DEF N, F
  <2> QED BY <1>3, <1>5
<1>10. ASSUME NEW k \in 1 .. N, NEW U \in Seq(WriteType), <<k, U>> \in R
       PROVE  <<k - 1, U \o G[k]>> \in R
  <2> DEFINE b == At(k)
             d == At(k - 1)
             v == L[k]
  <2>1. b = StoreIn(f, d, v) /\ v \in Complete(f.type) /\ SizeOf(f.type, v) < Word
        /\ s[k] = WritesOf(f.type, v)
    BY <1>1, <1>6
  <2>2. Encodes(t, b, c, U)
    <3> HIDE DEF At
    <3> QED BY <1>10
  <2> HIDE DEF b, d, v
  <2>3. f.kind # "message"
    OBVIOUS
  <2>4. Encodes(t, d, c, U \o MessageField(tag, WritesOf(f.type, v)))
    BY <2>1, <2>2, <2>3, EncodesMessage
  <2>5. Encodes(t, At(k - 1), c, U \o G[k])
    BY <1>9, <2>1, <2>4 DEF d
  <2>6. k - 1 \in 0 .. N
    BY <1>1
  <2>7. U \o G[k] \in Seq(WriteType)
    <3>1. G[k] \in Seq(WriteType)
      BY <1>9
    <3> HIDE DEF G
    <3> QED BY <3>1, JoinWrites
  <2> HIDE DEF N, G, At
  <2> QED BY <2>5, <2>6, <2>7
<1>11. <<0, W \o first[N]>> \in R
  <2> HIDE DEF N, G, R
  <2> QED BY <1>1, <1>5, <1>8, <1>9, <1>10, FromLast
<1> HIDE DEF At
<1>12. Encodes(t, At(0), c, W \o first[N])
  BY <1>11
<1>13. first[N] \in Seq(WriteType)
  <2>1. N \in 0 .. N
    BY <1>1
  <2> QED BY <1>5, <2>1
<1>14. NoWrites \o first[N] = first[N]
  BY <1>13, JoinWrites DEF NoWrites
<1> QED BY <1>4, <1>7, <1>12, <1>14 DEF ListWritten

----------------------------------------------------------------------------
(* The writers of the message types.                                       *)

\* The message m of which only the fields of the names S have been read.
Given(t, m, S) == [x \in DOMAIN m |-> IF x \in S THEN m[x] ELSE Reset[t][x]]

\* The writes W leave bytes that make m of what the fields S give.
Gives(t, m, S, W) == Encodes(t, Given(t, m, S), m, W)

\* A message is what all of its fields give: nothing has to be written.
LEMMA GivesAll ==
    ASSUME NEW t, NEW m, m = [x \in DOMAIN m |-> m[x]]
    PROVE  Gives(t, m, DOMAIN m, NoWrites)
<1>1. Given(t, m, DOMAIN m) = [x \in DOMAIN m |-> m[x]]
  BY DEF Given
<1>2. Given(t, m, DOMAIN m) = m
  BY <1>1, Zenon
<1> QED BY <1>2, EncodesStart DEF Gives

\* Without a field, a message is what Reset makes it.
LEMMA GivesNone ==
    ASSUME NEW t, NEW m, NEW W, Gives(t, m, {}, W), DOMAIN m = DOMAIN Reset[t],
           Reset[t] = [x \in DOMAIN Reset[t] |-> Reset[t][x]]
    PROVE  Encodes(t, Reset[t], m, W)
<1>1. Given(t, m, {}) = [x \in DOMAIN Reset[t] |-> Reset[t][x]]
  BY DEF Given
<1>2. Given(t, m, {}) = Reset[t]
  BY <1>1, Zenon
<1> QED BY <1>2 DEF Gives

\* T has the field x and those of S.
OneMore(S, T, x) == x \notin S /\ T = S \cup {x}

\* One field more.
LEMMA GivenOne ==
    ASSUME NEW t, NEW m, NEW S, NEW x \in DOMAIN m, x \notin S, NEW T, T = S \cup {x}
    PROVE  /\ Given(t, m, T) = [Given(t, m, S) EXCEPT ![x] = m[x]]
           /\ m[x] = Reset[t][x] => Given(t, m, S) = Given(t, m, T)
           /\ Given(t, m, S)[x] = Reset[t][x] /\ x \in DOMAIN Given(t, m, S)
<1> DEFINE a == Given(t, m, S)
           b == Given(t, m, T)
<1>1. DOMAIN a = DOMAIN m /\ \A y \in DOMAIN m : a[y] = IF y \in S THEN m[y] ELSE Reset[t][y]
  BY DEF Given
<1>2. DOMAIN b = DOMAIN m /\ \A y \in DOMAIN m : b[y] = IF y \in T THEN m[y] ELSE Reset[t][y]
  BY DEF Given
<1>3. a = [y \in DOMAIN m |-> a[y]] /\ b = [y \in DOMAIN m |-> b[y]]
  BY DEF Given
<1> HIDE DEF a, b
<1>4. \A y \in DOMAIN m : y # x => b[y] = a[y]
  BY <1>1, <1>2
<1>5. b[x] = m[x] /\ a[x] = Reset[t][x]
  BY <1>1, <1>2
<1>6. b = [a EXCEPT ![x] = m[x]]
  <2> DEFINE c == [a EXCEPT ![x] = m[x]]
  <2>1. DOMAIN c = DOMAIN m /\ c = [y \in DOMAIN m |-> c[y]]
    BY <1>1
  <2>2. \A y \in DOMAIN m : c[y] = b[y]
    BY <1>1, <1>4, <1>5
  <2> HIDE DEF c
  <2>3. b = c
    BY <1>3, <2>1, <2>2, Zenon
  <2> QED BY <2>3 DEF c
<1>7. ASSUME m[x] = Reset[t][x] PROVE a = b
  <2>1. \A y \in DOMAIN m : a[y] = b[y]
    BY <1>4, <1>5, <1>7
  <2> QED BY <1>3, <2>1, Zenon
<1> QED BY <1>1, <1>5, <1>6, <1>7 DEF a, b

\* What it means for a message of type t to have one field more.
FieldGiven(t, m, f, x, S, T) ==
    /\ Given(t, m, T) = With(Given(t, m, S), f, m[x])
    /\ m[x] = Reset[t][x] => Given(t, m, S) = Given(t, m, T)
    /\ Given(t, m, S)[x] = Reset[t][x] /\ x \in DOMAIN Given(t, m, S)

\* The same for the field of a schema.
LEMMA GivenField ==
    ASSUME NEW t, NEW m, NEW f, NEW x \in DOMAIN m, x = f.name, NEW S, NEW T, OneMore(S, T, x)
    PROVE  FieldGiven(t, m, f, x, S, T)
<1>1. /\ Given(t, m, T) = [Given(t, m, S) EXCEPT ![x] = m[x]]
      /\ m[x] = Reset[t][x] => Given(t, m, S) = Given(t, m, T)
      /\ Given(t, m, S)[x] = Reset[t][x] /\ x \in DOMAIN Given(t, m, S)
  BY GivenOne DEF OneMore
<1>2. With(Given(t, m, S), f, m[x]) = [Given(t, m, S) EXCEPT ![x] = m[x]]
  BY DEF With
<1>3. Given(t, m, T) = With(Given(t, m, S), f, m[x])
  BY <1>1, <1>2, Zenon
<1> QED BY <1>1, <1>3, Zenon DEF FieldGiven

\* Number n of a message of type t is its field x, of kind k.
FieldAt(t, n, x, k) ==
    n \in DOMAIN Schema[t] /\ Schema[t][n].name = x /\ Schema[t][n].kind = k

\* It holds messages of type y.
FieldOf(t, n, x, k, y) == FieldAt(t, n, x, k) /\ Schema[t][n].type = y

\* The field with the writes V comes after those of W.
FieldWritten(t, m, S, W, V) == Gives(t, m, S, W \o V) /\ NoWrites \o V = V

\* The number of a field.
LEMMA GivesVarint ==
    ASSUME NEW t \in MessageTypes, NEW n, NEW x, FieldAt(t, n, x, "varint"),
           NEW m, x \in DOMAIN m, m[x] \in Uint64s, Reset[t][x] = 0,
           NEW S, NEW T, OneMore(S, T, x), NEW W, Gives(t, m, T, W), NEW tag, tag = 8 * n
    PROVE  FieldWritten(t, m, S, W, VarintField(tag, m[x]))
<1> DEFINE f == Schema[t][n]
           a == Given(t, m, S)
           b == Given(t, m, T)
           v == m[x]
<1>a. n \in DOMAIN Schema[t] /\ f = Schema[t][n] /\ f.kind = "varint" /\ f.name = x
  BY DEF FieldAt, FieldOf
<1> HIDE DEF f
<1>0. /\ b = With(a, f, v) /\ (v = Reset[t][x] => a = b)
      /\ a[x] = Reset[t][x] /\ x \in DOMAIN a
  <2>1. FieldGiven(t, m, f, x, S, T)
    BY <1>a, GivenField
  <2> QED BY <2>1, Zenon DEF FieldGiven
<1>1. b = With(a, f, v) /\ (v = 0 => a = b)
  BY <1>0
<1>2. v \in Uint64s /\ f.kind = "varint" /\ tag \in Byte
  <2>1. Expected(f) = 0 /\ 8 * n + Expected(f) \in Byte /\ n \in 1 .. 6
    BY <1>a, TagIsByte DEF Expected
  <2> QED BY <1>a, <2>1
<1>3. Encodes(t, b, m, W)
  BY DEF Gives
<1>4. Takes(VarintField(tag, v), VarintSize(v))
  BY <1>2, VarintFieldTakes DEF Uint64s
<1> HIDE DEF a, b, v
<1>5. Encodes(t, a, m, W \o VarintField(tag, v))
  BY <1>1, <1>2, <1>3, <1>a, EncodesVarint DEF With
<1>6. NoWrites \o VarintField(tag, v) = VarintField(tag, v)
  BY <1>4, TakesAlone
<1> QED BY <1>5, <1>6 DEF FieldWritten, Gives, a, v

\* The field x of a message of type t is empty at first.
NoBytes(t, x) == Reset[t][x] = <<>>

\* The string of a field.
LEMMA GivesBytes ==
    ASSUME NEW t \in MessageTypes, NEW n, NEW x, NEW k \in {"bytes", "text"}, FieldAt(t, n, x, k),
           NEW m, x \in DOMAIN m, m[x] \in Slice, NoBytes(t, x),
           k = "text" => IntText(m[x]),
           NEW S, NEW T, OneMore(S, T, x), NEW W, Gives(t, m, T, W), NEW tag, tag = 8 * n + 2
    PROVE  FieldWritten(t, m, S, W, BytesField(tag, m[x]))
<1> DEFINE f == Schema[t][n]
           a == Given(t, m, S)
           b == Given(t, m, T)
           v == m[x]
<1>a. n \in DOMAIN Schema[t] /\ f = Schema[t][n] /\ f.kind = k /\ f.name = x
  BY DEF FieldAt, FieldOf
<1> HIDE DEF f
<1>0. /\ b = With(a, f, v) /\ (v = Reset[t][x] => a = b)
      /\ a[x] = Reset[t][x] /\ x \in DOMAIN a
  <2>1. FieldGiven(t, m, f, x, S, T)
    BY <1>a, GivenField
  <2> QED BY <2>1, Zenon DEF FieldGiven
<1>1. b = With(a, f, v) /\ (v = <<>> => a = b)
  BY <1>0 DEF NoBytes
<1>2. v \in Slice /\ f.kind \in {"bytes", "text"} /\ (f.kind = "text" => IntText(v)) /\ tag \in Byte
  <2>1. Expected(f) = 2 /\ 8 * n + Expected(f) \in Byte /\ n \in 1 .. 6
    BY <1>a, TagIsByte DEF Expected
  <2> QED BY <1>a, <2>1
<1>3. Encodes(t, b, m, W)
  BY DEF Gives
<1>4. Takes(BytesField(tag, v), BytesSize(v))
  BY <1>2, BytesFieldTakes
<1> HIDE DEF a, b, v
<1>5. Encodes(t, a, m, W \o BytesField(tag, v))
  BY <1>1, <1>2, <1>3, <1>a, EncodesBytes DEF With
<1>6. NoWrites \o BytesField(tag, v) = BytesField(tag, v)
  BY <1>4, TakesAlone
<1> QED BY <1>5, <1>6 DEF FieldWritten, Gives, a, v

\* The message of a field that is always written.
LEMMA GivesMessage ==
    ASSUME NEW t \in MessageTypes, NEW n, NEW x, NEW y \in MessageTypes, FieldOf(t, n, x, "message", y),
           NEW m, x \in DOMAIN m, m[x] \in Complete(y), SizeOf(y, m[x]) < Word,
           Reset[t][x] = Reset[y],
           NEW S, NEW T, OneMore(S, T, x), NEW W, Gives(t, m, T, W), NEW tag, tag = 8 * n + 2
    PROVE  FieldWritten(t, m, S, W, MessageField(tag, WritesOf(y, m[x])))
<1> DEFINE f == Schema[t][n]
           a == Given(t, m, S)
           b == Given(t, m, T)
           v == m[x]
           V == MessageField(tag, WritesOf(y, v))
<1>a. n \in DOMAIN Schema[t] /\ f = Schema[t][n] /\ f.kind = "message" /\ f.name = x /\ f.type = y
  BY DEF FieldAt, FieldOf
<1> HIDE DEF f
<1>0. /\ b = With(a, f, v) /\ (v = Reset[t][x] => a = b)
      /\ a[x] = Reset[t][x] /\ x \in DOMAIN a
  <2>1. FieldGiven(t, m, f, x, S, T)
    BY <1>a, GivenField
  <2> QED BY <2>1, Zenon DEF FieldGiven
<1>1. f.name = x /\ f.kind = "message" /\ f.type = y /\ tag \in Byte
  <2>1. Expected(f) = 2 /\ 8 * n + Expected(f) \in Byte /\ n \in 1 .. 6
    BY <1>a, TagIsByte DEF Expected
  <2> QED BY <1>a, <2>1
<1>2. b = StoreIn(f, a, v)
  <2>1. b = With(a, f, v)
    BY <1>0
  <2> HIDE DEF a, b, v
  <2> QED BY <1>1, <2>1 DEF StoreIn, With
<1>3. a[x] = Reset[y]
  BY <1>0
<1>4. Encodes(t, b, m, W) /\ v \in Complete(y) /\ SizeOf(y, v) < Word
  BY DEF Gives
<1>5. NoWrites \o V = V
  <2>1. Takes(WritesOf(y, v), SizeOf(y, v))
    BY <1>4, EveryMessageTakes DEF Complete
  <2>2. Takes(V, MessageSize(SizeOf(y, v)))
    <3> HIDE DEF v
    <3> QED BY <1>1, <1>4, <2>1, MessageFieldTakes
  <2> HIDE DEF V
  <2> QED BY <2>2, TakesAlone
<1> HIDE DEF a, b, v
<1>6. f.kind \in {"message", "repeated"} /\ f.type \in MessageTypes /\ v \in Complete(f.type)
      /\ SizeOf(f.type, v) < Word /\ (f.kind = "message" => a[f.name] \in {Nil, Reset[f.type]})
  BY <1>1, <1>3, <1>4
<1>7. Encodes(t, a, m, W \o MessageField(tag, WritesOf(f.type, v)))
  BY <1>2, <1>4, <1>6, <1>a, EncodesMessage
<1>8. Encodes(t, a, m, W \o V)
  BY <1>1, <1>7
<1> QED BY <1>5, <1>8 DEF FieldWritten, Gives, a, v

\* The message of a field, or none.
LEMMA GivesPointer ==
    ASSUME NEW t \in MessageTypes, NEW n, NEW x, NEW y \in MessageTypes, FieldOf(t, n, x, "message", y),
           NEW m, x \in DOMAIN m, m[x] # Nil => m[x] \in Complete(y) /\ SizeOf(y, m[x]) < Word,
           Reset[t][x] = Nil,
           NEW S, NEW T, OneMore(S, T, x), NEW W, Gives(t, m, T, W), NEW tag, tag = 8 * n + 2
    PROVE  FieldWritten(t, m, S, W, PointerField(tag, m[x], WritesOf(y, m[x])))
<1> DEFINE f == Schema[t][n]
           a == Given(t, m, S)
           b == Given(t, m, T)
           v == m[x]
           V == PointerField(tag, v, WritesOf(y, v))
<1>a. n \in DOMAIN Schema[t] /\ f = Schema[t][n] /\ f.kind = "message" /\ f.name = x /\ f.type = y
  BY DEF FieldAt, FieldOf
<1> HIDE DEF f
<1>0. /\ b = With(a, f, v) /\ (v = Reset[t][x] => a = b)
      /\ a[x] = Reset[t][x] /\ x \in DOMAIN a
  <2>1. FieldGiven(t, m, f, x, S, T)
    BY <1>a, GivenField
  <2> QED BY <2>1, Zenon DEF FieldGiven
<1>1. f.name = x /\ f.kind = "message" /\ f.type = y /\ tag \in Byte
  <2>1. Expected(f) = 2 /\ 8 * n + Expected(f) \in Byte /\ n \in 1 .. 6
    BY <1>a, TagIsByte DEF Expected
  <2> QED BY <1>a, <2>1
<1>2. b = With(a, f, v) /\ (v = Nil => a = b)
  BY <1>0
<1>3. a[x] = Nil
  BY <1>0
<1>4. Encodes(t, b, m, W) /\ (v # Nil => v \in Complete(y) /\ SizeOf(y, v) < Word)
  BY DEF Gives
<1>5. NoWrites \o V = V
  <2>1. v # Nil => Takes(WritesOf(y, v), SizeOf(y, v)) /\ SizeOf(y, v) < Word
    BY <1>4, EveryMessageTakes DEF Complete
  <2>2. Takes(V, PointerSize(v, SizeOf(y, v)))
    <3> HIDE DEF v
    <3> QED BY <1>1, <2>1, PointerFieldTakes
  <2> HIDE DEF V
  <2> QED BY <2>2, TakesAlone
<1> HIDE DEF a, b, v
<1>6. f.type \in MessageTypes /\ f.kind = "message" /\ a[f.name] \in {Nil, Reset[f.type]}
      /\ (v # Nil => v \in Complete(f.type) /\ SizeOf(f.type, v) < Word)
  BY <1>1, <1>3, <1>4
<1>7. Encodes(t, a, m, W \o PointerField(tag, v, WritesOf(f.type, v)))
  BY <1>2, <1>4, <1>6, <1>a, EncodesPointer DEF With
<1>8. Encodes(t, a, m, W \o V)
  BY <1>1, <1>7
<1> QED BY <1>5, <1>8 DEF FieldWritten, Gives, a, v

\* The list of a field.
LEMMA GivesRepeated ==
    ASSUME NEW t \in MessageTypes, NEW n, NEW x, NEW y \in MessageTypes, FieldOf(t, n, x, "repeated", y),
           NEW m, x \in DOMAIN m, m[x] \in Seq(Complete(y)), \A j \in 1 .. Len(m[x]) : SizeOf(y, m[x][j]) < Word,
           NoBytes(t, x),
           NEW S, NEW T, OneMore(S, T, x), NEW W, Gives(t, m, T, W), NEW tag, tag = 8 * n + 2,
           NEW s, s = [j \in DOMAIN m[x] |-> WritesOf(y, m[x][j])]
    PROVE  FieldWritten(t, m, S, W, RepeatedField(tag, s))
<1> DEFINE f == Schema[t][n]
           a == Given(t, m, S)
           b == Given(t, m, T)
           v == m[x]
<1>a. n \in DOMAIN Schema[t] /\ f = Schema[t][n] /\ f.kind = "repeated" /\ f.name = x /\ f.type = y
  BY DEF FieldAt, FieldOf
<1> HIDE DEF f
<1>0. /\ b = With(a, f, v) /\ (v = Reset[t][x] => a = b)
      /\ a[x] = Reset[t][x] /\ x \in DOMAIN a
  <2>1. FieldGiven(t, m, f, x, S, T)
    BY <1>a, GivenField
  <2> QED BY <2>1, Zenon DEF FieldGiven
<1>1. f.name = x /\ f.kind = "repeated" /\ f.type = y
  BY <1>a
<1>2. b = With(a, f, v) /\ EmptyIn(a, f)
  <2>1. b = With(a, f, v) /\ a[x] = <<>> /\ x \in DOMAIN a
    BY <1>0 DEF NoBytes
  <2>2. a = [z \in DOMAIN a |-> a[z]]
    BY DEF Given
  <2> HIDE DEF a, b, v
  <2>3. [a EXCEPT ![x] = <<>>] = a
    <3> DEFINE c == [a EXCEPT ![x] = <<>>]
    <3>1. c = [z \in DOMAIN a |-> c[z]] /\ \A z \in DOMAIN a : c[z] = a[z]
      BY <2>1
    <3> HIDE DEF c
    <3>2. c = a
      BY <2>2, <3>1, Zenon
    <3> QED BY <3>2 DEF c
  <2> QED BY <1>1, <2>1, <2>3 DEF With, EmptyIn
<1>4. Encodes(t, b, m, W) /\ v \in Seq(Complete(y)) /\ \A j \in 1 .. Len(v) : SizeOf(y, v[j]) < Word
  BY DEF Gives
<1>5. DOMAIN s = 1 .. Len(v) /\ Len(s) = Len(v) /\ \A j \in 1 .. Len(v) : s[j] = WritesOf(y, v[j])
  OBVIOUS
<1> HIDE DEF a, b, v
<1>6. Encodes(t, a, m, W \o RepeatedField(tag, s)) /\ NoWrites \o RepeatedField(tag, s) = RepeatedField(tag, s)
  <2>1. f.type \in MessageTypes /\ v \in Seq(Complete(f.type)) /\ (\A j \in 1 .. Len(v) : SizeOf(f.type, v[j]) < Word)
        /\ (\A j \in 1 .. Len(v) : s[j] = WritesOf(f.type, v[j])) /\ Encodes(t, With(a, f, v), m, W)
    BY <1>1, <1>2, <1>4, <1>5
  <2>2. ListWritten(t, n, f, v, a, m, W, s, tag)
    BY <1>1, <1>2, <1>5, <2>1, <1>a, EncodesRepeated
  <2> QED BY <2>2 DEF ListWritten
<1> QED BY <1>6 DEF FieldWritten, Gives, a

\* The elements of a list are those of a larger set.
LEMMA ListOf ==
    ASSUME NEW A, NEW B, A \subseteq B, NEW s \in Seq(A)
    PROVE  s \in Seq(B) /\ \A j \in 1 .. Len(s) : s[j] \in A
<1>1. Len(s) \in Nat /\ s = [j \in 1 .. Len(s) |-> s[j]] /\ \A j \in 1 .. Len(s) : s[j] \in A
  OBVIOUS
<1>2. s \in [1 .. Len(s) -> B]
  BY <1>1
<1> QED BY <1>1, <1>2

\* Coin.Marshal, of a coin whose amount is a number that was set.
LEMMA CoinEncodes ==
    ASSUME NEW m \in Complete("Coin")
    PROVE  Encodes("Coin", Reset["Coin"], m, CoinMarshal(m))
<1> DEFINE t == "Coin"
           S0 == {"Denom", "Amount"}
           S1 == {"Denom"}
           S2 == {}
           V1 == BytesField(18, m.Amount)
           V2 == V1 \o BytesField(10, m.Denom)
<1>1. t \in MessageTypes
  BY DEF MessageTypes
<1>2. /\ FieldAt(t, 2, "Amount", "text")
      /\ FieldAt(t, 1, "Denom", "bytes")
  BY <1>1 DEF FieldAt, Schema, CoinUnmarshal, Bytes, Text
<1>3. /\ NoBytes(t, "Amount")
      /\ NoBytes(t, "Denom")
      /\ DOMAIN Reset[t] = S0 /\ Reset[t] = [x \in DOMAIN Reset[t] |-> Reset[t][x]]
  BY <1>1 DEF NoBytes, Reset, Coin
<1>4. m = [x \in DOMAIN m |-> m[x]] /\ DOMAIN m = S0
  BY DEF Complete, MessagesOf, Coins
<1>5. /\ m["Amount"] \in Slice /\ IntText(m["Amount"])
      /\ m["Denom"] \in Slice
  BY DEF Complete, MessagesOf, AmountsSet, Coins
<1>a. AmountText(m) = m.Amount
  BY <1>5 DEF AmountText, IntText
<1>6. /\ OneMore(S1, S0, "Amount")
      /\ OneMore(S2, S1, "Denom")
  BY DEF OneMore
<1>7. "Amount" \in S0 /\ "Denom" \in S0
  OBVIOUS
<1> HIDE DEF t, S0, S1, S2
<1>8. Gives(t, m, S0, NoWrites)
  BY <1>4, GivesAll
<1>9. FieldWritten(t, m, S1, NoWrites, BytesField(18, m.Amount))
  BY <1>1, <1>2, <1>3, <1>4, <1>5, <1>6, <1>7, <1>8, GivesBytes
<1>10. Gives(t, m, S1, V1)
  BY <1>9 DEF FieldWritten
<1> HIDE DEF V1
<1>11. FieldWritten(t, m, S2, V1, BytesField(10, m.Denom))
  BY <1>1, <1>2, <1>3, <1>4, <1>5, <1>6, <1>7, <1>10, GivesBytes
<1>12. Gives(t, m, S2, V2)
  BY <1>11 DEF FieldWritten
<1>13. Encodes(t, Reset[t], m, V2)
  BY <1>3, <1>4, <1>12, GivesNone DEF S2
<1> QED BY <1>a, <1>13 DEF CoinMarshal, t, V1, V2

\* ScheduledCall.Marshal
LEMMA ScheduledCallEncodes ==
    ASSUME NEW m \in Complete("ScheduledCall")
    PROVE  Encodes("ScheduledCall", Reset["ScheduledCall"], m, ScheduledCallMarshal(m))
<1> DEFINE t == "ScheduledCall"
           S0 == {"CallBody"}
           S1 == {}
           V1 == BytesField(10, m.CallBody)
<1>1. t \in MessageTypes
  BY DEF MessageTypes
<1>2. FieldAt(t, 1, "CallBody", "bytes")
  BY <1>1 DEF FieldAt, Schema, ScheduledCallUnmarshal, Bytes
<1>3. /\ NoBytes(t, "CallBody")
      /\ DOMAIN Reset[t] = S0 /\ Reset[t] = [x \in DOMAIN Reset[t] |-> Reset[t][x]]
  BY <1>1 DEF NoBytes, Reset, ScheduledCall
<1>4. m = [x \in DOMAIN m |-> m[x]] /\ DOMAIN m = S0
  BY DEF Complete, MessagesOf
<1>5. m["CallBody"] \in Slice
  BY DEF Complete, MessagesOf, AmountsSet
<1>6. OneMore(S1, S0, "CallBody")
  BY DEF OneMore
<1>7. "CallBody" \in S0
  OBVIOUS
<1> HIDE DEF t, S0, S1
<1>8. Gives(t, m, S0, NoWrites)
  BY <1>4, GivesAll
<1>9. FieldWritten(t, m, S1, NoWrites, BytesField(10, m.CallBody))
  BY <1>1, <1>2, <1>3, <1>4, <1>5, <1>6, <1>7, <1>8, GivesBytes
<1>10. Gives(t, m, S1, V1)
  BY <1>9 DEF FieldWritten
<1>11. Encodes(t, Reset[t], m, V1)
  BY <1>3, <1>4, <1>10, GivesNone DEF S1
<1> QED BY <1>11 DEF ScheduledCallMarshal, t, V1

\* Params.Marshal: the balance is always written, the bound if it is not 0.
LEMMA ParamsEncodes ==
    ASSUME NEW m \in Complete("Params")
    PROVE  Encodes("Params", Reset["Params"], m, ParamsMarshal(m))
<1> DEFINE t == "Params"
           S0 == {"MinimumBalance", "UpperBound"}
           S1 == {"MinimumBalance"}
           S2 == {}
           V1 == VarintField(16, m.UpperBound)
           V2 == V1 \o MessageField(10, CoinMarshal(m.MinimumBalance))
<1>1. t \in MessageTypes /\ "Coin" \in MessageTypes
  BY DEF MessageTypes
<1>2. /\ FieldAt(t, 2, "UpperBound", "varint")
      /\ FieldOf(t, 1, "MinimumBalance", "message", "Coin")
  BY <1>1 DEF FieldAt, FieldOf, Schema, ParamsUnmarshal, Message, Uint64
<1>3. /\ Reset[t]["UpperBound"] = 0
      /\ Reset[t]["MinimumBalance"] = Reset["Coin"]
      /\ DOMAIN Reset[t] = S0 /\ Reset[t] = [x \in DOMAIN Reset[t] |-> Reset[t][x]]
  BY <1>1 DEF Reset, Params, Coin
<1>4. m = [x \in DOMAIN m |-> m[x]] /\ DOMAIN m = S0
  BY DEF Complete, MessagesOf, ParamsType
<1>5. /\ m["UpperBound"] \in Uint64s
      /\ m["MinimumBalance"] \in Complete("Coin") /\ CoinSize(m["MinimumBalance"]) < Word
  BY DEF Complete, MessagesOf, AmountsSet, ParamsType, SizedCoins
<1>6. (\A x : WritesOf("Coin", x) = CoinMarshal(x) /\ SizeOf("Coin", x) = CoinSize(x))
  BY DEF WritesOf, SizeOf
<1>7. /\ OneMore(S1, S0, "UpperBound")
      /\ OneMore(S2, S1, "MinimumBalance")
  BY DEF OneMore
<1>8. "UpperBound" \in S0 /\ "MinimumBalance" \in S0
  OBVIOUS
<1> HIDE DEF t, S0, S1, S2
<1>9. Gives(t, m, S0, NoWrites)
  BY <1>4, GivesAll
<1>10. FieldWritten(t, m, S1, NoWrites, VarintField(16, m.UpperBound))
  BY <1>1, <1>2, <1>3, <1>4, <1>5, <1>7, <1>8, <1>9, GivesVarint
<1>11. Gives(t, m, S1, V1)
  BY <1>10 DEF FieldWritten
<1> HIDE DEF V1
<1>12. FieldWritten(t, m, S2, V1, MessageField(10, CoinMarshal(m.MinimumBalance)))
  <2>1. FieldWritten(t, m, S2, V1, MessageField(10, WritesOf("Coin", m.MinimumBalance)))
    BY <1>6, <1>1, <1>2, <1>3, <1>4, <1>5, <1>7, <1>8, <1>11, GivesMessage
  <2> QED BY <1>6, <2>1
<1>13. Gives(t, m, S2, V2)
  BY <1>12 DEF FieldWritten
<1>14. Encodes(t, Reset[t], m, V2)
  BY <1>3, <1>4, <1>13, GivesNone DEF S2
<1> QED BY <1>14 DEF ParamsMarshal, t, V1, V2

\* MsgAddSchedule.Marshal
LEMMA MsgAddScheduleEncodes ==
    ASSUME NEW m \in Complete("MsgAddSchedule")
    PROVE  Encodes("MsgAddSchedule", Reset["MsgAddSchedule"], m, MsgAddScheduleMarshal(m))
<1> DEFINE t == "MsgAddSchedule"
           S0 == {"Signer", "Contract", "CallBody", "BlockHeight"}
           S1 == {"Signer", "Contract", "CallBody"}
           S2 == {"Signer", "Contract"}
           S3 == {"Signer"}
           S4 == {}
           V1 == VarintField(40, m.BlockHeight)
           V2 == V1 \o BytesField(26, m.CallBody)
           V3 == V2 \o BytesField(18, m.Contract)
           V4 == V3 \o BytesField(10, m.Signer)
<1>1. t \in MessageTypes
  BY DEF MessageTypes
<1>2. /\ FieldAt(t, 5, "BlockHeight", "varint")
      /\ FieldAt(t, 3, "CallBody", "bytes")
      /\ FieldAt(t, 2, "Contract", "bytes")
      /\ FieldAt(t, 1, "Signer", "bytes")
  BY <1>1 DEF FieldAt, Schema, MsgAddScheduleUnmarshal, Bytes, Uint64
<1>3. /\ Reset[t]["BlockHeight"] = 0
      /\ NoBytes(t, "CallBody")
      /\ NoBytes(t, "Contract")
      /\ NoBytes(t, "Signer")
      /\ DOMAIN Reset[t] = S0 /\ Reset[t] = [x \in DOMAIN Reset[t] |-> Reset[t][x]]
  BY <1>1 DEF NoBytes, Reset, MsgAddSchedule
<1>4. m = [x \in DOMAIN m |-> m[x]] /\ DOMAIN m = S0
  BY DEF Complete, MessagesOf, Adds
<1>5. /\ m["BlockHeight"] \in Uint64s
      /\ m["CallBody"] \in Slice
      /\ m["Contract"] \in Slice
      /\ m["Signer"] \in Slice
  BY DEF Complete, MessagesOf, AmountsSet, Adds
<1>6. /\ OneMore(S1, S0, "BlockHeight")
      /\ OneMore(S2, S1, "CallBody")
      /\ OneMore(S3, S2, "Contract")
      /\ OneMore(S4, S3, "Signer")
  BY DEF OneMore
<1>7. "BlockHeight" \in S0 /\ "CallBody" \in S0 /\ "Contract" \in S0 /\ "Signer" \in S0
  OBVIOUS
<1> HIDE DEF t, S0, S1, S2, S3, S4
<1>8. Gives(t, m, S0, NoWrites)
  BY <1>4, GivesAll
<1>9. FieldWritten(t, m, S1, NoWrites, VarintField(40, m.BlockHeight))
  BY <1>1, <1>2, <1>3, <1>4, <1>5, <1>6, <1>7, <1>8, GivesVarint
<1>10. Gives(t, m, S1, V1)
  BY <1>9 DEF FieldWritten
<1> HIDE DEF V1
<1>11. FieldWritten(t, m, S2, V1, BytesField(26, m.CallBody))
  BY <1>1, <1>2, <1>3, <1>4, <1>5, <1>6, <1>7, <1>10, GivesBytes
<1>12. Gives(t, m, S2, V2)
  BY <1>11 DEF FieldWritten
<1> HIDE DEF V2
<1>13. FieldWritten(t, m, S3, V2, BytesField(18, m.Contract))
  BY <1>1, <1>2, <1>3, <1>4, <1>5, <1>6, <1>7, <1>12, GivesBytes
<1>14. Gives(t, m, S3, V3)
  BY <1>13 DEF FieldWritten
<1> HIDE DEF V3
<1>15. FieldWritten(t, m, S4, V3, BytesField(10, m.Signer))
  BY <1>1, <1>2, <1>3, <1>4, <1>5, <1>6, <1>7, <1>14, GivesBytes
<1>16. Gives(t, m, S4, V4)
  BY <1>15 DEF FieldWritten
<1>17. Encodes(t, Reset[t], m, V4)
  BY <1>3, <1>4, <1>16, GivesNone DEF S4
<1> QED BY <1>17 DEF MsgAddScheduleMarshal, t, V1, V2, V3, V4

\* MsgRemoveSchedule.Marshal
LEMMA MsgRemoveScheduleEncodes ==
    ASSUME NEW m \in Complete("MsgRemoveSchedule")
    PROVE  Encodes("MsgRemoveSchedule", Reset["MsgRemoveSchedule"], m, MsgRemoveScheduleMarshal(m))
<1> DEFINE t == "MsgRemoveSchedule"
           S0 == {"Signer", "Contract"}
           S1 == {"Signer"}
           S2 == {}
           V1 == BytesField(18, m.Contract)
           V2 == V1 \o BytesField(10, m.Signer)
<1>1. t \in MessageTypes
  BY DEF MessageTypes
<1>2. /\ FieldAt(t, 2, "Contract", "bytes")
      /\ FieldAt(t, 1, "Signer", "bytes")
  BY <1>1 DEF FieldAt, Schema, MsgRemoveScheduleUnmarshal, Bytes
<1>3. /\ NoBytes(t, "Contract")
      /\ NoBytes(t, "Signer")
      /\ DOMAIN Reset[t] = S0 /\ Reset[t] = [x \in DOMAIN Reset[t] |-> Reset[t][x]]
  BY <1>1 DEF NoBytes, Reset, MsgRemoveSchedule
<1>4. m = [x \in DOMAIN m |-> m[x]] /\ DOMAIN m = S0
  BY DEF Complete, MessagesOf
<1>5. /\ m["Contract"] \in Slice
      /\ m["Signer"] \in Slice
  BY DEF Complete, MessagesOf, AmountsSet
<1>6. /\ OneMore(S1, S0, "Contract")
      /\ OneMore(S2, S1, "Signer")
  BY DEF OneMore
<1>7. "Contract" \in S0 /\ "Signer" \in S0
  OBVIOUS
<1> HIDE DEF t, S0, S1, S2
<1>8. Gives(t, m, S0, NoWrites)
  BY <1>4, GivesAll
<1>9. FieldWritten(t, m, S1, NoWrites, BytesField(18, m.Contract))
  BY <1>1, <1>2, <1>3, <1>4, <1>5, <1>6, <1>7, <1>8, GivesBytes
<1>10. Gives(t, m, S1, V1)
  BY <1>9 DEF FieldWritten
<1> HIDE DEF V1
<1>11. FieldWritten(t, m, S2, V1, BytesField(10, m.Signer))
  BY <1>1, <1>2, <1>3, <1>4, <1>5, <1>6, <1>7, <1>10, GivesBytes
<1>12. Gives(t, m, S2, V2)
  BY <1>11 DEF FieldWritten
<1>13. Encodes(t, Reset[t], m, V2)
  BY <1>3, <1>4, <1>12, GivesNone DEF S2
<1> QED BY <1>13 DEF MsgRemoveScheduleMarshal, t, V1, V2

\* QueryParamsResponse.Marshal
LEMMA QueryParamsResponseEncodes ==
    ASSUME NEW m \in Complete("QueryParamsResponse")
    PROVE  Encodes("QueryParamsResponse", Reset["QueryParamsResponse"], m, QueryParamsResponseMarshal(m))
<1> DEFINE t == "QueryParamsResponse"
           S0 == {"Params"}
           S1 == {}
           V1 == MessageField(10, ParamsMarshal(m.Params))
<1>1. t \in MessageTypes /\ "Params" \in MessageTypes
  BY DEF MessageTypes
<1>2. FieldOf(t, 1, "Params", "message", "Params")
  BY <1>1 DEF FieldAt, FieldOf, Schema, QueryParamsResponseUnmarshal, Message
<1>3. /\ Reset[t]["Params"] = Reset["Params"]
      /\ DOMAIN Reset[t] = S0 /\ Reset[t] = [x \in DOMAIN Reset[t] |-> Reset[t][x]]
  BY <1>1 DEF Reset, QueryParamsResponse, Params
<1>4. m = [x \in DOMAIN m |-> m[x]] /\ DOMAIN m = S0
  BY DEF Complete, MessagesOf
<1>5. m["Params"] \in Complete("Params") /\ ParamsSize(m["Params"]) < Word
  BY DEF Complete, MessagesOf, AmountsSet, SizedParams, ParamsType
<1>6. (\A x : WritesOf("Params", x) = ParamsMarshal(x) /\ SizeOf("Params", x) = ParamsSize(x))
  BY DEF WritesOf, SizeOf
<1>7. OneMore(S1, S0, "Params")
  BY DEF OneMore
<1>8. "Params" \in S0
  OBVIOUS
<1> HIDE DEF t, S0, S1
<1>9. Gives(t, m, S0, NoWrites)
  BY <1>4, GivesAll
<1>10. FieldWritten(t, m, S1, NoWrites, MessageField(10, ParamsMarshal(m.Params)))
  <2>1. FieldWritten(t, m, S1, NoWrites, MessageField(10, WritesOf("Params", m.Params)))
    BY <1>6, <1>1, <1>2, <1>3, <1>4, <1>5, <1>7, <1>8, <1>9, GivesMessage
  <2> QED BY <1>6, <2>1
<1>11. Gives(t, m, S1, V1)
  BY <1>10 DEF FieldWritten
<1>12. Encodes(t, Reset[t], m, V1)
  BY <1>3, <1>4, <1>11, GivesNone DEF S1
<1> QED BY <1>12 DEF QueryParamsResponseMarshal, t, V1

\* QueryScheduledCall.Marshal
LEMMA QueryScheduledCallEncodes ==
    ASSUME NEW m \in Complete("QueryScheduledCall")
    PROVE  Encodes("QueryScheduledCall", Reset["QueryScheduledCall"], m, QueryScheduledCallMarshal(m))
<1> DEFINE t == "QueryScheduledCall"
           S0 == {"Contract", "CallBody", "Height", "Signer"}
           S1 == {"Contract", "CallBody", "Height"}
           S2 == {"Contract", "CallBody"}
           S3 == {"Contract"}
           S4 == {}
           V1 == BytesField(34, m.Signer)
           V2 == V1 \o VarintField(24, m.Height)
           V3 == V2 \o BytesField(18, m.CallBody)
           V4 == V3 \o BytesField(10, m.Contract)
<1>1. t \in MessageTypes
  BY DEF MessageTypes
<1>2. /\ FieldAt(t, 4, "Signer", "bytes")
      /\ FieldAt(t, 3, "Height", "varint")
      /\ FieldAt(t, 2, "CallBody", "bytes")
      /\ FieldAt(t, 1, "Contract", "bytes")
  BY <1>1 DEF FieldAt, Schema, QueryScheduledCallUnmarshal, Bytes, Uint64
<1>3. /\ NoBytes(t, "Signer")
      /\ Reset[t]["Height"] = 0
      /\ NoBytes(t, "CallBody")
      /\ NoBytes(t, "Contract")
      /\ DOMAIN Reset[t] = S0 /\ Reset[t] = [x \in DOMAIN Reset[t] |-> Reset[t][x]]
  BY <1>1 DEF NoBytes, Reset, QueryScheduledCall
<1>4. m = [x \in DOMAIN m |-> m[x]] /\ DOMAIN m = S0
  BY DEF Complete, MessagesOf, Calls
<1>5. /\ m["Signer"] \in Slice
      /\ m["Height"] \in Uint64s
      /\ m["CallBody"] \in Slice
      /\ m["Contract"] \in Slice
  BY DEF Complete, MessagesOf, AmountsSet, Calls
<1>6. /\ OneMore(S1, S0, "Signer")
      /\ OneMore(S2, S1, "Height")
      /\ OneMore(S3, S2, "CallBody")
      /\ OneMore(S4, S3, "Contract")
  BY DEF OneMore
<1>7. "Signer" \in S0 /\ "Height" \in S0 /\ "CallBody" \in S0 /\ "Contract" \in S0
  OBVIOUS
<1> HIDE DEF t, S0, S1, S2, S3, S4
<1>8. Gives(t, m, S0, NoWrites)
  BY <1>4, GivesAll
<1>9. FieldWritten(t, m, S1, NoWrites, BytesField(34, m.Signer))
  BY <1>1, <1>2, <1>3, <1>4, <1>5, <1>6, <1>7, <1>8, GivesBytes
<1>10. Gives(t, m, S1, V1)
  BY <1>9 DEF FieldWritten
<1> HIDE DEF V1
<1>11. FieldWritten(t, m, S2, V1, VarintField(24, m.Height))
  BY <1>1, <1>2, <1>3, <1>4, <1>5, <1>6, <1>7, <1>10, GivesVarint
<1>12. Gives(t, m, S2, V2)
  BY <1>11 DEF FieldWritten
<1> HIDE DEF V2
<1>13. FieldWritten(t, m, S3, V2, BytesField(18, m.CallBody))
  BY <1>1, <1>2, <1>3, <1>4, <1>5, <1>6, <1>7, <1>12, GivesBytes
<1>14. Gives(t, m, S3, V3)
  BY <1>13 DEF FieldWritten
<1> HIDE DEF V3
<1>15. FieldWritten(t, m, S4, V3, BytesField(10, m.Contract))
  BY <1>1, <1>2, <1>3, <1>4, <1>5, <1>6, <1>7, <1>14, GivesBytes
<1>16. Gives(t, m, S4, V4)
  BY <1>15 DEF FieldWritten
<1>17. Encodes(t, Reset[t], m, V4)
  BY <1>3, <1>4, <1>16, GivesNone DEF S4
<1> QED BY <1>17 DEF QueryScheduledCallMarshal, t, V1, V2, V3, V4

\* QueryScheduledCallsResponse.Marshal
LEMMA QueryScheduledCallsResponseEncodes ==
    ASSUME NEW m \in Complete("QueryScheduledCallsResponse")
    PROVE  Encodes("QueryScheduledCallsResponse", Reset["QueryScheduledCallsResponse"], m, QueryScheduledCallsResponseMarshal(m))
<1> DEFINE t == "QueryScheduledCallsResponse"
           S0 == {"Calls"}
           S1 == {}
           V1 == RepeatedField(10, [j \in DOMAIN m.Calls |-> QueryScheduledCallMarshal(m.Calls[j])])
<1>1. t \in MessageTypes /\ "QueryScheduledCall" \in MessageTypes
  BY DEF MessageTypes
<1>2. FieldOf(t, 1, "Calls", "repeated", "QueryScheduledCall")
  BY <1>1 DEF FieldAt, FieldOf, Schema, QueryScheduledCallsResponseUnmarshal, Repeated
<1>3. /\ NoBytes(t, "Calls")
      /\ DOMAIN Reset[t] = S0 /\ Reset[t] = [x \in DOMAIN Reset[t] |-> Reset[t][x]]
  BY <1>1 DEF NoBytes, Reset, QueryScheduledCallsResponse
<1>4. m = [x \in DOMAIN m |-> m[x]] /\ DOMAIN m = S0
  BY DEF Complete, MessagesOf
<1>5. m["Calls"] \in Seq(Complete("QueryScheduledCall")) /\ \A j \in 1 .. Len(m["Calls"]) : QueryScheduledCallSize(m["Calls"][j]) < Word
  <2>1. m["Calls"] \in Seq(SizedCalls)
    BY DEF Complete, MessagesOf
  <2>2. SizedCalls \subseteq Complete("QueryScheduledCall")
    BY DEF SizedCalls, Complete, MessagesOf, AmountsSet
  <2>3. \A c \in SizedCalls : QueryScheduledCallSize(c) < Word
    BY DEF SizedCalls
  <2> QED BY <2>1, <2>2, <2>3, ListOf
<1>6. (\A x : WritesOf("QueryScheduledCall", x) = QueryScheduledCallMarshal(x) /\ SizeOf("QueryScheduledCall", x) = QueryScheduledCallSize(x))
  BY DEF WritesOf, SizeOf
<1>7. OneMore(S1, S0, "Calls")
  BY DEF OneMore
<1>8. "Calls" \in S0
  OBVIOUS
<1> HIDE DEF t, S0, S1
<1>9. Gives(t, m, S0, NoWrites)
  BY <1>4, GivesAll
<1>10. FieldWritten(t, m, S1, NoWrites, RepeatedField(10, [j \in DOMAIN m.Calls |-> QueryScheduledCallMarshal(m.Calls[j])]))
  <2> DEFINE s == [j \in DOMAIN m.Calls |-> QueryScheduledCallMarshal(m.Calls[j])]
  <2>1. s = [j \in DOMAIN m["Calls"] |-> WritesOf("QueryScheduledCall", m["Calls"][j])]
    BY <1>6, Zenon
  <2> HIDE DEF s
  <2>2. FieldWritten(t, m, S1, NoWrites, RepeatedField(10, s))
    BY <1>6, <1>1, <1>2, <1>3, <1>4, <1>5, <1>7, <1>8, <1>9, <2>1, GivesRepeated
  <2> QED BY <2>2 DEF s
<1>11. Gives(t, m, S1, V1)
  BY <1>10 DEF FieldWritten
<1>12. Encodes(t, Reset[t], m, V1)
  BY <1>3, <1>4, <1>11, GivesNone DEF S1
<1> QED BY <1>12 DEF QueryScheduledCallsResponseMarshal, t, V1

\* AddScheduledCallEvent.Marshal
LEMMA AddScheduledCallEventEncodes ==
    ASSUME NEW m \in Complete("AddScheduledCallEvent")
    PROVE  Encodes("AddScheduledCallEvent", Reset["AddScheduledCallEvent"], m, AddScheduledCallEventMarshal(m))
<1> DEFINE t == "AddScheduledCallEvent"
           S0 == {"BlockHeight", "ScheduledHeight", "Signer", "Contract", "Balance", "CallBody"}
           S1 == {"BlockHeight", "ScheduledHeight", "Signer", "Contract", "Balance"}
           S2 == {"BlockHeight", "ScheduledHeight", "Signer", "Contract"}
           S3 == {"BlockHeight", "ScheduledHeight", "Signer"}
           S4 == {"BlockHeight", "ScheduledHeight"}
           S5 == {"BlockHeight"}
           S6 == {}
           V1 == BytesField(50, m.CallBody)
           V2 == V1 \o PointerField(42, m.Balance, CoinMarshal(m.Balance))
           V3 == V2 \o BytesField(34, m.Contract)
           V4 == V3 \o BytesField(26, m.Signer)
           V5 == V4 \o VarintField(16, m.ScheduledHeight)
           V6 == V5 \o VarintField(8, m.BlockHeight)
<1>1. t \in MessageTypes /\ "Coin" \in MessageTypes
  BY DEF MessageTypes
<1>2. /\ FieldAt(t, 6, "CallBody", "bytes")
      /\ FieldOf(t, 5, "Balance", "message", "Coin")
      /\ FieldAt(t, 4, "Contract", "bytes")
      /\ FieldAt(t, 3, "Signer", "bytes")
      /\ FieldAt(t, 2, "ScheduledHeight", "varint")
      /\ FieldAt(t, 1, "BlockHeight", "varint")
  BY <1>1 DEF FieldAt, FieldOf, Schema, AddScheduledCallEventUnmarshal, Bytes, Message, Uint64
<1>3. /\ NoBytes(t, "CallBody")
      /\ Reset[t]["Balance"] = Nil
      /\ NoBytes(t, "Contract")
      /\ NoBytes(t, "Signer")
      /\ Reset[t]["ScheduledHeight"] = 0
      /\ Reset[t]["BlockHeight"] = 0
      /\ DOMAIN Reset[t] = S0 /\ Reset[t] = [x \in DOMAIN Reset[t] |-> Reset[t][x]]
  BY <1>1 DEF NoBytes, Reset, AddScheduledCallEvent
<1>4. m = [x \in DOMAIN m |-> m[x]] /\ DOMAIN m = S0
  BY DEF Complete, MessagesOf, AddEvents
<1>5. /\ m["CallBody"] \in Slice
      /\ (m["Balance"] # Nil => m["Balance"] \in Complete("Coin") /\ CoinSize(m["Balance"]) < Word)
      /\ m["Contract"] \in Slice
      /\ m["Signer"] \in Slice
      /\ m["ScheduledHeight"] \in Uint64s
      /\ m["BlockHeight"] \in Uint64s
  BY DEF Complete, MessagesOf, AmountsSet, AddEvents, SizedCoins, CoinPointers
<1>6. (\A x : WritesOf("Coin", x) = CoinMarshal(x) /\ SizeOf("Coin", x) = CoinSize(x))
  BY DEF WritesOf, SizeOf
<1>7. /\ OneMore(S1, S0, "CallBody")
      /\ OneMore(S2, S1, "Balance")
      /\ OneMore(S3, S2, "Contract")
      /\ OneMore(S4, S3, "Signer")
      /\ OneMore(S5, S4, "ScheduledHeight")
      /\ OneMore(S6, S5, "BlockHeight")
  BY DEF OneMore
<1>8. "CallBody" \in S0 /\ "Balance" \in S0 /\ "Contract" \in S0 /\ "Signer" \in S0 /\ "ScheduledHeight" \in S0 /\ "BlockHeight" \in S0
  OBVIOUS
<1> HIDE DEF t, S0, S1, S2, S3, S4, S5, S6
<1>9. Gives(t, m, S0, NoWrites)
  BY <1>4, GivesAll
<1>10. FieldWritten(t, m, S1, NoWrites, BytesField(50, m.CallBody))
  BY <1>1, <1>2, <1>3, <1>4, <1>5, <1>7, <1>8, <1>9, GivesBytes
<1>11. Gives(t, m, S1, V1)
  BY <1>10 DEF FieldWritten
<1> HIDE DEF V1
<1>12. FieldWritten(t, m, S2, V1, PointerField(42, m.Balance, CoinMarshal(m.Balance)))
  <2>1. FieldWritten(t, m, S2, V1, PointerField(42, m.Balance, WritesOf("Coin", m.Balance)))
    BY <1>6, <1>1, <1>2, <1>3, <1>4, <1>5, <1>7, <1>8, <1>11, GivesPointer
  <2> QED BY <1>6, <2>1
<1>13. Gives(t, m, S2, V2)
  BY <1>12 DEF FieldWritten
<1> HIDE DEF V2
<1>14. FieldWritten(t, m, S3, V2, BytesField(34, m.Contract))
  BY <1>1, <1>2, <1>3, <1>4, <1>5, <1>7, <1>8, <1>13, GivesBytes
<1>15. Gives(t, m, S3, V3)
  BY <1>14 DEF FieldWritten
<1> HIDE DEF V3
<1>16. FieldWritten(t, m, S4, V3, BytesField(26, m.Signer))
  BY <1>1, <1>2, <1>3, <1>4, <1>5, <1>7, <1>8, <1>15, GivesBytes
<1>17. Gives(t, m, S4, V4)
  BY <1>16 DEF FieldWritten
<1> HIDE DEF V4
<1>18. FieldWritten(t, m, S5, V4, VarintField(16, m.ScheduledHeight))
  BY <1>1, <1>2, <1>3, <1>4, <1>5, <1>7, <1>8, <1>17, GivesVarint
<1>19. Gives(t, m, S5, V5)
  BY <1>18 DEF FieldWritten
<1> HIDE DEF V5
<1>20. FieldWritten(t, m, S6, V5, VarintField(8, m.BlockHeight))
  BY <1>1, <1>2, <1>3, <1>4, <1>5, <1>7, <1>8, <1>19, GivesVarint
<1>21. Gives(t, m, S6, V6)
  BY <1>20 DEF FieldWritten
<1>22. Encodes(t, Reset[t], m, V6)
  BY <1>3, <1>4, <1>21, GivesNone DEF S6
<1> QED BY <1>22 DEF AddScheduledCallEventMarshal, t, V1, V2, V3, V4, V5, V6

\* ExecuteScheduledCallEvent.Marshal
LEMMA ExecuteScheduledCallEventEncodes ==
    ASSUME NEW m \in Complete("ExecuteScheduledCallEvent")
    PROVE  Encodes("ExecuteScheduledCallEvent", Reset["ExecuteScheduledCallEvent"], m, ExecuteScheduledCallEventMarshal(m))
<1> DEFINE t == "ExecuteScheduledCallEvent"
           S0 == {"BlockHeight", "Gas", "Signer", "Contract", "BalanceBefore", "CallBody"}
           S1 == {"BlockHeight", "Gas", "Signer", "Contract", "BalanceBefore"}
           S2 == {"BlockHeight", "Gas", "Signer", "Contract"}
           S3 == {"BlockHeight", "Gas", "Signer"}
           S4 == {"BlockHeight", "Gas"}
           S5 == {"BlockHeight"}
           S6 == {}
           V1 == BytesField(50, m.CallBody)
           V2 == V1 \o PointerField(42, m.BalanceBefore, CoinMarshal(m.BalanceBefore))
           V3 == V2 \o BytesField(34, m.Contract)
           V4 == V3 \o BytesField(26, m.Signer)
           V5 == V4 \o PointerField(18, m.Gas, CoinMarshal(m.Gas))
           V6 == V5 \o VarintField(8, m.BlockHeight)
<1>1. t \in MessageTypes /\ "Coin" \in MessageTypes
  BY DEF MessageTypes
<1>2. /\ FieldAt(t, 6, "CallBody", "bytes")
      /\ FieldOf(t, 5, "BalanceBefore", "message", "Coin")
      /\ FieldAt(t, 4, "Contract", "bytes")
      /\ FieldAt(t, 3, "Signer", "bytes")
      /\ FieldOf(t, 2, "Gas", "message", "Coin")
      /\ FieldAt(t, 1, "BlockHeight", "varint")
  BY <1>1 DEF FieldAt, FieldOf, Schema, ExecuteScheduledCallEventUnmarshal, Bytes, Message, Uint64
<1>3. /\ NoBytes(t, "CallBody")
      /\ Reset[t]["BalanceBefore"] = Nil
      /\ NoBytes(t, "Contract")
      /\ NoBytes(t, "Signer")
      /\ Reset[t]["Gas"] = Nil
      /\ Reset[t]["BlockHeight"] = 0
      /\ DOMAIN Reset[t] = S0 /\ Reset[t] = [x \in DOMAIN Reset[t] |-> Reset[t][x]]
  BY <1>1 DEF NoBytes, Reset, ExecuteScheduledCallEvent
<1>4. m = [x \in DOMAIN m |-> m[x]] /\ DOMAIN m = S0
  BY DEF Complete, MessagesOf, ExecuteEvents
<1>5. /\ m["CallBody"] \in Slice
      /\ (m["BalanceBefore"] # Nil => m["BalanceBefore"] \in Complete("Coin") /\ CoinSize(m["BalanceBefore"]) < Word)
      /\ m["Contract"] \in Slice
      /\ m["Signer"] \in Slice
      /\ (m["Gas"] # Nil => m["Gas"] \in Complete("Coin") /\ CoinSize(m["Gas"]) < Word)
      /\ m["BlockHeight"] \in Uint64s
  BY DEF Complete, MessagesOf, AmountsSet, ExecuteEvents, SizedCoins, CoinPointers
<1>6. (\A x : WritesOf("Coin", x) = CoinMarshal(x) /\ SizeOf("Coin", x) = CoinSize(x))
  BY DEF WritesOf, SizeOf
<1>7. /\ OneMore(S1, S0, "CallBody")
      /\ OneMore(S2, S1, "BalanceBefore")
      /\ OneMore(S3, S2, "Contract")
      /\ OneMore(S4, S3, "Signer")
      /\ OneMore(S5, S4, "Gas")
      /\ OneMore(S6, S5, "BlockHeight")
  BY DEF OneMore
<1>8. "CallBody" \in S0 /\ "BalanceBefore" \in S0 /\ "Contract" \in S0 /\ "Signer" \in S0 /\ "Gas" \in S0 /\ "BlockHeight" \in S0
  OBVIOUS
<1> HIDE DEF t, S0, S1, S2, S3, S4, S5, S6
<1>9. Gives(t, m, S0, NoWrites)
  BY <1>4, GivesAll
<1>10. FieldWritten(t, m, S1, NoWrites, BytesField(50, m.CallBody))
  BY <1>1, <1>2, <1>3, <1>4, <1>5, <1>7, <1>8, <1>9, GivesBytes
<1>11. Gives(t, m, S1, V1)
  BY <1>10 DEF FieldWritten
<1> HIDE DEF V1
<1>12. FieldWritten(t, m, S2, V1, PointerField(42, m.BalanceBefore, CoinMarshal(m.BalanceBefore)))
  <2>1. FieldWritten(t, m, S2, V1, PointerField(42, m.BalanceBefore, WritesOf("Coin", m.BalanceBefore)))
    BY <1>6, <1>1, <1>2, <1>3, <1>4, <1>5, <1>7, <1>8, <1>11, GivesPointer
  <2> QED BY <1>6, <2>1
<1>13. Gives(t, m, S2, V2)
  BY <1>12 DEF FieldWritten
<1> HIDE DEF V2
<1>14. FieldWritten(t, m, S3, V2, BytesField(34, m.Contract))
  BY <1>1, <1>2, <1>3, <1>4, <1>5, <1>7, <1>8, <1>13, GivesBytes
<1>15. Gives(t, m, S3, V3)
  BY <1>14 DEF FieldWritten
<1> HIDE DEF V3
<1>16. FieldWritten(t, m, S4, V3, BytesField(26, m.Signer))
  BY <1>1, <1>2, <1>3, <1>4, <1>5, <1>7, <1>8, <1>15, GivesBytes
<1>17. Gives(t, m, S4, V4)
  BY <1>16 DEF FieldWritten
<1> HIDE DEF V4
<1>18. FieldWritten(t, m, S5, V4, PointerField(18, m.Gas, CoinMarshal(m.Gas)))
  <2>1. FieldWritten(t, m, S5, V4, PointerField(18, m.Gas, WritesOf("Coin", m.Gas)))
    BY <1>6, <1>1, <1>2, <1>3, <1>4, <1>5, <1>7, <1>8, <1>17, GivesPointer
  <2> QED BY <1>6, <2>1
<1>19. Gives(t, m, S5, V5)
  BY <1>18 DEF FieldWritten
<1> HIDE DEF V5
<1>20. FieldWritten(t, m, S6, V5, VarintField(8, m.BlockHeight))
  BY <1>1, <1>2, <1>3, <1>4, <1>5, <1>7, <1>8, <1>19, GivesVarint
<1>21. Gives(t, m, S6, V6)
  BY <1>20 DEF FieldWritten
<1>22. Encodes(t, Reset[t], m, V6)
  BY <1>3, <1>4, <1>21, GivesNone DEF S6
<1> QED BY <1>22 DEF ExecuteScheduledCallEventMarshal, t, V1, V2, V3, V4, V5, V6

\* RemoveScheduledCallEvent.Marshal
LEMMA RemoveScheduledCallEventEncodes ==
    ASSUME NEW m \in Complete("RemoveScheduledCallEvent")
    PROVE  Encodes("RemoveScheduledCallEvent", Reset["RemoveScheduledCallEvent"], m, RemoveScheduledCallEventMarshal(m))
<1> DEFINE t == "RemoveScheduledCallEvent"
           S0 == {"BlockHeight", "Signer", "Contract", "Balance", "CallBody"}
           S1 == {"BlockHeight", "Signer", "Contract", "Balance"}
           S2 == {"BlockHeight", "Signer", "Contract"}
           S3 == {"BlockHeight", "Signer"}
           S4 == {"BlockHeight"}
           S5 == {}
           V1 == BytesField(50, m.CallBody)
           V2 == V1 \o PointerField(42, m.Balance, CoinMarshal(m.Balance))
           V3 == V2 \o BytesField(34, m.Contract)
           V4 == V3 \o BytesField(26, m.Signer)
           V5 == V4 \o VarintField(8, m.BlockHeight)
<1>1. t \in MessageTypes /\ "Coin" \in MessageTypes
  BY DEF MessageTypes
<1>2. /\ FieldAt(t, 6, "CallBody", "bytes")
      /\ FieldOf(t, 5, "Balance", "message", "Coin")
      /\ FieldAt(t, 4, "Contract", "bytes")
      /\ FieldAt(t, 3, "Signer", "bytes")
      /\ FieldAt(t, 1, "BlockHeight", "varint")
  BY <1>1 DEF FieldAt, FieldOf, Schema, RemoveScheduledCallEventUnmarshal, Bytes, Message, Uint64
<1>3. /\ NoBytes(t, "CallBody")
      /\ Reset[t]["Balance"] = Nil
      /\ NoBytes(t, "Contract")
      /\ NoBytes(t, "Signer")
      /\ Reset[t]["BlockHeight"] = 0
      /\ DOMAIN Reset[t] = S0 /\ Reset[t] = [x \in DOMAIN Reset[t] |-> Reset[t][x]]
  BY <1>1 DEF NoBytes, Reset, RemoveScheduledCallEvent
<1>4. m = [x \in DOMAIN m |-> m[x]] /\ DOMAIN m = S0
  BY DEF Complete, MessagesOf, RemoveEvents
<1>5. /\ m["CallBody"] \in Slice
      /\ (m["Balance"] # Nil => m["Balance"] \in Complete("Coin") /\ CoinSize(m["Balance"]) < Word)
      /\ m["Contract"] \in Slice
      /\ m["Signer"] \in Slice
      /\ m["BlockHeight"] \in Uint64s
  BY DEF Complete, MessagesOf, AmountsSet, RemoveEvents, SizedCoins, CoinPointers
<1>6. (\A x : WritesOf("Coin", x) = CoinMarshal(x) /\ SizeOf("Coin", x) = CoinSize(x))
  BY DEF WritesOf, SizeOf
<1>7. /\ OneMore(S1, S0, "CallBody")
      /\ OneMore(S2, S1, "Balance")
      /\ OneMore(S3, S2, "Contract")
      /\ OneMore(S4, S3, "Signer")
      /\ OneMore(S5, S4, "BlockHeight")
  BY DEF OneMore
<1>8. "CallBody" \in S0 /\ "Balance" \in S0 /\ "Contract" \in S0 /\ "Signer" \in S0 /\ "BlockHeight" \in S0
  OBVIOUS
<1> HIDE DEF t, S0, S1, S2, S3, S4, S5
<1>9. Gives(t, m, S0, NoWrites)
  BY <1>4, GivesAll
<1>10. FieldWritten(t, m, S1, NoWrites, BytesField(50, m.CallBody))
  BY <1>1, <1>2, <1>3, <1>4, <1>5, <1>7, <1>8, <1>9, GivesBytes
<1>11. Gives(t, m, S1, V1)
  BY <1>10 DEF FieldWritten
<1> HIDE DEF V1
<1>12. FieldWritten(t, m, S2, V1, PointerField(42, m.Balance, CoinMarshal(m.Balance)))
  <2>1. FieldWritten(t, m, S2, V1, PointerField(42, m.Balance, WritesOf("Coin", m.Balance)))
    BY <1>6, <1>1, <1>2, <1>3, <1>4, <1>5, <1>7, <1>8, <1>11, GivesPointer
  <2> QED BY <1>6, <2>1
<1>13. Gives(t, m, S2, V2)
  BY <1>12 DEF FieldWritten
<1> HIDE DEF V2
<1>14. FieldWritten(t, m, S3, V2, BytesField(34, m.Contract))
  BY <1>1, <1>2, <1>3, <1>4, <1>5, <1>7, <1>8, <1>13, GivesBytes
<1>15. Gives(t, m, S3, V3)
  BY <1>14 DEF FieldWritten
<1> HIDE DEF V3
<1>16. FieldWritten(t, m, S4, V3, BytesField(26, m.Signer))
  BY <1>1, <1>2, <1>3, <1>4, <1>5, <1>7, <1>8, <1>15, GivesBytes
<1>17. Gives(t, m, S4, V4)
  BY <1>16 DEF FieldWritten
<1> HIDE DEF V4
<1>18. FieldWritten(t, m, S5, V4, VarintField(8, m.BlockHeight))
  BY <1>1, <1>2, <1>3, <1>4, <1>5, <1>7, <1>8, <1>17, GivesVarint
<1>19. Gives(t, m, S5, V5)
  BY <1>18 DEF FieldWritten
<1>20. Encodes(t, Reset[t], m, V5)
  BY <1>3, <1>4, <1>19, GivesNone DEF S5
<1> QED BY <1>20 DEF RemoveScheduledCallEventMarshal, t, V1, V2, V3, V4, V5

\* GenesisState.Marshal
LEMMA GenesisStateEncodes ==
    ASSUME NEW m \in Complete("GenesisState")
    PROVE  Encodes("GenesisState", Reset["GenesisState"], m, GenesisStateMarshal(m))
<1> DEFINE t == "GenesisState"
           S0 == {"Params", "ScheduledCalls"}
           S1 == {"Params"}
           S2 == {}
           V1 == RepeatedField(18, [j \in DOMAIN m.ScheduledCalls |-> MsgAddScheduleMarshal(m.ScheduledCalls[j])])
           V2 == V1 \o MessageField(10, ParamsMarshal(m.Params))
<1>1. t \in MessageTypes /\ "MsgAddSchedule" \in MessageTypes /\ "Params" \in MessageTypes
  BY DEF MessageTypes
<1>2. /\ FieldOf(t, 2, "ScheduledCalls", "repeated", "MsgAddSchedule")
      /\ FieldOf(t, 1, "Params", "message", "Params")
  BY <1>1 DEF FieldAt, FieldOf, Schema, GenesisStateUnmarshal, Message, Repeated
<1>3. /\ NoBytes(t, "ScheduledCalls")
      /\ Reset[t]["Params"] = Reset["Params"]
      /\ DOMAIN Reset[t] = S0 /\ Reset[t] = [x \in DOMAIN Reset[t] |-> Reset[t][x]]
  BY <1>1 DEF NoBytes, Reset, GenesisState, Params
<1>4. m = [x \in DOMAIN m |-> m[x]] /\ DOMAIN m = S0
  BY DEF Complete, MessagesOf
<1>5. /\ m["ScheduledCalls"] \in Seq(Complete("MsgAddSchedule")) /\ \A j \in 1 .. Len(m["ScheduledCalls"]) : MsgAddScheduleSize(m["ScheduledCalls"][j]) < Word
      /\ m["Params"] \in Complete("Params") /\ ParamsSize(m["Params"]) < Word
  <2>1. m["ScheduledCalls"] \in Seq(SizedAdds)
    BY DEF Complete, MessagesOf
  <2>2. SizedAdds \subseteq Complete("MsgAddSchedule")
    BY DEF SizedAdds, Complete, MessagesOf, AmountsSet
  <2>3. \A c \in SizedAdds : MsgAddScheduleSize(c) < Word
    BY DEF SizedAdds
  <2>4. /\ m["ScheduledCalls"] \in Seq(Complete("MsgAddSchedule"))
        /\ \A j \in 1 .. Len(m["ScheduledCalls"]) : MsgAddScheduleSize(m["ScheduledCalls"][j]) < Word
    BY <2>1, <2>2, <2>3, ListOf
  <2>5. m["Params"] \in Complete("Params") /\ ParamsSize(m["Params"]) < Word
    BY DEF Complete, MessagesOf, AmountsSet, SizedParams, ParamsType
  <2> QED BY <2>4, <2>5
<1>6. /\ (\A x : WritesOf("MsgAddSchedule", x) = MsgAddScheduleMarshal(x) /\ SizeOf("MsgAddSchedule", x) = MsgAddScheduleSize(x))
      /\ (\A x : WritesOf("Params", x) = ParamsMarshal(x) /\ SizeOf("Params", x) = ParamsSize(x))
  BY DEF WritesOf, SizeOf
<1>7. /\ OneMore(S1, S0, "ScheduledCalls")
      /\ OneMore(S2, S1, "Params")
  BY DEF OneMore
<1>8. "ScheduledCalls" \in S0 /\ "Params" \in S0
  OBVIOUS
<1> HIDE DEF t, S0, S1, S2
<1>9. Gives(t, m, S0, NoWrites)
  BY <1>4, GivesAll
<1>10. FieldWritten(t, m, S1, NoWrites, RepeatedField(18, [j \in DOMAIN m.ScheduledCalls |-> MsgAddScheduleMarshal(m.ScheduledCalls[j])]))
  <2> DEFINE s == [j \in DOMAIN m.ScheduledCalls |-> MsgAddScheduleMarshal(m.ScheduledCalls[j])]
  <2>1. s = [j \in DOMAIN m["ScheduledCalls"] |-> WritesOf("MsgAddSchedule", m["ScheduledCalls"][j])]
    BY <1>6, Zenon
  <2> HIDE DEF s
  <2>2. FieldWritten(t, m, S1, NoWrites, RepeatedField(18, s))
    BY <1>6, <1>1, <1>2, <1>3, <1>4, <1>5, <1>7, <1>8, <1>9, <2>1, GivesRepeated
  <2> QED BY <2>2 DEF s
<1>11. Gives(t, m, S1, V1)
  BY <1>10 DEF FieldWritten
<1> HIDE DEF V1
<1>12. FieldWritten(t, m, S2, V1, MessageField(10, ParamsMarshal(m.Params)))
  <2>1. FieldWritten(t, m, S2, V1, MessageField(10, WritesOf("Params", m.Params)))
    BY <1>6, <1>1, <1>2, <1>3, <1>4, <1>5, <1>7, <1>8, <1>11, GivesMessage
  <2> QED BY <1>6, <2>1
<1>13. Gives(t, m, S2, V2)
  BY <1>12 DEF FieldWritten
<1>14. Encodes(t, Reset[t], m, V2)
  BY <1>3, <1>4, <1>13, GivesNone DEF S2
<1> QED BY <1>14 DEF GenesisStateMarshal, t, V1, V2

\* The messages without a field.
LEMMA NoneEncodes ==
    ASSUME NEW t \in {"MsgAddScheduleResponse", "MsgRemoveScheduleResponse", "QueryParamsRequest",
                      "QueryScheduledCallsRequest"},
           NEW m \in Complete(t)
    PROVE  Encodes(t, Reset[t], m, WritesOf(t, m))
<1>1. WritesOf(t, m) = NoWrites
  BY DEF WritesOf, NoWrites, MsgAddScheduleResponseMarshal, MsgRemoveScheduleResponseMarshal,
         QueryParamsRequestMarshal, QueryScheduledCallsRequestMarshal
<1>2. m = None
  BY DEF Complete, MessagesOf
<1>3. Reset[t] = None
  BY DEF Reset, MessageTypes, MsgAddScheduleResponse, MsgRemoveScheduleResponse, QueryParamsRequest,
         QueryScheduledCallsRequest
<1> QED BY <1>1, <1>2, <1>3, EncodesStart

\* Marshal of any type.
LEMMA EveryMessageEncodes ==
    ASSUME NEW t \in MessageTypes, NEW m \in Complete(t)
    PROVE  Encodes(t, Reset[t], m, WritesOf(t, m))
<1>1. CASE t = "Coin"
  BY <1>1, CoinEncodes DEF WritesOf
<1>2. CASE t = "ScheduledCall"
  BY <1>2, ScheduledCallEncodes DEF WritesOf
<1>3. CASE t = "Params"
  BY <1>3, ParamsEncodes DEF WritesOf
<1>4. CASE t = "MsgAddSchedule"
  BY <1>4, MsgAddScheduleEncodes DEF WritesOf
<1>5. CASE t = "MsgRemoveSchedule"
  BY <1>5, MsgRemoveScheduleEncodes DEF WritesOf
<1>6. CASE t = "QueryParamsResponse"
  BY <1>6, QueryParamsResponseEncodes DEF WritesOf
<1>7. CASE t = "QueryScheduledCall"
  BY <1>7, QueryScheduledCallEncodes DEF WritesOf
<1>8. CASE t = "QueryScheduledCallsResponse"
  BY <1>8, QueryScheduledCallsResponseEncodes DEF WritesOf
<1>9. CASE t = "AddScheduledCallEvent"
  BY <1>9, AddScheduledCallEventEncodes DEF WritesOf
<1>10. CASE t = "ExecuteScheduledCallEvent"
  BY <1>10, ExecuteScheduledCallEventEncodes DEF WritesOf
<1>11. CASE t = "RemoveScheduledCallEvent"
  BY <1>11, RemoveScheduledCallEventEncodes DEF WritesOf
<1>12. CASE t = "GenesisState"
  BY <1>12, GenesisStateEncodes DEF WritesOf
<1>13. CASE t \in {"MsgAddScheduleResponse", "MsgRemoveScheduleResponse", "QueryParamsRequest",
                   "QueryScheduledCallsRequest"}
  BY <1>13, NoneEncodes
<1> QED BY <1>1, <1>2, <1>3, <1>4, <1>5, <1>6, <1>7, <1>8, <1>9, <1>10, <1>11, <1>12, <1>13 DEF MessageTypes

\* The bytes that writes put are the only ones.
LEMMA PutsOne ==
    ASSUME NEW W, NEW n, NEW s, Puts(W, n, s), NEW k, NEW u, Puts(W, k, u)
    PROVE  s = u
<1>1. n = k
  BY DEF Puts, Takes
<1>2. MarshalToSizedBuffer(n, W).dAtA = s
  BY BufferHolds
<1>3. MarshalToSizedBuffer(k, W).dAtA = u
  BY BufferHolds
<1> QED BY <1>1, <1>2, <1>3

\* The bytes that Marshal returns are those of the message's fields, one after
\* the other: read into a message that Reset has cleared, they make the message.
THEOREM MarshalledReads ==
    \A t \in MessageTypes : \A m \in Complete(t) : Reads(t, Reset[t], m, Marshalled(t, m))
<1> SUFFICES ASSUME NEW t \in MessageTypes, NEW m \in Complete(t)
             PROVE  Reads(t, Reset[t], m, Marshalled(t, m))
  OBVIOUS
<1>1. Encodes(t, Reset[t], m, WritesOf(t, m))
  BY EveryMessageEncodes
<1>2. PICK n, s : Puts(WritesOf(t, m), n, s) /\ Reads(t, Reset[t], m, s)
  BY <1>1 DEF Encodes
<1>3. Puts(WritesOf(t, m), SizeOf(t, m), Marshalled(t, m))
  BY MarshalledIs DEF Complete
<1>4. s = Marshalled(t, m)
  BY <1>2, <1>3, PutsOne
<1> QED BY <1>2, <1>4

----------------------------------------------------------------------------
(* The decoder takes the bytes apart: a slice of the input.                *)

\* The bytes of d behind the first i, up to the first j.
Segment(d, i, j) == SubSeq(d, i + 1, j)

\* The bytes of a segment one by one.
LEMMA SegmentIs ==
    ASSUME NEW d \in Seq(Byte), NEW i \in Nat, NEW j \in Nat, i <= j, j <= Len(d)
    PROVE  /\ Segment(d, i, j) \in Seq(Byte) /\ Len(Segment(d, i, j)) = j - i
           /\ \A k \in 1 .. j - i : Segment(d, i, j)[k] = d[i + k]
<1> DEFINE s == SubSeq(d, i + 1, j)
           l == j - i
<1>1. l \in Nat /\ j = i + l /\ i + l <= Len(d) /\ Len(d) \in Nat
  OBVIOUS
<1> HIDE DEF l
<1>2. s = SubSeq(d, i + 1, i + l)
  BY <1>1
<1>3. s \in Seq(Byte) /\ Len(s) = l
  BY <1>1, <1>2
<1>4. \A k \in 1 .. l : s[k] = d[i + k]
  <2> TAKE k \in 1 .. l
  <2>1. (i + 1) + k - 1 = i + k
    BY <1>1
  <2> QED BY <1>1, <1>2, <2>1
<1> QED BY <1>3, <1>4 DEF Segment, l

\* Three strings one after the other.
LEMMA JoinThree ==
    ASSUME NEW x \in Seq(Byte), NEW y \in Seq(Byte), NEW z \in Seq(Byte)
    PROVE  (x \o y) \o z = x \o (y \o z)
BY JoinBytes

\* A string is the segment that has its length and its bytes.
LEMMA SegmentOf ==
    ASSUME NEW d \in Seq(Byte), NEW i \in Nat, NEW j \in Nat, i <= j, j <= Len(d),
           NEW s \in Seq(Byte), Len(s) = j - i, \A k \in 1 .. j - i : s[k] = d[i + k]
    PROVE  s = Segment(d, i, j)
<1> DEFINE u == Segment(d, i, j)
<1>1. /\ u \in Seq(Byte) /\ Len(u) = j - i /\ \A k \in 1 .. j - i : u[k] = d[i + k]
  BY SegmentIs
<1> HIDE DEF u
<1>2. s = u
  BY <1>1
<1> QED BY <1>2 DEF u

\* A segment in two parts.
SplitAt(d, i, j, p, u) ==
    /\ i + Len(p) \in Nat /\ i + Len(p) <= j
    /\ p = Segment(d, i, i + Len(p)) /\ u = Segment(d, i + Len(p), j)

\* The two parts of a segment are segments.
LEMMA SegmentSplit ==
    ASSUME NEW d \in Seq(Byte), NEW i \in Nat, NEW j \in Nat, i <= j, j <= Len(d),
           NEW p \in Seq(Byte), NEW u \in Seq(Byte), Segment(d, i, j) = p \o u
    PROVE  SplitAt(d, i, j, p, u)
<1> DEFINE s == p \o u
           n == Len(p)
<1>1. /\ s \in Seq(Byte) /\ Len(s) = n + Len(u)
      /\ \A k \in 1 .. n : s[k] = p[k]
      /\ \A k \in 1 .. Len(u) : s[n + k] = u[k]
  BY JoinBytes
<1>2. Len(s) = j - i /\ \A k \in 1 .. j - i : s[k] = d[i + k]
  <2>1. s = Segment(d, i, j)
    OBVIOUS
  <2> HIDE DEF s
  <2> QED BY <2>1, SegmentIs
<1>3. n \in Nat /\ Len(u) \in Nat /\ Len(d) \in Nat
  OBVIOUS
<1> HIDE DEF s, n
<1>4. n + Len(u) = j - i
  BY <1>1, <1>2
<1>5. i + n \in Nat /\ i + n <= j /\ i <= i + n /\ i + n <= Len(d)
  BY <1>3, <1>4
<1>6. p = Segment(d, i, i + n)
  <2>1. Len(p) = (i + n) - i
    BY <1>3 DEF n
  <2>2. \A k \in 1 .. (i + n) - i : p[k] = d[i + k]
    <3> TAKE k \in 1 .. (i + n) - i
    <3>1. k \in 1 .. n /\ k \in 1 .. j - i
      BY <1>3, <1>5
    <3> QED BY <1>1, <1>2, <3>1
  <2> QED BY <1>5, <2>1, <2>2, SegmentOf
<1>7. u = Segment(d, i + n, j)
  <2>1. Len(u) = j - (i + n)
    BY <1>3, <1>4
  <2>2. \A k \in 1 .. j - (i + n) : u[k] = d[(i + n) + k]
    <3> TAKE k \in 1 .. j - (i + n)
    <3>1. k \in 1 .. Len(u) /\ n + k \in 1 .. j - i /\ i + (n + k) = (i + n) + k
      BY <1>3, <1>4, <2>1
    <3>2. s[n + k] = u[k] /\ s[n + k] = d[i + (n + k)]
      BY <1>1, <1>2, <3>1
    <3> QED BY <3>1, <3>2
  <2> QED BY <1>5, <2>1, <2>2, SegmentOf
<1> QED BY <1>5, <1>6, <1>7 DEF n, SplitAt

\* A segment that begins with the byte b.
FirstOf(d, i, j, b, u) == i < j /\ d[i + 1] = b /\ u = Segment(d, i + 1, j)

\* The first byte of a segment.
LEMMA SegmentFirst ==
    ASSUME NEW d \in Seq(Byte), NEW i \in Nat, NEW j \in Nat, i <= j, j <= Len(d),
           NEW b \in Byte, NEW u \in Seq(Byte), Segment(d, i, j) = <<b>> \o u
    PROVE  FirstOf(d, i, j, b, u)
<1> DEFINE p == <<b>>
<1>1. p \in Seq(Byte) /\ Len(p) = 1 /\ p[1] = b
  OBVIOUS
<1>2. Segment(d, i, j) = p \o u
  OBVIOUS
<1> HIDE DEF p
<1>3. i + 1 <= j /\ p = Segment(d, i, i + 1) /\ u = Segment(d, i + 1, j)
  <2>1. SplitAt(d, i, j, p, u)
    BY <1>1, <1>2, SegmentSplit
  <2> QED BY <1>1, <2>1 DEF SplitAt
<1>4. Segment(d, i, i + 1)[1] = d[i + 1]
  <2>1. i + 1 \in Nat /\ i <= i + 1 /\ i + 1 <= Len(d) /\ 1 \in 1 .. (i + 1) - i
    BY <1>3
  <2> QED BY <2>1, SegmentIs
<1> QED BY <1>1, <1>3, <1>4 DEF FirstOf

\* Nothing is left of a segment, or something.
LEMMA SegmentEmpty ==
    ASSUME NEW d \in Seq(Byte), NEW i \in Nat, NEW j \in Nat, i <= j, j <= Len(d)
    PROVE  Segment(d, i, j) = <<>> <=> i = j
<1>1. Segment(d, i, j) \in Seq(Byte) /\ Len(Segment(d, i, j)) = j - i
  BY SegmentIs
<1> DEFINE s == Segment(d, i, j)
<1> HIDE DEF s
<1>2. s \in Seq(Byte) /\ Len(s) = j - i
  BY <1>1 DEF s
<1>3. s = <<>> <=> i = j
  BY <1>2
<1> QED BY <1>3 DEF s

\* A string is its only segment from the first byte to the last.
LEMMA SegmentWhole ==
    ASSUME NEW d \in Seq(Byte)
    PROVE  Segment(d, 0, Len(d)) = d
<1>1. Len(d) = Len(d) - 0 /\ \A k \in 1 .. Len(d) - 0 : d[k] = d[0 + k]
  OBVIOUS
<1> QED BY <1>1, SegmentOf

----------------------------------------------------------------------------
(* The varint loop.                                                        *)

\* The varint r has been read in part, or as a whole if there is no more of it:
\* the bytes ahead are what is left of the number x, then s.
VarintAt(r, ahead, x, s) ==
    /\ x \in Uint64s /\ s \in Seq(Byte)
    /\ \/ ~r.more /\ r.v = x /\ ahead = s
       \/ /\ r.more /\ r.shift \in Nat /\ r.shift < WordBits /\ r.v \in Nat
          /\ \E y \in Uint64s : x = r.v + 2 ^ r.shift * y /\ ahead = Varint(y) \o s

\* The loop begins.
LEMMA VarintStarts ==
    ASSUME NEW x \in Uint64s, NEW s \in Seq(Byte)
    PROVE  VarintAt(NewVarint, Varint(x) \o s, x, s)
<1>1. NewVarint.more /\ NewVarint.shift = 0 /\ NewVarint.v = 0
  BY DEF NewVarint
<1>2. 0 < WordBits /\ x \in Nat
  BY WordFacts DEF Uint64s
<1>3. x = 0 + 2 ^ 0 * x
  BY <1>2, WireAssumption
<1> QED BY <1>1, <1>2, <1>3 DEF VarintAt

\* A number below w is its own remainder.
LEMMA ModSmall ==
    ASSUME NEW h \in Nat, NEW w \in Nat, h < w
    PROVE  h % w = h
OBVIOUS

\* The number that is read grows by seven bits.
LEMMA MoreBits ==
    ASSUME NEW P \in Nat, NEW Q \in Nat, Q = 128 * P, NEW y \in Nat
    PROVE  P * y = P * (y % 128) + Q * (y \div 128)
<1> DEFINE q == y \div 128
           m == y % 128
<1>1. y = 128 * q + m /\ q \in Nat /\ m \in Nat
  OBVIOUS
<1> HIDE DEF q, m
<1>2. P * (128 * q + m) = P * m + (128 * P) * q
  BY <1>1
<1> QED BY <1>1, <1>2 DEF q, m

\* The number of the next shift is a word's if a bit is left.
LEMMA ShiftFits ==
    ASSUME NEW n \in Nat, n < WordBits, NEW q \in Nat \ {0}, 2 ^ (n + 7) * q < Word
    PROVE  n + 7 < WordBits
<1> SUFFICES ASSUME WordBits <= n + 7 PROVE FALSE
  BY WordFacts
<1>1. n + 7 \in 0 .. WordBits + 7 /\ WordBits \in 0 .. n + 7
  BY WordFacts
<1>2. 2 ^ WordBits <= 2 ^ (n + 7) /\ 2 ^ (n + 7) \in Nat /\ 2 ^ WordBits \in Nat
  <2>1. n + 7 \in 0 .. n + 7
    BY <1>1
  <2> QED BY <1>1, <2>1, PowersGrow
<1> DEFINE A == 2 ^ (n + 7)
<1>3. A \in Nat /\ Word <= A /\ A * q < Word /\ Word \in Nat
  BY <1>2 DEF Word
<1> HIDE DEF A
<1>4. A <= A * q
  BY <1>3
<1>5. A * q \in Nat
  BY <1>3
<1> QED BY <1>3, <1>4, <1>5

\* A byte b of the varint, and what is ahead of the loop behind it.
ByteAt(r, ahead, x, s, b, tail) ==
    /\ b \in Byte /\ tail \in Seq(Byte) /\ ahead = <<b>> \o tail
    /\ VarintAt([shift |-> r.shift + 7, v |-> OrShifted(r.v, b, r.shift), more |-> b >= 128],
                tail, x, s)

\* The loop reads the number byte by byte: no bit is lost beyond the word.
LEMMA VarintGoesOn ==
    ASSUME NEW r, NEW ahead, NEW x, NEW s, VarintAt(r, ahead, x, s), r.more
    PROVE  r.shift < WordBits /\ \E b, tail : ByteAt(r, ahead, x, s, b, tail)
<1>1. /\ x \in Uint64s /\ s \in Seq(Byte)
      /\ r.shift \in Nat /\ r.shift < WordBits /\ r.v \in Nat
  BY DEF VarintAt
<1> PICK y \in Uint64s : x = r.v + 2 ^ r.shift * y /\ ahead = Varint(y) \o s
  BY DEF VarintAt
<1> DEFINE n == r.shift
           v == r.v
           P == 2 ^ n
           Q == 2 ^ (n + 7)
           next(b) == [shift |-> n + 7, v |-> OrShifted(v, b, n), more |-> b >= 128]
<1>2. n \in Nat /\ n < WordBits /\ v \in Nat /\ x = v + P * y
  BY <1>1
<1>3. y \in Nat /\ x \in Nat /\ x < Word /\ Word \in Nat \ {0} /\ y < Word
  BY <1>1, WordFacts DEF Uint64s
<1>4. P \in Nat \ {0} /\ Q = 128 * P /\ Q \in Nat
  <2>1. n \in Nat /\ n <= WordBits
    BY <1>2, WordFacts
  <2>2. P \in Nat \ {0} /\ Q = 128 * P
    BY <2>1, Times128
  <2> HIDE DEF P, Q
  <2> QED BY <2>2
<1>5. \A b : /\ next(b).shift = n + 7 /\ next(b).v = OrShifted(v, b, n)
             /\ next(b).more <=> b >= 128
  OBVIOUS
<1>6. \A b : OrShifted(v, b, n) = (v + (b % 128) * P) % Word
  BY DEF OrShifted
<1> HIDE DEF n, v, P, Q, next
<1>7. CASE y < 128
  <2>1. Varint(y) = <<y>> /\ y \in Byte
    <3>1. Varint(y) = <<y>>
      BY <1>7, VarintUnfold
    <3>2. y \in Byte
      BY <1>3, <1>7 DEF Byte
    <3> QED BY <3>1, <3>2
  <2>2. OrShifted(v, y, n) = x
    <3>1. y % 128 = y
      BY <1>3, <1>7
    <3>2. v + y * P = x
      BY <1>2, <1>3, <1>4
    <3>3. x % Word = x
      BY <1>3
    <3> QED BY <1>6, <3>1, <3>2, <3>3
  <2>3. VarintAt(next(y), s, x, s)
    <3>1. next(y).v = x
      BY <1>5, <2>2
    <3>2. ~next(y).more
      BY <1>3, <1>5, <1>7
    <3> QED BY <1>1, <3>1, <3>2 DEF VarintAt
  <2>4. ahead = <<y>> \o s
    BY <2>1
  <2>5. ByteAt(r, ahead, x, s, y, s)
    BY <1>1, <2>1, <2>3, <2>4 DEF ByteAt, next, n, v
  <2> QED BY <1>1, <2>5
<1>8. CASE y >= 128
  <2> DEFINE q == y \div 128
             m == y % 128
             b == 128 + m
             tail == Varint(q) \o s
  <2>1. q \in Uint64s /\ Varint(y) = <<b>> \o Varint(q)
    BY <1>8, VarintUnfold
  <2>2. m \in 0 .. 127 /\ q \in Nat \ {0}
    BY <1>3, <1>8
  <2>3. P * y = P * m + Q * q
    BY <1>3, <1>4, MoreBits
  <2> HIDE DEF q, m
  <2>4. b \in Byte /\ b >= 128 /\ b % 128 = m
    <3>1. b \in Byte /\ b >= 128
      BY <2>2 DEF Byte
    <3>2. b % 128 = m
      BY <2>2
    <3> QED BY <3>1, <3>2
  <2> HIDE DEF b
  <2>5. P * m \in Nat /\ Q * q \in Nat
    BY <1>4, <2>2
  <2>6. v + P * m \in Nat /\ v + P * m < Word /\ x = (v + P * m) + Q * q /\ Q * q < Word
    <3> DEFINE h == P * m
               g == Q * q
    <3>1. h \in Nat /\ g \in Nat /\ x = v + (h + g)
      BY <1>2, <2>3, <2>5
    <3> HIDE DEF h, g
    <3>2. v + h \in Nat /\ v + h < Word /\ x = (v + h) + g /\ g < Word
      BY <1>2, <1>3, <3>1
    <3> QED BY <3>2 DEF h, g
  <2>7. OrShifted(v, b, n) = v + P * m
    <3> DEFINE h == v + P * m
    <3>1. OrShifted(v, b, n) = (v + m * P) % Word
      BY <1>6, <2>4
    <3>2. m * P = P * m
      BY <1>4, <2>2
    <3>3. h \in Nat /\ h < Word
      BY <2>6
    <3>4. OrShifted(v, b, n) = h % Word
      BY <3>1, <3>2
    <3> HIDE DEF h
    <3>5. h % Word = h
      BY <1>3, <3>3, ModSmall
    <3> QED BY <3>4, <3>5 DEF h
  <2>8. n + 7 \in Nat /\ n + 7 < WordBits
    BY <1>2, <2>2, <2>6, ShiftFits DEF Q
  <2>9. VarintAt(next(b), tail, x, s)
    <3>1. next(b).more /\ next(b).shift = n + 7 /\ next(b).v = v + P * m
      BY <1>5, <2>4, <2>7
    <3>2. x = next(b).v + 2 ^ next(b).shift * q
      BY <2>6, <3>1 DEF Q
    <3> QED BY <1>1, <2>1, <2>6, <2>8, <3>1, <3>2 DEF VarintAt
  <2>10. ahead = <<b>> \o tail /\ tail \in Seq(Byte)
    <3> DEFINE h == <<b>>
               z == Varint(q)
    <3>1. h \in Seq(Byte) /\ z \in Seq(Byte)
      BY <2>1, <2>4, VarintBytes
    <3>2. ahead = (h \o z) \o s
      BY <2>1
    <3> HIDE DEF h, z
    <3>3. z \o s \in Seq(Byte)
      BY <1>1, <3>1, JoinBytes
    <3>4. (h \o z) \o s = h \o (z \o s)
      BY <1>1, <3>1, JoinThree
    <3> QED BY <3>2, <3>3, <3>4 DEF h, z
  <2> HIDE DEF tail
  <2>11. ByteAt(r, ahead, x, s, b, tail)
    BY <2>4, <2>9, <2>10 DEF ByteAt, next, n, v
  <2> QED BY <1>1, <2>11
<1> QED BY <1>3, <1>7, <1>8

----------------------------------------------------------------------------
(* Tags.                                                                   *)

\* An int32 and a uint64 hold the tags of the code; the code has 32 and 64 bits.
Wide == WordBits >= 6 /\ TagBits \in 4 .. WordBits

\* The powers of two that Wide is about.
LEMMA WidePowers ==
    ASSUME Wide
    PROVE  /\ 2 ^ (TagBits - 1) \in Nat /\ 2 ^ TagBits \in Nat
           /\ 8 <= 2 ^ (TagBits - 1) /\ 8 <= 2 ^ TagBits /\ 64 <= Word
<1> DEFINE p(k) == 2 ^ k
<1>1. WordBits \in Nat /\ WordBits >= 6 /\ TagBits \in 4 .. WordBits
  BY WordFacts DEF Wide
<1>2. /\ p(0) = 1
      /\ \A k \in 0 .. WordBits + 6 : p(k) \in Nat \ {0} /\ p(k + 1) = 2 * p(k)
  BY WireAssumption
<1>3. \A n \in 0 .. WordBits + 7 : \A m \in 0 .. n : p(m) \in Nat \ {0} /\ p(n) \in Nat \ {0} /\ p(m) <= p(n)
  BY PowersGrow
<1>4. Word = p(WordBits)
  BY DEF Word
<1>5. 2 ^ (TagBits - 1) = p(TagBits - 1) /\ 2 ^ TagBits = p(TagBits)
  OBVIOUS
<1> HIDE DEF p
<1>6. /\ 0 \in 0 .. WordBits + 6 /\ 1 \in 0 .. WordBits + 6 /\ 2 \in 0 .. WordBits + 6
      /\ 3 \in 0 .. WordBits + 6 /\ 4 \in 0 .. WordBits + 6 /\ 5 \in 0 .. WordBits + 6
  BY <1>1
<1>7. p(0 + 1) = 2 * p(0) /\ p(1 + 1) = 2 * p(1) /\ p(2 + 1) = 2 * p(2)
  BY <1>2, <1>6
<1>8. p(3 + 1) = 2 * p(3) /\ p(4 + 1) = 2 * p(4) /\ p(5 + 1) = 2 * p(5)
  BY <1>2, <1>6
<1>9. p(3) = 8 /\ p(6) = 64
  BY <1>2, <1>7, <1>8
<1>10. /\ TagBits - 1 \in 0 .. WordBits + 7 /\ 3 \in 0 .. TagBits - 1
       /\ TagBits \in 0 .. WordBits + 7 /\ 3 \in 0 .. TagBits
       /\ WordBits \in 0 .. WordBits + 7 /\ 6 \in 0 .. WordBits
  BY <1>1
<1>11. p(3) <= p(TagBits - 1) /\ p(TagBits - 1) \in Nat
  BY <1>3, <1>10
<1>12. p(3) <= p(TagBits) /\ p(TagBits) \in Nat
  BY <1>3, <1>10
<1>13. p(6) <= p(WordBits)
  BY <1>3, <1>10
<1> QED BY <1>4, <1>5, <1>9, <1>11, <1>12, <1>13

\* The tag that announces the field f of number n.
TagFor(t, n, tag) ==
    /\ n \in 1 .. 6 /\ tag = 8 * n + Expected(Schema[t][n])
    /\ tag \in Uint64s /\ Varint(tag) = <<tag>>
    /\ FieldNum(tag) = n /\ WireType(tag) = Expected(Schema[t][n])
    /\ Expected(Schema[t][n]) \in {0, 2}

\* The tags that are written are read as what they were written for.
LEMMA TagsMatch ==
    ASSUME Wide, NEW t \in MessageTypes, NEW n \in DOMAIN Schema[t]
    PROVE  TagFor(t, n, 8 * n + Expected(Schema[t][n]))
<1> DEFINE w == Expected(Schema[t][n])
           tag == 8 * n + w
           h == 2 ^ (TagBits - 1)
           k == 2 ^ TagBits
<1>1. n \in 1 .. 6 /\ w \in {0, 2}
  BY TagIsByte
<1>2. h \in Nat /\ k \in Nat /\ 8 <= h /\ 8 <= k /\ 64 <= Word /\ Word \in Nat
  BY WidePowers, WordFacts
<1>3. FieldNum(tag) = IF (tag \div 8) % k < h THEN (tag \div 8) % k ELSE ((tag \div 8) % k) - k
  BY DEF FieldNum
<1>4. WireType(tag) = tag % 8
  BY DEF WireType
<1> HIDE DEF w, h, k
<1>5. tag \in Uint64s /\ tag < 128
  BY <1>1, <1>2 DEF Uint64s
<1>6. tag \div 8 = n /\ tag % 8 = w
  BY <1>1
<1> HIDE DEF tag
<1>7. n % k = n
  BY <1>1, <1>2
<1>8. FieldNum(tag) = n /\ WireType(tag) = w
  BY <1>1, <1>2, <1>3, <1>4, <1>6, <1>7
<1>9. Varint(tag) = <<tag>>
  BY <1>5, VarintUnfold
<1> QED BY <1>1, <1>5, <1>8, <1>9 DEF TagFor, tag, w

----------------------------------------------------------------------------
(* Where a call is in the bytes of its message.                            *)

\* Behind a tag or a part of it: the content x, body of a value v for the field
\* f of the message a, and then the bytes u of the fields that make c of it.
Remaining(t, f, a, c, x, v, body, u) ==
    Content(f, a, v, x, body) /\ Reads(t, StoreIn(f, a, v), c, u)

\* The varint r is a tag.
AtTag(r, t, a, c, s) ==
    \E n \in DOMAIN Schema[t] : \E x, v, body, u :
        /\ Remaining(t, Schema[t][n], a, c, x, v, body, u)
        /\ VarintAt(r, s, 8 * n + Expected(Schema[t][n]), Varint(x) \o (body \o u))

\* The varint r is the number or the length of the field f.
AtContent(r, f, t, a, c, s) ==
    \E x, v, body, u :
        Remaining(t, f, a, c, x, v, body, u) /\ VarintAt(r, s, x, body \o u)

\* The bytes s are what a call of type t that holds the message a needs at the
\* label to make c of it.
Position(label, r, f, t, a, c, s) ==
    \/ label = "loop" /\ Reads(t, a, c, s)
    \/ label = "tag" /\ AtTag(r, t, a, c, s)
    \/ label = "value" /\ f.kind = "varint" /\ AtContent(r, f, t, a, c, s)
    \/ label = "length" /\ f.kind # "varint" /\ AtContent(r, f, t, a, c, s)
    \/ label = "done" /\ a = c

\* A field begins with its tag.
LEMMA FieldBegins ==
    ASSUME Wide, NEW t \in MessageTypes, NEW a, NEW c, NEW s, Reads(t, a, c, s), s # <<>>
    PROVE  AtTag(NewVarint, t, a, c, s)
<1>1. PICK b, p, u : s = p \o u /\ Piece(t, a, b, p) /\ Reads(t, b, c, u)
  BY ReadsFirst
<1>2. u \in Seq(Byte)
  BY <1>1, ReadsFirst
<1>3. PICK n \in DOMAIN Schema[t] : \E x, v, body :
        /\ p = Prefix(n, Schema[t][n], x) \o body
        /\ Content(Schema[t][n], a, v, x, body)
        /\ b = StoreIn(Schema[t][n], a, v)
  BY <1>1 DEF Piece
<1>4. PICK x, v, body :
        /\ p = Prefix(n, Schema[t][n], x) \o body
        /\ Content(Schema[t][n], a, v, x, body)
        /\ b = StoreIn(Schema[t][n], a, v)
  BY <1>3
<1> DEFINE tag == 8 * n + Expected(Schema[t][n])
           h == Varint(tag)
           y == Varint(x)
           z == body \o u
<1>5. n \in DOMAIN Schema[t]
  BY <1>3
<1>6. tag \in Uint64s /\ Varint(tag) = <<tag>>
  BY <1>5, TagsMatch DEF TagFor
<1>7. x \in Uint64s /\ body \in Seq(Byte)
  BY <1>4 DEF Content
<1>8. h \in Seq(Byte) /\ y \in Seq(Byte)
  BY <1>6, <1>7, VarintBytes
<1>9. p = (h \o y) \o body
  BY <1>4, <1>6 DEF Prefix
<1>10. Remaining(t, Schema[t][n], a, c, x, v, body, u)
  BY <1>1, <1>4 DEF Remaining
<1> HIDE DEF tag
<1>11. z \in Seq(Byte)
  BY <1>2, <1>7, JoinBytes
<1> HIDE DEF h, y
<1>12. s = h \o (y \o z)
  <2>1. h \o y \in Seq(Byte) /\ y \o body \in Seq(Byte)
    BY <1>7, <1>8, JoinBytes
  <2>2. ((h \o y) \o body) \o u = (h \o y) \o (body \o u)
    <3> DEFINE g == h \o y
    <3>1. g \in Seq(Byte)
      BY <2>1
    <3> HIDE DEF g
    <3>2. (g \o body) \o u = g \o (body \o u)
      BY <1>2, <1>7, <3>1, JoinThree, SMTT(30)
    <3> QED BY <3>2 DEF g
  <2>3. (h \o y) \o (body \o u) = h \o (y \o (body \o u))
    BY <1>8, <1>11, JoinThree
  <2>4. s = ((h \o y) \o body) \o u
    BY <1>1, <1>9, ZenonT(30)
  <2> QED BY <2>2, <2>3, <2>4, ZenonT(30)
<1>13. y \o z \in Seq(Byte)
  <2> HIDE DEF z
  <2> QED BY <1>8, <1>11, JoinBytes
<1>14. VarintAt(NewVarint, s, tag, y \o z)
  <2> HIDE DEF z
  <2> QED BY <1>6, <1>12, <1>13, VarintStarts DEF h
<1> QED BY <1>5, <1>10, <1>14 DEF AtTag, tag, y

\* The tag has been read: its field is known.
LEMMA TagEnds ==
    ASSUME Wide, NEW t \in MessageTypes, NEW r, NEW a, NEW c, NEW s, AtTag(r, t, a, c, s), ~r.more
    PROVE  \E n \in DOMAIN Schema[t] :
              TagFor(t, n, r.v) /\ AtContent(NewVarint, Schema[t][n], t, a, c, s)
<1>1. PICK n \in DOMAIN Schema[t] : \E x, v, body, u :
        /\ Remaining(t, Schema[t][n], a, c, x, v, body, u)
        /\ VarintAt(r, s, 8 * n + Expected(Schema[t][n]), Varint(x) \o (body \o u))
  BY DEF AtTag
<1>2. PICK x, v, body, u :
        /\ Remaining(t, Schema[t][n], a, c, x, v, body, u)
        /\ VarintAt(r, s, 8 * n + Expected(Schema[t][n]), Varint(x) \o (body \o u))
  BY <1>1
<1>3. r.v = 8 * n + Expected(Schema[t][n]) /\ s = Varint(x) \o (body \o u)
  BY <1>2 DEF VarintAt
<1>4. n \in DOMAIN Schema[t] /\ TagFor(t, n, r.v)
  BY <1>1, <1>3, TagsMatch
<1>5. x \in Uint64s /\ body \in Seq(Byte) /\ Reads(t, StoreIn(Schema[t][n], a, v), c, u)
  BY <1>2 DEF Remaining, Content
<1>6. u \in Seq(Byte)
  BY <1>5, ReadsFirst
<1>7. body \o u \in Seq(Byte)
  BY <1>5, <1>6, JoinBytes
<1>8. VarintAt(NewVarint, s, x, body \o u)
  BY <1>3, <1>5, <1>7, VarintStarts
<1>9. AtContent(NewVarint, Schema[t][n], t, a, c, s)
  BY <1>2, <1>8 DEF AtContent
<1> QED BY <1>4, <1>9

\* What a byte that is read leaves of the varint.
Next7(r, b) == [shift |-> r.shift + 7, v |-> OrShifted(r.v, b, r.shift), more |-> b >= 128]

PositionByteAt(label, r, f, t, a, c, s, b, tail) ==
    /\ b \in Byte /\ tail \in Seq(Byte) /\ s = <<b>> \o tail
    /\ Position(label, Next7(r, b), f, t, a, c, tail)

\* A byte of a varint leads from a position to the next.
LEMMA PositionGoesOn ==
    ASSUME NEW label \in {"tag", "value", "length"}, NEW r, NEW f, NEW t, NEW a, NEW c, NEW s,
           Position(label, r, f, t, a, c, s), r.more
    PROVE  r.shift < WordBits /\ \E b, tail : PositionByteAt(label, r, f, t, a, c, s, b, tail)
<1>1. \A x, u : VarintAt(r, s, x, u) =>
        /\ r.shift < WordBits
        /\ \E b, tail : /\ b \in Byte /\ tail \in Seq(Byte) /\ s = <<b>> \o tail
                        /\ VarintAt(Next7(r, b), tail, x, u)
  <2> SUFFICES ASSUME NEW x, NEW u, VarintAt(r, s, x, u)
               PROVE  /\ r.shift < WordBits
                      /\ \E b, tail : /\ b \in Byte /\ tail \in Seq(Byte) /\ s = <<b>> \o tail
                                      /\ VarintAt(Next7(r, b), tail, x, u)
    OBVIOUS
  <2>1. r.shift < WordBits /\ \E b, tail : ByteAt(r, s, x, u, b, tail)
    BY VarintGoesOn
  <2> QED BY <2>1 DEF ByteAt, Next7
<1>2. CASE label = "tag"
  <2>1. PICK n \in DOMAIN Schema[t] : \E x, v, body, u :
          /\ Remaining(t, Schema[t][n], a, c, x, v, body, u)
          /\ VarintAt(r, s, 8 * n + Expected(Schema[t][n]), Varint(x) \o (body \o u))
    BY <1>2 DEF AtTag, Position
  <2>2. PICK x, v, body, u :
          /\ Remaining(t, Schema[t][n], a, c, x, v, body, u)
          /\ VarintAt(r, s, 8 * n + Expected(Schema[t][n]), Varint(x) \o (body \o u))
    BY <2>1
  <2>3. r.shift < WordBits
    BY <1>1, <2>2
  <2>4. PICK b, tail : /\ b \in Byte /\ tail \in Seq(Byte) /\ s = <<b>> \o tail
                       /\ VarintAt(Next7(r, b), tail, 8 * n + Expected(Schema[t][n]), Varint(x) \o (body \o u))
    BY <1>1, <2>2
  <2>5. AtTag(Next7(r, b), t, a, c, tail)
    BY <2>1, <2>2, <2>4 DEF AtTag
  <2>6. PositionByteAt(label, r, f, t, a, c, s, b, tail)
    BY <1>2, <2>4, <2>5 DEF PositionByteAt, Position
  <2> QED BY <2>3, <2>6
<1>3. CASE label \in {"value", "length"}
  <2>0. AtContent(r, f, t, a, c, s)
    BY <1>3 DEF Position
  <2>1. PICK x, v, body, u :
          Remaining(t, f, a, c, x, v, body, u) /\ VarintAt(r, s, x, body \o u)
    BY <2>0 DEF AtContent
  <2>2. r.shift < WordBits
    BY <1>1, <2>1
  <2>3. PICK b, tail : /\ b \in Byte /\ tail \in Seq(Byte) /\ s = <<b>> \o tail
                       /\ VarintAt(Next7(r, b), tail, x, body \o u)
    BY <1>1, <2>1
  <2>4. AtContent(Next7(r, b), f, t, a, c, tail)
    BY <2>1, <2>3 DEF AtContent
  <2>5. Position(label, Next7(r, b), f, t, a, c, tail)
    BY <1>3, <2>4 DEF Position
  <2>6. PositionByteAt(label, r, f, t, a, c, s, b, tail)
    BY <2>3, <2>5 DEF PositionByteAt
  <2> QED BY <2>2, <2>6
<1> QED BY <1>2, <1>3

----------------------------------------------------------------------------
(* The calls under way.                                                    *)

\* The bytes in front of the innermost call.
BytesAhead == Segment(dAtA, Call.off + Call.iNdEx, Call.off + Call.l)

\* When the call c has got the value v that the call e reads for it, the bytes
\* behind e's make want of its message.
Resumes(d, c, e, x, y, want, v) ==
    Reads(c.type, StoreIn(y.into, x.m, v), want, Segment(d, e.off + e.l, c.off + c.l))

\* Every caller will have the message w[k] at its end.
Waits(d, cs, ms, w) ==
    \A k \in 1 .. Len(cs) - 1 : Resumes(d, cs[k], cs[k + 1], ms[k], ms[k + 1], w[k], w[k + 1])

\* The innermost call makes its message of the bytes ahead, its callers wait.
Tracks(w) ==
    /\ Waits(dAtA, calls, msgs, w)
    /\ Position(pc, acc, field, Call.type, Msg, w[Len(calls)], BytesAhead)

\* What the calls ds and their entries fs have in common with cs and ms.
SameWaiters(cs, ms, ds, fs) ==
    /\ Len(ds) \in Nat /\ Len(cs) \in Nat /\ Len(ds) <= Len(cs)
    /\ \A k \in 1 .. Len(ds) :
          /\ ds[k].type = cs[k].type /\ ds[k].off = cs[k].off /\ ds[k].l = cs[k].l
          /\ fs[k].into = ms[k].into
    /\ \A k \in 1 .. Len(ds) - 1 : fs[k].m = ms[k].m

\* What is waited for does not depend on the indexes or the innermost message.
LEMMA StillWaits ==
    ASSUME NEW d, NEW cs, NEW ms, NEW ds, NEW fs, NEW w, SameWaiters(cs, ms, ds, fs), Waits(d, cs, ms, w)
    PROVE  Waits(d, ds, fs, w)
<1>1. SUFFICES ASSUME NEW k \in 1 .. Len(ds) - 1
               PROVE  Resumes(d, ds[k], ds[k + 1], fs[k], fs[k + 1], w[k], w[k + 1])
  BY DEF Waits
<1>2. k \in 1 .. Len(ds) /\ k + 1 \in 1 .. Len(ds) /\ k \in 1 .. Len(cs) - 1
  BY DEF SameWaiters
<1>3. /\ ds[k].type = cs[k].type /\ ds[k].off = cs[k].off /\ ds[k].l = cs[k].l
      /\ ds[k + 1].off = cs[k + 1].off /\ ds[k + 1].l = cs[k + 1].l
      /\ fs[k + 1].into = ms[k + 1].into /\ fs[k].m = ms[k].m
  BY <1>2 DEF SameWaiters
<1>4. Resumes(d, cs[k], cs[k + 1], ms[k], ms[k + 1], w[k], w[k + 1])
  BY <1>2 DEF Waits
<1> QED BY <1>3, <1>4 DEF Resumes

\* The values waited for, with one more.
OneMoreWanted(w, n, v) == [k \in 1 .. n + 1 |-> IF k = n + 1 THEN v ELSE w[k]]

PushedWaits(d, cs, ms, c, e, w, v) ==
    /\ Waits(d, Append(cs, c), Append(ms, e), OneMoreWanted(w, Len(cs), v))
    /\ OneMoreWanted(w, Len(cs), v)[Len(cs) + 1] = v
    /\ OneMoreWanted(w, Len(cs), v)[1] = w[1]

\* A caller waits for the value v of a new call.
LEMMA PushWaits ==
    ASSUME NEW d, NEW cs \in Seq(CallType), cs # <<>>, NEW ms \in Seq(Entries), Len(ms) = Len(cs),
           NEW c \in CallType, NEW e \in Entries, NEW w, NEW v, Waits(d, cs, ms, w),
           Resumes(d, cs[Len(cs)], c, ms[Len(cs)], e, w[Len(cs)], v)
    PROVE  PushedWaits(d, cs, ms, c, e, w, v)
<1> DEFINE n == Len(cs)
           ds == Append(cs, c)
           fs == Append(ms, e)
           u == OneMoreWanted(w, n, v)
<1>1. n \in Nat \ {0}
  OBVIOUS
<1>2. Len(ds) = n + 1
  OBVIOUS
<1>3. /\ ds[n + 1] = c /\ fs[n + 1] = e
      /\ \A k \in 1 .. n : ds[k] = cs[k] /\ fs[k] = ms[k]
  BY <1>1
<1>4. u[n + 1] = v /\ \A k \in 1 .. n : u[k] = w[k]
  <2> DEFINE g(k) == IF k = n + 1 THEN v ELSE w[k]
  <2>1. \A k \in 1 .. n + 1 : u[k] = g(k)
    BY Zenon DEF OneMoreWanted
  <2> HIDE DEF u, n
  <2>2. n + 1 \in 1 .. n + 1 /\ \A k \in 1 .. n : k \in 1 .. n + 1 /\ k # n + 1
    BY <1>1
  <2> QED BY <2>1, <2>2
<1> HIDE DEF ds, fs, u
<1>5. Waits(d, ds, fs, u)
  <2> SUFFICES ASSUME NEW k \in 1 .. Len(ds) - 1
               PROVE  Resumes(d, ds[k], ds[k + 1], fs[k], fs[k + 1], u[k], u[k + 1])
    BY DEF Waits
  <2>1. k \in 1 .. n
    BY <1>1, <1>2
  <2>2. CASE k = n
    <3>1. Resumes(d, cs[n], c, ms[n], e, w[n], v)
      OBVIOUS
    <3> HIDE DEF n
    <3> QED BY <1>3, <1>4, <2>1, <2>2, <3>1
  <2>3. CASE k # n
    <3>1. k \in 1 .. Len(cs) - 1 /\ k + 1 \in 1 .. n
      BY <1>1, <2>1, <2>3
    <3>2. Resumes(d, cs[k], cs[k + 1], ms[k], ms[k + 1], w[k], w[k + 1])
      BY <3>1 DEF Waits
    <3> HIDE DEF n
    <3> QED BY <1>3, <1>4, <2>1, <3>1, <3>2
  <2> QED BY <2>2, <2>3
<1>6. 1 \in 1 .. n
  BY <1>1
<1> QED BY <1>4, <1>5, <1>6 DEF ds, fs, u, PushedWaits

\* The innermost call goes on at the index i, with the message m.
Onward(i, m) ==
    /\ Len(calls') = Len(calls) /\ Call'.type = Call.type /\ Msg' = m
    /\ BytesAhead' = Segment(dAtA, Call.off + i, Call.off + Call.l)
    /\ \A w : Waits(dAtA, calls, msgs, w) => Waits(dAtA', calls', msgs', w)

\* An index moves and the callers keep what they are.
LEMMA OnwardIf ==
    ASSUME Generated, TypeOK, SlicesNest, Stacked(calls, msgs), dAtA' = dAtA,
           NEW i \in Int, 0 <= i, i <= Call.l,
           calls' = [calls EXCEPT ![Len(calls)].iNdEx = i],
           msgs' \in Seq(Entries), Len(msgs') = Len(msgs),
           \A k \in 1 .. Len(msgs) - 1 : msgs'[k] = msgs[k],
           msgs'[Len(msgs)].into = msgs[Len(msgs)].into,
           NEW m, msgs'[Len(msgs)].m = m
    PROVE  Onward(i, m)
<1> DEFINE n == Len(calls)
           c == [Call EXCEPT !.iNdEx = i]
<1>1. /\ calls \in Seq(CallType) /\ n \in Nat \ {0} /\ Len(msgs) = n /\ Call \in CallType
      /\ calls[n] = Call
  BY TopFacts DEF Call
<1>2. c \in CallType /\ c.type = Call.type /\ c.off = Call.off /\ c.l = Call.l /\ c.iNdEx = i
  BY <1>1 DEF CallType
<1>3. calls' = [calls EXCEPT ![n] = c]
  BY <1>1
<1> HIDE DEF c
<1>4. n \in 1 .. n
  BY <1>1
<1>5. /\ Len(calls') = n /\ calls'[n] = c
      /\ \A k \in 1 .. n - 1 : calls'[k] = calls[k]
  BY <1>1, <1>2, <1>3, <1>4
<1> HIDE DEF n
<1>6. Call' = c /\ Msg' = m
  BY <1>1, <1>5 DEF Call, Msg, n
<1>7. BytesAhead' = Segment(dAtA, Call.off + i, Call.off + Call.l)
  BY <1>2, <1>6 DEF BytesAhead
<1>8. SameWaiters(calls, msgs, calls', msgs')
  <2>1. Len(calls') \in Nat /\ Len(calls) \in Nat /\ Len(calls') <= Len(calls)
    BY <1>1, <1>5 DEF n
  <2>2. ASSUME NEW k \in 1 .. n
        PROVE  /\ calls'[k].type = calls[k].type /\ calls'[k].off = calls[k].off
               /\ calls'[k].l = calls[k].l /\ msgs'[k].into = msgs[k].into
    <3>1. CASE k = n
      BY <1>1, <1>2, <1>5, <3>1
    <3>2. CASE k # n
      <4>1. k \in 1 .. n - 1
        BY <1>1, <3>2
      <4> QED BY <1>1, <1>5, <4>1
    <3> QED BY <3>1, <3>2
  <2>3. \A k \in 1 .. n - 1 : msgs'[k].m = msgs[k].m
    BY <1>1
  <2> QED BY <1>5, <2>1, <2>2, <2>3 DEF SameWaiters
<1>9. \A w : Waits(dAtA, calls, msgs, w) => Waits(dAtA', calls', msgs', w)
  BY <1>8, StillWaits
<1> QED BY <1>2, <1>5, <1>6, <1>7, <1>9 DEF Onward, n

\* The message stays.
LEMMA OnwardSame ==
    ASSUME Generated, TypeOK, SlicesNest, Stacked(calls, msgs), dAtA' = dAtA,
           NEW i \in Int, 0 <= i, i <= Call.l,
           calls' = [calls EXCEPT ![Len(calls)].iNdEx = i], msgs' = msgs
    PROVE  Onward(i, Msg)
<1>1. msgs \in Seq(Entries) /\ msgs[Len(msgs)].m = Msg
  BY TopFacts
<1> QED BY <1>1, OnwardIf

\* The message is replaced.
LEMMA OnwardWith ==
    ASSUME Generated, TypeOK, SlicesNest, Stacked(calls, msgs), dAtA' = dAtA, Stacked(calls', msgs'),
           NEW i \in Int, 0 <= i, i <= Call.l,
           calls' = [calls EXCEPT ![Len(calls)].iNdEx = i],
           NEW m, msgs' = [msgs EXCEPT ![Len(msgs)].m = m]
    PROVE  Onward(i, m)
<1> DEFINE n == Len(msgs)
           e == [msgs[n] EXCEPT !.m = m]
<1>1. msgs \in Seq(Entries) /\ n \in Nat \ {0} /\ n = Len(calls) /\ msgs[n] \in Entries
  BY TopFacts
<1>2. e.into = msgs[n].into /\ e.m = m
  <2> DEFINE M == UNION {ReadAs(u) : u \in MessageTypes}
             I == {Nil} \cup UNION {{Schema[u][k] : k \in DOMAIN Schema[u]} : u \in MessageTypes}
  <2>1. msgs[n] \in [into : I, m : M]
    BY <1>1 DEF Entries
  <2> HIDE DEF M, I
  <2> QED BY <2>1
<1>3. msgs' = [msgs EXCEPT ![n] = e]
  BY <1>1
<1> HIDE DEF e
<1>4. msgs' \in Seq(Entries) /\ Len(msgs') = Len(calls')
  BY DEF Stacked
<1>5. Len(calls') = n
  <2>1. Len(calls') = Len(calls)
    BY MoveIndex
  <2> QED BY <1>1, <2>1
<1>6. n \in 1 .. n
  BY <1>1
<1>7. msgs'[n] = e /\ \A k \in 1 .. n - 1 : msgs'[k] = msgs[k]
  BY <1>1, <1>3, <1>6
<1> HIDE DEF n
<1>8. /\ Len(msgs') = Len(msgs) /\ \A k \in 1 .. Len(msgs) - 1 : msgs'[k] = msgs[k]
      /\ msgs'[Len(msgs)].into = msgs[Len(msgs)].into /\ msgs'[Len(msgs)].m = m
  BY <1>2, <1>4, <1>5, <1>7 DEF n
<1> QED BY <1>4, <1>8, OnwardIf

----------------------------------------------------------------------------
(* Steps.                                                                  *)

\* Where the bytes ahead are.
LEMMA AheadFacts ==
    ASSUME TypeOK, SlicesNest
    PROVE  /\ dAtA \in Seq(Byte) /\ Len(dAtA) \in Nat /\ Len(dAtA) < Half
           /\ Call.off + Call.iNdEx \in Nat /\ Call.off + Call.l \in Nat
           /\ Call.off + Call.iNdEx <= Call.off + Call.l /\ Call.off + Call.l <= Len(dAtA)
           /\ Call.off \in Nat /\ Call.iNdEx \in Nat /\ Call.l \in Nat /\ Call.iNdEx <= Call.l
           /\ BytesAhead \in Seq(Byte) /\ Len(BytesAhead) = Call.l - Call.iNdEx
<1>1. /\ dAtA \in Seq(Byte) /\ Len(dAtA) \in Nat /\ Len(dAtA) < Half
      /\ Call.off \in Nat /\ Call.iNdEx \in Int /\ Call.l \in Nat
      /\ 0 <= Call.iNdEx /\ Call.iNdEx <= Call.l /\ Call.off + Call.l <= Len(dAtA)
  BY CallFacts DEF TypeOK
<1> DEFINE i == Call.off + Call.iNdEx
           j == Call.off + Call.l
<1>2. i \in Nat /\ j \in Nat /\ i <= j /\ j <= Len(dAtA) /\ j - i = Call.l - Call.iNdEx /\ Call.iNdEx \in Nat
  BY <1>1
<1>3. BytesAhead = Segment(dAtA, i, j)
  BY DEF BytesAhead
<1> HIDE DEF i, j
<1>4. Segment(dAtA, i, j) \in Seq(Byte) /\ Len(Segment(dAtA, i, j)) = j - i
  BY <1>1, <1>2, SegmentIs
<1>5. BytesAhead \in Seq(Byte) /\ Len(BytesAhead) = Call.l - Call.iNdEx
  BY <1>2, <1>3, <1>4
<1>6. /\ Call.off + Call.iNdEx \in Nat /\ Call.off + Call.l \in Nat
      /\ Call.off + Call.iNdEx <= Call.off + Call.l /\ Call.off + Call.l <= Len(dAtA)
      /\ Call.iNdEx \in Nat
  BY <1>2 DEF i, j
<1> QED BY <1>1, <1>5, <1>6, ZenonT(30)

\* The label is one that a writer's bytes lead to.
LEMMA TracksAt ==
    ASSUME NEW w, Tracks(w)
    PROVE  pc \in {"loop", "tag", "value", "length", "done"}
BY DEF Tracks, Position

\* A byte is read.
LEMMA VarintByteTracks ==
    ASSUME Generated, Wide, PInv, DInv, NEW w, Tracks(w), VarintByte
    PROVE  Tracks(w)'
<1>0. TypeOK /\ SlicesNest /\ Stacked(calls, msgs) /\ acc.more /\ pc \in {"tag", "value", "length"}
  <2>1. pc \in {"loop", "tag", "value", "length", "done"}
    BY TracksAt
  <2> QED BY <2>1 DEF PInv, IInv, DInv, VarintByte, Reading, InSkip
<1> DEFINE c == w[Len(calls)]
           t == Call.type
           i == Call.off + Call.iNdEx
           j == Call.off + Call.l
<1>1. Position(pc, acc, field, t, Msg, c, BytesAhead)
  BY DEF Tracks
<1>2. acc.shift < WordBits /\ \E b, tail : PositionByteAt(pc, acc, field, t, Msg, c, BytesAhead, b, tail)
  <2> HIDE DEF c, t
  <2> QED BY <1>0, <1>1, PositionGoesOn
<1>3. PICK b, tail : PositionByteAt(pc, acc, field, t, Msg, c, BytesAhead, b, tail)
  BY <1>2
<1>4. /\ b \in Byte /\ tail \in Seq(Byte) /\ BytesAhead = <<b>> \o tail
      /\ Position(pc, Next7(acc, b), field, t, Msg, c, tail)
  BY <1>3 DEF PositionByteAt
<1>5. /\ dAtA \in Seq(Byte) /\ i \in Nat /\ j \in Nat /\ i <= j /\ j <= Len(dAtA)
      /\ Call.off \in Nat /\ Call.iNdEx \in Nat /\ Call.l \in Nat /\ BytesAhead = Segment(dAtA, i, j)
  BY <1>0, AheadFacts DEF BytesAhead
<1>6. i < j /\ dAtA[i + 1] = b /\ tail = Segment(dAtA, i + 1, j)
  <2> HIDE DEF i, j
  <2>1. Segment(dAtA, i, j) = <<b>> \o tail
    BY <1>4, <1>5
  <2>2. FirstOf(dAtA, i, j, b, tail)
    BY <1>4, <1>5, <2>1, SegmentFirst
  <2> QED BY <2>2 DEF FirstOf
<1>7. Index = Call.iNdEx /\ Limit = Call.l /\ Base = Call.off /\ pc \notin InSkip
  BY <1>0 DEF Index, Limit, Base, InSkip
<1>8. Index < Limit
  BY <1>5, <1>6, <1>7
<1>9. /\ acc' = [shift |-> acc.shift + 7, v |-> OrShifted(acc.v, dAtA[Base + Index + 1], acc.shift),
                 more |-> dAtA[Base + Index + 1] >= 128]
      /\ calls' = [calls EXCEPT ![Len(calls)].iNdEx = @ + 1]
      /\ UNCHANGED <<dAtA, msgs, pc, preIndex, field, err>>
  <2>1. ~(acc.shift >= WordBits) /\ ~(Index >= Limit)
    <3>1. acc.shift \in Nat /\ WordBits \in Nat
      BY <1>0, WordFacts DEF TypeOK
    <3> QED BY <1>2, <1>5, <1>7, <1>8, <3>1
  <2> QED BY <1>7, <2>1 DEF VarintByte
<1>10. acc' = Next7(acc, b)
  <2>1. dAtA[Base + Index + 1] = b
    BY <1>6, <1>7
  <2> QED BY <1>9, <2>1 DEF Next7
<1>11. Onward(Call.iNdEx + 1, Msg)
  <2>1. Call.iNdEx + 1 \in Int /\ 0 <= Call.iNdEx + 1 /\ Call.iNdEx + 1 <= Call.l
    BY <1>5, <1>7, <1>8
  <2>2. calls' = [calls EXCEPT ![Len(calls)].iNdEx = Call.iNdEx + 1]
    BY <1>9 DEF Call
  <2> QED BY <1>0, <1>9, <2>1, <2>2, OnwardSame
<1>12. Segment(dAtA, Call.off + (Call.iNdEx + 1), j) = tail
  <2>1. Call.off + (Call.iNdEx + 1) = i + 1
    BY <1>5
  <2> QED BY <1>6, <2>1
<1>13. BytesAhead' = tail /\ Call'.type = t /\ Msg' = Msg /\ Len(calls') = Len(calls)
  BY <1>11, <1>12 DEF Onward
<1>14. Waits(dAtA', calls', msgs', w)
  BY <1>11 DEF Onward, Tracks
<1>15. Position(pc', acc', field', Call'.type, Msg', w[Len(calls')], BytesAhead')
  BY <1>4, <1>9, <1>10, <1>13
<1> QED BY <1>9, <1>11, <1>14, <1>15 DEF Tracks, Onward

\* A tag is begun.
LEMMA LoopTracks ==
    ASSUME Generated, Wide, PInv, DInv, NEW w, Tracks(w), Loop
    PROVE  Tracks(w)'
<1>0. TypeOK /\ SlicesNest /\ Stacked(calls, msgs) /\ pc = "loop" /\ Call.iNdEx < Call.l
  BY DEF PInv, IInv, DInv, Loop
<1> DEFINE c == w[Len(calls)]
           t == Call.type
<1>1. Reads(t, Msg, c, BytesAhead) /\ t \in MessageTypes
  BY <1>0, TopFacts DEF Tracks, Position
<1>2. BytesAhead # <<>>
  <2>1. Len(BytesAhead) = Call.l - Call.iNdEx /\ Call.l \in Nat /\ Call.iNdEx \in Nat
    BY <1>0, AheadFacts
  <2>2. Len(BytesAhead) # 0
    BY <1>0, <2>1
  <2> QED BY <2>2
<1>3. AtTag(NewVarint, t, Msg, c, BytesAhead)
  <2> HIDE DEF c, t
  <2> QED BY <1>1, <1>2, FieldBegins
<1>4. /\ acc' = NewVarint /\ pc' = "tag" /\ dAtA' = dAtA /\ msgs' = msgs
      /\ calls' = [calls EXCEPT ![Len(calls)].iNdEx = Call.iNdEx]
  BY DEF Loop, GoTo
<1>5. Onward(Call.iNdEx, Msg)
  <2>1. Call.iNdEx \in Int /\ 0 <= Call.iNdEx /\ Call.iNdEx <= Call.l
    BY <1>0, AheadFacts
  <2> QED BY <1>0, <1>4, <2>1, OnwardSame
<1>6. BytesAhead' = BytesAhead /\ Call'.type = t /\ Msg' = Msg /\ Len(calls') = Len(calls)
  BY <1>5 DEF Onward, BytesAhead
<1>7. Position(pc', acc', field', Call'.type, Msg', w[Len(calls')], BytesAhead')
  BY <1>3, <1>4, <1>6 DEF Position
<1>8. Waits(dAtA', calls', msgs', w)
  BY <1>5 DEF Onward, Tracks
<1> QED BY <1>5, <1>7, <1>8 DEF Tracks, Onward

\* A tag that was written for a field is read as that field's.
LEMMA TagReadTracks ==
    ASSUME Generated, Wide, PInv, DInv, NEW w, Tracks(w), TagRead
    PROVE  Tracks(w)'
<1>0. TypeOK /\ SlicesNest /\ Stacked(calls, msgs) /\ pc = "tag" /\ ~acc.more
  BY DEF PInv, IInv, DInv, TagRead
<1> DEFINE c == w[Len(calls)]
           t == Call.type
<1>1. AtTag(acc, t, Msg, c, BytesAhead) /\ t \in MessageTypes
  BY <1>0, TopFacts DEF Tracks, Position
<1>2. PICK n \in DOMAIN Schema[t] :
              TagFor(t, n, acc.v) /\ AtContent(NewVarint, Schema[t][n], t, Msg, c, BytesAhead)
  <2> HIDE DEF c, t
  <2> QED BY <1>0, <1>1, TagEnds
<1> DEFINE f == Schema[t][n]
<1>3. /\ FieldNum(acc.v) = n /\ WireType(acc.v) = Expected(f) /\ Expected(f) \in {0, 2} /\ n \in 1 .. 6
  BY <1>2 DEF TagFor
<1>4. Fields[Call.type] = Schema[t] /\ n \in DOMAIN Fields[Call.type]
  BY <1>2 DEF Generated
<1> HIDE DEF f
<1>5. /\ field' = f /\ acc' = NewVarint
      /\ GoTo(IF Expected(f) = 0 THEN "value" ELSE "length", Call.iNdEx)
      /\ UNCHANGED <<msgs, preIndex, skip>>
  <2> DEFINE wt == WireType(acc.v)
             k == FieldNum(acc.v)
  <2>1. wt # 4 /\ k > 0 /\ k \in DOMAIN Fields[Call.type] /\ wt = Expected(Fields[Call.type][k])
    BY <1>3, <1>4 DEF f
  <2>2. ~(k <= 0)
    BY <1>3
  <2>3. Fields[Call.type][k] = f
    BY <1>3, <1>4 DEF f
  <2> HIDE DEF wt, k
  <2>4. /\ field' = Fields[Call.type][k] /\ acc' = NewVarint
        /\ GoTo(IF wt = 0 THEN "value" ELSE "length", Call.iNdEx)
        /\ UNCHANGED <<msgs, preIndex, skip>>
    BY <2>1, <2>2 DEF TagRead, wt, k
  <2> QED BY <1>3, <2>3, <2>4 DEF wt
<1>6. /\ pc' = (IF Expected(f) = 0 THEN "value" ELSE "length") /\ dAtA' = dAtA /\ msgs' = msgs
      /\ calls' = [calls EXCEPT ![Len(calls)].iNdEx = Call.iNdEx]
  BY <1>5 DEF GoTo
<1>7. Onward(Call.iNdEx, Msg)
  <2>1. Call.iNdEx \in Int /\ 0 <= Call.iNdEx /\ Call.iNdEx <= Call.l
    BY <1>0, AheadFacts
  <2> QED BY <1>0, <1>6, <2>1, OnwardSame
<1>8. BytesAhead' = BytesAhead /\ Call'.type = t /\ Msg' = Msg /\ Len(calls') = Len(calls)
  BY <1>7 DEF Onward, BytesAhead
<1>9. AtContent(acc', field', t, Msg', c, BytesAhead')
  BY <1>2, <1>5, <1>8 DEF f
<1>10. Position(pc', acc', field', Call'.type, Msg', w[Len(calls')], BytesAhead')
  <2>1. (pc' = "value" /\ field'.kind = "varint") \/ (pc' = "length" /\ field'.kind # "varint")
    BY <1>5, <1>6 DEF Expected
  <2> QED BY <1>8, <1>9, <2>1 DEF Position
<1>11. Waits(dAtA', calls', msgs', w)
  BY <1>7 DEF Onward, Tracks
<1> QED BY <1>7, <1>10, <1>11 DEF Tracks, Onward

\* Setting a field stores the value in the innermost message.
LEMMA SetStores ==
    ASSUME Generated, TypeOK, SlicesNest, Stacked(calls, msgs),
           field.kind # "repeated", NEW v, SetField(v)
    PROVE  msgs' = [msgs EXCEPT ![Len(msgs)].m = StoreIn(field, Msg, v)]
<1>1. msgs' = [msgs EXCEPT ![Len(msgs)].m[field.name] = v]
  BY DEF SetField
<1>2. msgs[Len(msgs)].m = Msg /\ msgs \in Seq(Entries) /\ Len(msgs) \in 1 .. Len(msgs)
      /\ msgs[Len(msgs)] \in Entries
  BY TopFacts
<1>3. StoreIn(field, Msg, v) = [Msg EXCEPT ![field.name] = v]
  BY DEF StoreIn
<1>4. msgs' = [msgs EXCEPT ![Len(msgs)] = [msgs[Len(msgs)] EXCEPT !.m = [Msg EXCEPT ![field.name] = v]]]
  BY <1>1, <1>2
<1> QED BY <1>2, <1>3, <1>4

\* A number is stored.
LEMMA ValueReadTracks ==
    ASSUME Generated, Wide, PInv, DInv, NEW w, Tracks(w), ValueRead
    PROVE  Tracks(w)'
<1>0. TypeOK /\ SlicesNest /\ Stacked(calls, msgs) /\ pc = "value" /\ ~acc.more /\ field.kind = "varint"
  BY DEF PInv, IInv, DInv, ValueRead
<1> DEFINE c == w[Len(calls)]
           t == Call.type
<1>1. AtContent(acc, field, t, Msg, c, BytesAhead) /\ t \in MessageTypes
  BY <1>0, TopFacts DEF Tracks, Position
<1>2. PICK x, v, body, u :
          Remaining(t, field, Msg, c, x, v, body, u) /\ VarintAt(acc, BytesAhead, x, body \o u)
  BY <1>1 DEF AtContent
<1>3. acc.v = x /\ BytesAhead = body \o u
  BY <1>0, <1>2 DEF VarintAt
<1>4. v = x /\ body = <<>> /\ Reads(t, StoreIn(field, Msg, v), c, u)
  BY <1>0, <1>2 DEF Remaining, Content
<1>5. u \in Seq(Byte)
  BY <1>1, <1>4, ReadsFirst
<1>6. BytesAhead = u
  BY <1>3, <1>4, <1>5, JoinBytes
<1> DEFINE m == StoreIn(field, Msg, v)
<1>7. msgs' = [msgs EXCEPT ![Len(msgs)].m = m]
  <2>1. SetField(v)
    BY <1>3, <1>4 DEF ValueRead
  <2> QED BY <1>0, <2>1, SetStores
<1> HIDE DEF m
<1>8. /\ pc' = "loop" /\ dAtA' = dAtA /\ calls' = [calls EXCEPT ![Len(calls)].iNdEx = Call.iNdEx]
  BY DEF ValueRead, GoTo
<1>9. Onward(Call.iNdEx, m)
  <2>1. Call.iNdEx \in Int /\ 0 <= Call.iNdEx /\ Call.iNdEx <= Call.l
    BY <1>0, AheadFacts
  <2>2. Stacked(calls', msgs')
    BY ValueReadKeepsMessages DEF DInv
  <2> QED BY <1>0, <1>7, <1>8, <2>1, <2>2, OnwardWith
<1>10. BytesAhead' = u /\ Call'.type = t /\ Msg' = m /\ Len(calls') = Len(calls)
  BY <1>6, <1>9 DEF Onward, BytesAhead
<1>11. Position(pc', acc', field', Call'.type, Msg', w[Len(calls')], BytesAhead')
  BY <1>4, <1>8, <1>10 DEF Position, m
<1>12. Waits(dAtA', calls', msgs', w)
  BY <1>9 DEF Onward, Tracks
<1> QED BY <1>9, <1>11, <1>12 DEF Tracks, Onward

\* A length that was written is that of the bytes body, which are there.
LengthAt(w, x, v, body, u) ==
    /\ Content(field, Msg, v, x, body)
    /\ Reads(Call.type, StoreIn(field, Msg, v), w[Len(calls)], u)
    /\ x = Len(body) /\ body \in Seq(Byte)
    /\ ToInt(acc.v) = x /\ Plus(Call.iNdEx, x) = Call.iNdEx + x /\ x \in Nat
    /\ Call.iNdEx + x \in Int /\ 0 <= Call.iNdEx + x /\ Call.iNdEx + x <= Call.l
    /\ body = Segment(dAtA, Call.off + Call.iNdEx, Call.off + Call.iNdEx + x)
    /\ u = Segment(dAtA, Call.off + Call.iNdEx + x, Call.off + Call.l)

\* A sum of two ints that is an int.
LEMMA PlusFits ==
    ASSUME NEW a \in Nat, NEW b \in Nat, a + b < Half
    PROVE  Plus(a, b) = a + b
BY WordFacts DEF Plus

\* The length is not negative, and neither is the index behind it.
LEMMA LengthIsRead ==
    ASSUME Generated, Wide, PInv, DInv, NEW w, Tracks(w), pc = "length", ~acc.more
    PROVE  \E x, v, body, u : LengthAt(w, x, v, body, u)
<1>0. TypeOK /\ SlicesNest /\ Stacked(calls, msgs) /\ field.kind # "varint"
  BY DEF PInv, IInv, DInv
<1> DEFINE c == w[Len(calls)]
           t == Call.type
           i == Call.off + Call.iNdEx
           j == Call.off + Call.l
<1>1. AtContent(acc, field, t, Msg, c, BytesAhead) /\ t \in MessageTypes
  BY <1>0, TopFacts DEF Tracks, Position
<1>2. PICK x, v, body, u :
          Remaining(t, field, Msg, c, x, v, body, u) /\ VarintAt(acc, BytesAhead, x, body \o u)
  BY <1>1 DEF AtContent
<1>3. acc.v = x /\ BytesAhead = body \o u
  BY <1>2 DEF VarintAt
<1>4. /\ Content(field, Msg, v, x, body) /\ Reads(t, StoreIn(field, Msg, v), c, u)
      /\ x = Len(body) /\ body \in Seq(Byte)
  BY <1>0, <1>2 DEF Remaining, Content
<1>5. u \in Seq(Byte)
  BY <1>1, <1>4, ReadsFirst
<1>6. /\ dAtA \in Seq(Byte) /\ i \in Nat /\ j \in Nat /\ i <= j /\ j <= Len(dAtA)
      /\ Call.off \in Nat /\ Call.iNdEx \in Nat /\ Call.l \in Nat /\ BytesAhead = Segment(dAtA, i, j)
      /\ Len(dAtA) \in Nat /\ Len(dAtA) < Half
  BY <1>0, AheadFacts DEF BytesAhead
<1>7. i + x \in Nat /\ i + x <= j /\ body = Segment(dAtA, i, i + x) /\ u = Segment(dAtA, i + x, j)
  <2> HIDE DEF i, j
  <2>1. Segment(dAtA, i, j) = body \o u
    BY <1>3, <1>6
  <2>2. SplitAt(dAtA, i, j, body, u)
    BY <1>4, <1>5, <1>6, <2>1, SegmentSplit
  <2> QED BY <1>4, <2>2 DEF SplitAt
<1>8. x \in Nat /\ Call.iNdEx + x <= Call.l /\ Call.l < Half /\ x < Half /\ Call.iNdEx + x \in Nat
  <2> DEFINE o == Call.off
             n == Call.iNdEx
             l == Call.l
             h == Half
             e == Len(dAtA)
  <2>1. /\ x \in Nat /\ o \in Nat /\ n \in Nat /\ l \in Nat /\ h \in Nat /\ e \in Nat
        /\ o + n + x <= o + l /\ o + l <= e /\ e < h
    BY <1>4, <1>6, <1>7, WordFacts
  <2> HIDE DEF o, n, l, h, e
  <2>2. n + x <= l /\ l < h /\ x < h /\ n + x \in Nat
    BY <2>1
  <2> QED BY <2>1, <2>2 DEF n, l, h
<1>9. ToInt(acc.v) = x
  BY <1>3, <1>8 DEF ToInt
<1>10. Plus(Call.iNdEx, x) = Call.iNdEx + x
  <2>1. Call.iNdEx + x < Half
    BY <1>6, <1>8, WordFacts
  <2> QED BY <1>6, <1>8, <2>1, PlusFits
<1>11. LengthAt(w, x, v, body, u)
  <2>1. Call.iNdEx + x \in Int /\ 0 <= Call.iNdEx + x
    BY <1>8
  <2> QED BY <1>4, <1>7, <1>8, <1>9, <1>10, <2>1 DEF LengthAt
<1> QED BY <1>11

\* The bytes of a field are copied.
LEMMA BytesReadTrack ==
    ASSUME Generated, Wide, PInv, DInv, NEW w, Tracks(w), LengthRead, field.kind \in {"bytes", "text"}
    PROVE  Tracks(w)'
<1>0. TypeOK /\ SlicesNest /\ Stacked(calls, msgs) /\ pc = "length" /\ ~acc.more
  BY DEF PInv, IInv, DInv, LengthRead
<1>1. PICK x, v, body, u : LengthAt(w, x, v, body, u)
  BY <1>0, LengthIsRead
<1> DEFINE length == ToInt(acc.v)
           postIndex == Plus(Call.iNdEx, length)
           bytes == SubSeq(dAtA, Call.off + Call.iNdEx + 1, Call.off + postIndex)
           fits == ~BadLength(length, postIndex) /\ postIndex <= Call.l
           i == Call.iNdEx + x
           m == StoreIn(field, Msg, v)
<1>2. /\ Call.off \in Nat /\ Call.iNdEx \in Nat /\ Call.l \in Nat
  BY <1>0, AheadFacts
<1>3. length = x /\ x \in Nat /\ postIndex = i /\ i \in Int /\ 0 <= i /\ i <= Call.l
  BY <1>1 DEF LengthAt
<1>4. bytes = body
  <2>1. Call.off + postIndex = Call.off + Call.iNdEx + x
    BY <1>2, <1>3
  <2>2. body = SubSeq(dAtA, Call.off + Call.iNdEx + 1, Call.off + Call.iNdEx + x)
    BY <1>1 DEF LengthAt, Segment
  <2> QED BY <2>1, <2>2
<1>5. ~BadLength(length, postIndex) /\ fits
  BY <1>3 DEF BadLength
<1>6. v = body /\ (field.kind = "text" => IntText(body))
  <2>1. Content(field, Msg, v, x, body)
    BY <1>1 DEF LengthAt
  <2> QED BY <2>1 DEF Content
<1>7. IntText(body) => Len(body) # 0
  BY DEF IntText
<1>8. SetField(body) /\ GoTo("loop", postIndex)
  <2>1. ~(postIndex > Call.l)
    BY <1>2, <1>3
  <2> HIDE DEF length, postIndex, bytes, fits
  <2>2. LengthRead <=>
          /\ pc = "length" /\ ~acc.more
          /\ \/ BadLength(length, postIndex) /\ Fail("ErrInvalidLength")
             \/ /\ ~BadLength(length, postIndex) /\ postIndex > Call.l
                /\ Fail("ErrUnexpectedEOF")
             \/ /\ fits /\ field.kind = "bytes"
                /\ SetField(bytes)
                /\ GoTo("loop", postIndex)
                /\ UNCHANGED <<acc, preIndex, field, skip>>
             \/ /\ fits /\ field.kind = "text" /\ Len(bytes) > 0 /\ ~IntText(bytes)
                /\ Fail("not a number")
             \/ /\ fits /\ field.kind = "text" /\ (Len(bytes) = 0 \/ IntText(bytes))
                /\ SetField(IF Len(bytes) = 0 THEN Msg[field.name] ELSE bytes)
                /\ GoTo("loop", postIndex)
                /\ UNCHANGED <<acc, preIndex, field, skip>>
             \/ /\ fits /\ field.kind \in {"message", "repeated"}
                /\ calls' = Append(calls, Frame(field.type, Call.off + Call.iNdEx, length))
                /\ msgs' = Append(msgs, [into |-> field, m |-> Inner])
                /\ pc' = "loop"
                /\ UNCHANGED <<dAtA, acc, preIndex, field, skip, err>>
    BY DEF LengthRead, length, postIndex, bytes, fits
  <2>3. CASE field.kind = "bytes"
    BY <1>4, <1>5, <2>1, <2>2, <2>3
  <2>4. CASE field.kind = "text"
    <3>1. GoTo("loop", postIndex) /\ SetField(IF Len(bytes) = 0 THEN Msg[field.name] ELSE bytes)
      BY <1>4, <1>5, <1>6, <2>1, <2>2, <2>4
    <3>2. (IF Len(bytes) = 0 THEN Msg[field.name] ELSE bytes) = body
      BY <1>4, <1>6, <1>7, <2>4
    <3> QED BY <3>1, <3>2
  <2> QED BY <2>3, <2>4
<1> HIDE DEF length, postIndex, bytes, fits, i, m
<1>9. msgs' = [msgs EXCEPT ![Len(msgs)].m = m]
  <2>1. SetField(v) /\ field.kind # "repeated"
    BY <1>6, <1>8
  <2> QED BY <1>0, <2>1, SetStores DEF m
<1>10. pc' = "loop" /\ dAtA' = dAtA /\ calls' = [calls EXCEPT ![Len(calls)].iNdEx = i]
  BY <1>3, <1>8 DEF GoTo
<1>11. Onward(i, m)
  <2>1. Stacked(calls', msgs')
    BY LengthReadKeepsMessages DEF DInv
  <2> QED BY <1>0, <1>3, <1>9, <1>10, <2>1, OnwardWith
<1>12. Segment(dAtA, Call.off + i, Call.off + Call.l) = u
  <2>1. Call.off + i = Call.off + Call.iNdEx + x
    BY <1>2, <1>3 DEF i
  <2> QED BY <1>1, <2>1 DEF LengthAt
<1>13. BytesAhead' = u /\ Call'.type = Call.type /\ Msg' = m /\ Len(calls') = Len(calls)
  BY <1>11, <1>12 DEF Onward
<1>14. Position(pc', acc', field', Call'.type, Msg', w[Len(calls')], BytesAhead')
  <2>1. Reads(Call.type, m, w[Len(calls)], u)
    BY <1>1 DEF LengthAt, m
  <2> QED BY <1>10, <1>13, <2>1 DEF Position
<1>15. Waits(dAtA', calls', msgs', w)
  BY <1>11 DEF Onward, Tracks
<1> QED BY <1>11, <1>14, <1>15 DEF Tracks, Onward

\* The call for a nested message has the bytes of that message ahead of it.
LEMMA MessageReadTracks ==
    ASSUME Generated, Wide, PInv, DInv, NEW w, Tracks(w), LengthRead, field.kind \in {"message", "repeated"}
    PROVE  \E u : u[1] = w[1] /\ Tracks(u)'
<1>0. TypeOK /\ SlicesNest /\ Stacked(calls, msgs) /\ pc = "length" /\ ~acc.more
      /\ KnownField(Call.type, field)
  BY DEF PInv, IInv, DInv, LengthRead
<1>1. PICK x, v, body, s : LengthAt(w, x, v, body, s)
  BY <1>0, LengthIsRead
<1>n. PICK n : n = Len(calls)
  OBVIOUS
<1>u. PICK u : u = OneMoreWanted(w, n, v)
  OBVIOUS
<1> DEFINE length == ToInt(acc.v)
           postIndex == Plus(Call.iNdEx, length)
           t == field.type
           o == Call.off + Call.iNdEx
           c == Frame(t, o, length)
           e == [into |-> field, m |-> Inner]
<1>2. /\ Call.off \in Nat /\ Call.iNdEx \in Nat /\ Call.l \in Nat /\ o \in Nat
  BY <1>0, AheadFacts
<1>3. length = x /\ x \in Nat /\ 0 <= postIndex /\ postIndex <= Call.l /\ postIndex \in Int
  BY <1>1 DEF LengthAt
<1>4. /\ calls' = Append(calls, c) /\ msgs' = Append(msgs, e) /\ pc' = "loop" /\ dAtA' = dAtA
  <2>1. ~BadLength(length, postIndex) /\ ~(postIndex > Call.l)
    BY <1>2, <1>3 DEF BadLength
  <2> QED BY <2>1 DEF LengthRead
<1>5. /\ calls \in Seq(CallType) /\ calls # <<>> /\ n \in Nat \ {0} /\ msgs \in Seq(Entries)
      /\ Len(msgs) = n /\ Call.type \in MessageTypes /\ calls[n] = Call /\ msgs[n].m = Msg
  BY <1>0, <1>n, TopFacts DEF Call, Msg
<1>6. t \in MessageTypes
  BY <1>0, <1>5, FieldKinds DEF MessageTypes
<1>7. /\ v \in Complete(t) /\ body = Marshalled(t, v)
      /\ field.kind = "message" => Msg[field.name] \in {Nil, Reset[t]}
  <2>1. Content(field, Msg, v, x, body)
    BY <1>1 DEF LengthAt
  <2> QED BY <2>1 DEF Content
<1>8. Inner = Reset[t]
  BY <1>7 DEF Inner, Generated
<1>9. c \in CallType /\ c.type = t /\ c.iNdEx = 0 /\ c.off = o /\ c.l = x
  <2>1. t \in Types
    BY <1>6 DEF Generated
  <2> HIDE DEF o, length
  <2> QED BY <1>2, <1>3, <2>1 DEF Frame, CallType
<1>10. e \in Entries /\ e.into = field /\ e.m = Reset[t]
  <2>1. Inner \in ReadAs(t)
    BY <1>6, <1>8, ResetTyped
  <2>2. e \in Entries
    BY <1>0, <1>5, <1>6, <2>1, EntryFor
  <2> QED BY <1>8, <2>2
<1> HIDE DEF length, postIndex, t, c, e
<1>11. Resumes(dAtA, calls[n], c, msgs[n], e, w[n], v)
  <2>1. /\ Reads(Call.type, StoreIn(field, Msg, v), w[n], s)
        /\ s = Segment(dAtA, o + x, Call.off + Call.l)
    BY <1>1, <1>n DEF LengthAt
  <2> HIDE DEF o
  <2> QED BY <1>5, <1>9, <1>10, <2>1 DEF Resumes
<1>12. Waits(dAtA, Append(calls, c), Append(msgs, e), u) /\ u[n + 1] = v /\ u[1] = w[1]
  <2>1. Waits(dAtA, calls, msgs, w)
    BY DEF Tracks
  <2>2. Resumes(dAtA, calls[Len(calls)], c, msgs[Len(calls)], e, w[Len(calls)], v)
    BY <1>11, <1>n
  <2>3. c \in CallType /\ e \in Entries /\ Len(msgs) = Len(calls)
    BY <1>5, <1>9, <1>10, <1>n
  <2>4. PushedWaits(dAtA, calls, msgs, c, e, w, v)
    BY <1>5, <2>1, <2>2, <2>3, PushWaits
  <2> QED BY <1>n, <1>u, <2>4 DEF PushedWaits
<1>13. Len(calls') = n + 1 /\ Len(msgs') = n + 1 /\ calls'[n + 1] = c /\ msgs'[n + 1] = e
  <2>1. Len(calls') = n + 1 /\ calls'[n + 1] = c
    BY <1>4, <1>5, <1>9, <1>n
  <2>2. Len(msgs') = n + 1 /\ msgs'[n + 1] = e
    BY <1>4, <1>5, <1>10
  <2> QED BY <2>1, <2>2
<1>14. Call' = c /\ Msg' = Reset[t]
  BY <1>10, <1>13 DEF Call, Msg
<1>15. BytesAhead' = body
  <2>1. c.off + c.iNdEx = o /\ c.off + c.l = o + x
    BY <1>2, <1>9
  <2>2. body = Segment(dAtA, o, o + x)
    BY <1>1 DEF LengthAt
  <2> HIDE DEF o
  <2> QED BY <1>4, <1>14, <2>1, <2>2 DEF BytesAhead
<1>16. Reads(t, Reset[t], v, body)
  BY <1>6, <1>7, MarshalledReads
<1>17. Position(pc', acc', field', Call'.type, Msg', u[Len(calls')], BytesAhead')
  BY <1>4, <1>9, <1>12, <1>13, <1>14, <1>15, <1>16 DEF Position
<1>18. Waits(dAtA', calls', msgs', u)
  BY <1>4, <1>12
<1>19. Tracks(u)'
  BY <1>17, <1>18 DEF Tracks
<1> QED BY <1>12, <1>19

\* A call whose bytes are used up has made its message, which the caller waits for.
LEMMA ReturnTracks ==
    ASSUME Generated, Wide, PInv, DInv, NEW w, Tracks(w), Return
    PROVE  Tracks(w)'
<1>0. TypeOK /\ SlicesNest /\ Stacked(calls, msgs) /\ pc = "loop" /\ Call.iNdEx >= Call.l
  BY DEF PInv, IInv, DInv, Return
<1>1. /\ calls \in Seq(CallType) /\ Len(calls) \in Nat \ {0} /\ msgs \in Seq(Entries)
      /\ Len(msgs) = Len(calls) /\ Call \in CallType /\ Call.type \in MessageTypes
  BY <1>0, TopFacts
<1>2. Call.iNdEx = Call.l /\ BytesAhead = <<>>
  <2>1. /\ BytesAhead \in Seq(Byte) /\ Len(BytesAhead) = Call.l - Call.iNdEx
        /\ Call.iNdEx \in Nat /\ Call.l \in Nat /\ Call.iNdEx <= Call.l
    BY <1>0, AheadFacts
  <2>2. Call.iNdEx = Call.l /\ Len(BytesAhead) = 0
    BY <1>0, <2>1
  <2> QED BY <2>1, <2>2
<1>3. Msg = w[Len(calls)]
  <2>1. Reads(Call.type, Msg, w[Len(calls)], BytesAhead)
    BY <1>0 DEF Tracks, Position
  <2> QED BY <1>1, <1>2, <2>1, ReadsFirst
<1>4. CASE Len(calls) = 1
  <2>1. Finish
    <3>1. ~(Call.iNdEx > Call.l)
      BY <1>0, <1>2, AheadFacts
    <3> QED BY <1>4, <3>1 DEF Return
  <2>2. /\ pc' = "done" /\ Call' = Call /\ Msg' = Msg /\ dAtA' = dAtA /\ calls' = calls /\ msgs' = msgs
    BY <2>1 DEF Finish, Call, Msg
  <2>3. Position(pc', acc', field', Call'.type, Msg', w[Len(calls')], BytesAhead')
    BY <1>3, <2>2 DEF Position
  <2>4. Waits(dAtA', calls', msgs', w)
    BY <2>2 DEF Tracks
  <2> QED BY <2>3, <2>4 DEF Tracks
<1>5. CASE Len(calls) > 1
  <2> DEFINE n == Len(calls) - 1
             into == msgs[n + 1].into
             caller == calls[n]
             old == msgs[n]
             v == IF into.kind = "repeated" THEN Append(old.m[into.name], Msg) ELSE Msg
             m == StoreIn(into, old.m, Msg)
             c == [caller EXCEPT !.iNdEx = caller.iNdEx + Call.l]
             e == [old EXCEPT !.m = m]
  <2>1. n \in Nat \ {0} /\ Len(calls) = n + 1 /\ n \in 1 .. n /\ n \in 1 .. n + 1 /\ n \in 1 .. Len(calls) - 1
    <3>1. n \in Nat \ {0} /\ Len(calls) = n + 1
      BY <1>1, <1>5, CallerBelow, Zenon
    <3> HIDE DEF n
    <3> QED BY <3>1
  <2>2. /\ Outer(calls) \in Seq(CallType) /\ Outer(calls) # <<>>
        /\ Len(Outer(calls)) = n /\ Len(Outer(msgs)) = n /\ Stacked(Outer(calls), Outer(msgs))
    BY <1>0, <1>1, <1>5, Pop
  <2>3. /\ calls' = [Outer(calls) EXCEPT ![n].iNdEx = @ + Call.l]
        /\ msgs' = [Outer(msgs) EXCEPT ![n].m[into.name] =
                         IF into.kind = "repeated" THEN Append(@, Msg) ELSE Msg]
        /\ dAtA' = dAtA /\ pc' = "loop"
    BY <1>0, <1>5 DEF Return
  <2> HIDE DEF n
  <2>4. \A k \in 1 .. n : Outer(calls)[k] = calls[k] /\ Outer(msgs)[k] = msgs[k]
    <3>1. Outer(calls) = SubSeq(calls, 1, n) /\ Outer(msgs) = SubSeq(msgs, 1, n)
      BY <1>1 DEF Outer, n
    <3> QED BY <1>1, <2>1, <3>1
  <2>5. caller \in CallType /\ old \in Entries /\ calls[n + 1] = Call /\ msgs[n + 1].m = Msg
    BY <1>1, <2>1 DEF Call, Msg
  <2>6. caller.off \in Nat /\ caller.l \in Nat /\ caller.iNdEx \in Int /\ Call.l \in Nat
    BY <1>1, <2>5 DEF CallType
  <2>7. Call.off = caller.off + caller.iNdEx /\ 0 <= caller.iNdEx
    <3>1. n \in DOMAIN calls /\ n < Len(calls)
      BY <1>1, <2>1
    <3>2. calls[n + 1].off = calls[n].off + calls[n].iNdEx /\ 0 <= calls[n].iNdEx
      BY <1>0, <3>1 DEF SlicesNest
    <3> QED BY <2>5, <3>2
  <2>8. c \in CallType /\ c.type = caller.type /\ c.off = caller.off /\ c.l = caller.l
        /\ c.iNdEx = caller.iNdEx + Call.l
    <3>1. caller.iNdEx + Call.l \in Int
      BY <2>6
    <3> HIDE DEF caller
    <3> QED BY <2>5, <3>1 DEF CallType
  <2>9. e.into = old.into /\ e.m = m
    <3> DEFINE M == UNION {ReadAs(i) : i \in MessageTypes}
               I == {Nil} \cup UNION {{Schema[i][k] : k \in DOMAIN Schema[i]} : i \in MessageTypes}
    <3>1. old \in [into : I, m : M]
      BY <2>5 DEF Entries
    <3> HIDE DEF M, I, old, m
    <3> QED BY <3>1
  <2>10. n \in DOMAIN Outer(calls) /\ n \in DOMAIN Outer(msgs) /\ Outer(msgs) \in Seq(Entries)
    <3>1. Outer(msgs) \in Seq(Entries)
      BY <2>2 DEF Stacked
    <3> QED BY <2>1, <2>2, <3>1
  <2>11. m = [old.m EXCEPT ![into.name] = v]
    BY DEF StoreIn
  <2>12. calls' = [Outer(calls) EXCEPT ![n] = c] /\ msgs' = [Outer(msgs) EXCEPT ![n] = e]
    <3>1. Outer(calls)[n] = caller /\ Outer(msgs)[n] = old
      BY <2>1, <2>4
    <3>2. calls' = [Outer(calls) EXCEPT ![n] = c]
      BY <2>3, <2>10, <3>1
    <3>3. msgs' = [Outer(msgs) EXCEPT ![n] = [old EXCEPT !.m = [old.m EXCEPT ![into.name] = v]]]
      BY <2>3, <2>10, <3>1
    <3> QED BY <2>11, <3>2, <3>3
  <2> HIDE DEF c, e, m, v, caller, old
  <2>13. Stacked(calls', msgs')
    BY ReturnKeepsMessages DEF DInv
  <2>14. Len(calls') = n /\ calls'[n] = c /\ \A k \in 1 .. n - 1 : calls'[k] = calls[k]
    BY <2>1, <2>2, <2>4, <2>8, <2>12
  <2>15. Len(msgs') = n /\ msgs'[n] = e /\ \A k \in 1 .. n - 1 : msgs'[k] = msgs[k]
    <3>1. msgs' \in Seq(Entries) /\ Len(msgs') = n
      BY <2>13, <2>14 DEF Stacked
    <3>2. msgs'[n] = e
      BY <2>10, <2>12
    <3>3. \A k \in 1 .. n - 1 : msgs'[k] = msgs[k]
      <4> TAKE k \in 1 .. n - 1
      <4>1. k \in 1 .. n /\ k # n
        BY <2>1
      <4>2. k \in DOMAIN Outer(msgs)
        BY <2>1, <2>2, <2>10, <4>1
      <4> QED BY <2>4, <2>12, <4>1, <4>2
    <3> QED BY <3>1, <3>2, <3>3
  <2>16. Call' = c /\ Msg' = m
    BY <2>9, <2>14, <2>15 DEF Call, Msg
  <2>17. SameWaiters(calls, msgs, calls', msgs')
    <3>1. Len(calls') \in Nat /\ Len(calls) \in Nat /\ Len(calls') <= Len(calls)
      BY <1>1, <2>1, <2>14
    <3>2. ASSUME NEW k \in 1 .. n
          PROVE  /\ calls'[k].type = calls[k].type /\ calls'[k].off = calls[k].off
                 /\ calls'[k].l = calls[k].l /\ msgs'[k].into = msgs[k].into
      <4>1. CASE k = n
        BY <2>8, <2>9, <2>14, <2>15, <4>1 DEF caller, old
      <4>2. CASE k # n
        <5>1. k \in 1 .. n - 1
          BY <2>1, <4>2
        <5> QED BY <2>14, <2>15, <5>1
      <4> QED BY <4>1, <4>2
    <3>3. \A k \in 1 .. n - 1 : msgs'[k].m = msgs[k].m
      BY <2>15
    <3> QED BY <2>14, <3>1, <3>2, <3>3 DEF SameWaiters
  <2>18. Waits(dAtA', calls', msgs', w)
    <3>1. Waits(dAtA, calls, msgs, w)
      BY DEF Tracks
    <3>2. Waits(dAtA, calls', msgs', w)
      BY <2>17, <3>1, StillWaits, ZenonT(40)
    <3>3. dAtA' = dAtA
      BY <2>3
    <3> QED BY <3>2, <3>3, ZenonT(40)
  <2>19. Reads(c.type, m, w[n], BytesAhead')
    <3>1. Resumes(dAtA, calls[n], calls[n + 1], msgs[n], msgs[n + 1], w[n], w[n + 1])
      BY <2>1 DEF Tracks, Waits
    <3>2. Reads(caller.type, m, w[n], Segment(dAtA, Call.off + Call.l, caller.off + caller.l))
      BY <1>3, <2>1, <2>5, <3>1 DEF Resumes, caller, old, m
    <3>3. c.off + c.iNdEx = Call.off + Call.l /\ c.off + c.l = caller.off + caller.l
      BY <2>6, <2>7, <2>8
    <3>4. BytesAhead' = Segment(dAtA, Call.off + Call.l, caller.off + caller.l)
      BY <2>3, <2>16, <3>3 DEF BytesAhead
    <3> QED BY <2>8, <3>2, <3>4
  <2>20. Position(pc', acc', field', Call'.type, Msg', w[Len(calls')], BytesAhead')
    BY <2>3, <2>14, <2>16, <2>19 DEF Position
  <2> QED BY <2>18, <2>20 DEF Tracks
<1>6. Len(calls) = 1 \/ Len(calls) > 1
  BY DEF Return
<1> QED BY <1>4, <1>5, <1>6

----------------------------------------------------------------------------
(* Theorems.                                                               *)

\* The type and the bytes of the outermost call stay.
LEMMA StepKeepsInput == PInv /\ Step => Type' = Type /\ dAtA' = dAtA
<1> SUFFICES ASSUME PInv, Step PROVE Type' = Type /\ dAtA' = dAtA
  OBVIOUS
<1> DEFINE n == Len(calls)
<1>0. calls \in Seq(CallType) /\ n \in Nat \ {0} /\ 1 \in 1 .. n
  BY CallFacts DEF PInv, IInv, TypeOK, CallType
<1>1. ASSUME calls' = calls PROVE Type' = Type
  BY <1>1 DEF Type
<1>2. ASSUME NEW i, calls' = [calls EXCEPT ![n].iNdEx = i] PROVE Type' = Type
  <2>1. CASE n = 1
    BY <1>0, <1>2, <2>1 DEF Type, CallType
  <2>2. CASE n # 1
    BY <1>0, <1>2, <2>2 DEF Type
  <2> QED BY <2>1, <2>2
<1>3. ASSUME NEW c, calls' = Append(calls, c) PROVE Type' = Type
  BY <1>0, <1>3 DEF Type
<1>4. ASSUME n > 1, NEW i, calls' = [Outer(calls) EXCEPT ![n - 1].iNdEx = i] PROVE Type' = Type
  <2> DEFINE k == n - 1
             d == Outer(calls)
  <2>1. k \in Nat \ {0} /\ n = k + 1
    BY <1>0, <1>4, CallerBelow, Zenon
  <2> HIDE DEF k
  <2>2. d = SubSeq(calls, 1, k)
    BY DEF Outer, k
  <2> HIDE DEF d
  <2>3. d \in Seq(CallType) /\ Len(d) = k /\ 1 \in 1 .. k /\ d[1] = calls[1]
    BY <1>0, <2>1, <2>2
  <2>4. calls' = [d EXCEPT ![k].iNdEx = i]
    BY <1>4 DEF d, k
  <2>5. CASE k = 1
    BY <2>3, <2>4, <2>5 DEF Type, CallType
  <2>6. CASE k # 1
    BY <2>3, <2>4, <2>6 DEF Type
  <2> QED BY <2>5, <2>6
<1> HIDE DEF n
<1>5. CASE VarintByte
  <2>1. calls' = calls \/ calls' = [calls EXCEPT ![n].iNdEx = @ + 1]
    BY <1>5 DEF VarintByte, Fail, n
  <2>2. dAtA' = dAtA
    BY <1>5 DEF VarintByte, Fail
  <2>3. ASSUME calls' = [calls EXCEPT ![n].iNdEx = @ + 1] PROVE Type' = Type
    <3>1. calls' = [calls EXCEPT ![n].iNdEx = calls[n].iNdEx + 1]
      BY <2>3
    <3> QED BY <1>2, <3>1
  <2> QED BY <1>1, <2>1, <2>2, <2>3
<1>6. CASE Loop
  BY <1>2, <1>6 DEF Loop, GoTo, n
<1>7. CASE TagRead
  <2>1. dAtA' = dAtA /\ (calls' = calls \/ \E i : calls' = [calls EXCEPT ![n].iNdEx = i])
    BY <1>7 DEF TagRead, Fail, GoTo, n
  <2> QED BY <1>1, <1>2, <2>1
<1>8. CASE ValueRead
  BY <1>2, <1>8 DEF ValueRead, GoTo, n
<1>9. CASE LengthRead
  <2>1. /\ dAtA' = dAtA
        /\ \/ calls' = calls
           \/ \E i : calls' = [calls EXCEPT ![n].iNdEx = i]
           \/ \E c : calls' = Append(calls, c)
    BY <1>9 DEF LengthRead, Fail, GoTo, n
  <2> QED BY <1>1, <1>2, <1>3, <2>1
<1>10. CASE Return
  <2>1. \/ \E e : Fail(e)
        \/ Finish
        \/ dAtA' = dAtA /\ n > 1 /\ calls' = [Outer(calls) EXCEPT ![n - 1].iNdEx = @ + Call.l]
    BY <1>10 DEF Return, n
  <2>2. CASE (\E e : Fail(e)) \/ Finish
    BY <1>1, <2>2 DEF Fail, Finish
  <2>3. CASE dAtA' = dAtA /\ n > 1 /\ calls' = [Outer(calls) EXCEPT ![n - 1].iNdEx = @ + Call.l]
    <3>1. calls' = [Outer(calls) EXCEPT ![n - 1].iNdEx = Outer(calls)[n - 1].iNdEx + Call.l]
      BY <2>3
    <3> QED BY <1>4, <2>3, <3>1
  <2> QED BY <2>1, <2>2, <2>3
<1>11. CASE SkipLoop \/ SkipTagRead \/ SkipValueRead \/ SkipLengthRead
  BY <1>1, <1>11 DEF SkipLoop, SkipTagRead, SkipValueRead, SkipLengthRead, SkipTo, Fail
<1>12. CASE Skipped
  <2>1. dAtA' = dAtA /\ (calls' = calls \/ \E i : calls' = [calls EXCEPT ![n].iNdEx = i])
    BY <1>12 DEF Skipped, Fail, SkipTo, GoOnAt, GoTo, n
  <2> QED BY <1>1, <1>2, <2>1
<1> QED BY <1>5, <1>6, <1>7, <1>8, <1>9, <1>10, <1>11, <1>12 DEF Step

\* The bytes that were written lead from one position to the next.
LEMMA StepTracks ==
    ASSUME Generated, Wide, PInv, DInv, NEW w, Tracks(w), Step
    PROVE  \E u : u[1] = w[1] /\ Tracks(u)'
<1>1. CASE VarintByte \/ Loop \/ TagRead \/ ValueRead \/ Return
  <2>1. Tracks(w)'
    BY <1>1, VarintByteTracks, LoopTracks, TagReadTracks, ValueReadTracks, ReturnTracks
  <2> QED BY <2>1
<1>2. CASE LengthRead
  <2>1. field.kind \in {"bytes", "text", "message", "repeated"}
    <3>1. KnownField(Call.type, field) /\ field.kind # "varint" /\ Call.type \in MessageTypes
      <4>1. TypeOK /\ SlicesNest /\ Stacked(calls, msgs)
        BY DEF PInv, IInv, DInv
      <4>2. Call.type \in MessageTypes
        BY <4>1, TopFacts
      <4> QED BY <1>2, <4>2 DEF DInv, LengthRead
    <3>2. PICK k \in DOMAIN Schema[Call.type] : field = Schema[Call.type][k]
      BY <3>1 DEF KnownField
    <3>3. Call.type \in Types /\ k \in DOMAIN Fields[Call.type] /\ field = Fields[Call.type][k]
      BY <3>1, <3>2 DEF Generated
    <3>4. field.kind \in Kinds
      BY <3>3, UnmarshalAssumption
    <3> QED BY <3>1, <3>4 DEF Kinds
  <2>2. CASE field.kind \in {"bytes", "text"}
    <3>1. Tracks(w)'
      BY <1>2, <2>2, BytesReadTrack
    <3> QED BY <3>1
  <2>3. CASE field.kind \in {"message", "repeated"}
    BY <1>2, <2>3, MessageReadTracks
  <2> QED BY <2>1, <2>2, <2>3
<1>3. CASE SkipLoop \/ SkipTagRead \/ SkipValueRead \/ SkipLengthRead \/ Skipped
  BY <1>3, TracksAt DEF SkipLoop, SkipTagRead, SkipValueRead, SkipLengthRead, Skipped
<1> QED BY <1>1, <1>2, <1>3 DEF Step

\* The inductive invariant: if the input is what Marshal returns for m, then the
\* calls under way make m of what is ahead of them.
Written ==
    \A m \in Complete(Type) : dAtA = Marshalled(Type, m) => \E w : w[1] = m /\ Tracks(w)

\* At first all of the bytes are ahead, and the message is a cleared one.
LEMMA InitWritten == Generated /\ UnmarshalVarsInit => Written
<1> SUFFICES ASSUME Generated, UnmarshalVarsInit,
                    NEW m \in Complete(Type), dAtA = Marshalled(Type, m)
             PROVE  \E w : w[1] = m /\ Tracks(w)
  BY DEF Written
<1>1. PICK in \in Inputs : UnmarshalInit(in[1], in[2])
  BY DEF UnmarshalVarsInit
<1>2. PICK t, d : t \in MessageTypes /\ d \in Seq(Byte) /\ UnmarshalInit(t, d)
  BY <1>1, UnmarshalAssumption DEF Generated
<1>3. /\ dAtA = d /\ pc = "loop" /\ calls = <<Frame(t, 0, Len(d))>>
      /\ msgs = <<[into |-> Nil, m |-> Reset[t]]>>
  BY <1>2 DEF UnmarshalInit, Generated
<1>4. /\ Len(calls) = 1 /\ Call.type = t /\ Call.off = 0 /\ Call.l = Len(d) /\ Call.iNdEx = 0
      /\ Msg = Reset[t] /\ Type = t
  BY <1>3 DEF Call, Msg, Frame, Type
<1>5. PICK w : w = [k \in {1} |-> m]
  OBVIOUS
<1>6. w[1] = m
  BY <1>5
<1>7. BytesAhead = d
  <2>1. Call.off + Call.iNdEx = 0 /\ Call.off + Call.l = Len(d)
    BY <1>2, <1>4
  <2> QED BY <1>2, <1>3, <2>1, SegmentWhole DEF BytesAhead
<1>8. Reads(t, Reset[t], m, d)
  BY <1>2, <1>3, <1>4, MarshalledReads
<1>9. Position(pc, acc, field, Call.type, Msg, w[Len(calls)], BytesAhead)
  BY <1>3, <1>4, <1>6, <1>7, <1>8 DEF Position
<1>10. Waits(dAtA, calls, msgs, w)
  BY <1>4 DEF Waits
<1> QED BY <1>6, <1>9, <1>10 DEF Tracks

\* Whatever Unmarshal ends with on the bytes that Marshal returns for a message
\* is that message: no byte of it is refused, lost or taken for another field.
ReadsBack ==
    pc \in Final => \A m \in Complete(Type) : Marshalled(Type, m) = dAtA => pc = "done" /\ Msg = m

\* Unmarshal reads back what Marshal wrote, for every message whose amounts are
\* numbers, of each of the sixteen types.
THEOREM UnmarshalReadsBack ==
    ASSUME Generated, Wide
    PROVE  Spec => []ReadsBack
<1>1. ASSUME UnmarshalVarsInit PROVE Written
  BY <1>1, InitWritten
<1>2. ASSUME PInv, DInv, Written, [Step]_vars PROVE Written'
  <2>1. CASE Step
    <3>1. Type' = Type /\ dAtA' = dAtA
      BY <1>2, <2>1, StepKeepsInput
    <3> SUFFICES ASSUME NEW m \in Complete(Type), dAtA = Marshalled(Type, m)
                 PROVE  \E w : w[1] = m /\ Tracks(w)'
      BY <3>1 DEF Written
    <3>2. PICK w : w[1] = m /\ Tracks(w)
      BY <1>2 DEF Written
    <3>3. \E u : u[1] = w[1] /\ Tracks(u)'
      BY <1>2, <2>1, <3>2, StepTracks
    <3> QED BY <3>2, <3>3
  <2>2. CASE UNCHANGED vars
    BY <1>2, <2>2 DEF vars, Written, Tracks, Type, Call, Msg, BytesAhead
  <2> QED BY <1>2, <2>1, <2>2
<1>3. ASSUME DInv, Written PROVE ReadsBack
  <2> SUFFICES ASSUME pc \in Final, NEW m \in Complete(Type), Marshalled(Type, m) = dAtA
               PROVE  pc = "done" /\ Msg = m
    BY DEF ReadsBack
  <2>1. PICK w : w[1] = m /\ Tracks(w)
    BY <1>3 DEF Written
  <2>2. pc = "done"
    BY <2>1, TracksAt DEF Final
  <2>3. Len(calls) = 1
    BY <1>3, <2>2 DEF DInv
  <2> QED BY <2>1, <2>2, <2>3 DEF Tracks, Position
<1>4. Spec => [](PInv /\ DInv)
  BY MessagesInvariance
<1> QED BY <1>1, <1>2, <1>3, <1>4, PTL DEF Spec

\* The samples are messages that Unmarshal can give back.
Sampled == \A t \in MessageTypes : Samples[t] \subseteq Complete(t)

\* What Marshal wrote, Unmarshal reads back, for every choice of samples.
THEOREM SamplesReadBack ==
    ASSUME Generated, Wide, Sampled
    PROVE  Spec => []RoundTrip
<1>1. ASSUME PInv, DInv, ReadsBack PROVE RoundTrip
  <2> SUFFICES ASSUME pc \in Final, NEW m \in Samples[Type], Encodings[Type][m] = dAtA
               PROVE  pc = "done" /\ Msg = m
    BY DEF RoundTrip
  <2>1. Type \in MessageTypes
    <3>1. calls \in Seq(CallType) /\ 1 \in 1 .. Len(calls)
      BY <1>1, CallFacts DEF PInv, IInv, TypeOK, CallType
    <3>2. calls[1] \in CallType
      BY <3>1
    <3> QED BY <3>2 DEF Generated, Type, CallType
  <2>2. m \in Complete(Type) /\ Encodings[Type][m] = Marshalled(Type, m)
    BY <2>1 DEF Sampled, Encodings, Generated
  <2> QED BY <1>1, <2>2 DEF ReadsBack
<1>2. Spec => [](PInv /\ DInv)
  BY MessagesInvariance
<1>3. Spec => []ReadsBack
  BY UnmarshalReadsBack
<1> QED BY <1>1, <1>2, <1>3, PTL

----------------------------------------------------------------------------
(* What is written of a message that was received.                        *)

\* A coin with the number that is written for one nobody set.
Settled(c) == [Denom |-> c.Denom, Amount |-> AmountText(c)]

SettledPointer(c) == IF c = Nil THEN Nil ELSE Settled(c)

SettledParams(p) == [MinimumBalance |-> Settled(p.MinimumBalance), UpperBound |-> p.UpperBound]

\* The message with the amounts of its coins settled.
SettledMessage(t, m) ==
    CASE t = "Coin" -> Settled(m)
      [] t = "Params" -> SettledParams(m)
      [] t = "QueryParamsResponse" -> [Params |-> SettledParams(m.Params)]
      [] t = "GenesisState" ->
            [Params |-> SettledParams(m.Params), ScheduledCalls |-> m.ScheduledCalls]
      [] t \in {"AddScheduledCallEvent", "RemoveScheduledCallEvent"} ->
            [m EXCEPT !.Balance = SettledPointer(m.Balance)]
      [] t = "ExecuteScheduledCallEvent" ->
            [m EXCEPT !.Gas = SettledPointer(m.Gas),
                      !.BalanceBefore = SettledPointer(m.BalanceBefore)]
      [] OTHER -> m

\* A coin has a number then, and is written as before.
LEMMA SettledCoin ==
    ASSUME NEW c \in ReadCoins
    PROVE  /\ Settled(c) \in ReadCoins /\ IntText(Settled(c).Amount)
           /\ CoinMarshal(Settled(c)) = CoinMarshal(c) /\ CoinSize(Settled(c)) = CoinSize(c)
<1> DEFINE d == Settled(c)
<1>1. c.Denom \in Short /\ c.Amount \in Digits
  BY DEF ReadCoins
<1>2. AmountText(c) \in Digits /\ IntText(AmountText(c)) /\ AmountText(c) # <<>>
  <2>1. <<48>> \in Seq(Byte) /\ IntText(<<48>>) /\ <<48>> # <<>>
    BY DEF Byte, IntText
  <2>2. c.Amount = <<>> \/ (c.Amount \in Seq(Byte) /\ IntText(c.Amount) /\ c.Amount # <<>>)
    BY <1>1 DEF Digits, IntText
  <2> QED BY <2>1, <2>2 DEF AmountText, Digits
<1>3. d.Denom = c.Denom /\ d.Amount = AmountText(c) /\ d \in ReadCoins
  BY <1>1, <1>2 DEF Settled, ReadCoins
<1>4. AmountText(d) = AmountText(c)
  BY <1>2, <1>3 DEF AmountText
<1> HIDE DEF d
<1>5. CoinMarshal(d) = CoinMarshal(c) /\ CoinSize(d) = CoinSize(c)
  BY <1>3, <1>4 DEF CoinMarshal, CoinSize
<1> QED BY <1>2, <1>3, <1>5 DEF d

\* An absent coin is not taken for one that is there.
NilIsNoCoin == Nil \notin ReadCoins

\* The same for a coin that need not be there.
LEMMA SettledCoinPointer ==
    ASSUME NilIsNoCoin, NEW c \in ReadCoins \cup {Nil}, NEW k
    PROVE  /\ SettledPointer(c) \in ReadCoins \cup {Nil}
           /\ SettledPointer(c) = Nil \/ IntText(SettledPointer(c).Amount)
           /\ PointerField(k, SettledPointer(c), CoinMarshal(SettledPointer(c)))
                = PointerField(k, c, CoinMarshal(c))
           /\ PointerSize(SettledPointer(c), CoinSize(SettledPointer(c))) = PointerSize(c, CoinSize(c))
<1>1. CASE c = Nil
  BY <1>1 DEF SettledPointer
<1>2. CASE c # Nil
  <2>1. c \in ReadCoins /\ SettledPointer(c) = Settled(c)
    BY <1>2 DEF SettledPointer
  <2>2. /\ Settled(c) \in ReadCoins /\ IntText(Settled(c).Amount)
        /\ CoinMarshal(Settled(c)) = CoinMarshal(c) /\ CoinSize(Settled(c)) = CoinSize(c)
    BY <2>1, SettledCoin
  <2>3. Settled(c) # Nil
    BY <2>2 DEF NilIsNoCoin
  <2> QED BY <1>2, <2>1, <2>2, <2>3 DEF PointerField, PointerSize
<1> QED BY <1>1, <1>2

\* The same for the coin in the parameters.
LEMMA SettledCoinParams ==
    ASSUME NEW p \in ReadParams
    PROVE  /\ SettledParams(p) \in ReadParams /\ IntText(SettledParams(p).MinimumBalance.Amount)
           /\ ParamsMarshal(SettledParams(p)) = ParamsMarshal(p)
           /\ ParamsSize(SettledParams(p)) = ParamsSize(p)
<1>1. p.MinimumBalance \in ReadCoins /\ p.UpperBound \in Uint64s
  BY DEF ReadParams
<1>2. /\ Settled(p.MinimumBalance) \in ReadCoins /\ IntText(Settled(p.MinimumBalance).Amount)
      /\ CoinMarshal(Settled(p.MinimumBalance)) = CoinMarshal(p.MinimumBalance)
      /\ CoinSize(Settled(p.MinimumBalance)) = CoinSize(p.MinimumBalance)
  BY <1>1, SettledCoin
<1>3. /\ SettledParams(p).MinimumBalance = Settled(p.MinimumBalance)
      /\ SettledParams(p).UpperBound = p.UpperBound
      /\ SettledParams(p) \in ReadParams
  BY <1>1, <1>2 DEF SettledParams, ReadParams
<1> QED BY <1>2, <1>3 DEF ParamsMarshal, ParamsSize

\* The message with its amounts settled is read back, and written as before.
LEMMA SettledIsWritten ==
    ASSUME NilIsNoCoin, NEW t \in MessageTypes, NEW m \in ReadAs(t)
    PROVE  /\ SettledMessage(t, m) \in Complete(t)
           /\ Marshalled(t, SettledMessage(t, m)) = Marshalled(t, m)
<1>0. PICK s : s = SettledMessage(t, m)
  OBVIOUS
<1> SUFFICES s \in Complete(t) /\ Marshalled(t, s) = Marshalled(t, m)
  BY <1>0
<1>1. ASSUME s \in ReadAs(t), AmountsSet(t, s), WritesOf(t, s) = WritesOf(t, m), SizeOf(t, s) = SizeOf(t, m)
      PROVE  s \in Complete(t) /\ Marshalled(t, s) = Marshalled(t, m)
  <2>1. s \in MessagesOf(t)
    BY <1>1, ReadIsMessage
  <2> QED BY <1>1, <2>1 DEF Complete, Marshalled, Buffer
<1>2. CASE t = "Coin"
  <2>1. m \in ReadCoins /\ s = Settled(m)
    BY <1>0, <1>2 DEF ReadAs, SettledMessage
  <2>2. s \in ReadCoins /\ IntText(s.Amount) /\ CoinMarshal(s) = CoinMarshal(m) /\ CoinSize(s) = CoinSize(m)
    BY <2>1, SettledCoin
  <2> QED BY <1>1, <1>2, <2>2 DEF ReadAs, AmountsSet, WritesOf, SizeOf
<1>3. CASE t = "Params"
  <2>1. m \in ReadParams /\ s = SettledParams(m)
    BY <1>0, <1>3 DEF ReadAs, SettledMessage
  <2>2. /\ s \in ReadParams /\ IntText(s.MinimumBalance.Amount)
        /\ ParamsMarshal(s) = ParamsMarshal(m) /\ ParamsSize(s) = ParamsSize(m)
    BY <2>1, SettledCoinParams
  <2> QED BY <1>1, <1>3, <2>2 DEF ReadAs, AmountsSet, WritesOf, SizeOf
<1>4. CASE t = "QueryParamsResponse"
  <2>1. /\ m \in [Params : ReadParams] /\ s = [Params |-> SettledParams(m.Params)]
        /\ s.Params = SettledParams(m.Params) /\ m.Params \in ReadParams
    BY <1>0, <1>4 DEF ReadAs, SettledMessage
  <2>2. /\ s.Params \in ReadParams /\ IntText(s.Params.MinimumBalance.Amount)
        /\ ParamsMarshal(s.Params) = ParamsMarshal(m.Params) /\ ParamsSize(s.Params) = ParamsSize(m.Params)
    BY <2>1, SettledCoinParams
  <2>3. s \in [Params : ReadParams]
    BY <2>1, <2>2
  <2>4. /\ QueryParamsResponseMarshal(s) = QueryParamsResponseMarshal(m)
        /\ QueryParamsResponseSize(s) = QueryParamsResponseSize(m)
    BY <2>2 DEF QueryParamsResponseMarshal, QueryParamsResponseSize
  <2> QED BY <1>1, <1>4, <2>2, <2>3, <2>4 DEF ReadAs, AmountsSet, WritesOf, SizeOf
<1>5. CASE t = "GenesisState"
  <2>1. /\ m \in [Params : ReadParams, ScheduledCalls : Seq(ListedAdds)]
        /\ s = [Params |-> SettledParams(m.Params), ScheduledCalls |-> m.ScheduledCalls]
        /\ s.Params = SettledParams(m.Params) /\ m.Params \in ReadParams
        /\ s.ScheduledCalls = m.ScheduledCalls /\ m.ScheduledCalls \in Seq(ListedAdds)
    BY <1>0, <1>5 DEF ReadAs, SettledMessage
  <2>2. /\ s.Params \in ReadParams /\ IntText(s.Params.MinimumBalance.Amount)
        /\ ParamsMarshal(s.Params) = ParamsMarshal(m.Params) /\ ParamsSize(s.Params) = ParamsSize(m.Params)
    BY <2>1, SettledCoinParams
  <2>3. s \in [Params : ReadParams, ScheduledCalls : Seq(ListedAdds)]
    BY <2>1, <2>2
  <2>4. GenesisStateMarshal(s) = GenesisStateMarshal(m) /\ GenesisStateSize(s) = GenesisStateSize(m)
    BY <2>1, <2>2 DEF GenesisStateMarshal, GenesisStateSize
  <2> QED BY <1>1, <1>5, <2>2, <2>3, <2>4 DEF ReadAs, AmountsSet, WritesOf, SizeOf
<1>6. CASE t = "AddScheduledCallEvent"
  <2>1. m \in ReadAddEvents /\ s = [m EXCEPT !.Balance = SettledPointer(m.Balance)]
    BY <1>0, <1>6 DEF ReadAs, SettledMessage
  <2>2. m.Balance \in ReadCoins \cup {Nil}
    BY <2>1 DEF ReadAddEvents
  <2>3. /\ s.Balance = SettledPointer(m.Balance) /\ s.CallBody = m.CallBody /\ s.Contract = m.Contract
        /\ s.Signer = m.Signer /\ s.ScheduledHeight = m.ScheduledHeight /\ s.BlockHeight = m.BlockHeight
    BY <2>1 DEF ReadAddEvents
  <2>4. /\ s.Balance \in ReadCoins \cup {Nil} /\ (s.Balance = Nil \/ IntText(s.Balance.Amount))
        /\ PointerField(42, s.Balance, CoinMarshal(s.Balance)) = PointerField(42, m.Balance, CoinMarshal(m.Balance))
        /\ PointerSize(s.Balance, CoinSize(s.Balance)) = PointerSize(m.Balance, CoinSize(m.Balance))
    BY <2>2, <2>3, SettledCoinPointer
  <2>5. s \in ReadAddEvents
    BY <2>1, <2>3, <2>4 DEF ReadAddEvents
  <2>6. /\ AddScheduledCallEventMarshal(s) = AddScheduledCallEventMarshal(m)
        /\ AddScheduledCallEventSize(s) = AddScheduledCallEventSize(m)
    BY <2>3, <2>4 DEF AddScheduledCallEventMarshal, AddScheduledCallEventSize
  <2> QED BY <1>1, <1>6, <2>4, <2>5, <2>6 DEF ReadAs, AmountsSet, WritesOf, SizeOf
<1>7. CASE t = "RemoveScheduledCallEvent"
  <2>1. m \in ReadRemoveEvents /\ s = [m EXCEPT !.Balance = SettledPointer(m.Balance)]
    BY <1>0, <1>7 DEF ReadAs, SettledMessage
  <2>2. m.Balance \in ReadCoins \cup {Nil}
    BY <2>1 DEF ReadRemoveEvents
  <2>3. /\ s.Balance = SettledPointer(m.Balance) /\ s.CallBody = m.CallBody /\ s.Contract = m.Contract
        /\ s.Signer = m.Signer /\ s.BlockHeight = m.BlockHeight
    BY <2>1 DEF ReadRemoveEvents
  <2>4. /\ s.Balance \in ReadCoins \cup {Nil} /\ (s.Balance = Nil \/ IntText(s.Balance.Amount))
        /\ PointerField(42, s.Balance, CoinMarshal(s.Balance)) = PointerField(42, m.Balance, CoinMarshal(m.Balance))
        /\ PointerSize(s.Balance, CoinSize(s.Balance)) = PointerSize(m.Balance, CoinSize(m.Balance))
    BY <2>2, <2>3, SettledCoinPointer
  <2>5. s \in ReadRemoveEvents
    BY <2>1, <2>3, <2>4 DEF ReadRemoveEvents
  <2>6. /\ RemoveScheduledCallEventMarshal(s) = RemoveScheduledCallEventMarshal(m)
        /\ RemoveScheduledCallEventSize(s) = RemoveScheduledCallEventSize(m)
    BY <2>3, <2>4 DEF RemoveScheduledCallEventMarshal, RemoveScheduledCallEventSize
  <2> QED BY <1>1, <1>7, <2>4, <2>5, <2>6 DEF ReadAs, AmountsSet, WritesOf, SizeOf
<1>8. CASE t = "ExecuteScheduledCallEvent"
  <2>1. /\ m \in ReadExecuteEvents
        /\ s = [m EXCEPT !.Gas = SettledPointer(m.Gas), !.BalanceBefore = SettledPointer(m.BalanceBefore)]
    BY <1>0, <1>8 DEF ReadAs, SettledMessage
  <2>2. m.Gas \in ReadCoins \cup {Nil} /\ m.BalanceBefore \in ReadCoins \cup {Nil}
    BY <2>1 DEF ReadExecuteEvents
  <2>3. /\ s.Gas = SettledPointer(m.Gas) /\ s.BalanceBefore = SettledPointer(m.BalanceBefore)
        /\ s.CallBody = m.CallBody /\ s.Contract = m.Contract
        /\ s.Signer = m.Signer /\ s.BlockHeight = m.BlockHeight
    BY <2>1 DEF ReadExecuteEvents
  <2>4. /\ s.Gas \in ReadCoins \cup {Nil} /\ (s.Gas = Nil \/ IntText(s.Gas.Amount))
        /\ PointerField(18, s.Gas, CoinMarshal(s.Gas)) = PointerField(18, m.Gas, CoinMarshal(m.Gas))
        /\ PointerSize(s.Gas, CoinSize(s.Gas)) = PointerSize(m.Gas, CoinSize(m.Gas))
    BY <2>2, <2>3, SettledCoinPointer
  <2>5. /\ s.BalanceBefore \in ReadCoins \cup {Nil}
        /\ (s.BalanceBefore = Nil \/ IntText(s.BalanceBefore.Amount))
        /\ PointerField(42, s.BalanceBefore, CoinMarshal(s.BalanceBefore))
             = PointerField(42, m.BalanceBefore, CoinMarshal(m.BalanceBefore))
        /\ PointerSize(s.BalanceBefore, CoinSize(s.BalanceBefore))
             = PointerSize(m.BalanceBefore, CoinSize(m.BalanceBefore))
    BY <2>2, <2>3, SettledCoinPointer
  <2>6. s \in ReadExecuteEvents
    BY <2>1, <2>3, <2>4, <2>5 DEF ReadExecuteEvents
  <2>7. /\ ExecuteScheduledCallEventMarshal(s) = ExecuteScheduledCallEventMarshal(m)
        /\ ExecuteScheduledCallEventSize(s) = ExecuteScheduledCallEventSize(m)
    BY <2>3, <2>4, <2>5 DEF ExecuteScheduledCallEventMarshal, ExecuteScheduledCallEventSize
  <2> QED BY <1>1, <1>8, <2>4, <2>5, <2>6, <2>7 DEF ReadAs, AmountsSet, WritesOf, SizeOf
<1>9. CASE t \notin {"Coin", "Params", "QueryParamsResponse", "GenesisState", "AddScheduledCallEvent",
                     "RemoveScheduledCallEvent", "ExecuteScheduledCallEvent"}
  <2>1. s = m /\ AmountsSet(t, m)
    BY <1>0, <1>9 DEF SettledMessage, AmountsSet
  <2> QED BY <1>1, <2>1
<1> QED BY <1>2, <1>3, <1>4, <1>5, <1>6, <1>7, <1>8, <1>9

\* What is written of a message that was received is written of one that
\* UnmarshalReadsBack is about.
WrittenAgain ==
    pc = "done" => \E m \in Complete(Type) : Marshalled(Type, m) = Marshalled(Type, Msg)

\* A node that relays what it decoded writes bytes that are read back, whatever
\* bytes it received.
THEOREM ReceivedIsWrittenAgain ==
    ASSUME Generated, NilIsNoCoin
    PROVE  Spec => []WrittenAgain
<1>1. ASSUME PInv, DInv PROVE WrittenAgain
  <2> SUFFICES ASSUME pc = "done"
               PROVE  \E m \in Complete(Type) : Marshalled(Type, m) = Marshalled(Type, Msg)
    BY DEF WrittenAgain
  <2>1. Len(calls) = 1 /\ Stacked(calls, msgs) /\ TypeOK /\ SlicesNest
    BY <1>1 DEF DInv, PInv, IInv
  <2>2. Call = calls[1] /\ Call.type \in MessageTypes /\ Msg \in ReadAs(Call.type)
    BY <2>1, TopFacts DEF Call
  <2> QED BY <2>2, SettledIsWritten DEF Type
<1> QED BY <1>1, MessagesInvariance, PTL

=============================================================================
