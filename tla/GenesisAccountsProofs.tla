----------------------- MODULE GenesisAccountsProofs -----------------------
(***************************************************************************)
(* Genesis files that add-genesis-account writes, for every number of      *)
(* commands, addresses and denominations and every set of amounts and      *)
(* times: accounts, balances and supply belong together however commands   *)
(* overlap, and commands that do not overlap never lose an account.        *)
(***************************************************************************)
EXTENDS GenesisAccounts, FiniteSetTheorems, WellFoundedInduction, TLAPS

AccountType ==
    [address : Addresses, vesting : Vestings, kind : {"base", "continuous", "delayed"},
     start : Starts \cup {0}, end : Ends \cup {0}]

BalanceType == [address : Addresses, coins : Coins]

\* No address twice, and in order.
Ordered(balances) ==
    \A m, n \in DOMAIN balances : m < n => balances[m].address < balances[n].address

\* sums holds the totals of the first 0, 1, 2, ... balances.
RunningTotals(balances, sums) ==
    /\ sums \in [0 .. Len(balances) -> [Denoms -> Nat]]
    /\ sums[0] = NoCoins
    /\ \A n \in 1 .. Len(balances) : sums[n] = Sum(sums[n - 1], balances[n].coins)

\* t is s with b put behind its first k balances.
Inserted(s, b, k, t) ==
    /\ \A n \in 1 .. k : t[n] = s[n]
    /\ t[k + 1] = b
    /\ \A n \in k + 2 .. Len(s) + 1 : t[n] = s[n - 1]

\* What a genesis file and the document of a command have of the properties.
Corresponding(doc) ==
    /\ \A a, b \in doc.accounts : a.address = b.address => a = b
    /\ Len(doc.balances) = Cardinality(doc.accounts)
    /\ {doc.balances[n].address : n \in DOMAIN doc.balances}
          = {a.address : a \in doc.accounts}

Covered(doc) ==
    \A a \in doc.accounts, n \in DOMAIN doc.balances :
        doc.balances[n].address = a.address /\ ~IsZero(a.vesting) =>
            LET coins == doc.balances[n].coins
            IN  ~IsZero(coins) /\ \A d \in Denoms : coins[d] # 0 => a.vesting[d] <= coins[d]

Sound(doc) ==
    /\ doc.accounts \subseteq AccountType /\ IsFiniteSet(doc.accounts)
    /\ doc.balances \in Seq(BalanceType)
    /\ Ordered(doc.balances)
    /\ Corresponding(doc)
    /\ Covered(doc)
    /\ \E sums : RunningTotals(doc.balances, sums) /\ sums[Len(doc.balances)] = doc.supply

\* The inductive invariant: a document is as sound as the file it was read from.
IInv ==
    /\ Sound(file)
    /\ DOMAIN genDoc = Commands
    /\ \A c \in Commands : genDoc[c] # NoFile => Sound(genDoc[c])
    /\ overlap \in BOOLEAN

----------------------------------------------------------------------------
(* Sorting and adding up.                                                  *)

\* A set of natural numbers that is not empty has a least member.
LEMMA LeastMember ==
    ASSUME NEW S \in SUBSET Nat, S # {}
    PROVE  \E n \in S : \A m \in S : n <= m
<1>1. PICK n \in S : \A m \in S : ~(<<m, n>> \in OpToRel(<, Nat))
  BY NatLessThanWellFounded, WFMin
<1>2. \A m \in S : ~(m < n)
  BY <1>1 DEF OpToRel
<1> QED BY <1>2

\* There is only one way to put different numbers in order.
LEMMA OneOrder ==
    ASSUME NEW N \in Nat, NEW f \in [1 .. N -> Nat],
           \A i, j \in 1 .. N : f[i] = f[j] => i = j,
           NEW p \in Bijection(1 .. N, 1 .. N), NEW q \in Bijection(1 .. N, 1 .. N),
           \A m, n \in 1 .. N : m < n => f[p[m]] <= f[p[n]],
           \A m, n \in 1 .. N : m < n => f[q[m]] <= f[q[n]]
    PROVE  p = q
<1>1. /\ p \in [1 .. N -> 1 .. N] /\ q \in [1 .. N -> 1 .. N]
      /\ \A i, j \in 1 .. N : (p[i] = p[j] => i = j) /\ (q[i] = q[j] => i = j)
      /\ \A i \in 1 .. N : (\E j \in 1 .. N : p[j] = i) /\ (\E j \in 1 .. N : q[j] = i)
  BY DEF Bijection, Injection, Surjection, IsInjective
<1> DEFINE D == {n \in 1 .. N : p[n] # q[n]}
<1>2. SUFFICES ASSUME D # {} PROVE FALSE
  BY <1>1
<1>3. PICK i \in D : \A m \in D : i <= m
  <2>1. D \in SUBSET Nat
    OBVIOUS
  <2> HIDE DEF D
  <2> QED BY <1>2, <2>1, LeastMember
<1>4. i \in 1 .. N /\ p[i] # q[i] /\ \A m \in 1 .. N : m < i => p[m] = q[m]
  BY <1>3
<1>5. PICK j \in 1 .. N : p[j] = q[i]
  BY <1>1, <1>4
<1>6. PICK k \in 1 .. N : q[k] = p[i]
  BY <1>1, <1>4
<1>7. i < j /\ i < k
  <2>1. j # i /\ k # i
    BY <1>4, <1>5, <1>6
  <2>2. ~(j < i)
    <3>1. SUFFICES ASSUME j < i PROVE FALSE
      OBVIOUS
    <3>2. q[j] = q[i]
      BY <1>4, <1>5, <3>1
    <3> QED BY <1>1, <1>4, <2>1, <3>2
  <2>3. ~(k < i)
    <3>1. SUFFICES ASSUME k < i PROVE FALSE
      OBVIOUS
    <3>2. p[k] = p[i]
      BY <1>4, <1>6, <3>1
    <3> QED BY <1>1, <1>4, <2>1, <3>2
  <2> QED BY <1>4, <2>1, <2>2, <2>3
<1>8. f[p[i]] <= f[q[i]] /\ f[q[i]] <= f[p[i]]
  BY <1>4, <1>5, <1>6, <1>7
<1>9. f[p[i]] \in Nat /\ f[q[i]] \in Nat /\ p[i] \in 1 .. N /\ q[i] \in 1 .. N
  BY <1>1, <1>4
<1>10. f[p[i]] = f[q[i]]
  BY <1>8, <1>9
<1> QED BY <1>4, <1>9, <1>10

\* A balance of a new address is put in its place between the others.
LEMMA SortInserts ==
    ASSUME NEW s \in Seq(BalanceType), Ordered(s), NEW b \in BalanceType,
           \A n \in DOMAIN s : s[n].address # b.address
    PROVE  LET t == SanitizeGenesisBalances(Append(s, b))
           IN  /\ t \in Seq(BalanceType) /\ Len(t) = Len(s) + 1
               /\ Ordered(t)
               /\ \E k \in 0 .. Len(s) : Inserted(s, b, k, t)
<1> DEFINE N == Len(s) + 1
           a == Append(s, b)
           f == [n \in 1 .. N |-> a[n].address]
<1>1. /\ Len(s) \in Nat /\ DOMAIN s = 1 .. Len(s) /\ DOMAIN a = 1 .. N
      /\ \A n \in 1 .. Len(s) : a[n] = s[n] /\ s[n] \in BalanceType
      /\ a[N] = b
  OBVIOUS
<1>2. \A n \in 1 .. N : a[n] \in BalanceType
  BY <1>1
<1>3. f \in [1 .. N -> Nat]
  BY <1>2, GenesisAccountsAssumption DEF BalanceType
<1> DEFINE J == {n \in 1 .. N : n = N \/ b.address < s[n].address}
<1>4. PICK j \in J : \A m \in J : j <= m
  <2>1. J \in SUBSET Nat /\ J # {}
    BY <1>1
  <2> HIDE DEF J
  <2> QED BY <2>1, LeastMember
<1> DEFINE k == j - 1
<1>5. k \in 0 .. Len(s) /\ j \in 1 .. N
  BY <1>1, <1>4
<1>6. /\ \A n \in 1 .. k : s[n].address < b.address
      /\ \A n \in k + 1 .. Len(s) : b.address < s[n].address
  <2>1. b.address \in Nat /\ \A n \in 1 .. Len(s) : s[n].address \in Nat
    BY <1>1, GenesisAccountsAssumption DEF BalanceType
  <2>2. \A n \in 1 .. k : s[n].address < b.address
    BY <1>1, <1>4, <1>5, <2>1
  <2>3. ASSUME NEW n \in k + 1 .. Len(s) PROVE b.address < s[n].address
    <3>1. j \in 1 .. Len(s) /\ b.address < s[j].address
      BY <1>1, <1>4, <1>5, <2>3
    <3>2. CASE n = j
      BY <3>1, <3>2
    <3>3. CASE j < n
      <4>1. n \in 1 .. Len(s)
        BY <1>1, <1>5, <2>3
      <4>2. s[j].address < s[n].address
        BY <1>1, <3>1, <3>3, <4>1 DEF Ordered
      <4> QED BY <2>1, <3>1, <4>1, <4>2
    <3> QED BY <1>1, <1>5, <3>2, <3>3
  <2> QED BY <2>2, <2>3
<1> DEFINE o == [n \in 1 .. N |-> IF n <= k THEN n ELSE IF n = k + 1 THEN N ELSE n - 1]
           u == [n \in 1 .. N |-> IF n <= k THEN s[n] ELSE IF n = k + 1 THEN b ELSE s[n - 1]]
<1> HIDE DEF k
<1>7. o \in Bijection(1 .. N, 1 .. N)
  <2>1. o \in [1 .. N -> 1 .. N]
    BY <1>1, <1>5
  <2>2. \A m, n \in 1 .. N : o[m] = o[n] => m = n
    BY <1>1, <1>5
  <2>3. \A m \in 1 .. N : \E n \in 1 .. N : o[n] = m
    <3> SUFFICES ASSUME NEW m \in 1 .. N PROVE \E n \in 1 .. N : o[n] = m
      OBVIOUS
    <3>1. CASE m <= k
      <4>1. o[m] = m
        BY <3>1
      <4> QED BY <4>1
    <3>2. CASE m = N
      <4>1. k + 1 \in 1 .. N /\ o[k + 1] = N
        BY <1>1, <1>5
      <4> QED BY <3>2, <4>1
    <3>3. CASE k < m /\ m < N
      <4>1. m + 1 \in 1 .. N /\ o[m + 1] = m
        BY <1>1, <1>5, <3>3
      <4> QED BY <4>1
    <3> QED BY <1>1, <1>5, <3>1, <3>2, <3>3
  <2> HIDE DEF o
  <2> QED BY <2>1, <2>2, <2>3 DEF Bijection, Injection, Surjection, IsInjective
<1>8. Rearranged(a, o) = u
  <2>1. \A n \in 1 .. N : a[o[n]] = u[n]
    BY <1>1, <1>5
  <2> QED BY <1>1, <2>1 DEF Rearranged
<1>9. \A n \in 1 .. N : u[n] \in BalanceType
  BY <1>1, <1>5
<1>10. u \in Seq(BalanceType) /\ Len(u) = N /\ DOMAIN u = 1 .. N
  BY <1>1, <1>9
<1>11. Ordered(u)
  <2> SUFFICES ASSUME NEW m \in 1 .. N, NEW n \in 1 .. N, m < n
               PROVE  u[m].address < u[n].address
    BY <1>10 DEF Ordered
  <2>1. CASE n <= k
    <3>1. u[m] = s[m] /\ u[n] = s[n] /\ m \in 1 .. Len(s) /\ n \in 1 .. Len(s)
      BY <1>1, <1>5, <2>1
    <3> QED BY <1>1, <3>1 DEF Ordered
  <2>2. CASE n = k + 1
    <3>1. u[m] = s[m] /\ u[n] = b /\ m \in 1 .. k
      BY <1>1, <1>5, <2>2
    <3> QED BY <1>6, <3>1
  <2>3. CASE n > k + 1 /\ m <= k
    <3>1. u[m] = s[m] /\ u[n] = s[n - 1] /\ m \in 1 .. Len(s) /\ n - 1 \in 1 .. Len(s) /\ m < n - 1
      BY <1>1, <1>5, <2>3
    <3> QED BY <1>1, <3>1 DEF Ordered
  <2>4. CASE n > k + 1 /\ m = k + 1
    <3>1. u[m] = b /\ u[n] = s[n - 1] /\ n - 1 \in k + 1 .. Len(s)
      BY <1>1, <1>5, <2>4
    <3> QED BY <1>6, <3>1
  <2>5. CASE m > k + 1
    <3>1. /\ u[m] = s[m - 1] /\ u[n] = s[n - 1]
          /\ m - 1 \in 1 .. Len(s) /\ n - 1 \in 1 .. Len(s) /\ m - 1 < n - 1
      BY <1>1, <1>5, <2>5
    <3> QED BY <1>1, <3>1 DEF Ordered
  <2> QED BY <1>1, <1>5, <2>1, <2>2, <2>3, <2>4, <2>5
<1>12. \A m, n \in 1 .. N : m < n => f[o[m]] < f[o[n]]
  <2>1. \A n \in 1 .. N : o[n] \in 1 .. N /\ f[o[n]] = u[n].address
    BY <1>1, <1>5
  <2> QED BY <1>10, <1>11, <2>1 DEF Ordered
<1>13. \A i, i2 \in 1 .. N : f[i] = f[i2] => i = i2
  <2>1. \A i \in 1 .. N : \E m \in 1 .. N : o[m] = i
    BY <1>7 DEF Bijection, Surjection
  <2>2. \A m \in 1 .. N : o[m] \in 1 .. N
    BY <1>1, <1>5
  <2> HIDE DEF o, f
  <2>3. ASSUME NEW m \in 1 .. N, NEW n \in 1 .. N, f[o[m]] = f[o[n]]
        PROVE  m = n
    <3>1. f[o[m]] \in Nat /\ f[o[n]] \in Nat
      BY <1>3, <2>2
    <3>2. ~(m < n) /\ ~(n < m)
      BY <1>12, <2>3, <3>1
    <3> QED BY <1>1, <3>2
  <2>4. ASSUME NEW i \in 1 .. N, NEW i2 \in 1 .. N, f[i] = f[i2]
        PROVE  i = i2
    <3>1. PICK m \in 1 .. N : o[m] = i
      BY <2>1
    <3>2. PICK n \in 1 .. N : o[n] = i2
      BY <2>1
    <3> QED BY <2>3, <2>4, <3>1, <3>2
  <2> QED BY <2>4
<1> DEFINE p == CHOOSE order \in Bijection(1 .. N, 1 .. N) : InOrder(Rearranged(a, order))
<1> HIDE DEF a
<1>14. SanitizeGenesisBalances(a) = Rearranged(a, p)
  BY <1>1 DEF SanitizeGenesisBalances
<1>15. \A order \in Bijection(1 .. N, 1 .. N) :
          InOrder(Rearranged(a, order)) <=>
             \A m, n \in 1 .. N : m < n => f[order[m]] <= f[order[n]]
  BY <1>1 DEF InOrder, Rearranged, Bijection, Injection
<1>16. InOrder(Rearranged(a, o))
  <2>1. \A m \in 1 .. N : o[m] \in 1 .. N
    BY <1>7 DEF Bijection, Injection
  <2> HIDE DEF o, f
  <2>2. \A m, n \in 1 .. N : f[o[m]] \in Nat /\ f[o[n]] \in Nat
    BY <1>3, <2>1
  <2>3. \A m, n \in 1 .. N : m < n => f[o[m]] <= f[o[n]]
    BY <1>12, <2>2
  <2> QED BY <1>7, <1>15, <2>3
<1>17. p \in Bijection(1 .. N, 1 .. N) /\ InOrder(Rearranged(a, p))
  <2> HIDE DEF o
  <2> QED BY <1>7, <1>16
<1>18. p = o
  <2> HIDE DEF p, o, f, N
  <2>1. N \in Nat
    BY <1>1 DEF N
  <2> QED BY <1>3, <1>7, <1>13, <1>15, <1>16, <1>17, <2>1, OneOrder
<1>19. SanitizeGenesisBalances(a) = u
  BY <1>8, <1>14, <1>18
<1>20. Inserted(s, b, k, u)
  BY <1>1, <1>5 DEF Inserted
<1> HIDE DEF u
<1> QED BY <1>5, <1>10, <1>11, <1>19, <1>20 DEF a

\* Adding coins up in any order gives the same.
LEMMA SumFacts ==
    /\ NoCoins \in [Denoms -> Nat]
    /\ \A a, b \in [Denoms -> Nat] : Sum(a, b) \in [Denoms -> Nat]
    /\ \A a, b, c \in [Denoms -> Nat] : Sum(Sum(a, b), c) = Sum(Sum(a, c), b)
  BY DEF NoCoins, Sum

\* A balance that is put between others adds its coins to all totals from there.
LEMMA TotalsAfterInsert ==
    ASSUME NEW s \in Seq(BalanceType), NEW sums, RunningTotals(s, sums),
           NEW t \in Seq(BalanceType), Len(t) = Len(s) + 1,
           NEW b \in BalanceType, NEW k \in 0 .. Len(s), Inserted(s, b, k, t)
    PROVE  \E sums2 : /\ RunningTotals(t, sums2)
                      /\ sums2[Len(t)] = Sum(sums[Len(s)], b.coins)
<1> DEFINE N == Len(s)
           sums2 == [n \in 0 .. N + 1 |-> IF n <= k THEN sums[n] ELSE Sum(sums[n - 1], b.coins)]
<1>1. /\ N \in Nat /\ k \in Nat /\ k <= N
      /\ b.coins \in [Denoms -> Nat]
      /\ \A n \in 1 .. N : s[n].coins \in [Denoms -> Nat]
  <2>1. N \in Nat /\ k \in Nat /\ k <= N
    OBVIOUS
  <2>2. \A x \in BalanceType : x.coins \in [Denoms -> Nat]
    BY GenesisAccountsAssumption DEF BalanceType
  <2>3. \A n \in 1 .. N : s[n] \in BalanceType
    OBVIOUS
  <2> HIDE DEF N
  <2> QED BY <2>1, <2>2, <2>3
<1>2. /\ sums \in [0 .. N -> [Denoms -> Nat]] /\ sums[0] = NoCoins
      /\ \A n \in 1 .. N : sums[n] = Sum(sums[n - 1], s[n].coins)
  BY DEF RunningTotals
<1>3. sums2 \in [0 .. N + 1 -> [Denoms -> Nat]]
  <2> SUFFICES ASSUME NEW n \in 0 .. N + 1 PROVE sums2[n] \in [Denoms -> Nat]
    OBVIOUS
  <2>1. CASE n <= k
    <3>1. n \in 0 .. N /\ sums2[n] = sums[n]
      BY <1>1, <2>1
    <3> HIDE DEF sums2
    <3> QED BY <1>2, <3>1
  <2>2. CASE n > k
    <3>1. n - 1 \in 0 .. N /\ sums2[n] = Sum(sums[n - 1], b.coins)
      BY <1>1, <2>2
    <3>2. sums[n - 1] \in [Denoms -> Nat]
      BY <1>2, <3>1
    <3>3. Sum(sums[n - 1], b.coins) \in [Denoms -> Nat]
      <4> HIDE DEF N, sums2
      <4> QED BY <1>1, <3>2, SumFacts
    <3> HIDE DEF sums2
    <3> QED BY <3>1, <3>3
  <2> QED BY <1>1, <2>1, <2>2
<1>4. sums2[0] = NoCoins
  BY <1>1, <1>2
<1>5. ASSUME NEW n \in 1 .. N + 1
      PROVE  sums2[n] = Sum(sums2[n - 1], t[n].coins)
  <2>1. CASE n <= k
    <3>1. sums2[n] = sums[n] /\ sums2[n - 1] = sums[n - 1] /\ t[n] = s[n] /\ n \in 1 .. N
      BY <1>1, <2>1 DEF Inserted
    <3> QED BY <1>2, <3>1
  <2>2. CASE n = k + 1
    <3>1. sums2[n] = Sum(sums[n - 1], b.coins) /\ sums2[n - 1] = sums[n - 1] /\ t[n] = b
      BY <1>1, <2>2 DEF Inserted
    <3> QED BY <3>1
  <2>3. CASE n > k + 1
    <3>1. /\ sums2[n] = Sum(sums[n - 1], b.coins)
          /\ sums2[n - 1] = Sum(sums[n - 2], b.coins)
          /\ t[n] = s[n - 1]
          /\ n - 1 \in 1 .. N /\ n - 2 \in 0 .. N /\ (n - 1) - 1 = n - 2
      BY <1>1, <2>3 DEF Inserted
    <3>2. sums[n - 1] = Sum(sums[n - 2], s[n - 1].coins)
      BY <1>2, <3>1
    <3>3. /\ sums[n - 2] \in [Denoms -> Nat]
          /\ s[n - 1].coins \in [Denoms -> Nat]
      BY <1>1, <1>2, <3>1
    <3>4. Sum(Sum(sums[n - 2], s[n - 1].coins), b.coins)
             = Sum(Sum(sums[n - 2], b.coins), s[n - 1].coins)
      BY <1>1, <3>3, SumFacts
    <3> HIDE DEF sums2
    <3> QED BY <3>1, <3>2, <3>4
  <2> QED BY <1>1, <2>1, <2>2, <2>3
<1>6. sums2[N + 1] = Sum(sums[N], b.coins)
  BY <1>1
<1> HIDE DEF sums2
<1>7. RunningTotals(t, sums2)
  BY <1>1, <1>3, <1>4, <1>5 DEF RunningTotals
<1> QED BY <1>6, <1>7

\* Total is the last of the running totals.
LEMMA TotalIsLast ==
    ASSUME NEW s \in Seq(BalanceType), NEW sums, RunningTotals(s, sums)
    PROVE  Total(s) = sums[Len(s)]
<1> DEFINE N == Len(s)
           Adds(g) == g = [n \in 0 .. N |-> IF n = 0 THEN NoCoins ELSE Sum(g[n - 1], s[n].coins)]
           first == CHOOSE g : Adds(g)
<1>1. N \in Nat
  OBVIOUS
<1>2. Adds(sums)
  BY <1>1 DEF RunningTotals
<1>3. Adds(first)
  <2> HIDE DEF Adds
  <2> QED BY <1>2
<1>4. Total(s) = first[N]
  BY DEF Total
<1> HIDE DEF first
<1> DEFINE D == {n \in 0 .. N : first[n] # sums[n]}
<1>5. D = {}
  <2>1. SUFFICES ASSUME D # {} PROVE FALSE
    OBVIOUS
  <2>2. PICK i \in D : \A m \in D : i <= m
    <3>1. D \in SUBSET Nat
      BY <1>1
    <3> HIDE DEF D
    <3> QED BY <2>1, <3>1, LeastMember
  <2>3. i \in 0 .. N /\ first[i] # sums[i]
    OBVIOUS
  <2>4. CASE i = 0
    BY <1>1, <1>2, <1>3, <2>3, <2>4
  <2>5. CASE i # 0
    <3>1. i - 1 \in 0 .. N /\ i - 1 \notin D
      BY <1>1, <2>2, <2>3, <2>5
    <3>2. first[i - 1] = sums[i - 1]
      BY <3>1
    <3>3. first[i] = Sum(first[i - 1], s[i].coins) /\ sums[i] = Sum(sums[i - 1], s[i].coins)
      BY <1>2, <1>3, <2>3, <2>5
    <3> QED BY <2>3, <3>2, <3>3
  <2> QED BY <2>4, <2>5
<1> QED BY <1>1, <1>4, <1>5

----------------------------------------------------------------------------
(* Documents.                                                              *)

\* A command adds an account, its balance and its coins to a sound document.
LEMMA WithAccountSound ==
    ASSUME NEW doc, Sound(doc), NEW account \in AccountType, NEW coins \in Coins,
           \A a \in doc.accounts : a.address # account.address,
           ~IsZero(account.vesting) => ~ExceedsTotal(coins, account.vesting)
    PROVE  Sound(WithAccount(doc, account, coins))
<1> DEFINE s == doc.balances
           b == [address |-> account.address, coins |-> coins]
           t == SanitizeGenesisBalances(Append(s, b))
           new == WithAccount(doc, account, coins)
<1>1. /\ new.accounts = doc.accounts \cup {account}
      /\ new.balances = t
      /\ new.supply = Sum(doc.supply, coins)
  BY DEF WithAccount, Appended, SupplyWith
<1> HIDE DEF new
<1>2. b \in BalanceType /\ b.address = account.address /\ b.coins = coins
  BY DEF BalanceType, AccountType
<1> HIDE DEF b
<1>3. s \in Seq(BalanceType) /\ Ordered(s) /\ Corresponding(doc) /\ Covered(doc)
  BY DEF Sound
<1>4. \A n \in DOMAIN s : s[n].address # b.address
  BY <1>2, <1>3 DEF Corresponding
<1>5. t \in Seq(BalanceType) /\ Len(t) = Len(s) + 1 /\ Ordered(t)
  BY <1>2, <1>3, <1>4, SortInserts
<1>6. PICK k \in 0 .. Len(s) : Inserted(s, b, k, t)
  BY <1>2, <1>3, <1>4, SortInserts
<1> HIDE DEF t
<1>7. Len(s) \in Nat /\ DOMAIN s = 1 .. Len(s) /\ DOMAIN t = 1 .. Len(s) + 1
  BY <1>3, <1>5
<1>8. \A n \in DOMAIN t : t[n] = b \/ \E m \in DOMAIN s : t[n] = s[m]
  <2> SUFFICES ASSUME NEW n \in DOMAIN t PROVE t[n] = b \/ \E m \in DOMAIN s : t[n] = s[m]
    OBVIOUS
  <2>1. CASE n <= k
    BY <1>6, <1>7, <2>1 DEF Inserted
  <2>2. CASE n = k + 1
    BY <1>6, <2>2 DEF Inserted
  <2>3. CASE n > k + 1
    <3>1. n \in k + 2 .. Len(s) + 1 /\ n - 1 \in DOMAIN s
      BY <1>7, <2>3
    <3> QED BY <1>6, <3>1 DEF Inserted
  <2> QED BY <1>7, <2>1, <2>2, <2>3
<1>9. \A m \in DOMAIN s : \E n \in DOMAIN t : t[n] = s[m]
  <2> SUFFICES ASSUME NEW m \in DOMAIN s PROVE \E n \in DOMAIN t : t[n] = s[m]
    OBVIOUS
  <2>1. CASE m <= k
    BY <1>6, <1>7, <2>1 DEF Inserted
  <2>2. CASE m > k
    <3>1. m + 1 \in k + 2 .. Len(s) + 1 /\ m + 1 \in DOMAIN t /\ (m + 1) - 1 = m
      BY <1>7, <2>2
    <3> QED BY <1>6, <3>1 DEF Inserted
  <2> QED BY <1>7, <2>1, <2>2
<1>10. \E n \in DOMAIN t : t[n] = b
  BY <1>6, <1>7 DEF Inserted
<1>11. /\ new.accounts \subseteq AccountType /\ IsFiniteSet(new.accounts)
       /\ Cardinality(new.accounts) = Cardinality(doc.accounts) + 1
  BY <1>1, FS_AddElement DEF Sound
<1>12. Corresponding(new)
  <2>1. \A a, a2 \in new.accounts : a.address = a2.address => a = a2
    BY <1>1, <1>3 DEF Corresponding
  <2>2. Len(t) = Cardinality(new.accounts)
    BY <1>3, <1>5, <1>11 DEF Corresponding
  <2>3. {t[n].address : n \in DOMAIN t}
           = {s[m].address : m \in DOMAIN s} \cup {account.address}
    BY <1>2, <1>8, <1>9, <1>10
  <2>4. {t[n].address : n \in DOMAIN t} = {a.address : a \in new.accounts}
    BY <1>1, <1>3, <2>3, ZenonT(40) DEF Corresponding
  <2> QED BY <1>1, <2>1, <2>2, <2>4, ZenonT(40) DEF Corresponding
<1>13. Covered(new)
  <2> SUFFICES ASSUME NEW a \in new.accounts, NEW n \in DOMAIN t,
                      t[n].address = a.address, ~IsZero(a.vesting)
               PROVE  /\ ~IsZero(t[n].coins)
                      /\ \A d \in Denoms : t[n].coins[d] # 0 => a.vesting[d] <= t[n].coins[d]
    BY <1>1 DEF Covered
  <2>1. CASE t[n] = b
    <3>1. a = account
      BY <1>1, <1>2, <2>1
    <3>2. ~IsZero(coins) /\ \A d \in Denoms : coins[d] # 0 => ~(a.vesting[d] > coins[d])
      BY <3>1 DEF ExceedsTotal, IsAnyGT
    <3>3. \A d \in Denoms : coins[d] \in Nat /\ a.vesting[d] \in Nat
      BY <3>1, GenesisAccountsAssumption DEF AccountType
    <3> QED BY <1>2, <2>1, <3>2, <3>3
  <2>2. CASE t[n] # b
    <3>1. PICK m \in DOMAIN s : t[n] = s[m]
      BY <1>8, <2>2
    <3>2. a \in doc.accounts
      BY <1>1, <1>2, <1>4, <3>1
    <3> QED BY <1>3, <3>1, <3>2 DEF Covered
  <2> QED BY <2>1, <2>2
<1>14. \E sums : RunningTotals(t, sums) /\ sums[Len(t)] = new.supply
  <2>1. PICK sums : RunningTotals(s, sums) /\ sums[Len(s)] = doc.supply
    BY DEF Sound
  <2> HIDE DEF s
  <2>2. \E sums2 : RunningTotals(t, sums2) /\ sums2[Len(t)] = Sum(sums[Len(s)], b.coins)
    <3>1. s \in Seq(BalanceType) /\ t \in Seq(BalanceType) /\ Len(t) = Len(s) + 1 /\ b \in BalanceType
      BY <1>2, <1>3, <1>5
    <3>2. RunningTotals(s, sums)
      BY <2>1
    <3>3. k \in 0 .. Len(s)
      OBVIOUS
    <3> QED BY <1>6, <3>1, <3>2, <3>3, TotalsAfterInsert
  <2> QED BY <1>1, <1>2, <2>1, <2>2 DEF s
<1>15. new.balances \in Seq(BalanceType) /\ Ordered(new.balances)
  BY <1>1, <1>5
<1>16. Sound(new)
  BY <1>1, <1>11, <1>12, <1>13, <1>14, <1>15 DEF Sound
<1> QED BY <1>16 DEF new

\* The empty file is sound.
LEMMA InitIInv == Init => IInv
<1> SUFFICES ASSUME Init PROVE IInv
  OBVIOUS
<1>1. file.accounts = {} /\ file.balances = <<>> /\ file.supply = NoCoins
  BY DEF Init
<1>2. IsFiniteSet({}) /\ Cardinality({}) = 0
  BY FS_EmptySet
<1>3. Corresponding(file) /\ Covered(file) /\ Ordered(file.balances)
  BY <1>1, <1>2 DEF Corresponding, Covered, Ordered
<1>4. RunningTotals(<<>>, [n \in 0 .. 0 |-> NoCoins])
  BY SumFacts DEF RunningTotals
<1>5. \E sums : RunningTotals(file.balances, sums) /\ sums[Len(file.balances)] = file.supply
  <2>1. [n \in 0 .. 0 |-> NoCoins][Len(file.balances)] = file.supply
    BY <1>1
  <2> QED BY <1>1, <1>4, <2>1
<1>6. file.balances \in Seq(BalanceType)
  BY <1>1
<1>7. Sound(file)
  BY <1>1, <1>2, <1>3, <1>5, <1>6 DEF Sound
<1> QED BY <1>7 DEF Init, IInv

\* The account the flags describe has its type.
LEMMA AccountTyped ==
    ASSUME NEW arg \in Addresses \cup KeyNames, NEW vestingAmt \in Vestings,
           NEW start \in Starts, NEW end \in Ends
    PROVE  /\ Account(AccAddress(arg), vestingAmt, start, end) \in AccountType
           /\ Account(AccAddress(arg), vestingAmt, start, end).address = AccAddress(arg)
           /\ Account(AccAddress(arg), vestingAmt, start, end).vesting = vestingAmt
<1>1. AccAddress(arg) \in Addresses
  BY GenesisAccountsAssumption DEF AccAddress
<1> QED BY <1>1 DEF Account, AccountType

\* A command that reads a sound file has a sound document.
LEMMA AddKeepsIInv ==
    ASSUME IInv, NEW c \in Commands, NEW arg \in Addresses \cup KeyNames, NEW coins \in Coins,
           NEW vestingAmt \in Vestings, NEW start \in Starts, NEW end \in Ends,
           AddGenesisAccount(c, arg, coins, vestingAmt, start, end)
    PROVE  IInv'
<1> DEFINE account == Account(AccAddress(arg), vestingAmt, start, end)
           doc == WithAccount(file, account, coins)
<1>1. /\ ~IsZero(vestingAmt) => ~ExceedsTotal(coins, vestingAmt)
      /\ ~Contains(file.accounts, arg)
      /\ genDoc' = [genDoc EXCEPT ![c] = doc]
      /\ overlap' \in BOOLEAN /\ file' = file
  BY DEF AddGenesisAccount
<1>2. account \in AccountType /\ account.address = AccAddress(arg) /\ account.vesting = vestingAmt
  BY AccountTyped
<1> HIDE DEF account
<1>3. Sound(doc)
  <2>1. \A a \in file.accounts : a.address # account.address
    BY <1>1, <1>2 DEF Contains
  <2> QED BY <1>1, <1>2, <2>1, WithAccountSound DEF IInv
<1> HIDE DEF doc
<1> QED BY <1>1, <1>3 DEF IInv

\* Every file and document is sound, however commands overlap.
THEOREM FileInvariance == Spec => []IInv
<1>1. IInv /\ [Next]_vars => IInv'
  <2> SUFFICES ASSUME IInv, [Next]_vars PROVE IInv'
    OBVIOUS
  <2>1. CASE UNCHANGED vars
    BY <2>1 DEF vars, IInv
  <2>2. ASSUME NEW c \in Commands, ExportGenesisFile(c) PROVE IInv'
    BY <2>2 DEF ExportGenesisFile, IInv
  <2>3. ASSUME NEW c \in Commands, Interrupt(c) PROVE IInv'
    BY <2>3 DEF Interrupt, IInv
  <2> QED BY <2>1, <2>2, <2>3, AddKeepsIInv DEF Next
<1> QED BY <1>1, InitIInv, PTL DEF Spec

\* The genesis file keeps its type: accounts and balances are of addresses,
\* also for accounts given by the name of a key.
THEOREM FileTypeCorrect == Spec => []TypeOK
<1>1. IInv => TypeOK
  <2> SUFFICES ASSUME IInv PROVE TypeOK
    OBVIOUS
  <2>1. PICK sums : /\ RunningTotals(file.balances, sums)
                    /\ sums[Len(file.balances)] = file.supply
    BY DEF IInv, Sound
  <2>2. file.balances \in Seq(BalanceType)
    BY DEF IInv, Sound
  <2>3. file.supply \in [Denoms -> Nat]
    BY <2>1, <2>2 DEF RunningTotals
  <2>4. \A n \in DOMAIN file.balances : file.balances[n] \in BalanceType
    BY <2>2
  <2> QED BY <2>3, <2>4 DEF IInv, Sound, TypeOK, AccountType, BalanceType
<1> QED BY <1>1, FileInvariance, PTL

\* The supply of the genesis file is the total of its balances: the command
\* adds the same coins to both, and sorting the balances changes no total.
THEOREM SupplyAddsUp == Spec => []SupplyIsTotal
<1>1. IInv => SupplyIsTotal
  BY TotalIsLast DEF IInv, Sound, SupplyIsTotal
<1> QED BY <1>1, FileInvariance, PTL

\* Every address of the file has one account and one balance, by whatever name
\* the command was given and however commands overlap.
THEOREM AccountsAndBalances == Spec => []OneBalanceEach
<1>1. IInv => OneBalanceEach
  BY DEF IInv, Sound, Corresponding, OneBalanceEach
<1> QED BY <1>1, FileInvariance, PTL

\* What vests is covered by the balance in every coin the balance holds.
THEOREM VestingIsCovered == Spec => []VestingCovered
<1>1. IInv => VestingCovered
  BY DEF IInv, Sound, Covered, VestingCovered
<1> QED BY <1>1, FileInvariance, PTL

----------------------------------------------------------------------------
(* Commands that do not overlap.                                           *)

UnderWay == {c \in Commands : genDoc[c] # NoFile}

\* As long as no two commands were under way together there is at most one,
\* and its document has the accounts of the file and perhaps one more: nobody
\* has written the file since the command read it.
DocumentIsCurrent ==
    /\ DOMAIN genDoc = Commands
    /\ ~overlap =>
          /\ \A c, d \in UnderWay : c = d
          /\ \A c \in UnderWay : file.accounts \subseteq genDoc[c].accounts

\* At the start no command has read the file.
LEMMA InitCurrent == Init => DocumentIsCurrent
  BY DEF Init, DocumentIsCurrent, UnderWay

\* A command that reads the file alone has the accounts of the file.
LEMMA AddKeepsCurrent ==
    ASSUME DocumentIsCurrent, NEW c \in Commands, NEW arg, NEW coins, NEW vestingAmt,
           NEW start, NEW end, AddGenesisAccount(c, arg, coins, vestingAmt, start, end)
    PROVE  DocumentIsCurrent'
<1> DEFINE account == Account(AccAddress(arg), vestingAmt, start, end)
           doc == WithAccount(file, account, coins)
<1>1. /\ genDoc' = [genDoc EXCEPT ![c] = doc]
      /\ overlap' = (overlap \/ \E other \in Commands : genDoc[other] # NoFile)
      /\ file' = file
  BY DEF AddGenesisAccount
<1>2. file.accounts \subseteq doc.accounts
  <2>1. doc.accounts = file.accounts \cup {account}
    BY DEF WithAccount, Appended
  <2> QED BY <2>1
<1> HIDE DEF doc
<1>3. DOMAIN genDoc' = Commands
  BY <1>1 DEF DocumentIsCurrent
<1>4. ASSUME ~overlap' PROVE UnderWay' \subseteq {c}
  BY <1>1, <1>4 DEF UnderWay, DocumentIsCurrent
<1>5. genDoc'[c] = doc
  BY <1>1 DEF DocumentIsCurrent
<1> QED BY <1>1, <1>2, <1>3, <1>4, <1>5 DEF DocumentIsCurrent

\* A command that ends, with or without writing, leaves no other under way that
\* read the file before.
LEMMA EndKeepsCurrent ==
    ASSUME DocumentIsCurrent, NEW c \in Commands, ExportGenesisFile(c) \/ Interrupt(c)
    PROVE  DocumentIsCurrent'
<1>1. /\ genDoc[c] # NoFile /\ genDoc' = [genDoc EXCEPT ![c] = NoFile]
      /\ overlap' = overlap
  BY DEF ExportGenesisFile, Interrupt
<1>2. c \in UnderWay
  BY <1>1 DEF UnderWay
<1>3. UnderWay' \subseteq UnderWay \ {c}
  BY <1>1 DEF UnderWay, DocumentIsCurrent
<1>4. ~overlap => UnderWay' = {}
  BY <1>2, <1>3 DEF DocumentIsCurrent
<1>5. DOMAIN genDoc' = Commands
  BY <1>1 DEF DocumentIsCurrent
<1> QED BY <1>1, <1>4, <1>5 DEF DocumentIsCurrent

\* Only a write changes the file, and one that did not overlap with another
\* command keeps all accounts.
LEMMA StepKeepsAccounts ==
    ASSUME DocumentIsCurrent, [Next]_vars
    PROVE  /\ DocumentIsCurrent'
           /\ ~overlap' => file.accounts \subseteq file'.accounts
<1>1. CASE UNCHANGED vars
  BY <1>1 DEF vars, DocumentIsCurrent, UnderWay
<1>2. ASSUME NEW c \in Commands, NEW arg, NEW coins, NEW vestingAmt, NEW start, NEW end,
             AddGenesisAccount(c, arg, coins, vestingAmt, start, end)
      PROVE  DocumentIsCurrent' /\ file' = file
  <2>1. DocumentIsCurrent'
    BY <1>2, AddKeepsCurrent
  <2>2. file' = file
    BY <1>2 DEF AddGenesisAccount
  <2> QED BY <2>1, <2>2
<1>3. ASSUME NEW c \in Commands, ExportGenesisFile(c)
      PROVE  DocumentIsCurrent' /\ (~overlap' => file.accounts \subseteq file'.accounts)
  <2>1. file' = genDoc[c] /\ overlap' = overlap /\ c \in UnderWay
    BY <1>3 DEF ExportGenesisFile, UnderWay
  <2> QED BY <1>3, <2>1, EndKeepsCurrent DEF DocumentIsCurrent
<1>4. ASSUME NEW c \in Commands, Interrupt(c)
      PROVE  DocumentIsCurrent' /\ file' = file
  BY <1>4, EndKeepsCurrent DEF Interrupt
<1> QED BY <1>1, <1>2, <1>3, <1>4 DEF Next

\* The command reads the file, adds to what it read and writes it back, and
\* nothing in it locks the file: run one after the other, interrupted or not,
\* commands keep every account that was in the file.
THEOREM AccountsKept == Spec => KeptInTurn
<1>1. DocumentIsCurrent /\ [Next]_vars => DocumentIsCurrent'
  BY StepKeepsAccounts
<1>2. DocumentIsCurrent /\ [Next]_vars => [~overlap' => file.accounts \subseteq file'.accounts]_vars
  BY StepKeepsAccounts
<1> QED BY <1>1, <1>2, InitCurrent, PTL DEF Spec, KeptInTurn

=============================================================================
