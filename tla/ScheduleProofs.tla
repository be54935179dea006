--------------------------- MODULE ScheduleProofs ---------------------------
(***************************************************************************)
(* The safety of x/schedule for every set of addresses, every bound and    *)
(* every behaviour of the environment.                                     *)
(*                                                                         *)
(* The inductive invariant is IInv: the types, the agreement of the two    *)
(* indexes, NoMissedCall, HorizonBounded, and that the iterator only holds *)
(* entries that are still in the store.  The first part of the module is   *)
(* about the store alone: what each keeper function does to the domains of *)
(* the indexes, and that it keeps StoreType and StoreAgrees.  The last two *)
(* parts are about chains that are restarted from an exported genesis and  *)
(* about the contracts whose calls are run.                                *)
(***************************************************************************)
EXTENDS Genesis, TLAPS

\* TypeOK and IndexAgrees, as predicates on a store.
StoreType(st) ==
    /\ DOMAIN st.byHeight \subseteq Keys
    /\ \A k \in DOMAIN st.byHeight : st.byHeight[k] \in Values
    /\ DOMAIN st.byName \subseteq Pairs
    /\ \A p \in DOMAIN st.byName : st.byName[p] \in Values

StoreAgrees(st) ==
    \A h \in Heights, s \in Signers, c \in Contracts :
        (/\ <<h, s, c>> \in DOMAIN st.byHeight
         /\ st.byHeight[<<h, s, c>>].kind = "call")
        <=> (/\ <<s, c>> \in DOMAIN st.byName
             /\ st.byName[<<s, c>>] = Uint64ToBigEndian(h))

\* The iterator is closed outside the EndBlocker and holds present entries.
IteratorSound ==
    /\ phase = "deliver" => todo = {}
    /\ todo \subseteq DOMAIN store.byHeight

IInv == TypeOK /\ IndexAgrees /\ NoMissedCall /\ HorizonBounded /\ IteratorSound

----------------------------------------------------------------------------
(* The store.                                                              *)

\* A height below the bound is positive and not the garbage a call decodes to.
LEMMA HeightFacts ==
    /\ Heights \subseteq Nat
    /\ \A h \in Heights : h # 0 /\ h # GarbageHeight
    /\ GarbageHeight # 0
    /\ GarbageHeight \notin Heights
BY StoreAssumption DEF Heights

\* The two encoders write different values, and Uint64ToBigEndian is injective.
LEMMA ValueFacts ==
    /\ \A b \in Bodies : Marshal(b) \in Values /\ Marshal(b).kind = "call"
                         /\ Marshal(b).body = b
    /\ \A h \in Heights : Uint64ToBigEndian(h) \in Values
    /\ \A h : Uint64ToBigEndian(h).kind = "height"
    /\ \A h, g : Uint64ToBigEndian(h) = Uint64ToBigEndian(g) => h = g
    /\ \A b, h : Marshal(b) # Uint64ToBigEndian(h)
<1>1. \A b, h : Marshal(b) # Uint64ToBigEndian(h)
  <2>1. \A b : Marshal(b).kind = "call"
    BY DEF Marshal
  <2>2. \A h : Uint64ToBigEndian(h).kind = "height"
    BY DEF Uint64ToBigEndian
  <2> QED BY <2>1, <2>2
<1>2. \A h, g : Uint64ToBigEndian(h) = Uint64ToBigEndian(g) => h = g
  <2>1. \A h : Uint64ToBigEndian(h).height = h
    BY DEF Uint64ToBigEndian
  <2> QED BY <2>1
<1> QED BY <1>1, <1>2 DEF Marshal, Uint64ToBigEndian, Values

\* AddScheduledCall for a pair without a call keeps the store well formed and
\* adds one key to the height index.
LEMMA AddFacts ==
    ASSUME NEW st, StoreType(st), StoreAgrees(st),
           NEW s \in Signers, NEW c \in Contracts, NEW body \in Bodies,
           NEW h \in Heights,
           <<s, c>> \notin DOMAIN st.byName
    PROVE  LET st2 == AddScheduledCall(st, s, c, body, h)
           IN  /\ StoreType(st2)
               /\ StoreAgrees(st2)
               /\ DOMAIN st2.byHeight = DOMAIN st.byHeight \cup {<<h, s, c>>}
<1> DEFINE st2 == AddScheduledCall(st, s, c, body, h)
<1>1. /\ st2.byHeight = Put(st.byHeight, <<h, s, c>>, Marshal(body))
      /\ st2.byName = Put(st.byName, <<s, c>>, Uint64ToBigEndian(h))
  BY DEF AddScheduledCall, MakeScheduledCallByBlockHeightKey,
         MakeScheduledCallBySignerContractKey
<1> HIDE DEF st2
<1>2. /\ DOMAIN st2.byHeight = DOMAIN st.byHeight \cup {<<h, s, c>>}
      /\ st2.byHeight[<<h, s, c>>] = Marshal(body)
      /\ \A k \in DOMAIN st.byHeight :
            k # <<h, s, c>> => st2.byHeight[k] = st.byHeight[k]
  BY <1>1 DEF Put
<1>3. /\ DOMAIN st2.byName = DOMAIN st.byName \cup {<<s, c>>}
      /\ st2.byName[<<s, c>>] = Uint64ToBigEndian(h)
      /\ \A p \in DOMAIN st.byName :
            p # <<s, c>> => st2.byName[p] = st.byName[p]
  BY <1>1 DEF Put
<1>4. StoreType(st2)
  BY <1>2, <1>3, ValueFacts DEF StoreType, Keys, Pairs
<1>5. StoreAgrees(st2)
  <2> SUFFICES ASSUME NEW g \in Heights, NEW t \in Signers, NEW d \in Contracts
               PROVE  (/\ <<g, t, d>> \in DOMAIN st2.byHeight
                       /\ st2.byHeight[<<g, t, d>>].kind = "call")
                      <=> (/\ <<t, d>> \in DOMAIN st2.byName
                           /\ st2.byName[<<t, d>>] = Uint64ToBigEndian(g))
    BY DEF StoreAgrees
  <2>1. CASE <<t, d>> # <<s, c>>
    <3>1. <<g, t, d>> # <<h, s, c>>
      BY <2>1
    <3> QED BY <1>2, <1>3, <2>1, <3>1 DEF StoreAgrees
  <2>2. CASE <<t, d>> = <<s, c>> /\ g = h
    BY <1>2, <1>3, <2>2, ValueFacts
  <2>3. CASE <<t, d>> = <<s, c>> /\ g # h
    <3>1. <<g, t, d>> # <<h, s, c>>
      BY <2>3
    <3>2. ~(/\ <<g, t, d>> \in DOMAIN st.byHeight
            /\ st.byHeight[<<g, t, d>>].kind = "call")
      BY <2>3 DEF StoreAgrees
    <3>3. st2.byName[<<t, d>>] # Uint64ToBigEndian(g)
      BY <1>3, <2>3, ValueFacts
    <3> QED BY <1>2, <3>1, <3>2, <3>3
  <2> QED BY <2>1, <2>2, <2>3
<1> QED BY <1>2, <1>4, <1>5 DEF st2

\* removeScheduledCallWithBlockHeight, told the height the name index holds if
\* it holds one, keeps the store well formed and removes that key.
LEMMA RemoveFacts ==
    ASSUME NEW st, StoreType(st), StoreAgrees(st),
           NEW s \in Signers, NEW c \in Contracts, NEW h \in Nat,
           \A g \in Heights :
              (/\ <<s, c>> \in DOMAIN st.byName
               /\ st.byName[<<s, c>>] = Uint64ToBigEndian(g)) => g = h
    PROVE  LET st2 == removeScheduledCallWithBlockHeight(st, s, c, h)
           IN  /\ StoreType(st2)
               /\ StoreAgrees(st2)
               /\ DOMAIN st2.byHeight = DOMAIN st.byHeight \ {<<h, s, c>>}
               /\ DOMAIN st2.byName = DOMAIN st.byName \ {<<s, c>>}
<1> DEFINE st2 == removeScheduledCallWithBlockHeight(st, s, c, h)
<1>1. /\ st2.byHeight = Delete(st.byHeight, <<h, s, c>>)
      /\ st2.byName = Delete(st.byName, <<s, c>>)
  BY DEF removeScheduledCallWithBlockHeight, MakeScheduledCallByBlockHeightKey,
         MakeScheduledCallBySignerContractKey
<1> HIDE DEF st2
<1>2. /\ DOMAIN st2.byHeight = DOMAIN st.byHeight \ {<<h, s, c>>}
      /\ \A k \in DOMAIN st2.byHeight : st2.byHeight[k] = st.byHeight[k]
  BY <1>1 DEF Delete
<1>3. /\ DOMAIN st2.byName = DOMAIN st.byName \ {<<s, c>>}
      /\ \A p \in DOMAIN st2.byName : st2.byName[p] = st.byName[p]
  BY <1>1 DEF Delete
<1>4. StoreType(st2)
  BY <1>2, <1>3 DEF StoreType
<1>5. StoreAgrees(st2)
  <2> SUFFICES ASSUME NEW g \in Heights, NEW t \in Signers, NEW d \in Contracts
               PROVE  (/\ <<g, t, d>> \in DOMAIN st2.byHeight
                       /\ st2.byHeight[<<g, t, d>>].kind = "call")
                      <=> (/\ <<t, d>> \in DOMAIN st2.byName
                           /\ st2.byName[<<t, d>>] = Uint64ToBigEndian(g))
    BY DEF StoreAgrees
  <2>1. CASE <<t, d>> # <<s, c>>
    <3>1. <<g, t, d>> # <<h, s, c>>
      BY <2>1
    <3> QED BY <1>2, <1>3, <2>1, <3>1 DEF StoreAgrees
  <2>2. CASE <<t, d>> = <<s, c>>
    <3>1. t = s /\ d = c
      BY <2>2
    <3>2. <<t, d>> \notin DOMAIN st2.byName
      BY <1>3, <2>2
    <3>3. CASE g = h
      BY <1>2, <3>1, <3>2, <3>3
    <3>4. CASE g # h
      <4>1. ~(/\ <<g, t, d>> \in DOMAIN st.byHeight
              /\ st.byHeight[<<g, t, d>>].kind = "call")
        BY <3>1, <3>4 DEF StoreAgrees
      <4> QED BY <1>2, <3>2, <4>1
    <3> QED BY <3>3, <3>4
  <2> QED BY <2>1, <2>2
<1> QED BY <1>2, <1>3, <1>4, <1>5 DEF st2

\* Removing a key that only a cut address makes changes neither index.
LEMMA RemoveCutFacts ==
    ASSUME NEW st, StoreType(st), StoreAgrees(st),
           NEW s, NEW c, NEW h, s \notin Signers
    PROVE  LET st2 == removeScheduledCallWithBlockHeight(st, s, c, h)
           IN  /\ StoreType(st2)
               /\ StoreAgrees(st2)
               /\ DOMAIN st2.byHeight = DOMAIN st.byHeight
<1> DEFINE st2 == removeScheduledCallWithBlockHeight(st, s, c, h)
<1>1. /\ st2.byHeight = Delete(st.byHeight, <<h, s, c>>)
      /\ st2.byName = Delete(st.byName, <<s, c>>)
  BY DEF removeScheduledCallWithBlockHeight, MakeScheduledCallByBlockHeightKey,
         MakeScheduledCallBySignerContractKey
<1> HIDE DEF st2
<1>2. <<h, s, c>> \notin DOMAIN st.byHeight
  <2>1. <<h, s, c>> \notin Keys
    BY DEF Keys
  <2> QED BY <2>1 DEF StoreType
<1>3. <<s, c>> \notin DOMAIN st.byName
  <2>1. <<s, c>> \notin Pairs
    BY DEF Pairs
  <2> QED BY <2>1 DEF StoreType
<1>4. /\ DOMAIN st2.byHeight = DOMAIN st.byHeight
      /\ \A k \in DOMAIN st2.byHeight : st2.byHeight[k] = st.byHeight[k]
  BY <1>1, <1>2 DEF Delete
<1>5. /\ DOMAIN st2.byName = DOMAIN st.byName
      /\ \A p \in DOMAIN st2.byName : st2.byName[p] = st.byName[p]
  BY <1>1, <1>3 DEF Delete
<1>6. StoreType(st2)
  BY <1>4, <1>5 DEF StoreType
<1>7. StoreAgrees(st2)
  <2> SUFFICES ASSUME NEW g \in Heights, NEW t \in Signers, NEW d \in Contracts
               PROVE  (/\ <<g, t, d>> \in DOMAIN st2.byHeight
                       /\ st2.byHeight[<<g, t, d>>].kind = "call")
                      <=> (/\ <<t, d>> \in DOMAIN st2.byName
                           /\ st2.byName[<<t, d>>] = Uint64ToBigEndian(g))
    BY DEF StoreAgrees
  <2>1. (/\ <<g, t, d>> \in DOMAIN st.byHeight
         /\ st.byHeight[<<g, t, d>>].kind = "call")
        <=> (/\ <<t, d>> \in DOMAIN st.byName
             /\ st.byName[<<t, d>>] = Uint64ToBigEndian(g))
    BY DEF StoreAgrees
  <2> QED BY <1>4, <1>5, <2>1
<1> QED BY <1>4, <1>6, <1>7 DEF st2

\* What BlockHeightForSignerContract returns is the height the name index
\* holds, if it holds one; it is 0 exactly when the pair is absent.
LEMMA LookupFacts ==
    ASSUME NEW st, StoreType(st), NEW s \in Signers, NEW c \in Contracts
    PROVE  LET h == BlockHeightForSignerContract(st, s, c)
           IN  /\ h \in Nat
               /\ h = 0 <=> <<s, c>> \notin DOMAIN st.byName
               /\ \A g \in Heights :
                     (/\ <<s, c>> \in DOMAIN st.byName
                      /\ st.byName[<<s, c>>] = Uint64ToBigEndian(g)) => g = h
<1> DEFINE h == BlockHeightForSignerContract(st, s, c)
<1>1. CASE <<s, c>> \notin DOMAIN st.byName
  BY <1>1 DEF BlockHeightForSignerContract, MakeScheduledCallBySignerContractKey
<1>2. CASE <<s, c>> \in DOMAIN st.byName
  <2> DEFINE v == st.byName[<<s, c>>]
  <2>1. v \in Values
    BY <1>2 DEF StoreType
  <2>2. h = BigEndianToUint64(v)
    BY <1>2 DEF BlockHeightForSignerContract, MakeScheduledCallBySignerContractKey
  <2> HIDE DEF h, v
  <2>3. h \in Nat /\ h # 0
    BY <2>1, <2>2, HeightFacts, StoreAssumption DEF BigEndianToUint64, Values
  <2>4. \A g \in Heights : v = Uint64ToBigEndian(g) => g = h
    BY <2>2 DEF BigEndianToUint64, Uint64ToBigEndian
  <2> QED BY <1>2, <2>3, <2>4 DEF h, v
<1> QED BY <1>1, <1>2

\* ReScheduleCall keeps the types and the agreement: it makes the pair's call
\* undecodable in both indexes.  It replaces the old key by the new one.
LEMMA ReScheduleFacts ==
    ASSUME NEW st, StoreType(st), StoreAgrees(st),
           NEW s \in Signers, NEW c \in Contracts, NEW body \in Bodies,
           NEW old \in Nat, NEW new \in Heights,
           \A g \in Heights :
              (/\ <<s, c>> \in DOMAIN st.byName
               /\ st.byName[<<s, c>>] = Uint64ToBigEndian(g)) => g = old
    PROVE  LET st2 == ReScheduleCall(st, s, c, body, old, new)
           IN  /\ StoreType(st2)
               /\ StoreAgrees(st2)
               /\ DOMAIN st2.byHeight
                    = (DOMAIN st.byHeight \ {<<old, s, c>>}) \cup {<<new, s, c>>}
<1> DEFINE rest == removeScheduledCallWithBlockHeight(st, s, c, old)
           st2 == ReScheduleCall(st, s, c, body, old, new)
<1>1. /\ StoreType(rest)
      /\ StoreAgrees(rest)
      /\ DOMAIN rest.byHeight = DOMAIN st.byHeight \ {<<old, s, c>>}
      /\ <<s, c>> \notin DOMAIN rest.byName
  BY RemoveFacts
<1>2. /\ st2.byHeight = Put(rest.byHeight, <<new, s, c>>, Uint64ToBigEndian(new))
      /\ st2.byName = Put(rest.byName, <<s, c>>, Marshal(body))
  BY DEF ReScheduleCall, MakeScheduledCallByBlockHeightKey,
         MakeScheduledCallBySignerContractKey
<1> HIDE DEF rest, st2
<1>3. /\ DOMAIN st2.byHeight = DOMAIN rest.byHeight \cup {<<new, s, c>>}
      /\ st2.byHeight[<<new, s, c>>] = Uint64ToBigEndian(new)
      /\ \A k \in DOMAIN rest.byHeight :
            k # <<new, s, c>> => st2.byHeight[k] = rest.byHeight[k]
  BY <1>2 DEF Put
<1>4. /\ DOMAIN st2.byName = DOMAIN rest.byName \cup {<<s, c>>}
      /\ st2.byName[<<s, c>>] = Marshal(body)
      /\ \A p \in DOMAIN rest.byName :
            p # <<s, c>> => st2.byName[p] = rest.byName[p]
  BY <1>2 DEF Put
<1>5. StoreType(st2)
  BY <1>1, <1>3, <1>4, ValueFacts DEF StoreType, Keys, Pairs
<1>6. StoreAgrees(st2)
  <2> SUFFICES ASSUME NEW g \in Heights, NEW t \in Signers, NEW d \in Contracts
               PROVE  (/\ <<g, t, d>> \in DOMAIN st2.byHeight
                       /\ st2.byHeight[<<g, t, d>>].kind = "call")
                      <=> (/\ <<t, d>> \in DOMAIN st2.byName
                           /\ st2.byName[<<t, d>>] = Uint64ToBigEndian(g))
    BY DEF StoreAgrees
  <2>1. CASE <<t, d>> # <<s, c>>
    <3>1. <<g, t, d>> # <<new, s, c>>
      BY <2>1
    <3> QED BY <1>1, <1>3, <1>4, <2>1, <3>1 DEF StoreAgrees
  <2>2. CASE <<t, d>> = <<s, c>>
    <3>1. st2.byName[<<t, d>>] # Uint64ToBigEndian(g)
      BY <1>4, <2>2, ValueFacts
    <3>2. CASE g = new
      <4>1. st2.byHeight[<<g, t, d>>].kind = "height"
        BY <1>3, <2>2, <3>2, ValueFacts
      <4> QED BY <3>1, <4>1
    <3>3. CASE g # new
      <4>1. <<g, t, d>> # <<new, s, c>>
        BY <3>3
      <4>2. ~(/\ <<g, t, d>> \in DOMAIN rest.byHeight
              /\ rest.byHeight[<<g, t, d>>].kind = "call")
        BY <1>1, <2>2 DEF StoreAgrees
      <4> QED BY <1>3, <3>1, <4>1, <4>2
    <3> QED BY <3>2, <3>3
  <2> QED BY <2>1, <2>2
<1> QED BY <1>1, <1>3, <1>5, <1>6 DEF rest, st2

----------------------------------------------------------------------------
(* Facts about one visited key.                                            *)

\* Inside the EndBlocker the visited key is an entry of this height.
LEMMA VisitedFacts ==
    ASSUME IInv, NEW k \in todo
    PROVE  /\ k \in DOMAIN store.byHeight
           /\ k = <<height, k[2], k[3]>>
           /\ k[2] \in Signers
           /\ k[3] \in Contracts
           /\ height \in Heights
           /\ store.byHeight[k] \in Values
           /\ StoreType(store)
           /\ StoreAgrees(store)
BY DEF IInv, TypeOK, IndexAgrees, IteratorSound, StoreType, StoreAgrees

\* Only the key of a 20 byte signer leads to a contract that can be asked.
LEMMA MayRunFacts ==
    ASSUME IInv, NEW k \in todo, MayRun(k)
    PROVE  /\ k[2] \notin LongSigners
           /\ CutSigner(k) = k[2]
           /\ CutContract(k) = k[3]
           /\ k[2] \in owners[k[3]]
           /\ bal[k[3]] >= params.min
<1>1. k[2] \in Signers /\ k[3] \in Contracts
  BY VisitedFacts
<1>2. k[2] \notin LongSigners
  BY <1>1, StoreAssumption DEF MayRun, IsOwner, CutContract
<1> QED BY <1>2 DEF MayRun, IsOwner, HasMinimumBalance, CutSigner, CutContract

\* Removing the visited call keeps the store well formed.  The key of a 20
\* byte signer disappears, from the name index too; no other key does.
LEMMA RestFacts ==
    ASSUME IInv, NEW k \in todo, ~UnmarshalPanics(store.byHeight[k])
    PROVE  /\ StoreType(Rest(k))
           /\ StoreAgrees(Rest(k))
           /\ k[2] \in LongSigners =>
                 DOMAIN Rest(k).byHeight = DOMAIN store.byHeight
           /\ k[2] \notin LongSigners =>
                 /\ DOMAIN Rest(k).byHeight = DOMAIN store.byHeight \ {k}
                 /\ <<k[2], k[3]>> \notin DOMAIN Rest(k).byName
<1>1. /\ k \in DOMAIN store.byHeight
      /\ k = <<height, k[2], k[3]>>
      /\ k[2] \in Signers
      /\ k[3] \in Contracts
      /\ height \in Heights
      /\ StoreType(store)
      /\ StoreAgrees(store)
  BY VisitedFacts
<1>2. CASE k[2] \in LongSigners
  <2>1. Rest(k) = removeScheduledCallWithBlockHeight(
                      store, <<k[2]>>, <<k[2], k[3]>>, height)
    BY <1>2 DEF Rest, CutSigner, CutContract
  <2>2. <<k[2]>> \notin Signers
    BY <1>1, StoreAssumption
  <2> QED BY <1>1, <1>2, <2>1, <2>2, RemoveCutFacts
<1>3. CASE k[2] \notin LongSigners
  <2>1. Rest(k) = removeScheduledCallWithBlockHeight(store, k[2], k[3], height)
    BY <1>3 DEF Rest, CutSigner, CutContract
  <2>2. store.byHeight[<<height, k[2], k[3]>>].kind = "call"
    BY <1>1 DEF UnmarshalPanics
  <2>3. store.byName[<<k[2], k[3]>>] = Uint64ToBigEndian(height)
    BY <1>1, <2>2 DEF StoreAgrees
  <2>4. \A g \in Heights :
           (/\ <<k[2], k[3]>> \in DOMAIN store.byName
            /\ store.byName[<<k[2], k[3]>>] = Uint64ToBigEndian(g)) => g = height
    BY <2>3, ValueFacts
  <2>5. height \in Nat
    BY <1>1, HeightFacts
  <2>6. /\ StoreType(Rest(k))
        /\ StoreAgrees(Rest(k))
        /\ DOMAIN Rest(k).byHeight
             = DOMAIN store.byHeight \ {<<height, k[2], k[3]>>}
        /\ DOMAIN Rest(k).byName = DOMAIN store.byName \ {<<k[2], k[3]>>}
    BY <1>1, <2>1, <2>4, <2>5, RemoveFacts
  <2> QED BY <1>1, <1>3, <2>6
<1> QED BY <1>2, <1>3

\* A charged balance is still a balance within the bound.
LEMMA ChargeFacts ==
    ASSUME NEW b \in [Contracts -> Balances], NEW c \in Contracts,
           NEW gas \in Nat
    PROVE  /\ Charge(b, c, gas) \in [Contracts -> Balances]
           /\ Paid(b, c, gas) \in Nat
BY ScheduleAssumption DEF Charge, Paid, CanPay, Balances

\* A height that is neither past nor too far lies within some upper bound.
LEMMA HorizonFacts ==
    ASSUME TypeOK, NEW h \in Nat, ~InPast(h), ~TooFarInFuture(h)
    PROVE  /\ h > height
           /\ params.upper \in UpperBounds \ {0}
           /\ h <= height + params.upper
<1>1. /\ params.upper \in UpperBounds \ {0}
      /\ height \in Nat
  BY HeightFacts DEF TypeOK, ValidParams
<1>2. params.upper \in Nat /\ Word \in Nat
  <2>1. Word \in Nat /\ UpperBounds \subseteq 0 .. Word - 1
    BY ScheduleAssumption
  <2>2. \A u \in 0 .. Word - 1 : u \in Nat
    BY <2>1
  <2>3. params.upper \in 0 .. Word - 1
    BY <1>1, <2>1
  <2> QED BY <2>1, <2>2, <2>3
<1> QED BY <1>2, <1>1, ScheduleAssumption DEF InPast, TooFarInFuture, Plus64

----------------------------------------------------------------------------
(* Every step keeps the invariant.                                         *)

\* An accepted AddSchedule, on either of its paths, adds one key ahead of this
\* block and within the upper bound.
LEMMA AddScheduleKeepsIInv ==
    ASSUME IInv, NEW s \in Signers, NEW c \in Contracts,
           NEW body \in Bodies \cup {EmptyBody}, NEW h \in Heights,
           AddSchedule(s, c, body, h)
    PROVE  IInv'
<1> DEFINE existing == BlockHeightForSignerContract(store, s, c)
<1>1. StoreType(store) /\ StoreAgrees(store) /\ TypeOK
  BY DEF IInv, TypeOK, IndexAgrees, StoreType, StoreAgrees
<1>2. /\ body \in Bodies
      /\ phase = "deliver"
      /\ todo = {}
      /\ UNCHANGED <<params, height, phase, todo, bal, owners, fee, used>>
  BY DEF AddSchedule, ValidateBasic, IInv, IteratorSound
<1>3. /\ h > height
      /\ params.upper \in UpperBounds \ {0}
      /\ h <= height + params.upper
  BY <1>1, HeightFacts, HorizonFacts DEF AddSchedule
<1>4. /\ existing \in Nat
      /\ existing = 0 <=> <<s, c>> \notin DOMAIN store.byName
      /\ \A g \in Heights :
            (/\ <<s, c>> \in DOMAIN store.byName
             /\ store.byName[<<s, c>>] = Uint64ToBigEndian(g)) => g = existing
  BY <1>1, LookupFacts
<1>5. /\ StoreType(store')
      /\ StoreAgrees(store')
      /\ DOMAIN store'.byHeight \subseteq DOMAIN store.byHeight \cup {<<h, s, c>>}
  <2>1. CASE existing # 0
    <3>1. store' = ReScheduleCall(store, s, c, body, existing, h)
      BY <2>1 DEF AddSchedule
    <3> QED BY <1>1, <1>2, <1>4, <3>1, ReScheduleFacts
  <2>2. CASE existing = 0
    <3>1. store' = AddScheduledCall(store, s, c, body, h)
      BY <2>2 DEF AddSchedule
    <3> QED BY <1>1, <1>2, <1>4, <2>2, <3>1, AddFacts
  <2> QED BY <2>1, <2>2
<1> HIDE DEF existing
<1>6. TypeOK'
  BY <1>1, <1>2, <1>5 DEF TypeOK, StoreType
<1>7. IndexAgrees'
  BY <1>5 DEF IndexAgrees, StoreAgrees
<1>8. NoMissedCall'
  <2> SUFFICES ASSUME NEW k \in DOMAIN store'.byHeight, k[2] \notin LongSigners
               PROVE  k[1] >= height
    BY <1>2 DEF NoMissedCall
  <2>1. CASE k \in DOMAIN store.byHeight
    BY <2>1 DEF IInv, NoMissedCall
  <2>2. CASE k = <<h, s, c>>
    BY <1>1, <1>3, <2>2, HeightFacts DEF TypeOK
  <2> QED BY <1>5, <2>1, <2>2
<1>9. HorizonBounded'
  <2> SUFFICES ASSUME NEW k \in DOMAIN store'.byHeight
               PROVE  \E u \in UpperBounds \ {0} : k[1] <= height + u
    BY <1>2 DEF HorizonBounded
  <2>1. CASE k \in DOMAIN store.byHeight
    BY <2>1 DEF IInv, HorizonBounded
  <2>2. CASE k = <<h, s, c>>
    BY <1>3, <2>2
  <2> QED BY <1>5, <2>1, <2>2
<1>10. IteratorSound'
  BY <1>2 DEF IteratorSound
<1> QED BY <1>6, <1>7, <1>8, <1>9, <1>10 DEF IInv

\* RemoveSchedule only takes keys away, and from both indexes.
LEMMA RemoveScheduleKeepsIInv ==
    ASSUME IInv, NEW s \in Signers, NEW c \in Contracts, RemoveSchedule(s, c)
    PROVE  IInv'
<1> DEFINE existing == BlockHeightForSignerContract(store, s, c)
<1>1. StoreType(store) /\ StoreAgrees(store) /\ TypeOK
  BY DEF IInv, TypeOK, IndexAgrees, StoreType, StoreAgrees
<1>2. /\ phase = "deliver"
      /\ todo = {}
      /\ UNCHANGED <<params, height, phase, todo, bal, owners, fee, used>>
  BY DEF RemoveSchedule, IInv, IteratorSound
<1>3. /\ existing \in Nat
      /\ \A g \in Heights :
            (/\ <<s, c>> \in DOMAIN store.byName
             /\ store.byName[<<s, c>>] = Uint64ToBigEndian(g)) => g = existing
  BY <1>1, LookupFacts
<1>4. store' = removeScheduledCallWithBlockHeight(store, s, c, existing)
  BY DEF RemoveSchedule, RemoveScheduledCall
<1>5. /\ StoreType(store')
      /\ StoreAgrees(store')
      /\ DOMAIN store'.byHeight \subseteq DOMAIN store.byHeight
  BY <1>1, <1>3, <1>4, RemoveFacts
<1> HIDE DEF existing
<1>6. TypeOK'
  BY <1>1, <1>2, <1>5 DEF TypeOK, StoreType
<1>7. IndexAgrees'
  BY <1>5 DEF IndexAgrees, StoreAgrees
<1>8. NoMissedCall'
  BY <1>2, <1>5 DEF IInv, NoMissedCall
<1>9. HorizonBounded'
  BY <1>2, <1>5 DEF IInv, HorizonBounded
<1>10. IteratorSound'
  BY <1>2 DEF IteratorSound
<1> QED BY <1>6, <1>7, <1>8, <1>9, <1>10 DEF IInv

\* Steps that leave the store, the height and the iterator alone, and do not
\* enter the EndBlocker, only have to keep the types.
LEMMA StoreUnchangedKeepsIInv ==
    ASSUME IInv, TypeOK', UNCHANGED <<store, height, todo>>,
           \/ phase' = phase
           \/ phase' = "halted"
    PROVE  IInv'
<1>1. IndexAgrees'
  BY DEF IInv, IndexAgrees
<1>2. NoMissedCall'
  BY DEF IInv, NoMissedCall
<1>3. HorizonBounded'
  BY DEF IInv, HorizonBounded
<1>4. IteratorSound'
  BY DEF IInv, IteratorSound
<1> QED BY <1>1, <1>2, <1>3, <1>4 DEF IInv

\* The iterator is opened on exactly the entries of this height.
LEMMA EndBlockKeepsIInv ==
    ASSUME IInv, EndBlock
    PROVE  IInv'
<1>1. /\ phase' = "end"
      /\ params' \in ValidParams
      /\ todo' = {k \in DOMAIN store.byHeight : k[1] = height}
      /\ UNCHANGED <<store, height, bal, owners, fee, used>>
  BY DEF EndBlock, ScheduledKeysAtHeight
<1>2. TypeOK'
  <2>1. todo' \subseteq {height} \X Signers \X Contracts
    BY <1>1 DEF IInv, TypeOK, Keys
  <2> QED BY <1>1, <2>1 DEF IInv, TypeOK
<1>3. IndexAgrees'
  BY <1>1 DEF IInv, IndexAgrees
<1>4. NoMissedCall'
  BY <1>1 DEF IInv, NoMissedCall
<1>5. HorizonBounded'
  BY <1>1 DEF IInv, HorizonBounded
<1>6. IteratorSound'
  BY <1>1 DEF IteratorSound
<1> QED BY <1>2, <1>3, <1>4, <1>5, <1>6 DEF IInv

\* A panic stops everything else.
LEMMA HaltKeepsIInv ==
    ASSUME IInv, Halt
    PROVE  IInv'
<1>1. TypeOK'
  BY DEF IInv, TypeOK, Halt
<1> QED BY <1>1, StoreUnchangedKeepsIInv DEF Halt

\* What a consumed call and its possible rescheduling owe the invariant: the
\* store stays well formed, the visited key of a 20 byte signer leaves the
\* height index, and every new key lies ahead and within an upper bound.
LEMMA ConsumedKeepsIInv ==
    ASSUME IInv, NEW k \in todo, phase = "end",
           StoreType(store'), StoreAgrees(store'), TypeOK',
           DOMAIN store.byHeight \ {k} \subseteq DOMAIN store'.byHeight,
           \A j \in DOMAIN store'.byHeight \ DOMAIN store.byHeight :
              j[1] > height /\ \E u \in UpperBounds \ {0} : j[1] <= height + u,
           k[2] \notin LongSigners => k \notin DOMAIN store'.byHeight,
           todo' = todo \ {k},
           UNCHANGED <<params, height, phase>>
    PROVE  IInv'
<1>1. IndexAgrees'
  BY DEF IndexAgrees, StoreAgrees
<1>2. NoMissedCall'
  <2> SUFFICES ASSUME NEW j \in DOMAIN store'.byHeight, j[2] \notin LongSigners
               PROVE  j[1] >= height /\ (j[1] = height => j \in todo')
    BY DEF NoMissedCall
  <2>1. CASE j \in DOMAIN store.byHeight
    <3>1. j[1] >= height /\ (j[1] = height => j \in todo)
      BY <2>1 DEF IInv, NoMissedCall
    <3>2. j # k
      OBVIOUS
    <3> QED BY <3>1, <3>2
  <2>2. CASE j \notin DOMAIN store.byHeight
    <3>1. j[1] \in Nat /\ height \in Nat
      BY HeightFacts DEF IInv, TypeOK, StoreType, Keys
    <3> QED BY <2>2, <3>1
  <2> QED BY <2>1, <2>2
<1>3. HorizonBounded'
  <2> SUFFICES ASSUME NEW j \in DOMAIN store'.byHeight
               PROVE  \E u \in UpperBounds \ {0} : j[1] <= height + u
    BY DEF HorizonBounded
  <2>1. CASE j \in DOMAIN store.byHeight
    BY <2>1 DEF IInv, HorizonBounded
  <2>2. CASE j \notin DOMAIN store.byHeight
    BY <2>2
  <2> QED BY <2>1, <2>2
<1>4. IteratorSound'
  BY DEF IInv, IteratorSound
<1> QED BY <1>1, <1>2, <1>3, <1>4 DEF IInv

\* A call that is not run is removed by its visit.
LEMMA ConsumeSkipKeepsIInv ==
    ASSUME IInv, NEW k \in todo, ConsumeSkip(k)
    PROVE  IInv'
<1>1. /\ phase = "end"
      /\ ~UnmarshalPanics(store.byHeight[k])
      /\ store' = Rest(k)
      /\ todo' = todo \ {k}
      /\ UNCHANGED <<params, height, phase, bal, owners, fee, used>>
  BY DEF ConsumeSkip, Visits
<1>2. /\ StoreType(store')
      /\ StoreAgrees(store')
      /\ DOMAIN store.byHeight \ {k} \subseteq DOMAIN store'.byHeight
      /\ DOMAIN store'.byHeight \subseteq DOMAIN store.byHeight
      /\ k[2] \notin LongSigners => k \notin DOMAIN store'.byHeight
  BY <1>1, RestFacts
<1>3. TypeOK'
  BY <1>1, <1>2 DEF IInv, TypeOK, StoreType
<1> QED BY <1>1, <1>2, <1>3, ConsumedKeepsIInv

\* A call that runs is removed, charged and perhaps added again, ahead.
LEMMA ConsumeRunKeepsIInv ==
    ASSUME IInv, NEW k \in todo, NEW spent \in [Contracts -> Balances],
           NEW O \in [Contracts -> SUBSET Signers], ConsumeRun(k, spent, O)
    PROVE  IInv'
<1>1. /\ phase = "end"
      /\ MayRun(k)
      /\ ~UnmarshalPanics(store.byHeight[k])
      /\ todo' = todo \ {k}
      /\ owners' = O
      /\ UNCHANGED <<params, height, phase>>
  BY DEF ConsumeRun, Visits, MayRun
<1>2. /\ k[2] \notin LongSigners
      /\ CutSigner(k) = k[2]
      /\ CutContract(k) = k[3]
  BY <1>1, MayRunFacts
<1>3. /\ k = <<height, k[2], k[3]>>
      /\ k[2] \in Signers
      /\ k[3] \in Contracts
      /\ store.byHeight[k] \in Values
  BY VisitedFacts
<1>4. PICK o \in Outcomes(bal[k[3]]) :
        /\ bal' = Charge(spent, k[3], o.gas)
        /\ fee' = fee + Paid(spent, k[3], o.gas)
        /\ used' = used + o.gas
        /\ store' = IF \/ o.failed
                       \/ ~HasMinimumBalance(bal', k[3])
                       \/ InPast(o.next)
                       \/ TooFarInFuture(o.next)
                    THEN Rest(k)
                    ELSE AddScheduledCall(Rest(k), k[2], k[3],
                                          store.byHeight[k].body, o.next)
  BY <1>2 DEF ConsumeRun
<1>5. o.gas \in Nat /\ o.next \in 0 .. MaxHeight
  <2>1. bal[k[3]] \in Nat
    BY <1>3, ScheduleAssumption DEF IInv, TypeOK, Balances
  <2> QED BY <2>1 DEF Outcomes
<1>6. /\ StoreType(Rest(k))
      /\ StoreAgrees(Rest(k))
      /\ DOMAIN Rest(k).byHeight = DOMAIN store.byHeight \ {k}
      /\ <<k[2], k[3]>> \notin DOMAIN Rest(k).byName
  BY <1>1, <1>2, RestFacts
<1>7. /\ StoreType(store')
      /\ StoreAgrees(store')
      /\ DOMAIN store.byHeight \ {k} \subseteq DOMAIN store'.byHeight
      /\ \A j \in DOMAIN store'.byHeight \ DOMAIN store.byHeight :
            j[1] > height /\ \E u \in UpperBounds \ {0} : j[1] <= height + u
      /\ k \notin DOMAIN store'.byHeight
  <2>1. CASE store' = Rest(k)
    BY <1>6, <2>1
  <2>2. CASE store' # Rest(k)
    <3>1. /\ ~InPast(o.next)
          /\ ~TooFarInFuture(o.next)
          /\ store' = AddScheduledCall(Rest(k), k[2], k[3],
                                       store.byHeight[k].body, o.next)
      BY <1>4, <2>2
    <3>2. /\ o.next > height
          /\ params.upper \in UpperBounds \ {0}
          /\ o.next <= height + params.upper
      BY <1>5, <3>1, HorizonFacts, StoreAssumption DEF IInv
    <3>3. height \in Nat
      BY HeightFacts DEF IInv, TypeOK
    <3>4. o.next \in Heights
      BY <1>5, <3>2, <3>3, StoreAssumption DEF Heights
    <3>5. store.byHeight[k].body \in Bodies
      BY <1>1, <1>3 DEF Values, UnmarshalPanics
    <3>6. /\ StoreType(store')
          /\ StoreAgrees(store')
          /\ DOMAIN store'.byHeight
               = DOMAIN Rest(k).byHeight \cup {<<o.next, k[2], k[3]>>}
      BY <1>3, <1>6, <3>1, <3>4, <3>5, AddFacts
    <3>7. k # <<o.next, k[2], k[3]>>
      BY <1>3, <1>5, <3>2, <3>3
    <3> QED BY <1>6, <3>2, <3>6, <3>7
  <2> QED BY <2>1, <2>2
<1>8. TypeOK'
  <2>1. bal' \in [Contracts -> Balances] /\ Paid(spent, k[3], o.gas) \in Nat
    BY <1>3, <1>4, <1>5, ChargeFacts
  <2>2. fee' \in Nat /\ used' \in Nat
    <3>1. fee \in Nat /\ used \in Nat
      BY DEF IInv, TypeOK
    <3> QED BY <1>4, <1>5, <2>1, <3>1
  <2> QED BY <1>1, <1>7, <2>1, <2>2 DEF IInv, TypeOK, StoreType
<1> QED BY <1>1, <1>7, <1>8, ConsumedKeepsIInv

\* When the iterator is through, nothing of this height is left behind.
LEMMA NextBlockKeepsIInv ==
    ASSUME IInv, NextBlock
    PROVE  IInv'
<1>1. /\ phase = "end"
      /\ todo = {}
      /\ height < MaxHeight
      /\ height' = height + 1
      /\ phase' = "deliver"
      /\ fee' = 0
      /\ used' = 0
      /\ UNCHANGED <<store, params, todo, bal, owners>>
  BY DEF NextBlock
<1>2. height \in Nat /\ height' \in Heights
  BY <1>1, StoreAssumption DEF IInv, TypeOK, Heights
<1>3. TypeOK'
  BY <1>1, <1>2 DEF IInv, TypeOK
<1>4. IndexAgrees'
  BY <1>1 DEF IInv, IndexAgrees
<1>5. NoMissedCall'
  <2> SUFFICES ASSUME NEW k \in DOMAIN store.byHeight, k[2] \notin LongSigners
               PROVE  k[1] >= height + 1
    BY <1>1 DEF NoMissedCall
  <2>1. k[1] >= height /\ k[1] # height
    BY <1>1 DEF IInv, NoMissedCall
  <2>2. k[1] \in Nat
    BY HeightFacts DEF IInv, TypeOK, Keys
  <2> QED BY <1>2, <2>1, <2>2
<1>6. HorizonBounded'
  <2> SUFFICES ASSUME NEW k \in DOMAIN store.byHeight
               PROVE  \E u \in UpperBounds \ {0} : k[1] <= height + 1 + u
    BY <1>1 DEF HorizonBounded
  <2>1. PICK u \in UpperBounds \ {0} : k[1] <= height + u
    BY DEF IInv, HorizonBounded
  <2>2. u \in 0 .. Word - 1 /\ Word \in Nat
    BY ScheduleAssumption
  <2>3. k[1] \in Nat
    BY HeightFacts DEF IInv, TypeOK, Keys
  <2>4. k[1] <= height + 1 + u
    BY <1>2, <2>1, <2>2, <2>3
  <2> QED BY <2>4
<1>7. IteratorSound'
  BY <1>1 DEF IteratorSound
<1> QED BY <1>3, <1>4, <1>5, <1>6, <1>7 DEF IInv

----------------------------------------------------------------------------
(* The theorems.                                                           *)

\* The empty store of a new chain satisfies the invariant.
LEMMA InitIInv ==
    ASSUME Init
    PROVE  IInv
<1>1. DOMAIN store.byHeight = {} /\ DOMAIN store.byName = {}
  BY DEF Init, EmptyStore
<1>2. height \in Heights
  BY StoreAssumption DEF Init, Heights
<1>3. TypeOK
  BY <1>1, <1>2 DEF Init, TypeOK
<1>4. IndexAgrees /\ NoMissedCall /\ HorizonBounded
  BY <1>1 DEF IndexAgrees, NoMissedCall, HorizonBounded
<1>5. IteratorSound
  BY <1>1 DEF Init, IteratorSound
<1> QED BY <1>3, <1>4, <1>5 DEF IInv

\* Every step of the module, its environment and the block cycle keeps it.
LEMMA NextIInv ==
    ASSUME IInv, [Next]_vars
    PROVE  IInv'
<1>1. CASE Message
  BY <1>1, AddScheduleKeepsIInv, RemoveScheduleKeepsIInv DEF Message
<1>2. CASE Environment
  <2>1. PICK c \in Contracts :
           \/ \E n \in Balances : BalanceChanges(c, n)
           \/ \E O \in SUBSET Signers : OwnersChange(c, O)
    BY <1>2 DEF Environment
  <2>2. TypeOK'
    <3>1. CASE \E n \in Balances : BalanceChanges(c, n)
      BY <3>1 DEF IInv, TypeOK, BalanceChanges
    <3>2. CASE \E O \in SUBSET Signers : OwnersChange(c, O)
      BY <3>2 DEF IInv, TypeOK, OwnersChange
    <3> QED BY <2>1, <3>1, <3>2
  <2>3. UNCHANGED <<store, height, todo, phase>>
    BY <2>1 DEF BalanceChanges, OwnersChange
  <2> QED BY <2>2, <2>3, StoreUnchangedKeepsIInv
<1>3. CASE EndBlock
  BY <1>3, EndBlockKeepsIInv
<1>4. CASE ConsumeScheduledCalls
  <2>1. PICK k \in todo : Consume(k)
    BY <1>4 DEF ConsumeScheduledCalls
  <2>2. CASE ConsumeUndecodable(k)
    BY <2>2, HaltKeepsIInv DEF ConsumeUndecodable
  <2>3. CASE ConsumeSkip(k)
    BY <2>3, ConsumeSkipKeepsIInv
  <2>4. CASE ConsumeBalanceOverflow(k)
    BY <2>4, HaltKeepsIInv DEF ConsumeBalanceOverflow
  <2>5. CASE ConsumeShortResult(k)
    BY <2>5, HaltKeepsIInv DEF ConsumeShortResult
  <2>6. CASE \E spent \in [Contracts -> Balances], O \in [Contracts -> SUBSET Signers] :
                ConsumeRun(k, spent, O)
    BY <2>6, ConsumeRunKeepsIInv
  <2> QED BY <2>1, <2>2, <2>3, <2>4, <2>5, <2>6 DEF Consume
<1>5. CASE NextBlock
  BY <1>5, NextBlockKeepsIInv
<1>6. CASE UNCHANGED vars
  <2>1. TypeOK'
    BY <1>6 DEF IInv, TypeOK, vars
  <2> QED BY <1>6, <2>1, StoreUnchangedKeepsIInv DEF vars
<1> QED BY <1>1, <1>2, <1>3, <1>4, <1>5, <1>6 DEF Next

\* The inductive invariant holds in every reachable state.
THEOREM Invariance == Spec => []IInv
<1>1. Init => IInv
  BY InitIInv
<1>2. IInv /\ [Next]_vars => IInv'
  BY NextIInv
<1> QED BY <1>1, <1>2, PTL DEF Spec

\* Every variable keeps its type, in particular every stored value is one of
\* the two encoders' and every balance a balance.
THEOREM TypeCorrect == Spec => []TypeOK
<1>1. IInv => TypeOK
  BY DEF IInv
<1> QED BY <1>1, Invariance, PTL

\* The height index and the name index agree on every decodable call.
THEOREM IndexesAgree == Spec => []IndexAgrees
<1>1. IInv => IndexAgrees
  BY DEF IInv
<1> QED BY <1>1, Invariance, PTL

\* The EndBlocker passes no call of a 20 byte signer by.
THEOREM NoCallMissed == Spec => []NoMissedCall
<1>1. IInv => NoMissedCall
  BY DEF IInv
<1> QED BY <1>1, Invariance, PTL

\* No call lies further ahead than a valid upper bound.
THEOREM HorizonIsBounded == Spec => []HorizonBounded
<1>1. IInv => HorizonBounded
  BY DEF IInv
<1> QED BY <1>1, Invariance, PTL

\* The step that visits a call of a 20 byte signer takes it out of the store.
LEMMA NextConsumesOnce ==
    ASSUME IInv, IInv', Next
    PROVE  \A k \in todo \ todo' :
              k[2] \notin LongSigners => k \notin DOMAIN store'.byHeight
<1> SUFFICES ASSUME NEW k \in todo \ todo', k[2] \notin LongSigners
             PROVE  k \notin DOMAIN store'.byHeight
  OBVIOUS
<1>1. phase # "deliver"
  BY DEF IInv, IteratorSound
<1>2. PICK j \in todo : Consume(j)
  BY <1>1 DEF Next, Message, AddSchedule, RemoveSchedule, Environment,
     BalanceChanges, OwnersChange, EndBlock, NextBlock, ConsumeScheduledCalls
<1>3. phase = "end" /\ phase' = "end" /\ height' = height
  BY <1>2 DEF Consume, Visits, Halt, ConsumeUndecodable, ConsumeSkip,
     ConsumeBalanceOverflow, ConsumeShortResult, ConsumeRun
<1>4. k[1] = height
  BY VisitedFacts
<1> QED BY <1>3, <1>4 DEF IInv, NoMissedCall

\* A call of a 20 byte signer is consumed once: it is not left to be visited
\* again, not even by its own rescheduling.
THEOREM CallsConsumedOnce == Spec => ConsumedOnce
<1> DEFINE A == \A k \in todo \ todo' :
                   k[2] \notin LongSigners => k \notin DOMAIN store'.byHeight
<1>1. IInv /\ IInv' /\ [Next]_vars => [A]_vars
  BY NextConsumesOnce
<1> QED BY <1>1, Invariance, PTL DEF Spec, ConsumedOnce

\* Gas is only spent for a current owner and from a contract that has the
\* minimum balance when the call starts.
THEOREM OwnersOnly == Spec => RunsOnlyForOwners
<1> DEFINE A == used' > used =>
                  \E k \in todo \ todo' :
                     k[2] \in owners[k[3]] /\ bal[k[3]] >= params.min
<1>1. IInv /\ [Next]_vars => [A]_vars
  <2> SUFFICES ASSUME IInv, Next, used' > used
               PROVE  \E k \in todo \ todo' :
                         k[2] \in owners[k[3]] /\ bal[k[3]] >= params.min
    OBVIOUS
  <2>1. used \in Nat /\ ~(0 > used) /\ used' # used
    BY DEF IInv, TypeOK
  <2>2. PICK k \in todo, spent \in [Contracts -> Balances],
             O \in [Contracts -> SUBSET Signers] :
           ConsumeRun(k, spent, O)
    BY <2>1 DEF Next, Message, AddSchedule, RemoveSchedule, Environment,
       BalanceChanges, OwnersChange, EndBlock, NextBlock, ConsumeScheduledCalls,
       Consume, Halt, ConsumeUndecodable, ConsumeSkip, ConsumeBalanceOverflow,
       ConsumeShortResult
  <2>3. MayRun(k) /\ todo' = todo \ {k}
    BY <2>2 DEF ConsumeRun
  <2>4. k[2] \in owners[k[3]] /\ bal[k[3]] >= params.min
    BY <2>3, MayRunFacts
  <2> QED BY <2>3, <2>4
<1> QED BY <1>1, Invariance, PTL DEF Spec, RunsOnlyForOwners

----------------------------------------------------------------------------
(* An orderly environment: if no signer adds a call that is pending, the   *)
(* documented layout of the store is kept; if moreover no contract returns *)
(* short data or owns 2^64 coins, the EndBlocker never panics.             *)

LayoutOf(st) ==
    /\ \A k \in DOMAIN st.byHeight : st.byHeight[k].kind = "call"
    /\ \A p \in DOMAIN st.byName : st.byName[p].kind = "height"

\* AddScheduledCall writes each value where the layout wants it.
LEMMA AddKeepsLayout ==
    ASSUME NEW st, LayoutOf(st), NEW s, NEW c, NEW body, NEW h
    PROVE  LayoutOf(AddScheduledCall(st, s, c, body, h))
<1> DEFINE k0 == MakeScheduledCallByBlockHeightKey(h, s, c)
           p0 == MakeScheduledCallBySignerContractKey(s, c)
           st2 == AddScheduledCall(st, s, c, body, h)
<1>1. /\ st2.byHeight = Put(st.byHeight, k0, Marshal(body))
      /\ st2.byName = Put(st.byName, p0, Uint64ToBigEndian(h))
  BY DEF AddScheduledCall
<1>2. Marshal(body).kind = "call" /\ Uint64ToBigEndian(h).kind = "height"
  BY DEF Marshal, Uint64ToBigEndian
<1> HIDE DEF k0, p0, st2
<1>3. \A k \in DOMAIN st2.byHeight : st2.byHeight[k].kind = "call"
  BY <1>1, <1>2 DEF Put, LayoutOf
<1>4. \A p \in DOMAIN st2.byName : st2.byName[p].kind = "height"
  BY <1>1, <1>2 DEF Put, LayoutOf
<1> QED BY <1>3, <1>4 DEF LayoutOf, st2

\* Removing entries cannot disturb the layout.
LEMMA RemoveKeepsLayout ==
    ASSUME NEW st, LayoutOf(st), NEW s, NEW c, NEW h
    PROVE  LayoutOf(removeScheduledCallWithBlockHeight(st, s, c, h))
<1> DEFINE k0 == MakeScheduledCallByBlockHeightKey(h, s, c)
           p0 == MakeScheduledCallBySignerContractKey(s, c)
           st2 == removeScheduledCallWithBlockHeight(st, s, c, h)
<1>1. /\ st2.byHeight = Delete(st.byHeight, k0)
      /\ st2.byName = Delete(st.byName, p0)
  BY DEF removeScheduledCallWithBlockHeight
<1> HIDE DEF k0, p0, st2
<1>2. \A k \in DOMAIN st2.byHeight : st2.byHeight[k].kind = "call"
  BY <1>1 DEF Delete, LayoutOf
<1>3. \A p \in DOMAIN st2.byName : st2.byName[p].kind = "height"
  BY <1>1 DEF Delete, LayoutOf
<1> QED BY <1>2, <1>3 DEF LayoutOf, st2

\* ReScheduleCall is the only way out of the layout, and takes a second
\* AddSchedule for a pending pair.
LEMMA NextKeepsLayout ==
    ASSUME ~Resubmit, LayoutOf(store), [Next]_vars
    PROVE  LayoutOf(store')
<1>1. CASE \E s \in Signers, c \in Contracts,
             body \in Bodies \cup {EmptyBody}, h \in Heights :
                AddSchedule(s, c, body, h)
  <2>1. PICK s \in Signers, c \in Contracts,
             body \in Bodies \cup {EmptyBody}, h \in Heights :
                AddSchedule(s, c, body, h)
    BY <1>1
  <2>2. store' = AddScheduledCall(store, s, c, body, h)
    BY <2>1 DEF AddSchedule
  <2> QED BY <2>2, AddKeepsLayout
<1>2. CASE \E s \in Signers, c \in Contracts : RemoveSchedule(s, c)
  BY <1>2, RemoveKeepsLayout DEF RemoveSchedule, RemoveScheduledCall
<1>3. CASE \E k \in todo : ConsumeSkip(k)
  BY <1>3, RemoveKeepsLayout DEF ConsumeSkip, Rest
<1>4. CASE \E k \in todo, spent \in [Contracts -> Balances],
              O \in [Contracts -> SUBSET Signers] :
             ConsumeRun(k, spent, O)
  <2>1. PICK k \in todo, spent \in [Contracts -> Balances],
             O \in [Contracts -> SUBSET Signers] :
             ConsumeRun(k, spent, O)
    BY <1>4
  <2>2. LayoutOf(Rest(k))
    BY RemoveKeepsLayout DEF Rest
  <2>3. \/ store' = Rest(k)
        \/ \E next : store' = AddScheduledCall(Rest(k), CutSigner(k),
                           CutContract(k), store.byHeight[k].body, next)
    BY <2>1 DEF ConsumeRun
  <2> QED BY <2>2, <2>3, AddKeepsLayout
<1>5. CASE store' = store
  BY <1>5
<1> QED
  BY <1>1, <1>2, <1>3, <1>4, <1>5
  DEF Next, vars, Message, Environment, BalanceChanges, OwnersChange, EndBlock,
      NextBlock, ConsumeScheduledCalls, Consume, Halt, ConsumeUndecodable,
      ConsumeBalanceOverflow, ConsumeShortResult

\* The height index holds calls and the name index holds heights, as long as
\* no signer adds a call for a pair that has one.
THEOREM LayoutKept ==
    ASSUME ~Resubmit
    PROVE  Spec => []StoreLayout
<1>1. Init => StoreLayout
  BY DEF Init, EmptyStore, StoreLayout
<1>2. StoreLayout /\ [Next]_vars => StoreLayout'
  BY NextKeepsLayout DEF StoreLayout, LayoutOf
<1> QED BY <1>1, <1>2, PTL DEF Spec

\* The EndBlocker does not panic in an orderly environment.
THEOREM NoPanic ==
    ASSUME ~Resubmit, ~ShortResults, MaxBalance < Word
    PROVE  Spec => []NeverHalts
<1>1. Init => NeverHalts
  BY DEF Init, NeverHalts
<1>2. IInv /\ StoreLayout /\ NeverHalts /\ [Next]_vars => NeverHalts'
  <2> SUFFICES ASSUME IInv, StoreLayout, NeverHalts, [Next]_vars
               PROVE  phase' # "halted"
    BY DEF NeverHalts
  <2>1. ASSUME NEW k \in todo PROVE ~ConsumeUndecodable(k)
    BY VisitedFacts DEF ConsumeUndecodable, UnmarshalPanics, StoreLayout
  <2>2. ASSUME NEW k \in todo PROVE ~ConsumeBalanceOverflow(k)
    <3> SUFFICES ASSUME MayRun(k), bal[CutContract(k)] >= Word
                 PROVE  FALSE
      BY DEF ConsumeBalanceOverflow
    <3>1. CutContract(k) \in Contracts
      BY MayRunFacts, VisitedFacts
    <3>2. bal[CutContract(k)] \in Balances
      BY <3>1 DEF IInv, TypeOK
    <3> QED BY <3>2, ScheduleAssumption DEF Balances
  <2>3. ASSUME NEW k \in todo PROVE ~ConsumeShortResult(k)
    BY DEF ConsumeShortResult
  <2> QED
    BY <2>1, <2>2, <2>3, ZenonT(40)
    DEF NeverHalts, Next, vars, Message, AddSchedule, RemoveSchedule,
        Environment, BalanceChanges, OwnersChange, EndBlock, NextBlock,
        ConsumeScheduledCalls, Consume, ConsumeSkip, ConsumeRun
<1> QED BY <1>1, <1>2, Invariance, LayoutKept, PTL DEF Spec

----------------------------------------------------------------------------
(* A chain that is restarted from exported genesis files, any number of    *)
(* times: a restart begins with an empty store and valid parameters, at a  *)
(* later height.                                                           *)

\* The store of the new chain is empty and its iterator closed.
LEMMA RestartKeepsIInv ==
    ASSUME IInv, Restart
    PROVE  IInv'
<1>1. /\ todo = {} /\ height < MaxHeight
      /\ params' = params /\ store' = EmptyStore
      /\ height' = height + 1 /\ phase' = "deliver"
      /\ fee' = 0 /\ used' = 0
      /\ UNCHANGED <<todo, bal, owners>>
  BY DEF Restart, InitChainer, InitGenesis, ExportGenesis
<1>2. DOMAIN store'.byHeight = {} /\ DOMAIN store'.byName = {}
  BY <1>1 DEF EmptyStore
<1>3. height' \in Heights
  BY <1>1, StoreAssumption DEF IInv, TypeOK, Heights
<1>4. TypeOK'
  BY <1>1, <1>2, <1>3 DEF IInv, TypeOK
<1>5. IndexAgrees' /\ NoMissedCall' /\ HorizonBounded'
  BY <1>2 DEF IndexAgrees, NoMissedCall, HorizonBounded
<1>6. IteratorSound'
  BY <1>1 DEF IteratorSound
<1> QED BY <1>4, <1>5, <1>6 DEF IInv

\* The inductive invariant holds throughout any number of restarts.
THEOREM RestartInvariance == RestartSpec => []IInv
<1>1. Init => IInv
  BY InitIInv
<1>2. IInv /\ [RestartNext]_vars => IInv'
  BY NextIInv, RestartKeepsIInv DEF RestartNext
<1> QED BY <1>1, <1>2, PTL DEF RestartSpec

\* However often the chain is restarted, the store is as sound as on a chain
\* that never was: types, the two indexes, no call passed by, none beyond the
\* horizon.  Whoever had a call can schedule one again.
THEOREM RestartedStoreSound ==
    RestartSpec => [](TypeOK /\ IndexAgrees /\ NoMissedCall /\ HorizonBounded)
<1>1. IInv => TypeOK /\ IndexAgrees /\ NoMissedCall /\ HorizonBounded
  BY DEF IInv
<1> QED BY <1>1, RestartInvariance, PTL

\* A call is consumed once, also on a chain that is restarted: Restart is
\* between blocks, where the iterator holds nothing.
THEOREM RestartedConsumesOnce == RestartSpec => ConsumedOnce
<1> DEFINE A == \A k \in todo \ todo' :
                   k[2] \notin LongSigners => k \notin DOMAIN store'.byHeight
<1>1. IInv /\ IInv' /\ [RestartNext]_vars => [A]_vars
  <2> SUFFICES ASSUME IInv, IInv', RestartNext PROVE A \/ UNCHANGED vars
    OBVIOUS
  <2>1. CASE Next
    BY <2>1, NextConsumesOnce
  <2>2. CASE Restart
    BY <2>2 DEF Restart
  <2> QED BY <2>1, <2>2 DEF RestartNext
<1> QED BY <1>1, RestartInvariance, PTL DEF RestartSpec, ConsumedOnce

----------------------------------------------------------------------------
(* What the EndBlocker does to a contract whose call it runs: what is      *)
(* charged, and what is scheduled again.  Both follow from IInv and from   *)
(* the one step that uses gas, ConsumeRun.                                 *)

\* The run of a call k whose contract spends up to spent and uses gas.
Ran(k, spent, gas) ==
    /\ k \in todo /\ k \notin todo'
    /\ bal' = Charge(spent, k[3], gas)
    /\ fee' = fee + Paid(spent, k[3], gas)
    /\ used' = used + gas

\* The visited key leaves the iterator, its contract is one that can be asked,
\* and the gas is between one unit and the balance that was read before.
LEMMA RunFacts ==
    ASSUME IInv, NEW k \in todo, NEW spent \in [Contracts -> Balances],
           NEW O \in [Contracts -> SUBSET Signers], ConsumeRun(k, spent, O)
    PROVE  \E gas \in Nat \ {0} :
              /\ Ran(k, spent, gas)
              /\ gas <= bal[k[3]]
              /\ k[3] \in Contracts
              /\ \/ store' = Rest(k)
                 \/ \E next \in 0 .. MaxHeight :
                       /\ HasMinimumBalance(bal', k[3])
                       /\ ~InPast(next)
                       /\ store' = AddScheduledCall(Rest(k), k[2], k[3],
                                                    store.byHeight[k].body, next)
<1>1. MayRun(k) /\ todo' = todo \ {k}
  BY DEF ConsumeRun
<1>2. CutSigner(k) = k[2] /\ CutContract(k) = k[3] /\ k[3] \in Contracts
  BY <1>1, MayRunFacts, VisitedFacts
<1>3. PICK o \in Outcomes(bal[k[3]]) :
        /\ bal' = Charge(spent, k[3], o.gas)
        /\ fee' = fee + Paid(spent, k[3], o.gas)
        /\ used' = used + o.gas
        /\ store' = IF \/ o.failed
                       \/ ~HasMinimumBalance(bal', k[3])
                       \/ InPast(o.next)
                       \/ TooFarInFuture(o.next)
                    THEN Rest(k)
                    ELSE AddScheduledCall(Rest(k), k[2], k[3],
                                          store.byHeight[k].body, o.next)
  BY <1>2 DEF ConsumeRun
<1>4. o.gas \in 1 .. bal[k[3]] /\ o.next \in 0 .. MaxHeight
  BY DEF Outcomes
<1>5. bal[k[3]] \in Nat
  BY <1>2, ScheduleAssumption DEF IInv, TypeOK, Balances
<1>6. o.gas \in Nat \ {0} /\ o.gas <= bal[k[3]]
  BY <1>4, <1>5
<1>7. Ran(k, spent, o.gas)
  BY <1>1, <1>3 DEF Ran
<1>8. \/ store' = Rest(k)
      \/ \E next \in 0 .. MaxHeight :
            /\ HasMinimumBalance(bal', k[3])
            /\ ~InPast(next)
            /\ store' = AddScheduledCall(Rest(k), k[2], k[3],
                                         store.byHeight[k].body, next)
  BY <1>3, <1>4
<1> QED BY <1>2, <1>6, <1>7, <1>8

\* Only a run uses gas.
LEMMA OnlyRunsUseGas ==
    ASSUME IInv, [Next]_vars, used' > used
    PROVE  \E k \in todo, spent \in [Contracts -> Balances],
              O \in [Contracts -> SUBSET Signers] :
              ConsumeRun(k, spent, O)
<1>1. used \in Nat /\ ~(0 > used) /\ used' # used
  BY DEF IInv, TypeOK
<1> QED
  BY <1>1 DEF Next, vars, Message, AddSchedule, RemoveSchedule, Environment,
     BalanceChanges, OwnersChange, EndBlock, NextBlock, ConsumeScheduledCalls,
     Consume, Halt, ConsumeUndecodable, ConsumeSkip, ConsumeBalanceOverflow,
     ConsumeShortResult

\* The gas of a call never exceeds the balance its contract had when the call
\* started, and stays unpaid only if the call left the contract with less.
THEOREM UnpaidOnlyDrained == Spec => UnpaidOnlyIfDrained
<1> DEFINE A == used' > used =>
                  \E k \in todo \ todo' :
                     /\ used' - used <= bal[k[3]]
                     /\ \/ fee' - fee = used' - used
                        \/ fee' = fee /\ bal'[k[3]] < used' - used
<1>1. IInv /\ [Next]_vars => [A]_vars
  <2> SUFFICES ASSUME IInv, [Next]_vars, used' > used
               PROVE  \E k \in todo \ todo' :
                         /\ used' - used <= bal[k[3]]
                         /\ \/ fee' - fee = used' - used
                            \/ fee' = fee /\ bal'[k[3]] < used' - used
    OBVIOUS
  <2>1. PICK k \in todo, spent \in [Contracts -> Balances],
             O \in [Contracts -> SUBSET Signers] :
           ConsumeRun(k, spent, O)
    BY OnlyRunsUseGas
  <2>2. PICK gas \in Nat \ {0} :
           Ran(k, spent, gas) /\ gas <= bal[k[3]] /\ k[3] \in Contracts
    BY <2>1, RunFacts
  <2>3. fee \in Nat /\ used \in Nat
    BY DEF IInv, TypeOK
  <2>4. spent[k[3]] \in Nat
    BY <2>1, <2>2, ScheduleAssumption DEF Balances
  <2>5. used' - used = gas
    BY <2>2, <2>3 DEF Ran
  <2>6. CASE CanPay(spent, k[3], gas)
    <3>1. fee' = fee + gas
      BY <2>2, <2>6 DEF Ran, Paid
    <3>2. fee' - fee = gas
      BY <2>2, <2>3, <3>1
    <3> QED BY <2>2, <2>5, <3>2 DEF Ran
  <2>7. CASE ~CanPay(spent, k[3], gas)
    <3>1. fee' = fee + 0 /\ bal' = spent
      BY <2>2, <2>7 DEF Ran, Paid, Charge
    <3>2. fee' = fee
      BY <2>3, <3>1
    <3>3. spent[k[3]] < gas
      BY <2>2, <2>4, <2>7 DEF CanPay
    <3> QED BY <2>2, <2>5, <3>1, <3>2, <3>3 DEF Ran
  <2> QED BY <2>6, <2>7
<1> QED BY <1>1, Invariance, PTL DEF Spec, UnpaidOnlyIfDrained

\* An entry that removing the visited call leaves was there before.
LEMMA RestKeys ==
    ASSUME IInv, NEW k \in todo, ~UnmarshalPanics(store.byHeight[k])
    PROVE  DOMAIN Rest(k).byHeight \subseteq DOMAIN store.byHeight
BY RestFacts

\* What the EndBlocker schedules again keeps its pair and its body, lies
\* ahead, and belongs to a contract that has the minimum after paying.
THEOREM RescheduledSoundly == Spec => RescheduledInGoodStanding
<1> DEFINE Kept(j, k) == /\ k[2] = j[2] /\ k[3] = j[3] /\ k[1] > height
                         /\ store'.byHeight[k] = store.byHeight[j]
                         /\ bal'[k[3]] >= params.min
                         /\ used' > used
           A == phase = "end" /\ phase' = "end" =>
                  \A k \in DOMAIN store'.byHeight \ DOMAIN store.byHeight :
                     \E j \in todo \ todo' : Kept(j, k)
<1>1. IInv /\ [Next]_vars => [A]_vars
  <2> SUFFICES ASSUME IInv, [Next]_vars, phase = "end", phase' = "end",
                      NEW k \in DOMAIN store'.byHeight \ DOMAIN store.byHeight
               PROVE  \E j \in todo \ todo' : Kept(j, k)
    OBVIOUS
  <2>1. \/ store' = store
        \/ \E j \in todo : ConsumeSkip(j)
        \/ \E j \in todo, spent \in [Contracts -> Balances],
              O \in [Contracts -> SUBSET Signers] :
              ConsumeRun(j, spent, O)
    BY DEF Next, vars, Message, AddSchedule, RemoveSchedule, Environment,
       BalanceChanges, OwnersChange, EndBlock, NextBlock, ConsumeScheduledCalls,
       Consume, Halt, ConsumeUndecodable, ConsumeBalanceOverflow, ConsumeShortResult
  <2>2. ~(store' = store)
    OBVIOUS
  <2>3. ASSUME NEW j \in todo PROVE ~ConsumeSkip(j)
    BY <2>2, RestKeys DEF ConsumeSkip
  <2>4. PICK j \in todo, spent \in [Contracts -> Balances],
             O \in [Contracts -> SUBSET Signers] :
           ConsumeRun(j, spent, O)
    BY <2>1, <2>2, <2>3
  <2>5. MayRun(j) /\ ~UnmarshalPanics(store.byHeight[j])
    BY <2>4 DEF ConsumeRun, MayRun
  <2>6. PICK gas \in Nat \ {0} :
              /\ Ran(j, spent, gas)
              /\ \/ store' = Rest(j)
                 \/ \E next \in 0 .. MaxHeight :
                       /\ HasMinimumBalance(bal', j[3])
                       /\ ~InPast(next)
                       /\ store' = AddScheduledCall(Rest(j), j[2], j[3],
                                                    store.byHeight[j].body, next)
    BY <2>4, RunFacts
  <2>7. PICK next \in 0 .. MaxHeight :
           /\ HasMinimumBalance(bal', j[3])
           /\ ~InPast(next)
           /\ store' = AddScheduledCall(Rest(j), j[2], j[3], store.byHeight[j].body, next)
    BY <2>5, <2>6, RestKeys
  <2>8. store'.byHeight = Put(Rest(j).byHeight, <<next, j[2], j[3]>>,
                              Marshal(store.byHeight[j].body))
    BY <2>7 DEF AddScheduledCall, MakeScheduledCallByBlockHeightKey
  <2>9. k = <<next, j[2], j[3]>> /\ store'.byHeight[k] = Marshal(store.byHeight[j].body)
    BY <2>5, <2>8, RestKeys DEF Put
  <2>10. store.byHeight[j] = Marshal(store.byHeight[j].body)
    <3>1. store.byHeight[j] \in Values /\ store.byHeight[j].kind = "call"
      BY <2>5, VisitedFacts DEF UnmarshalPanics
    <3> QED BY <3>1 DEF Values, Marshal
  <2>11. next > height
    <3>1. height \in Nat /\ next \in Nat
      BY HeightFacts, StoreAssumption DEF IInv, TypeOK
    <3> QED BY <2>7, <3>1 DEF InPast
  <2>12. used' > used
    <3>1. used \in Nat /\ used' = used + gas
      BY <2>6 DEF Ran, IInv, TypeOK
    <3> QED BY <3>1
  <2>13. bal'[j[3]] >= params.min
    BY <2>7 DEF HasMinimumBalance
  <2>14. Kept(j, k)
    BY <2>9, <2>10, <2>11, <2>12, <2>13
  <2> QED BY <2>6, <2>14 DEF Ran
<1> QED BY <1>1, Invariance, PTL DEF Spec, RescheduledInGoodStanding

\* In a store with the documented layout and agreeing indexes, a pair has an
\* entry exactly when the name index knows it, and then only one.
LEMMA OneEntryEach ==
    ASSUME IInv, StoreLayout, NEW s \in Signers, NEW c \in Contracts
    PROVE  /\ <<s, c>> \notin DOMAIN store.byName =>
                 \A h \in Heights : <<h, s, c>> \notin DOMAIN store.byHeight
           /\ <<s, c>> \in DOMAIN store.byName =>
                 \E h \in Heights :
                    /\ store.byName[<<s, c>>] = Uint64ToBigEndian(h)
                    /\ \A g \in Heights : <<g, s, c>> \in DOMAIN store.byHeight <=> g = h
<1>1. \A h \in Heights : <<h, s, c>> \in DOMAIN store.byHeight <=>
         (/\ <<s, c>> \in DOMAIN store.byName
          /\ store.byName[<<s, c>>] = Uint64ToBigEndian(h))
  BY DEF IInv, IndexAgrees, StoreLayout
<1>2. ASSUME <<s, c>> \in DOMAIN store.byName
      PROVE  \E h \in Heights : store.byName[<<s, c>>] = Uint64ToBigEndian(h)
  <2>1. store.byName[<<s, c>>] \in Values /\ store.byName[<<s, c>>].kind = "height"
    BY <1>2 DEF IInv, TypeOK, StoreLayout
  <2> QED BY <2>1 DEF Values, Uint64ToBigEndian
<1> QED BY <1>1, <1>2, ValueFacts

\* With 20 byte signers and the documented layout, the ScheduledCalls query
\* never panics and lists each pending call once.
THEOREM QueryAnswers ==
    ASSUME ~Resubmit, LongSigners = {}
    PROVE  Spec => []QueryAgrees
<1>1. IInv /\ StoreLayout => QueryAgrees
  <2> SUFFICES ASSUME IInv, StoreLayout
               PROVE  QueryAgrees
    OBVIOUS
  <2> DEFINE answer(k) == [height |-> k[1], signer |-> CutSigner(k), contract |-> CutContract(k),
                           body |-> store.byHeight[k].body]
             calls(s, c) == {r \in iterateScheduledCalls(store) : r.signer = s /\ r.contract = c}
  <2>1. ~iterateScheduledCallsPanics(store)
    BY DEF StoreLayout, iterateScheduledCallsPanics, UnmarshalPanics
  <2>2. \A k \in DOMAIN store.byHeight :
           /\ k = <<k[1], k[2], k[3]>> /\ k[1] \in Heights
           /\ answer(k).signer = k[2] /\ answer(k).contract = k[3]
    BY DEF IInv, TypeOK, Keys, CutSigner, CutContract
  <2>3. iterateScheduledCalls(store) = {answer(k) : k \in DOMAIN store.byHeight}
    BY DEF iterateScheduledCalls
  <2> HIDE DEF answer
  <2>4. \A s, c : calls(s, c) = {answer(k) : k \in {k \in DOMAIN store.byHeight : k[2] = s /\ k[3] = c}}
    BY <2>2, <2>3
  <2> HIDE DEF calls
  <2>5. ASSUME NEW s \in Signers, NEW c \in Contracts, <<s, c>> \notin DOMAIN store.byName
        PROVE  calls(s, c) = {}
    BY <2>2, <2>4, <2>5, OneEntryEach
  <2>6. ASSUME NEW s \in Signers, NEW c \in Contracts, <<s, c>> \in DOMAIN store.byName
        PROVE  \E r \in calls(s, c) : calls(s, c) = {r}
    <3>1. PICK h \in Heights :
             \A g \in Heights : <<g, s, c>> \in DOMAIN store.byHeight <=> g = h
      BY <2>6, OneEntryEach
    <3>2. {k \in DOMAIN store.byHeight : k[2] = s /\ k[3] = c} = {<<h, s, c>>}
      BY <2>2, <3>1
    <3>3. calls(s, c) = {answer(k) : k \in {<<h, s, c>>}}
      BY <2>4, <3>2
    <3>4. calls(s, c) = {answer(<<h, s, c>>)}
      BY <3>3
    <3> QED BY <3>4
  <2> QED BY <2>1, <2>5, <2>6 DEF QueryAgrees, calls
<1> QED BY <1>1, Invariance, LayoutKept, PTL

=============================================================================
