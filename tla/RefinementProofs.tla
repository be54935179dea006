-------------------------- MODULE RefinementProofs --------------------------
(***************************************************************************)
(* Schedule implements CallSchedule, for every instance whose signers have *)
(* 20 byte addresses and do not add a call twice.  The first part is about *)
(* the pending calls of a store; the second maps each action of Schedule   *)
(* to a step of CallSchedule or to none.                                   *)
(***************************************************************************)
EXTENDS ScheduleRefinement, ScheduleProofs, WellFoundedInduction

\* PendingCall and the pending calls, of a store.
PendAt(st, p) ==
    LET h == BlockHeightForSignerContract(st, p[1], p[2])
        k == MakeScheduledCallByBlockHeightKey(h, p[1], p[2])
    IN  IF k \in DOMAIN st.byHeight
        THEN [at |-> h, body |-> st.byHeight[k].body]
        ELSE None

Pend(st) == [p \in Pairs |-> PendAt(st, p)]

\* A store that is well formed and has the documented layout.
Sound(st) == StoreType(st) /\ StoreAgrees(st) /\ LayoutOf(st)

\* Both stores hold the same of a pair.
SameFor(st, st2, s, c) ==
    /\ <<s, c>> \in DOMAIN st.byName <=> <<s, c>> \in DOMAIN st2.byName
    /\ <<s, c>> \in DOMAIN st.byName => st.byName[<<s, c>>] = st2.byName[<<s, c>>]
    /\ \A h : /\ <<h, s, c>> \in DOMAIN st.byHeight <=> <<h, s, c>> \in DOMAIN st2.byHeight
              /\ <<h, s, c>> \in DOMAIN st.byHeight =>
                    st.byHeight[<<h, s, c>>] = st2.byHeight[<<h, s, c>>]

\* What is pending for a pair depends on nothing but its own entries.
LEMMA PendSame ==
    ASSUME NEW st, NEW st2, NEW s, NEW c, SameFor(st, st2, s, c)
    PROVE  PendAt(st2, <<s, c>>) = PendAt(st, <<s, c>>)
<1>1. BlockHeightForSignerContract(st2, s, c) = BlockHeightForSignerContract(st, s, c)
  BY DEF BlockHeightForSignerContract, MakeScheduledCallBySignerContractKey, SameFor
<1> QED BY <1>1 DEF PendAt, MakeScheduledCallByBlockHeightKey, SameFor

\* The call a pair has in the height index is its pending call; a pair the name
\* index does not know has none.
LEMMA PendFacts ==
    ASSUME NEW st, Sound(st), NEW s \in Signers, NEW c \in Contracts
    PROVE  /\ \A h \in Heights : <<h, s, c>> \in DOMAIN st.byHeight =>
                 PendAt(st, <<s, c>>) = [at |-> h, body |-> st.byHeight[<<h, s, c>>].body]
           /\ <<s, c>> \notin DOMAIN st.byName => PendAt(st, <<s, c>>) = None
           /\ PendAt(st, <<s, c>>) # None =>
                 \E h \in Heights : <<h, s, c>> \in DOMAIN st.byHeight
<1> DEFINE n == BlockHeightForSignerContract(st, s, c)
<1>1. PendAt(st, <<s, c>>) = IF <<n, s, c>> \in DOMAIN st.byHeight
                             THEN [at |-> n, body |-> st.byHeight[<<n, s, c>>].body]
                             ELSE None
  BY DEF PendAt, MakeScheduledCallByBlockHeightKey
<1>2. /\ n = 0 <=> <<s, c>> \notin DOMAIN st.byName
      /\ \A g \in Heights : (/\ <<s, c>> \in DOMAIN st.byName
                             /\ st.byName[<<s, c>>] = Uint64ToBigEndian(g)) => g = n
  BY LookupFacts DEF Sound
<1> HIDE DEF n
<1>3. \A h : <<h, s, c>> \in DOMAIN st.byHeight => h \in Heights
  BY DEF Sound, StoreType, Keys
<1>4. \A h \in Heights : <<h, s, c>> \in DOMAIN st.byHeight => h = n
  BY <1>2 DEF Sound, StoreAgrees, LayoutOf
<1>5. <<s, c>> \notin DOMAIN st.byName => <<n, s, c>> \notin DOMAIN st.byHeight
  BY <1>2, <1>3, HeightFacts
<1> QED BY <1>1, <1>3, <1>4, <1>5

\* Adding a call makes it the pair's pending call and changes no other pair's.
LEMMA AddPend ==
    ASSUME NEW st, Sound(st), NEW s \in Signers, NEW c \in Contracts,
           NEW body \in Bodies, NEW h \in Heights, <<s, c>> \notin DOMAIN st.byName
    PROVE  LET st2 == AddScheduledCall(st, s, c, body, h)
           IN  /\ Sound(st2)
               /\ Pend(st2) = [Pend(st) EXCEPT ![<<s, c>>] = [at |-> h, body |-> body]]
<1> DEFINE st2 == AddScheduledCall(st, s, c, body, h)
<1>1. Sound(st2) /\ <<h, s, c>> \in DOMAIN st2.byHeight
  BY AddFacts, AddKeepsLayout DEF Sound
<1>2. /\ st2.byHeight = Put(st.byHeight, <<h, s, c>>, Marshal(body))
      /\ st2.byName = Put(st.byName, <<s, c>>, Uint64ToBigEndian(h))
  BY DEF AddScheduledCall, MakeScheduledCallByBlockHeightKey,
         MakeScheduledCallBySignerContractKey
<1> HIDE DEF st2
<1>3. PendAt(st2, <<s, c>>) = [at |-> h, body |-> body]
  <2>1. st2.byHeight[<<h, s, c>>] = Marshal(body)
    BY <1>2 DEF Put
  <2>2. st2.byHeight[<<h, s, c>>].body = body
    BY <2>1, ValueFacts
  <2> QED BY <1>1, <2>2, PendFacts
<1>4. ASSUME NEW t, NEW d, <<t, d>> # <<s, c>>
      PROVE  PendAt(st2, <<t, d>>) = PendAt(st, <<t, d>>)
  <2>1. SameFor(st, st2, t, d)
    <3>1. \A g : <<g, t, d>> # <<h, s, c>>
      BY <1>4
    <3> QED BY <1>2, <1>4, <3>1 DEF SameFor, Put
  <2> QED BY <2>1, PendSame
<1>5. Pend(st2) = [Pend(st) EXCEPT ![<<s, c>>] = [at |-> h, body |-> body]]
  <2>1. \A p \in Pairs : p # <<s, c>> => PendAt(st2, p) = PendAt(st, p)
    BY <1>4 DEF Pairs
  <2>2. <<s, c>> \in Pairs
    BY DEF Pairs
  <2> QED BY <1>3, <2>1, <2>2 DEF Pend
<1> QED BY <1>1, <1>5 DEF st2

\* Removing a pair's call, told its height if it has one, leaves none pending
\* for the pair and changes no other pair's.
LEMMA RemovePend ==
    ASSUME NEW st, Sound(st), NEW s \in Signers, NEW c \in Contracts, NEW h \in Nat,
           \A g \in Heights :
              (/\ <<s, c>> \in DOMAIN st.byName
               /\ st.byName[<<s, c>>] = Uint64ToBigEndian(g)) => g = h
    PROVE  LET st2 == removeScheduledCallWithBlockHeight(st, s, c, h)
           IN  /\ Sound(st2)
               /\ <<s, c>> \notin DOMAIN st2.byName
               /\ Pend(st2) = [Pend(st) EXCEPT ![<<s, c>>] = None]
<1> DEFINE st2 == removeScheduledCallWithBlockHeight(st, s, c, h)
<1>1. Sound(st2)
  BY RemoveFacts, RemoveKeepsLayout DEF Sound
<1>2. /\ st2.byHeight = Delete(st.byHeight, <<h, s, c>>)
      /\ st2.byName = Delete(st.byName, <<s, c>>)
  BY DEF removeScheduledCallWithBlockHeight, MakeScheduledCallByBlockHeightKey,
         MakeScheduledCallBySignerContractKey
<1> HIDE DEF st2
<1>3. <<s, c>> \notin DOMAIN st2.byName
  BY <1>2 DEF Delete
<1>4. PendAt(st2, <<s, c>>) = None
  BY <1>1, <1>3, PendFacts
<1>5. ASSUME NEW t, NEW d, <<t, d>> # <<s, c>>
      PROVE  PendAt(st2, <<t, d>>) = PendAt(st, <<t, d>>)
  <2>1. SameFor(st, st2, t, d)
    <3>1. \A g : <<g, t, d>> # <<h, s, c>>
      BY <1>5
    <3> QED BY <1>2, <1>5, <3>1 DEF SameFor, Delete
  <2> QED BY <2>1, PendSame
<1>6. Pend(st2) = [Pend(st) EXCEPT ![<<s, c>>] = None]
  <2>1. \A p \in Pairs : p # <<s, c>> => PendAt(st2, p) = PendAt(st, p)
    BY <1>5 DEF Pairs
  <2>2. <<s, c>> \in Pairs
    BY DEF Pairs
  <2> QED BY <1>4, <2>1, <2>2 DEF Pend
<1> QED BY <1>1, <1>3, <1>6 DEF st2

\* The upper bounds are uint64s, so there is a largest one: the Horizon.
LEMMA HorizonIsLargest ==
    ASSUME NEW u \in UpperBounds
    PROVE  /\ Horizon \in Nat
           /\ \A v \in UpperBounds : v <= Horizon
<1> DEFINE Slack == {n \in Nat : \E v \in UpperBounds : n = Word - 1 - v}
<1>1. Word \in Nat /\ \A v \in UpperBounds : v \in Nat /\ v <= Word - 1
  BY ScheduleAssumption
<1>2. \A v \in UpperBounds : Word - 1 - v \in Slack
  BY <1>1
<1>3. PICK n \in Slack : \A m \in Slack : ~(<<m, n>> \in OpToRel(<, Nat))
  <2>1. Slack \subseteq Nat /\ Slack # {}
    BY <1>2
  <2> HIDE DEF Slack
  <2> QED BY <2>1, NatLessThanWellFounded, WFMin
<1>4. \A m \in Slack : n <= m
  <2> SUFFICES ASSUME NEW m \in Slack PROVE n <= m
    OBVIOUS
  <2>1. m \in Nat /\ n \in Nat
    OBVIOUS
  <2>2. m < n => <<m, n>> \in OpToRel(<, Nat)
    BY <2>1 DEF OpToRel
  <2>3. ~(m < n)
    BY <1>3, <2>2 DEF Slack
  <2> QED BY <2>1, <2>3
<1>5. PICK top \in UpperBounds : n = Word - 1 - top
  OBVIOUS
<1>6. \A v \in UpperBounds : v <= top
  <2> SUFFICES ASSUME NEW v \in UpperBounds PROVE v <= top
    OBVIOUS
  <2>1. n <= Word - 1 - v
    BY <1>2, <1>4
  <2>2. top \in Nat /\ v \in Nat
    BY <1>1
  <2> QED BY <1>1, <1>5, <2>1, <2>2
<1>7. Horizon \in UpperBounds /\ \A v \in UpperBounds : v <= Horizon
  BY <1>6 DEF Horizon
<1> QED BY <1>1, <1>7

\* A height that is neither past nor too far is within the Horizon.
LEMMA HorizonReaches ==
    ASSUME TypeOK, NEW h \in Nat, ~InPast(h), ~TooFarInFuture(h)
    PROVE  h \in height + 1 .. height + Horizon
<1>1. h > height /\ params.upper \in UpperBounds /\ h <= height + params.upper
  BY HorizonFacts
<1>2. height \in Nat /\ Horizon \in Nat /\ params.upper <= Horizon
  BY <1>1, HorizonIsLargest, HeightFacts DEF TypeOK
<1>3. params.upper \in Nat
  <2>1. Word \in Nat /\ UpperBounds \subseteq 0 .. Word - 1
    BY ScheduleAssumption
  <2>2. \A u \in 0 .. Word - 1 : u \in Nat
    BY <2>1
  <2>3. params.upper \in 0 .. Word - 1
    BY <1>1, <2>1
  <2> QED BY <2>2, <2>3
<1>4. \A a, b, u, n \in Nat : n > a /\ n <= a + u /\ u <= b => n \in a + 1 .. a + b
  OBVIOUS
<1> QED BY <1>1, <1>2, <1>3, <1>4

----------------------------------------------------------------------------
(* The steps.                                                              *)

\* What the refinement mapping makes of the store, before and after a step.
LEMMA PendingIs ==
    /\ [p \in Pairs |-> PendingCall(p)] = Pend(store)
    /\ [p \in Pairs |-> PendingCall(p)]' = Pend(store')
BY DEF Pend, PendAt, PendingCall

\* The invariants make the store one the lemmas are about.
LEMMA StoreSound ==
    ASSUME IInv, StoreLayout
    PROVE  Sound(store)
BY DEF IInv, TypeOK, IndexAgrees, StoreLayout, Sound, StoreType, StoreAgrees, LayoutOf

\* A message that adds a call is a Schedule step.
LEMMA AddScheduleMaps ==
    ASSUME IInv, StoreLayout, ~Resubmit, NEW s \in Signers, NEW c \in Contracts,
           NEW body \in Bodies \cup {EmptyBody}, NEW h \in Heights,
           AddSchedule(s, c, body, h)
    PROVE  Calls!Next
<1>1. Sound(store) /\ body \in Bodies /\ phase = "deliver"
  BY StoreSound DEF AddSchedule, ValidateBasic
<1>2. BlockHeightForSignerContract(store, s, c) = 0
  BY DEF AddSchedule
<1>3. /\ <<s, c>> \notin DOMAIN store.byName
      /\ store' = AddScheduledCall(store, s, c, body, h)
  BY <1>1, <1>2, LookupFacts DEF AddSchedule, Sound
<1>4. Pend(store') = [Pend(store) EXCEPT ![<<s, c>>] = [at |-> h, body |-> body]]
  BY <1>1, <1>3, AddPend
<1>5. h \in height + 1 .. height + Horizon
  BY HeightFacts, HorizonReaches DEF AddSchedule, IInv
<1>6. Calls!Schedule(<<s, c>>, body, h)
  BY <1>1, <1>4, <1>5, PendingIs DEF Calls!Schedule, AddSchedule
<1>7. <<s, c>> \in Pairs
  BY DEF Pairs
<1> QED BY <1>1, <1>5, <1>6, <1>7 DEF Calls!Next

\* A message that removes a call is a Cancel step.
LEMMA RemoveScheduleMaps ==
    ASSUME IInv, StoreLayout, NEW s \in Signers, NEW c \in Contracts, RemoveSchedule(s, c)
    PROVE  Calls!Next
<1> DEFINE h == BlockHeightForSignerContract(store, s, c)
<1>1. Sound(store) /\ phase = "deliver"
  BY StoreSound DEF RemoveSchedule
<1>2. store' = removeScheduledCallWithBlockHeight(store, s, c, h)
  BY DEF RemoveSchedule, RemoveScheduledCall
<1>3. h \in Nat /\ \A g \in Heights :
         (/\ <<s, c>> \in DOMAIN store.byName
          /\ store.byName[<<s, c>>] = Uint64ToBigEndian(g)) => g = h
  BY <1>1, LookupFacts DEF Sound
<1> HIDE DEF h
<1>4. Pend(store') = [Pend(store) EXCEPT ![<<s, c>>] = None]
  BY <1>1, <1>2, <1>3, RemovePend
<1>5. Calls!Cancel(<<s, c>>)
  BY <1>1, <1>4, PendingIs DEF Calls!Cancel, RemoveSchedule
<1>6. <<s, c>> \in Pairs
  BY DEF Pairs
<1> QED BY <1>5, <1>6 DEF Calls!Next

\* The call that is visited is the pending call of its pair, due in this block,
\* and none is pending once it is removed.
LEMMA VisitedPend ==
    ASSUME IInv, StoreLayout, LongSigners = {}, NEW k \in todo
    PROVE  /\ <<k[2], k[3]>> \in Pairs
           /\ Pend(store)[<<k[2], k[3]>>] = [at |-> height, body |-> store.byHeight[k].body]
           /\ store.byHeight[k].body \in Bodies
           /\ Sound(Rest(k))
           /\ <<k[2], k[3]>> \notin DOMAIN Rest(k).byName
           /\ Pend(Rest(k)) = [Pend(store) EXCEPT ![<<k[2], k[3]>>] = None]
<1>1. /\ k \in DOMAIN store.byHeight /\ k = <<height, k[2], k[3]>>
      /\ k[2] \in Signers /\ k[3] \in Contracts /\ height \in Heights
      /\ store.byHeight[k] \in Values
  BY VisitedFacts
<1>2. Sound(store) /\ height \in Nat
  BY <1>1, StoreSound, HeightFacts
<1>3. store.byHeight[k].kind = "call" /\ store.byHeight[k].body \in Bodies
  BY <1>1 DEF StoreLayout, Values
<1>4. Rest(k) = removeScheduledCallWithBlockHeight(store, k[2], k[3], height)
  BY DEF Rest, CutSigner, CutContract
<1>5. \A g \in Heights :
         (/\ <<k[2], k[3]>> \in DOMAIN store.byName
          /\ store.byName[<<k[2], k[3]>>] = Uint64ToBigEndian(g)) => g = height
  <2>1. store.byName[<<k[2], k[3]>>] = Uint64ToBigEndian(height)
    BY <1>1, <1>2, <1>3 DEF Sound, StoreAgrees
  <2> QED BY <2>1, ValueFacts
<1>6. <<k[2], k[3]>> \in Pairs
  BY <1>1 DEF Pairs
<1>7. PendAt(store, <<k[2], k[3]>>) = [at |-> height, body |-> store.byHeight[k].body]
  BY <1>1, <1>2, PendFacts
<1>8. Pend(store)[<<k[2], k[3]>>] = PendAt(store, <<k[2], k[3]>>)
  BY <1>6 DEF Pend
<1> QED BY <1>1, <1>2, <1>3, <1>4, <1>5, <1>6, <1>7, <1>8, RemovePend

\* A call that is visited and removed is taken up.
LEMMA RestMaps ==
    ASSUME IInv, StoreLayout, LongSigners = {}, NEW k \in todo, store' = Rest(k),
           UNCHANGED <<height, phase>>, phase = "end"
    PROVE  Calls!Next
<1> DEFINE p == <<k[2], k[3]>>
<1>1. /\ p \in Pairs
      /\ Pend(store)[p] = [at |-> height, body |-> store.byHeight[k].body]
      /\ store.byHeight[k].body \in Bodies
      /\ Pend(store') = [Pend(store) EXCEPT ![p] = None]
      /\ height \in Nat
  BY VisitedPend, VisitedFacts, HeightFacts
<1> HIDE DEF p
<1>2. Pend(store)[p] # None /\ Pend(store)[p].at = height
  BY <1>1, RefinementAssumption
<1>3. Calls!TakeUp(p)
  BY <1>1, <1>2, PendingIs DEF Calls!TakeUp, Calls!Due
<1> QED BY <1>1, <1>3 DEF Calls!Next

\* A call that is visited and scheduled again is taken up again.
LEMMA AgainMaps ==
    ASSUME IInv, StoreLayout, LongSigners = {}, NEW k \in todo, NEW next \in Heights,
           next \in height + 1 .. height + Horizon,
           store' = AddScheduledCall(Rest(k), k[2], k[3], store.byHeight[k].body, next),
           UNCHANGED <<height, phase>>, phase = "end"
    PROVE  Calls!Next
<1> DEFINE p == <<k[2], k[3]>>
           body == store.byHeight[k].body
<1>1. /\ p \in Pairs
      /\ Pend(store)[p] = [at |-> height, body |-> body]
      /\ body \in Bodies
      /\ Sound(Rest(k)) /\ p \notin DOMAIN Rest(k).byName
      /\ Pend(Rest(k)) = [Pend(store) EXCEPT ![p] = None]
      /\ height \in Nat /\ k[2] \in Signers /\ k[3] \in Contracts
  BY VisitedPend, VisitedFacts, HeightFacts
<1>2. Pend(store') = [Pend(Rest(k)) EXCEPT ![p] = [at |-> next, body |-> body]]
  <2>1. store' = AddScheduledCall(Rest(k), k[2], k[3], body, next)
    OBVIOUS
  <2> DEFINE rest == Rest(k)
             s == k[2]
             c == k[3]
  <2>2. /\ Sound(rest) /\ s \in Signers /\ c \in Contracts /\ body \in Bodies
        /\ <<s, c>> \notin DOMAIN rest.byName
        /\ store' = AddScheduledCall(rest, s, c, body, next)
    BY <1>1, <2>1
  <2> HIDE DEF rest, s, c, body
  <2>3. Pend(store') = [Pend(rest) EXCEPT ![<<s, c>>] = [at |-> next, body |-> body]]
    BY <2>2, AddPend
  <2> QED BY <2>3 DEF rest, s, c
<1> HIDE DEF p, body
<1>3. Pend(store)[p] # None /\ Pend(store)[p].at = height
  BY <1>1, RefinementAssumption
<1>4. [Pend(store)[p] EXCEPT !.at = next] = [at |-> next, body |-> body]
  BY <1>1
<1>5. Pend(store') = [Pend(store) EXCEPT ![p] = [Pend(store)[p] EXCEPT !.at = next]]
  <2>1. DOMAIN Pend(store) = Pairs
    BY DEF Pend
  <2> QED BY <1>1, <1>2, <1>4, <2>1
<1>6. Calls!TakeUpAgain(p, next)
  BY <1>1, <1>3, <1>5, PendingIs DEF Calls!TakeUpAgain, Calls!Due
<1> QED BY <1>1, <1>6 DEF Calls!Next

\* A call that is run is taken up for the last time, or again.
LEMMA ConsumeRunMaps ==
    ASSUME IInv, StoreLayout, LongSigners = {}, NEW k \in todo,
           NEW spent \in [Contracts -> Balances],
           NEW O \in [Contracts -> SUBSET Signers], ConsumeRun(k, spent, O)
    PROVE  Calls!Next
<1>1. phase = "end" /\ UNCHANGED <<height, phase, params>> /\ MayRun(k)
  BY DEF ConsumeRun, Visits
<1>2. CutSigner(k) = k[2] /\ CutContract(k) = k[3]
  BY <1>1, MayRunFacts
<1>3. \/ store' = Rest(k)
      \/ \E next \in 0 .. MaxHeight :
            /\ ~InPast(next) /\ ~TooFarInFuture(next)
            /\ store' = AddScheduledCall(Rest(k), k[2], k[3], store.byHeight[k].body, next)
  BY <1>2 DEF ConsumeRun, Outcomes
<1>4. CASE store' = Rest(k)
  BY <1>1, <1>4, RestMaps
<1>5. CASE store' # Rest(k)
  <2>1. PICK next \in 0 .. MaxHeight :
           /\ ~InPast(next) /\ ~TooFarInFuture(next)
           /\ store' = AddScheduledCall(Rest(k), k[2], k[3], store.byHeight[k].body, next)
    BY <1>3, <1>5
  <2>2. next \in Nat /\ MaxHeight \in Nat
    BY StoreAssumption
  <2>3. next \in height + 1 .. height + Horizon
    BY <2>1, <2>2, HorizonReaches DEF IInv
  <2>4. next \in Heights
    BY <2>2, <2>3, HeightFacts DEF Heights, IInv, TypeOK
  <2> QED BY <1>1, <2>1, <2>3, <2>4, AgainMaps
<1> QED BY <1>4, <1>5

\* A block is left only when nothing is due any more.
LEMMA NextBlockMaps ==
    ASSUME IInv, StoreLayout, LongSigners = {}, NextBlock
    PROVE  Calls!Next
<1>1. /\ phase = "end" /\ phase' = "deliver" /\ todo = {}
      /\ height' = height + 1 /\ store' = store
  BY DEF NextBlock
<1>2. ASSUME NEW p \in Pairs, Pend(store)[p] # None
      PROVE  Pend(store)[p].at # height
  <2>1. PICK s \in Signers, c \in Contracts : p = <<s, c>>
    BY DEF Pairs
  <2>2. PendAt(store, <<s, c>>) = Pend(store)[p]
    BY <2>1 DEF Pend
  <2>3. PICK h \in Heights : <<h, s, c>> \in DOMAIN store.byHeight
    BY <1>2, <2>2, StoreSound, PendFacts
  <2>4. PendAt(store, <<s, c>>) = [at |-> h, body |-> store.byHeight[<<h, s, c>>].body]
    BY <2>3, StoreSound, PendFacts
  <2>5. Pend(store)[p].at = h
    <3>1. [at |-> h, body |-> store.byHeight[<<h, s, c>>].body].at = h
      OBVIOUS
    <3> QED BY <2>2, <2>4, <3>1
  <2>6. h # height
    BY <1>1, <2>3 DEF IInv, NoMissedCall
  <2> QED BY <2>5, <2>6
<1>3. Calls!Tick
  BY <1>1, <1>2, PendingIs DEF Calls!Tick, Calls!Due
<1> QED BY <1>3 DEF Calls!Next

\* Each step of the module is a step of the abstract scheduler or invisible.
LEMMA NextMaps ==
    ASSUME IInv, StoreLayout, ~Resubmit, LongSigners = {}, [Next]_vars
    PROVE  [Calls!Next]_(Calls!vars)
<1>1. ASSUME UNCHANGED <<store, height>>, phase' # "deliver" <=> phase # "deliver"
      PROVE  UNCHANGED Calls!vars
  BY <1>1, PendingIs DEF Calls!vars
<1>2. CASE Message
  BY <1>2, AddScheduleMaps, RemoveScheduleMaps DEF Message
<1>3. CASE Environment \/ UNCHANGED vars
  BY <1>1, <1>3 DEF Environment, BalanceChanges, OwnersChange, vars
<1>4. CASE EndBlock
  <2>1. phase = "deliver" /\ phase' = "end" /\ UNCHANGED <<store, height>>
    BY <1>4 DEF EndBlock
  <2>2. Calls!Close
    BY <2>1, PendingIs DEF Calls!Close
  <2> QED BY <2>2 DEF Calls!Next
<1>5. CASE ConsumeScheduledCalls
  <2>1. PICK k \in todo : Consume(k)
    BY <1>5 DEF ConsumeScheduledCalls
  <2>2. CASE ConsumeSkip(k)
    BY <2>2, RestMaps DEF ConsumeSkip, Visits
  <2>3. CASE \E spent \in [Contracts -> Balances], O \in [Contracts -> SUBSET Signers] :
                ConsumeRun(k, spent, O)
    BY <2>3, ConsumeRunMaps
  <2>4. CASE ConsumeUndecodable(k) \/ ConsumeBalanceOverflow(k) \/ ConsumeShortResult(k)
    <3>1. UNCHANGED <<store, height>> /\ phase = "end" /\ phase' = "halted"
      BY <2>4 DEF ConsumeUndecodable, ConsumeBalanceOverflow, ConsumeShortResult, Halt, Visits
    <3> QED BY <1>1, <3>1
  <2> QED BY <2>1, <2>2, <2>3, <2>4 DEF Consume
<1>6. CASE NextBlock
  BY <1>6, NextBlockMaps
<1> QED BY <1>2, <1>3, <1>4, <1>5, <1>6 DEF Next

\* To signers with 20 byte addresses who do not add a call twice, the module is
\* the abstract scheduler: AddSchedule schedules, RemoveSchedule cancels, and
\* the EndBlocker takes up every due call in its block, once.
THEOREM SchedulerImplemented ==
    ASSUME ~Resubmit, LongSigners = {}
    PROVE  Spec => ImplementsCallSchedule
<1>1. Init => Calls!Init
  <2> SUFFICES ASSUME Init PROVE Calls!Init
    OBVIOUS
  <2>1. \A p \in Pairs : PendAt(store, p) = None
    BY DEF Init, EmptyStore, PendAt
  <2>2. Pend(store) = [p \in Pairs |-> None]
    BY <2>1 DEF Pend
  <2> QED BY <2>2, PendingIs DEF Calls!Init, Init
<1>2. IInv /\ StoreLayout /\ [Next]_vars => [Calls!Next]_(Calls!vars)
  BY NextMaps
<1> QED BY <1>1, <1>2, Invariance, LayoutKept, PTL DEF Spec, ImplementsCallSchedule, Calls!Spec

=============================================================================
