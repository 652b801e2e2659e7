-------------------------- MODULE Metacontacts_proofs --------------------------
(* What the metacontacts directory promises for any addresses, tags and number of
   changes: types, that no change is forgotten unless a save fails, and that the
   server is written behind (WriteBehind): it never goes back to an older list.

   The invariant follows a list from the directory to the server: each save on its
   way is one of the lists that the directory had, not older than the one before it
   nor than the stored one, and the last save has the directory's list unless another
   one is due.                                                                      *)
EXTENDS Metacontacts, FiniteSetTheorems, SequenceTheorems, TLAPS

\* The list that a save carries is the one with its number.
OfPast(save) == save.n \in 1..Len(past) /\ past[save.n] = save.list

PastInv == /\ Len(past) >= 2 /\ past[Len(past)] = infoByJID
           /\ OfPast(server)
           /\ \A i \in 1..Len(sent) : OfPast(sent[i]) /\ server.n <= sent[i].n
           /\ \A i, k \in 1..Len(sent) : i <= k => sent[i].n <= sent[k].n

LastInv == Len(past) > 2 /\ ~needsToSave /\ ~failed
           => /\ sent = <<>> => server.list = infoByJID
              /\ sent # <<>> => sent[Len(sent)].list = infoByJID

IInv == TypeOK /\ PastInv /\ LastInv

----------------------------------------------------------------------------
(* Lists. *)

\* The orders that a call gives are at most the number of its ids.
LEMMA OrderedIsList ==
  ASSUME NEW list \in List, NEW t \in Tag, NEW own \in SUBSET JID,
         NEW s \in SeqOf(JID \cup {Other, Gone}, MaxListed)
  PROVE  Ordered(Tagged(list, t, own), t, s) \in List
<1>1. Len(s) \in 0..MaxListed
  <2>1. PICK m \in 0..MaxListed : s \in [1..m -> JID \cup {Other, Gone}]
    BY DEF SeqOf
  <2>2. Len(s) = m
    BY <2>1, MetacontactsAssumption
  <2> QED
    BY <2>1, <2>2
<1>2. Tagged(list, t, own) \in List
  BY DEF Tagged, List, Info
<1>3. ASSUME NEW ps PROVE Order(s, ps) \in 0..MaxListed
  <2>1. /\ IsFiniteSet(1..Len(s)) /\ Cardinality(1..Len(s)) = Len(s)
        /\ Before(s, ps) \subseteq 1..Len(s)
    <3>1. Len(s) \in Int /\ 1 \in Int /\ Len(s) >= 0
      BY <1>1
    <3>2. IsFiniteSet(1..Len(s)) /\ Cardinality(1..Len(s)) = IF 1 > Len(s) THEN 0 ELSE Len(s) - 1 + 1
      BY <3>1, FS_Interval
    <3> QED
      BY <3>1, <3>2 DEF Before
  <2>2. Cardinality(Before(s, ps)) \in 0..Len(s)
    <3>1. IsFiniteSet(Before(s, ps)) /\ Cardinality(Before(s, ps)) <= Len(s)
      BY <2>1, FS_Subset
    <3> QED
      BY <3>1, FS_CardinalityType, <1>1
  <2> QED
    BY <1>1, <2>2, MetacontactsAssumption DEF Order
<1>4. ASSUME NEW l \in List
      PROVE  Ordered(l, t, s) \in List
  BY <1>3 DEF Ordered, List, Info
<1> QED
  BY <1>2, <1>4

\* A queue that takes one more element keeps the others in their places.
LEMMA Grows ==
  ASSUME NEW S, NEW q \in Seq(S), NEW x \in S
  PROVE  /\ Append(q, x) \in Seq(S) /\ Append(q, x) # <<>>
         /\ Len(Append(q, x)) = Len(q) + 1 /\ Len(q) \in Nat
         /\ Append(q, x)[Len(q) + 1] = x
         /\ \A i \in 1..Len(q) : Append(q, x)[i] = q[i]
<1>1. /\ Append(q, x) \in Seq(S) /\ Append(q, x) # <<>>
      /\ Len(Append(q, x)) = Len(q) + 1
      /\ Append(q, x)[Len(q) + 1] = x
      /\ \A i \in 1..Len(q) : Append(q, x)[i] = q[i]
  BY AppendProperties
<1>2. Len(q) \in Nat
  BY LenProperties
<1> QED
  BY <1>1, <1>2

\* A queue that loses its head: the others move up.
LEMMA Shrinks ==
  ASSUME NEW S, NEW q \in Seq(S), q # <<>>
  PROVE  /\ Head(q) \in S /\ Tail(q) \in Seq(S) /\ Head(q) = q[1]
         /\ Len(Tail(q)) = Len(q) - 1 /\ Len(q) \in Nat /\ Len(q) >= 1
         /\ \A i \in 1..Len(Tail(q)) : Tail(q)[i] = q[i + 1]
<1>1. /\ Head(q) \in S /\ Tail(q) \in Seq(S) /\ Head(q) = q[1]
      /\ Len(Tail(q)) = Len(q) - 1
  BY HeadTailProperties
<1>2. \A i \in 1..Len(Tail(q)) : Tail(q)[i] = q[i + 1]
  BY <1>1
<1>3. Len(q) \in Nat /\ Len(q) >= 1
  BY EmptySeq, LenProperties
<1> QED
  BY <1>1, <1>2, <1>3

----------------------------------------------------------------------------
(* The steps. *)

LEMMA OrderStep ==
  ASSUME IInv, NEW t \in Tag, NEW own \in SUBSET JID,
         NEW s \in SeqOf(JID \cup {Other, Gone}, MaxListed),
         rosterContactSetMetacontactOrder(t, own, s)
  PROVE  IInv'
<1> DEFINE list == Ordered(Tagged(infoByJID, t, own), t, s)
           changed == own \cup Changed(Tagged(infoByJID, t, own), t, s)
<1>1. list \in List /\ changed \subseteq JID
  BY OrderedIsList DEF IInv, TypeOK, Changed
<1>2. Becomes(list, changed)
  BY DEF rosterContactSetMetacontactOrder
<1> HIDE DEF list, changed
<1>3. /\ past' \in Seq(List) /\ Len(past') = Len(past) + 1 /\ Len(past) \in Nat
      /\ past'[Len(past) + 1] = list
      /\ \A i \in 1..Len(past) : past'[i] = past[i]
  BY <1>1, <1>2, Grows DEF Becomes, IInv, TypeOK
<1>4. TypeOK'
  BY <1>1, <1>2, <1>3 DEF Becomes, IInv, TypeOK
<1>5. ASSUME NEW save, OfPast(save)
      PROVE  save.n \in 1..Len(past') /\ past'[save.n] = save.list
  BY <1>3, <1>5 DEF OfPast
<1>6. PastInv'
  <2>1. Len(past') >= 2 /\ past'[Len(past')] = infoByJID'
    BY <1>2, <1>3 DEF Becomes, IInv, PastInv
  <2>2. server' = server /\ sent' = sent
    BY <1>2 DEF Becomes
  <2> QED
    BY <1>5, <2>1, <2>2 DEF IInv, PastInv, OfPast
<1>7. LastInv'
  BY <1>2 DEF Becomes, LastInv
<1> QED
  BY <1>4, <1>6, <1>7 DEF IInv

LEMMA SaveStep ==
  ASSUME IInv, saveTimerTimedOut
  PROVE  IInv'
<1> USE DEF IInv, saveTimerTimedOut
<1> DEFINE save == [list |-> infoByJID, n |-> Len(past)]
<1>1. /\ save \in Numbered /\ save.n = Len(past) /\ save.list = infoByJID
      /\ Len(past) \in Nat /\ Len(past) >= 2
  BY LenProperties DEF TypeOK, Numbered, PastInv
<1>2. OfPast(save)
  BY <1>1 DEF OfPast, PastInv
<1>3. past' = past /\ infoByJID' = infoByJID /\ server' = server /\ failed' = ~online
  OBVIOUS
<1> HIDE DEF save
<1>4. CASE ~online
  <2>1. sent' = sent /\ failed' = TRUE
    BY <1>4
  <2>2. TypeOK' /\ LastInv'
    BY <2>1 DEF TypeOK, LastInv
  <2> QED
    BY <1>3, <2>1, <2>2 DEF PastInv, OfPast
<1>5. CASE online
  <2>1. sent' = Append(sent, save)
    BY <1>5 DEF save
  <2>2. /\ sent' \in Seq(Numbered) /\ sent' # <<>> /\ Len(sent') = Len(sent) + 1
        /\ Len(sent) \in Nat /\ sent'[Len(sent) + 1] = save
        /\ \A i \in 1..Len(sent) : sent'[i] = sent[i]
    BY <1>1, <2>1, Grows DEF TypeOK
  <2>3. TypeOK'
    BY <1>5, <2>2 DEF TypeOK
  <2>4. \A i \in 1..Len(sent') : OfPast(sent'[i]) /\ server.n <= sent'[i].n /\ sent'[i].n <= Len(past)
    <3>1. \A i \in 1..Len(sent) : OfPast(sent[i]) /\ server.n <= sent[i].n /\ sent[i].n <= Len(past)
      BY <1>1 DEF PastInv, OfPast
    <3>2. server.n <= save.n /\ save.n <= Len(past)
      BY <1>1 DEF PastInv, OfPast
    <3> QED
      BY <1>2, <2>2, <3>1, <3>2
  <2>5. \A i, k \in 1..Len(sent') : i <= k => sent'[i].n <= sent'[k].n
    <3> SUFFICES ASSUME NEW i \in 1..Len(sent'), NEW k \in 1..Len(sent'), i <= k
                 PROVE  sent'[i].n <= sent'[k].n
      OBVIOUS
    <3>1. CASE k = Len(sent) + 1
      BY <1>1, <2>2, <2>4, <3>1
    <3>2. CASE k # Len(sent) + 1
      <4>1. i \in 1..Len(sent) /\ k \in 1..Len(sent)
        BY <2>2, <3>2
      <4> QED
        BY <2>2, <4>1 DEF PastInv
    <3> QED
      BY <3>1, <3>2
  <2>6. PastInv'
    BY <1>3, <2>4, <2>5 DEF PastInv, OfPast
  <2>7. LastInv'
    BY <1>1, <1>3, <2>2 DEF LastInv
  <2> QED
    BY <2>3, <2>6, <2>7
<1> QED
  BY <1>4, <1>5 DEF TypeOK

\* What the server does with the oldest save: the younger ones move up.
LEMMA TakeStep ==
  ASSUME IInv, sent # <<>>, sent' = Tail(sent), server' \in {server, Head(sent)},
         past' = past, infoByJID' = infoByJID
  PROVE  /\ PastInv' /\ server'.n >= server.n /\ OfPast(server')
         /\ sent' \in Seq(Numbered) /\ server' \in Numbered
         /\ sent' = <<>> => Head(sent) = sent[Len(sent)]
         /\ sent' # <<>> => sent'[Len(sent')] = sent[Len(sent)]
<1> USE DEF IInv
<1>1. /\ Head(sent) \in Numbered /\ sent' \in Seq(Numbered) /\ Head(sent) = sent[1]
      /\ Len(sent') = Len(sent) - 1 /\ Len(sent) \in Nat /\ Len(sent) >= 1
      /\ \A i \in 1..Len(sent') : sent'[i] = sent[i + 1]
  BY Shrinks DEF TypeOK
<1>2. server'.n >= server.n /\ OfPast(server') /\ server' \in Numbered
  <2>1. CASE server' = server
    <3>1. server.n \in Int
      BY DEF TypeOK, Numbered
    <3> QED
      BY <2>1, <3>1 DEF PastInv, TypeOK
  <2>2. CASE server' = Head(sent)
    <3>1. OfPast(sent[1]) /\ server.n <= sent[1].n
      BY <1>1 DEF PastInv
    <3>2. server.n \in Int /\ sent[1].n \in Int
      BY <1>1 DEF TypeOK, Numbered
    <3> QED
      BY <1>1, <2>2, <3>1, <3>2
  <2> QED
    BY <2>1, <2>2
<1>3. \A i \in 1..Len(sent') : OfPast(sent'[i]) /\ server'.n <= sent'[i].n
  <2> SUFFICES ASSUME NEW i \in 1..Len(sent')
               PROVE  OfPast(sent'[i]) /\ server'.n <= sent'[i].n
    OBVIOUS
  <2>1. i + 1 \in 1..Len(sent) /\ 1 \in 1..Len(sent) /\ 1 <= i + 1 /\ sent'[i] = sent[i + 1]
    BY <1>1
  <2>2. OfPast(sent[i + 1]) /\ server.n <= sent[i + 1].n /\ sent[1].n <= sent[i + 1].n
    BY <2>1 DEF PastInv
  <2> QED
    BY <1>1, <2>1, <2>2
<1>4. \A i, k \in 1..Len(sent') : i <= k => sent'[i].n <= sent'[k].n
  <2> SUFFICES ASSUME NEW i \in 1..Len(sent'), NEW k \in 1..Len(sent'), i <= k
               PROVE  sent'[i].n <= sent'[k].n
    OBVIOUS
  <2>1. /\ i + 1 \in 1..Len(sent) /\ k + 1 \in 1..Len(sent) /\ i + 1 <= k + 1
        /\ sent'[i] = sent[i + 1] /\ sent'[k] = sent[k + 1]
    BY <1>1
  <2> QED
    BY <2>1 DEF PastInv
<1>5. PastInv'
  BY <1>2, <1>3, <1>4 DEF PastInv, OfPast
<1>6. sent' = <<>> => Head(sent) = sent[Len(sent)]
  <2> SUFFICES ASSUME sent' = <<>>
               PROVE  Head(sent) = sent[Len(sent)]
    OBVIOUS
  <2>1. Len(sent') = 0
    BY <1>1, EmptySeq
  <2>2. \A n \in Nat : 0 = n - 1 => n = 1
    OBVIOUS
  <2>3. Len(sent) = 1
    <3>1. Len(sent) \in Nat /\ 0 = Len(sent) - 1
      BY <1>1, <2>1
    <3> QED
      BY <2>2, <3>1
  <2> QED
    BY <1>1, <2>3
<1>7. sent' # <<>> => sent'[Len(sent')] = sent[Len(sent)]
  <2> SUFFICES ASSUME sent' # <<>>
               PROVE  sent'[Len(sent')] = sent[Len(sent)]
    OBVIOUS
  <2>1. Len(sent') \in 1..Len(sent') /\ Len(sent') + 1 = Len(sent)
    BY <1>1, EmptySeq, LenProperties
  <2> QED
    BY <1>1, <2>1
<1> QED
  BY <1>1, <1>2, <1>5, <1>6, <1>7

LEMMA StoreStep ==
  ASSUME IInv, ServerStores
  PROVE  IInv'
<1> USE DEF IInv, ServerStores
<1>1. /\ PastInv' /\ sent' \in Seq(Numbered) /\ server' \in Numbered
      /\ sent' = <<>> => Head(sent) = sent[Len(sent)]
      /\ sent' # <<>> => sent'[Len(sent')] = sent[Len(sent)]
  BY TakeStep
<1>2. results' \in Seq(BOOLEAN)
  BY Grows DEF TypeOK
<1>3. TypeOK'
  BY <1>1, <1>2 DEF TypeOK
<1>4. LastInv'
  BY <1>1 DEF LastInv
<1> QED
  BY <1>1, <1>3, <1>4

LEMMA RefuseStep ==
  ASSUME IInv, ServerRefuses
  PROVE  IInv'
<1> USE DEF IInv, ServerRefuses
<1>1. /\ PastInv' /\ sent' \in Seq(Numbered)
      /\ sent' # <<>> => sent'[Len(sent')] = sent[Len(sent)]
  BY TakeStep
<1>2. results' \in Seq(BOOLEAN)
  BY Grows DEF TypeOK
<1>3. TypeOK'
  BY <1>1, <1>2 DEF TypeOK
<1>4. LastInv'
  BY <1>1 DEF LastInv, TypeOK
<1> QED
  BY <1>1, <1>3, <1>4

LEMMA DisconnectStep ==
  ASSUME IInv, Disconnected
  PROVE  IInv'
<1> USE DEF IInv, Disconnected
<1>1. <<>> \in Seq(Numbered) /\ <<>> \in Seq(BOOLEAN) /\ Len(sent') = 0
  BY EmptySeq
<1>2. TypeOK'
  BY <1>1 DEF TypeOK
<1>3. PastInv'
  BY <1>1 DEF PastInv, OfPast
<1>4. LastInv'
  BY DEF LastInv
<1> QED
  BY <1>2, <1>3, <1>4

LEMMA Preserved == IInv /\ [Next]_vars => IInv'
<1> SUFFICES ASSUME IInv, [Next]_vars
             PROVE  IInv'
  OBVIOUS
<1>1. ASSUME NEW t \in Tag, NEW own \in SUBSET JID, NEW s \in SeqOf(JID \cup {Other, Gone}, MaxListed),
             rosterContactSetMetacontactOrder(t, own, s)
      PROVE  IInv'
  BY <1>1, OrderStep
<1>2. CASE storageMetacontacts_finishedSaveToServer
  <2>1. results' \in Seq(BOOLEAN)
    BY <1>2, Shrinks DEF storageMetacontacts_finishedSaveToServer, IInv, TypeOK
  <2> QED
    BY <1>2, <2>1 DEF storageMetacontacts_finishedSaveToServer, IInv, TypeOK, PastInv,
                      OfPast, LastInv
<1>3. CASE Connected
  BY <1>3 DEF Connected, IInv, TypeOK, PastInv, OfPast, LastInv
<1>4. CASE UNCHANGED vars
  BY <1>4 DEF vars, IInv, TypeOK, PastInv, OfPast, LastInv
<1> QED
  BY <1>1, <1>2, <1>3, <1>4, SaveStep, StoreStep, RefuseStep, DisconnectStep DEF Next

LEMMA Begins == Init => IInv
<1> SUFFICES ASSUME Init
             PROVE  IInv
  OBVIOUS
<1>1. NoInfo \in Info /\ Foreign \subseteq List
  <2>1. 0 \in 0..MaxListed /\ 1 \in 0..MaxListed
    BY MetacontactsAssumption
  <2> QED
    BY <2>1 DEF NoInfo, Info, Foreign, List
<1>2. infoByJID \in List
  BY <1>1 DEF Init, List
<1>3. PICK first \in Foreign : server = [list |-> first, n |-> 1] /\ past = <<first, infoByJID>>
  BY DEF Init
<1>4. /\ past \in Seq(List) /\ Len(past) = 2 /\ past[1] = first /\ past[2] = infoByJID
      /\ server \in Numbered
  BY <1>1, <1>2, <1>3 DEF Numbered
<1>5. sent = <<>> /\ sent \in Seq(Numbered) /\ results \in Seq(BOOLEAN) /\ Len(sent) = 0
  BY EmptySeq DEF Init
<1>6. TypeOK
  BY <1>2, <1>4, <1>5 DEF Init, TypeOK
<1>7. PastInv
  BY <1>3, <1>4, <1>5 DEF PastInv, OfPast
<1>8. LastInv
  BY <1>4 DEF LastInv
<1> QED
  BY <1>6, <1>7, <1>8 DEF IInv

----------------------------------------------------------------------------
(* The theorems. *)

THEOREM Invariance == Spec => []IInv
  BY Begins, Preserved, PTL DEF Spec

\* Every variable keeps its type; an order is never higher than the
\* number of ids in the longest call, of which some may be of other accounts or gone.
THEOREM TypeCorrect == Spec => []TypeOK
<1>1. IInv => TypeOK
  BY DEF IInv
<1> QED
  BY <1>1, Invariance, PTL

\* No change is forgotten, however saves and changes overtake each other, unless the
\* last save was lost or refused.
THEOREM SavedUnlessFailedHolds == Spec => []SavedUnlessFailed
<1>1. IInv => SavedUnlessFailed
  BY DEF IInv, LastInv, SavedUnlessFailed
<1> QED
  BY <1>1, Invariance, PTL

\* The directory implements the abstract cache: the server stores whole lists of the
\* directory, and none that is older than the stored one.
THEOREM Refinement == Spec => WritesBehind
<1>1. Init => WB!Init
  <2> SUFFICES ASSUME Init
               PROVE  WB!Init
    OBVIOUS
  <2>1. PICK first \in Foreign : server = [list |-> first, n |-> 1] /\ past = <<first, infoByJID>>
    BY DEF Init
  <2>2. infoByJID \in List /\ first \in List
    BY <2>1, Begins DEF IInv, TypeOK, Numbered
  <2>3. server.n = 1 /\ server.list = first /\ past[1] = first
    BY <2>1
  <2> QED
    BY <2>1, <2>2, <2>3 DEF WB!Init
<1>2. IInv /\ IInv' /\ [Next]_vars => [WB!Next]_(WB!vars)
  <2> SUFFICES ASSUME IInv, IInv', [Next]_vars
               PROVE  [WB!Next]_(WB!vars)
    OBVIOUS
  <2>1. ASSUME NEW t \in Tag, NEW own \in SUBSET JID,
               NEW s \in SeqOf(JID \cup {Other, Gone}, MaxListed),
               rosterContactSetMetacontactOrder(t, own, s)
        PROVE  WB!Next
    <3>1. Ordered(Tagged(infoByJID, t, own), t, s) \in List
      BY OrderedIsList DEF IInv, TypeOK
    <3> QED
      BY <2>1, <3>1 DEF rosterContactSetMetacontactOrder, Becomes, WB!Next, WB!Change
  <2>2. CASE ServerStores
    <3>1. server'.n >= server.n /\ OfPast(server') /\ past' = past
      BY <2>2, TakeStep DEF ServerStores
    <3>2. server'.n \in server.n..Len(past)
      BY <3>1 DEF OfPast, IInv, TypeOK, Numbered
    <3> QED
      BY <3>1, <3>2 DEF OfPast, WB!Next, WB!Store
  <2>3. CASE \/ saveTimerTimedOut \/ storageMetacontacts_finishedSaveToServer
             \/ ServerRefuses \/ Connected \/ Disconnected \/ UNCHANGED vars
    BY <2>3 DEF saveTimerTimedOut, storageMetacontacts_finishedSaveToServer, ServerRefuses,
                Connected, Disconnected, vars, WB!vars
  <2> QED
    BY <2>1, <2>2, <2>3 DEF Next
<1> QED
  BY <1>1, <1>2, Invariance, PTL DEF Spec, WritesBehind, WB!Spec
==============================================================================
