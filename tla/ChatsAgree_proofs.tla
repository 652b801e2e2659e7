---------------------------- MODULE ChatsAgree_proofs ----------------------------
(* What Chats promises of a chat's entry, for any number of contacts, entries and chats:
   when nothing is on its way both sides have the same one, and a chat keeps a deleted
   entry only for a while.

   Neither is inductive, nor is any fact about the two sides' entries alone: while
   messages cross, each side may have whatever it likes.  The invariant (AgreeNow) says
   instead what the user interface will have when it has heard all that is on its way:
   V and W replay the queue, of the roster and of one chat.  At the end of the replay
   the chat's entry is the core's, or the user interface has picked an entry, or an
   observer will pick one on the way, that the core has still to be told (Settles);
   an entry of the core's chat that is no longer its contact's will be replaced
   (LetsGo); and no entry that was told leaves the contact without the observer seeing
   it (Watches).  A chat that the user interface has still to open is replayed from
   nothing, even when it has a chat of that ID already by mistake.

   The lemmas about the replay are about any queue, roster and chat; the lemmas about
   the program's actions, the last three sections, only use them.                   *)
EXTENDS Chats_proofs, WellFoundedInduction

----------------------------------------------------------------------------
(* What is still to be heard. *)

Owners == [EntryId -> ContactId \cup {None}]
EntryMoves == {"rosterEntryAdded", "rosterEntryRemoved", "rosterEntryContactChanged"}

\* The roster v when the notification m has been heard, and what m says of v.
RosterAfter(v, m) == IF m.note \in EntryMoves THEN [v EXCEPT ![m.entry] = NewOwner(m)] ELSE v
Fits(v, m) ==
    /\ m.note = "rosterEntryAdded" => v[m.entry] = None
    /\ m.note = "rosterEntryContactChanged" => v[m.entry] = m.old /\ m.old # m.new

\* What m makes of w, that is what the user interface has of the chat k, when nobody picks
\* an entry.
Opens(w, m, k) == m.note = "chatIncoming" /\ m.chat = k /\ w = None
Turns(w, m, k) == m.note = "chatEntryChanged" /\ m.chat = k /\ w # None
ViewAfter(w, m, k) == IF Opens(w, m, k) THEN [contact |-> m.contact, entry |-> m.entry]
                      ELSE IF Turns(w, m, k) THEN [w EXCEPT !.entry = m.entry] ELSE w

\* V and W are what the user interface has of the roster, and of the chat k, before it
\* hears the i-th notification of the queue q.
RosterReplay(V, q) ==
    /\ V \in [Nat -> Owners]
    /\ \A i \in 1..Len(q) : V[i + 1] = RosterAfter(V[i], q[i]) /\ Fits(V[i], q[i])
ViewReplay(W, q, k) ==
    /\ W \in [Nat -> Open \cup {None}]
    /\ \A i \in 1..Len(q) : W[i + 1] = ViewAfter(W[i], q[i], k)

\* The i-th notification changes the entries of the chat's contact, and the chat's entry is
\* none of them then: the chat's observer picks another one.
Repicks(w, v, u) ==
    /\ w # None
    /\ \E n \in EntryId : ~(v[n] = w.contact <=> u[n] = w.contact)
    /\ IF w.entry = None THEN \E n \in EntryId : u[n] = w.contact
                         ELSE u[w.entry] # w.contact
RepickAt(V, W, i) == Repicks(W[i], V[i], V[i + 1])
Repicked(V, W, a, b) == \E i \in a..b : RepickAt(V, W, i)

\* Something before the r-th notification tells the chat's entry.
ToldAt(W, q, k, r) == \E i \in 1..(r - 1) : Opens(W[i], q[i], k) \/ Turns(W[i], q[i], k)
\* The chat's entry is one of its contact, or none; or it is one of another contact.
GoodAt(V, W, r) == W[r] # None /\ (W[r].entry = None \/ V[r][W[r].entry] = W[r].contact)
BadAt(V, W, r) == W[r] # None /\ W[r].entry # None /\ V[r][W[r].entry] # W[r].contact

\* The calls by which the user interface picks an entry for the chat, and the last of them.
Picks(k) == {ChatChangeEntry(k, e) : e \in Chosen}
LastPick(tc, k, f) == LastIn(tc, Picks(k), {ChatChangeEntry(k, f)})

\* Every notification of another entry finds the chat open, and one that opens the chat
\* gives it an entry of its contact.
Heard(V, W, q, k) == \A i \in 1..Len(q) :
    /\ q[i].note = "chatEntryChanged" /\ q[i].chat = k => W[i] # None
    /\ Opens(W[i], q[i], k) => V[i][q[i].entry] = q[i].contact

\* What the user interface will have heard is what the core has, or it has picked an
\* entry, or will pick one, that the core has still to be told.
Settles(V, W, q, k, ch, tc) ==
    \/ W[Len(q) + 1].entry = ch.entry
    \/ /\ ~ToldAt(W, q, k, Len(q) + 1)
       /\ \/ Repicked(V, W, 1, Len(q))
          \/ \E f \in Chosen : /\ LastPick(tc, k, f) /\ W[1].entry = f
                               /\ f # None => V[1][f] = ch.contact
\* A chat whose entry is not one of its contact will get another.
LetsGo(V, W, q, k, ch, tc) ==
    ch.entry # None /\ V[Len(q) + 1][ch.entry] # ch.contact =>
        \/ Repicked(V, W, 1, Len(q))
        \/ \E f \in Chosen : LastPick(tc, k, f) /\ (f = None \/ V[Len(q) + 1][f] = ch.contact)
\* When an entry that was told leaves the contact, the chat's observer picks another one.
Watches(V, W, q, k) == \A r \in 1..(Len(q) + 1) :
    ToldAt(W, q, k, r) /\ GoodAt(V, W, r) /\ BadAt(V, W, Len(q) + 1)
        => Repicked(V, W, r, Len(q))

\* The chat k, w for the user interface and ch for the core, with the notifications q and
\* the calls tc on their way.
ChatAgrees(V, W, q, k, w, ch, tc) ==
    /\ ViewReplay(W, q, k) /\ W[1] = w /\ Heard(V, W, q, k)
    /\ W[Len(q) + 1] # None
    /\ w = None => W[Len(q) + 1].contact = ch.contact
    /\ W[Len(q) + 1].contact = ch.contact =>
          Settles(V, W, q, k, ch, tc) /\ LetsGo(V, W, q, k, ch, tc) /\ Watches(V, W, q, k)
RosterAgrees(V, q, g, o) == RosterReplay(V, q) /\ V[1] = g /\ V[Len(q) + 1] = o
\* All chats but those of X, each with all that the user interface may have of it.
Agreeing(g, views, q, o, chs, tc, X) ==
    \E V : /\ RosterAgrees(V, q, g, o)
           /\ \A k \in ChatId \ X : chs[k] # None =>
                  \A w \in views[k] : \E W : ChatAgrees(V, W, q, k, w, chs[k], tc)

----------------------------------------------------------------------------

\* A set of naturals has a least one.
LEMMA Least ==
  ASSUME NEW T \in SUBSET Nat, T # {}
  PROVE  \E n \in T : \A m \in T : n <= m
<1> DEFINE R == {p \in Nat \X Nat : p[1] < p[2]}
<1>1. IsWellFoundedOn(R, Nat)
  BY NatLessThanWellFounded DEF OpToRel
<1> HIDE DEF R
<1>2. PICK n \in T : \A m \in T : <<m, n>> \notin R
  BY <1>1, WFMin
<1> USE DEF R
<1>3. ASSUME NEW m \in T PROVE n <= m
  <2>1. n \in Nat /\ m \in Nat /\ <<m, n>> \notin R
    BY <1>2
  <2>2. ~(m < n)
    BY <2>1
  <2> QED
    BY <2>1, <2>2
<1> QED
  BY <1>3

\* What holds at a and no longer at b stops holding at one step between.
LEMMA Between ==
  ASSUME NEW a \in Nat, NEW b \in Nat, a <= b, NEW S, a \in S, b \notin S
  PROVE  \E i \in a..(b - 1) : i \in S /\ i + 1 \notin S
<1> DEFINE T == {i \in a..b : i \notin S}
<1>1. T \in SUBSET Nat /\ b \in T
  OBVIOUS
<1>2. PICK n \in T : \A m \in T : n <= m
  BY <1>1, Least
<1>3. n \in Nat /\ n # a /\ n - 1 \in a..(b - 1) /\ (n - 1) + 1 = n
  BY <1>2
<1>4. n - 1 \in S
  BY <1>2, <1>3
<1> QED
  BY <1>2, <1>3, <1>4

\* An entry that leaves a contact leaves it at one of the notifications.
LEMMA Leaves ==
  ASSUME NEW V, NEW e, NEW a \in Nat, NEW b \in Nat, a <= b, V[b][e] # V[a][e]
  PROVE  \E i \in a..(b - 1) : V[i][e] = V[a][e] /\ V[i + 1][e] # V[a][e]
<1> DEFINE S == {i \in a..b : V[i][e] = V[a][e]}
<1>1. a \in S /\ b \notin S
  OBVIOUS
<1>2. PICK i \in a..(b - 1) : i \in S /\ i + 1 \notin S
  BY <1>1, Between
<1>3. i + 1 \in a..b
  OBVIOUS
<1> QED
  BY <1>2, <1>3

\* The fields of the notifications.
LEMMA NoteFields ==
  ASSUME NEW m \in NoteMsg
  PROVE  /\ m.note \in EntryMoves => m.entry \in EntryId /\ NewOwner(m) \in ContactId \cup {None}
         /\ m.note = "chatIncoming" =>
               /\ m.chat \in ChatId /\ m.contact \in ContactId /\ m.entry \in EntryId
               /\ [contact |-> m.contact, entry |-> m.entry] \in Open
         /\ m.note = "chatEntryChanged" =>
               /\ m.chat \in ChatId /\ m.entry \in Chosen
               /\ \A w \in Open : [w EXCEPT !.entry = m.entry] \in Open
         /\ m.note = "rosterEntryAdded" => m.contact \in ContactId /\ NewOwner(m) = m.contact
         /\ m.note = "rosterEntryRemoved" => NewOwner(m) = None
         /\ m.note = "rosterEntryContactChanged" =>
               m.old \in ContactId /\ m.new \in ContactId /\ NewOwner(m) = m.new
         /\ None \notin Open
<1>1. None \notin Open
  BY ChatsAssumption
<1>2. CASE m \in RosterNote
  BY <1>1, <1>2 DEF RosterNote, EntryMoves, NewOwner
<1>3. CASE m \in ChatNote
  BY <1>1, <1>3 DEF ChatNote, EntryMoves, Open, Chosen
<1> QED
  BY <1>2, <1>3 DEF NoteMsg

\* A chat that is open stays open, with its contact.
LEMMA OpenStays ==
  ASSUME NEW q \in Seq(NoteMsg), NEW W, NEW k, ViewReplay(W, q, k),
         NEW a \in Nat, NEW b \in 1..(Len(q) + 1), 1 <= a, a <= b, W[a] # None
  PROVE  W[b] # None /\ W[b].contact = W[a].contact
<1> DEFINE S == {i \in a..b : W[i] # None /\ W[i].contact = W[a].contact}
<1>1. a \in S /\ Len(q) \in Nat /\ b \in Nat
  OBVIOUS
<1>2. ASSUME b \notin S PROVE FALSE
  <2>1. PICK i \in a..(b - 1) : i \in S /\ i + 1 \notin S
    BY <1>1, <1>2, Between
  <2>2. i \in 1..Len(q) /\ i \in Nat /\ i + 1 \in a..b
    BY <1>1
  <2>3. W[i] # None /\ W[i].contact = W[a].contact /\ W[i] \in Open
    BY <2>1, <2>2 DEF ViewReplay
  <2>4. W[i + 1] = W[i] \/ W[i + 1] = [W[i] EXCEPT !.entry = q[i].entry]
    BY <2>2, <2>3 DEF ViewReplay, ViewAfter, Opens
  <2>5. [W[i] EXCEPT !.entry = q[i].entry].contact = W[i].contact
    BY <2>3 DEF Open
  <2>6. W[i + 1] # None
    <3>1. q[i] \in NoteMsg /\ None \notin Open
      BY <2>2, ElementOfSeq, NoteFields
    <3>2. Turns(W[i], q[i], k) => [W[i] EXCEPT !.entry = q[i].entry] \in Open
      BY <2>3, <3>1, NoteFields DEF Turns
    <3> QED
      BY <2>2, <2>3, <3>1, <3>2 DEF ViewReplay, ViewAfter, Opens
  <2> QED
    BY <2>1, <2>2, <2>3, <2>4, <2>5, <2>6
<1> QED
  BY <1>2

\* What is not told does not change.
LEMMA Untold ==
  ASSUME NEW q \in Seq(NoteMsg), NEW W, NEW k, ViewReplay(W, q, k),
         NEW r \in 1..(Len(q) + 1), ~ToldAt(W, q, k, r)
  PROVE  \A i \in 1..r : W[i] = W[1]
<1> SUFFICES ASSUME NEW j \in 1..r, W[j] # W[1]
             PROVE  FALSE
  OBVIOUS
<1> DEFINE S == {i \in 1..j : W[i] = W[1]}
<1>1. 1 \in S /\ j \notin S /\ 1 \in Nat /\ j \in Nat /\ 1 <= j /\ Len(q) \in Nat
  OBVIOUS
<1>2. PICK i \in 1..(j - 1) : i \in S /\ i + 1 \notin S
  <2> HIDE DEF S
  <2> QED
    BY <1>1, Between
<1>3. i \in 1..Len(q) /\ i \in 1..(r - 1) /\ i + 1 \in 1..j
  BY <1>1
<1>4. W[i + 1] # W[i]
  BY <1>2, <1>3
<1> QED
  BY <1>3, <1>4 DEF ViewReplay, ViewAfter, ToldAt

----------------------------------------------------------------------------
(* One notification more. *)

Longer(q, q2, m) ==
    /\ q \in Seq(NoteMsg) /\ m \in NoteMsg /\ q2 \in Seq(NoteMsg)
    /\ Len(q) \in Nat /\ Len(q2) = Len(q) + 1
    /\ \A i \in 1..Len(q) : q2[i] = q[i]
    /\ q2[Len(q) + 1] = m

\* What is replayed of the roster, and of a chat, with m after q.
RosterGrown(V, q, m) == [V EXCEPT ![Len(q) + 2] = RosterAfter(V[Len(q) + 1], m)]
ViewGrown(W, q, m, k) == [W EXCEPT ![Len(q) + 2] = ViewAfter(W[Len(q) + 1], m, k)]
Same(A, B, n) == \A i \in 1..n : B[i] = A[i]

LEMMA OneMore ==
  ASSUME NEW q \in Seq(NoteMsg), NEW m \in NoteMsg
  PROVE  Longer(q, q \o <<m>>, m)
<1>1. <<m>> \in Seq(NoteMsg) /\ Len(<<m>>) = 1 /\ <<m>>[1] = m /\ 1 \in 1..1
  BY One
<1> QED
  BY <1>1, Grows DEF Longer

\* What the replays of a longer queue say of the shorter one.
LEMMA MoreFacts ==
  ASSUME NEW q, NEW q2, NEW m, Longer(q, q2, m), NEW k, NEW V, NEW V2, NEW W, NEW W2,
         ViewReplay(W, q, k), Same(V, V2, Len(q) + 1), Same(W, W2, Len(q) + 1)
  PROVE  /\ \A r \in 1..(Len(q) + 1) :
               /\ ToldAt(W2, q2, k, r) <=> ToldAt(W, q, k, r)
               /\ GoodAt(V2, W2, r) <=> GoodAt(V, W, r)
               /\ BadAt(V2, W2, r) <=> BadAt(V, W, r)
               /\ Repicked(V, W, r, Len(q)) => Repicked(V2, W2, r, Len(q2))
               /\ Repicks(W[Len(q) + 1], V[Len(q) + 1], V2[Len(q) + 2])
                     => Repicked(V2, W2, r, Len(q2))
         /\ ToldAt(W2, q2, k, Len(q2) + 1) <=>
               \/ ToldAt(W, q, k, Len(q) + 1)
               \/ Opens(W[Len(q) + 1], m, k) \/ Turns(W[Len(q) + 1], m, k)
<1>1. /\ Len(q) \in Nat /\ Len(q2) = Len(q) + 1 /\ q2[Len(q) + 1] = m
      /\ \A i \in 1..Len(q) : q2[i] = q[i]
      /\ \A i \in 1..(Len(q) + 1) : V2[i] = V[i] /\ W2[i] = W[i]
  BY DEF Longer, Same
<1>2. ASSUME NEW r \in 1..(Len(q) + 1)
      PROVE  /\ ToldAt(W2, q2, k, r) <=> ToldAt(W, q, k, r)
             /\ GoodAt(V2, W2, r) <=> GoodAt(V, W, r)
             /\ BadAt(V2, W2, r) <=> BadAt(V, W, r)
             /\ Repicked(V, W, r, Len(q)) => Repicked(V2, W2, r, Len(q2))
             /\ Repicks(W[Len(q) + 1], V[Len(q) + 1], V2[Len(q) + 2])
                   => Repicked(V2, W2, r, Len(q2))
  <2>1. \A i \in 1..(r - 1) : i \in 1..Len(q) /\ i \in 1..(Len(q) + 1)
    BY <1>1
  <2>2. ToldAt(W2, q2, k, r) <=> ToldAt(W, q, k, r)
    BY <1>1, <2>1 DEF ToldAt
  <2>3. /\ GoodAt(V2, W2, r) <=> GoodAt(V, W, r)
        /\ BadAt(V2, W2, r) <=> BadAt(V, W, r)
    BY <1>1 DEF GoodAt, BadAt
  <2>4. ASSUME Repicked(V, W, r, Len(q)) PROVE Repicked(V2, W2, r, Len(q2))
    <3>1. PICK i \in r..Len(q) : RepickAt(V, W, i)
      BY <2>4 DEF Repicked
    <3>2. i \in 1..(Len(q) + 1) /\ i + 1 \in 1..(Len(q) + 1) /\ i \in r..Len(q2)
      BY <1>1
    <3>3. RepickAt(V2, W2, i)
      BY <1>1, <3>1, <3>2 DEF RepickAt
    <3> QED
      BY <3>2, <3>3 DEF Repicked
  <2>5. ASSUME Repicks(W[Len(q) + 1], V[Len(q) + 1], V2[Len(q) + 2])
        PROVE  Repicked(V2, W2, r, Len(q2))
    <3>1. Len(q) + 1 \in r..Len(q2) /\ Len(q) + 1 \in 1..(Len(q) + 1)
          /\ (Len(q) + 1) + 1 = Len(q) + 2
      BY <1>1
    <3>2. RepickAt(V2, W2, Len(q) + 1)
      BY <1>1, <2>5, <3>1 DEF RepickAt
    <3> QED
      BY <3>1, <3>2 DEF Repicked
  <2> QED
    BY <2>2, <2>3, <2>4, <2>5
<1>3. ToldAt(W2, q2, k, Len(q2) + 1) <=>
               \/ ToldAt(W, q, k, Len(q) + 1)
               \/ Opens(W[Len(q) + 1], m, k) \/ Turns(W[Len(q) + 1], m, k)
  <2>1. Len(q) + 1 \in 1..(Len(q2) + 1 - 1) /\ Len(q) + 1 \in 1..(Len(q) + 1)
    BY <1>1
  <2>2. \A i \in 1..(Len(q2) + 1 - 1) :
           i = Len(q) + 1 \/ (i \in 1..(Len(q) + 1 - 1) /\ i \in 1..(Len(q) + 1) /\ i \in 1..Len(q))
    BY <1>1
  <2>3. \A i \in 1..(Len(q) + 1 - 1) :
           i \in 1..(Len(q2) + 1 - 1) /\ i \in 1..(Len(q) + 1) /\ i \in 1..Len(q)
    BY <1>1
  <2> QED
    BY <1>1, <2>1, <2>2, <2>3 DEF ToldAt
<1> QED
  BY <1>2, <1>3

LEMMA OwnersAfter ==
  ASSUME NEW v \in Owners, NEW m \in NoteMsg
  PROVE  RosterAfter(v, m) \in Owners
<1>1. m.note \in EntryMoves => m.entry \in EntryId /\ NewOwner(m) \in ContactId \cup {None}
  BY NoteFields
<1> QED
  BY <1>1 DEF RosterAfter, Owners

LEMMA ViewsAfter ==
  ASSUME NEW w \in Open \cup {None}, NEW m \in NoteMsg, NEW k
  PROVE  ViewAfter(w, m, k) \in Open \cup {None}
<1>1. CASE Opens(w, m, k)
  BY <1>1, NoteFields DEF Opens, ViewAfter
<1>2. CASE ~Opens(w, m, k) /\ Turns(w, m, k)
  BY <1>2, NoteFields DEF Turns, ViewAfter
<1> QED
  BY <1>1, <1>2 DEF ViewAfter

\* The roster that is replayed takes the notification.
LEMMA RosterMore ==
  ASSUME NEW q, NEW q2, NEW m, Longer(q, q2, m), NEW V, NEW g, NEW o, RosterAgrees(V, q, g, o),
         Fits(o, m)
  PROVE  /\ RosterAgrees(RosterGrown(V, q, m), q2, g, RosterAfter(o, m))
         /\ Same(V, RosterGrown(V, q, m), Len(q) + 1)
<1>1. PICK V2 : V2 = RosterGrown(V, q, m)
  OBVIOUS
<1>2. /\ Len(q) \in Nat /\ Len(q2) = Len(q) + 1 /\ q2[Len(q) + 1] = m /\ m \in NoteMsg
      /\ \A i \in 1..Len(q) : q2[i] = q[i]
  BY DEF Longer
<1>3. /\ V \in [Nat -> Owners] /\ V[1] = g /\ V[Len(q) + 1] = o /\ Len(q) + 2 \in Nat
      /\ \A i \in 1..Len(q) : V[i + 1] = RosterAfter(V[i], q[i]) /\ Fits(V[i], q[i])
  BY <1>2 DEF RosterAgrees, RosterReplay
<1>4. o \in Owners /\ RosterAfter(o, m) \in Owners
  BY <1>2, <1>3, OwnersAfter
<1>5. /\ V2 \in [Nat -> Owners] /\ V2[Len(q) + 2] = RosterAfter(o, m)
      /\ \A i \in 1..(Len(q) + 1) : V2[i] = V[i]
  BY <1>1, <1>2, <1>3, <1>4 DEF RosterGrown
<1>6. ASSUME NEW i \in 1..Len(q2) PROVE V2[i + 1] = RosterAfter(V2[i], q2[i]) /\ Fits(V2[i], q2[i])
  <2>1. CASE i \in 1..Len(q)
    <3>1. i \in 1..(Len(q) + 1) /\ i + 1 \in 1..(Len(q) + 1)
      BY <1>2, <2>1
    <3> QED
      BY <1>2, <1>3, <1>5, <2>1, <3>1
  <2>2. CASE i = Len(q) + 1
    <3>1. i \in 1..(Len(q) + 1) /\ i + 1 = Len(q) + 2
      BY <1>2, <2>2
    <3>2. V2[i] = o
      BY <1>3, <1>5, <2>2, <3>1
    <3> QED
      BY <1>2, <1>5, <2>2, <3>1, <3>2
  <2> QED
    BY <1>2, <2>1, <2>2
<1>7. V2[1] = g /\ V2[Len(q2) + 1] = RosterAfter(o, m)
  BY <1>2, <1>3, <1>5
<1> QED
  BY <1>1, <1>5, <1>6, <1>7 DEF RosterAgrees, RosterReplay, Same

\* So does what is replayed of a chat.
LEMMA ViewMore ==
  ASSUME NEW q, NEW q2, NEW m, Longer(q, q2, m), NEW k, NEW W, ViewReplay(W, q, k)
  PROVE  /\ ViewReplay(ViewGrown(W, q, m, k), q2, k)
         /\ Same(W, ViewGrown(W, q, m, k), Len(q) + 1)
         /\ ViewGrown(W, q, m, k)[Len(q2) + 1] = ViewAfter(W[Len(q) + 1], m, k)
<1>1. PICK W2 : W2 = ViewGrown(W, q, m, k)
  OBVIOUS
<1>2. /\ Len(q) \in Nat /\ Len(q2) = Len(q) + 1 /\ q2[Len(q) + 1] = m /\ m \in NoteMsg
      /\ \A i \in 1..Len(q) : q2[i] = q[i]
  BY DEF Longer
<1>3. /\ W \in [Nat -> Open \cup {None}] /\ Len(q) + 2 \in Nat /\ Len(q) + 1 \in Nat
      /\ \A i \in 1..Len(q) : W[i + 1] = ViewAfter(W[i], q[i], k)
  BY <1>2 DEF ViewReplay
<1> DEFINE w == ViewAfter(W[Len(q) + 1], m, k)
<1>4. w \in Open \cup {None}
  BY <1>2, <1>3, ViewsAfter
<1> HIDE DEF w
<1>5. /\ W2 \in [Nat -> Open \cup {None}] /\ W2[Len(q) + 2] = w
      /\ \A i \in 1..(Len(q) + 1) : W2[i] = W[i]
  BY <1>1, <1>2, <1>3, <1>4 DEF w, ViewGrown
<1>6. ASSUME NEW i \in 1..Len(q2) PROVE W2[i + 1] = ViewAfter(W2[i], q2[i], k)
  <2>1. CASE i \in 1..Len(q)
    <3>1. i \in 1..(Len(q) + 1) /\ i + 1 \in 1..(Len(q) + 1)
      BY <1>2, <2>1
    <3> QED
      BY <1>2, <1>3, <1>5, <2>1, <3>1
  <2>2. CASE i = Len(q) + 1
    <3>1. i \in 1..(Len(q) + 1) /\ i + 1 = Len(q) + 2
      BY <1>2, <2>2
    <3> QED
      BY <1>2, <1>5, <2>2, <3>1 DEF w
  <2> QED
    BY <1>2, <2>1, <2>2
<1>7. W2[Len(q2) + 1] = w
  BY <1>2, <1>5
<1> QED
  BY <1>1, <1>5, <1>6, <1>7 DEF ViewReplay, w, Same

----------------------------------------------------------------------------
(* A notification at the end of the queue. *)

\* An entry that was not told since leaves the contact: the observer sees it.
LEMMA LeftRepicks ==
  ASSUME NEW q \in Seq(NoteMsg), NEW k, NEW V, NEW W, ViewReplay(W, q, k),
         NEW r \in 1..(Len(q) + 1), ~ToldAt(W, q, k, r), W[1] # None, W[1].entry # None,
         V[1][W[1].entry] = W[1].contact, V[r][W[1].entry] # W[1].contact
  PROVE  Repicked(V, W, 1, Len(q))
<1>1. Len(q) \in Nat /\ 1 \in Nat /\ r \in Nat /\ 1 <= r
  OBVIOUS
<1>2. W[1] \in Open /\ W[1].entry \in EntryId
  BY DEF ViewReplay, Open
<1>3. PICK i \in 1..(r - 1) : /\ V[i][W[1].entry] = W[1].contact
                              /\ V[i + 1][W[1].entry] # W[1].contact
  <2>1. PICK e : e = W[1].entry
    OBVIOUS
  <2>2. V[r][e] # V[1][e] /\ V[1][e] = W[1].contact
    BY <2>1
  <2>3. \E i \in 1..(r - 1) : V[i][e] = V[1][e] /\ V[i + 1][e] # V[1][e]
    BY <1>1, <2>2, Leaves
  <2> QED
    BY <2>1, <2>2, <2>3
<1>4. i \in 1..Len(q) /\ i \in 1..r
  BY <1>1
<1>5. W[i] = W[1]
  BY <1>4, Untold
<1>6. RepickAt(V, W, i)
  BY <1>2, <1>3, <1>5 DEF RepickAt, Repicks
<1> QED
  BY <1>4, <1>6 DEF Repicked

\* A pick that was not overridden is one of the contact still, or the observer picks again.
LEMMA PickLasts ==
  ASSUME NEW q \in Seq(NoteMsg), NEW k, NEW V, NEW W, ViewReplay(W, q, k), NEW ch, NEW tc,
         W[Len(q) + 1] # None, W[Len(q) + 1].contact = ch.contact,
         ~ToldAt(W, q, k, Len(q) + 1),
         NEW f \in Chosen, LastPick(tc, k, f), W[1].entry = f, f # None => V[1][f] = ch.contact
  PROVE  LetsGo(V, W, q, k, ch, tc)
<1>1. Len(q) + 1 \in 1..(Len(q) + 1)
  OBVIOUS
<1>2. W[Len(q) + 1] = W[1]
  BY <1>1, Untold
<1>3. CASE f = None \/ V[Len(q) + 1][f] = ch.contact
  BY <1>3 DEF LetsGo
<1>4. CASE f # None /\ V[Len(q) + 1][f] # ch.contact
  <2>1. Repicked(V, W, 1, Len(q))
    BY <1>1, <1>2, <1>4, LeftRepicks
  <2> QED
    BY <2>1 DEF LetsGo
<1> QED
  BY <1>3, <1>4

LEMMA NoteAgrees ==
  ASSUME NEW q, NEW q2, NEW m, Longer(q, q2, m), NEW V, NEW g, NEW o, RosterAgrees(V, q, g, o),
         Fits(o, m),
         NEW k, NEW w, NEW ch \in Chat, NEW tc, NEW W, ChatAgrees(V, W, q, k, w, ch, tc),
         ~(m.note \in {"chatIncoming", "chatEntryChanged"} /\ m.chat = k)
  PROVE  \E W2 : ChatAgrees(RosterGrown(V, q, m), W2, q2, k, w, ch, tc)
<1>1. PICK W2, V2, u : /\ W2 = ViewGrown(W, q, m, k) /\ V2 = RosterGrown(V, q, m)
                       /\ u = RosterAfter(o, m)
  OBVIOUS
<1>2. /\ q \in Seq(NoteMsg) /\ q2 \in Seq(NoteMsg) /\ Len(q) \in Nat /\ Len(q2) = Len(q) + 1
      /\ m \in NoteMsg /\ q2[Len(q) + 1] = m /\ \A i \in 1..Len(q) : q2[i] = q[i]
  BY DEF Longer
<1>3. /\ ViewReplay(W, q, k) /\ W[1] = w /\ Heard(V, W, q, k) /\ W[Len(q) + 1] # None
      /\ w = None => W[Len(q) + 1].contact = ch.contact
      /\ W[Len(q) + 1].contact = ch.contact =>
            /\ Settles(V, W, q, k, ch, tc) /\ LetsGo(V, W, q, k, ch, tc)
            /\ Watches(V, W, q, k)
  BY DEF ChatAgrees
<1>4. ~Opens(W[Len(q) + 1], m, k) /\ ~Turns(W[Len(q) + 1], m, k)
  BY DEF Opens, Turns
<1>5. /\ ViewReplay(W2, q2, k) /\ Same(W, W2, Len(q) + 1)
      /\ W2[Len(q2) + 1] = W[Len(q) + 1]
  <2>1. ViewAfter(W[Len(q) + 1], m, k) = W[Len(q) + 1]
    BY <1>4 DEF ViewAfter
  <2> QED
    BY <1>1, <1>3, <2>1, ViewMore
<1>6. /\ RosterAgrees(V2, q2, g, u) /\ Same(V, V2, Len(q) + 1)
      /\ V2[Len(q2) + 1] = u /\ V2[Len(q) + 2] = u /\ V[Len(q) + 1] = o
  <2>1. RosterAgrees(V2, q2, g, u) /\ Same(V, V2, Len(q) + 1)
    BY <1>1, RosterMore
  <2>2. Len(q2) + 1 = Len(q) + 2
    BY <1>2
  <2> QED
    BY <2>1, <2>2 DEF RosterAgrees
<1>7. /\ \A r \in 1..(Len(q) + 1) :
            /\ ToldAt(W2, q2, k, r) <=> ToldAt(W, q, k, r)
            /\ GoodAt(V2, W2, r) <=> GoodAt(V, W, r)
            /\ Repicked(V, W, r, Len(q)) => Repicked(V2, W2, r, Len(q2))
            /\ Repicks(W[Len(q) + 1], o, u) => Repicked(V2, W2, r, Len(q2))
      /\ ToldAt(W2, q2, k, Len(q2) + 1) <=> ToldAt(W, q, k, Len(q) + 1)
  <2>1. V[Len(q) + 1] = o /\ V2[Len(q) + 2] = u
    BY <1>6
  <2> QED
    BY <1>3, <1>4, <1>5, <1>6, <2>1, MoreFacts
<1>8. 1 \in 1..(Len(q) + 1) /\ V2[1] = V[1] /\ W2[1] = W[1]
  BY <1>2, <1>5, <1>6 DEF Same
<1>9. Heard(V2, W2, q2, k)
  <2> SUFFICES ASSUME NEW i \in 1..Len(q2)
               PROVE  /\ q2[i].note = "chatEntryChanged" /\ q2[i].chat = k => W2[i] # None
                      /\ Opens(W2[i], q2[i], k) => V2[i][q2[i].entry] = q2[i].contact
    BY DEF Heard
  <2>1. CASE i = Len(q) + 1
    BY <1>2, <2>1 DEF Opens
  <2>2. CASE i \in 1..Len(q)
    <3>1. i \in 1..(Len(q) + 1)
      BY <1>2, <2>2
    <3> QED
      BY <1>2, <1>3, <1>5, <1>6, <2>2, <3>1 DEF Heard, Same
  <2> QED
    BY <1>2, <2>1, <2>2
<1>10. ASSUME W[Len(q) + 1].contact = ch.contact
      PROVE  /\ Settles(V2, W2, q2, k, ch, tc) /\ LetsGo(V2, W2, q2, k, ch, tc)
             /\ Watches(V2, W2, q2, k)
  <2>1. Settles(V, W, q, k, ch, tc) /\ LetsGo(V, W, q, k, ch, tc) /\ Watches(V, W, q, k)
    BY <1>3, <1>10
  <2>2. Settles(V2, W2, q2, k, ch, tc)
    BY <1>5, <1>7, <1>8, <2>1 DEF Settles
  <2>3. W[Len(q) + 1] \in Open /\ ch.contact \in ContactId /\ ch.entry \in Chosen
    BY <1>2, <1>3 DEF ViewReplay, Chat, Chosen
  <2>4. W[Len(q) + 1].entry \in Chosen
    BY <2>3 DEF Open, Chosen
  <2>5. LetsGo(V2, W2, q2, k, ch, tc)
    <3>1. SUFFICES ASSUME ch.entry # None, u[ch.entry] # ch.contact
                   PROVE  \/ Repicked(V2, W2, 1, Len(q2))
                          \/ \E f \in Chosen : /\ LastPick(tc, k, f)
                                               /\ f = None \/ u[f] = ch.contact
      BY <1>6 DEF LetsGo
    <3>2. CASE ~ToldAt(W, q, k, Len(q) + 1) /\ Repicked(V, W, 1, Len(q))
      BY <1>7, <1>8, <3>2
    <3>3. ASSUME ~ToldAt(W, q, k, Len(q) + 1),
                 NEW f \in Chosen, LastPick(tc, k, f), W[1].entry = f,
                 f # None => V[1][f] = ch.contact
          PROVE  \/ Repicked(V2, W2, 1, Len(q2))
                 \/ \E x \in Chosen : LastPick(tc, k, x) /\ (x = None \/ u[x] = ch.contact)
      <4>1. LetsGo(V2, W2, q2, k, ch, tc)
        <5>1. ~ToldAt(W2, q2, k, Len(q2) + 1)
          BY <1>7, <3>3
        <5>2. W2[1].entry = f /\ (f # None => V2[1][f] = ch.contact)
          BY <1>8, <3>3
        <5>3. W2[Len(q2) + 1] # None /\ W2[Len(q2) + 1].contact = ch.contact
          BY <1>3, <1>5, <1>10
        <5> QED
          BY <1>2, <1>5, <3>3, <5>1, <5>2, <5>3, PickLasts
      <4> QED
        BY <1>6, <3>1, <4>1 DEF LetsGo
    <3>4. CASE W[Len(q) + 1].entry = ch.entry
      <4>1. ch.entry \in EntryId
        BY <2>3, <3>1 DEF Chosen
      <4>2. ASSUME NEW x \in EntryId, o[x] = ch.contact, u[x] # ch.contact
            PROVE  Repicked(V2, W2, 1, Len(q2))
        <5>1. Repicks(W[Len(q) + 1], o, u)
          BY <1>3, <1>10, <3>1, <3>4, <4>2 DEF Repicks
        <5> QED
          BY <1>7, <1>8, <5>1
      <4>3. CASE o[ch.entry] = ch.contact
        BY <3>1, <4>1, <4>2, <4>3
      <4>4. CASE o[ch.entry] # ch.contact
        <5>1. \/ Repicked(V, W, 1, Len(q))
              \/ \E f \in Chosen : LastPick(tc, k, f) /\ (f = None \/ o[f] = ch.contact)
          BY <1>6, <2>1, <3>1, <4>4 DEF LetsGo
        <5>2. ASSUME NEW f \in Chosen, LastPick(tc, k, f), f # None, o[f] = ch.contact,
                     u[f] # ch.contact
              PROVE  Repicked(V2, W2, 1, Len(q2))
          <6>1. f \in EntryId
            BY <5>2 DEF Chosen
          <6> QED
            BY <4>2, <5>2, <6>1
        <5> QED
          BY <1>7, <1>8, <5>1, <5>2
      <4> QED
        BY <4>3, <4>4
    <3> QED
      BY <2>1, <3>2, <3>3, <3>4 DEF Settles
  <2>6. Watches(V2, W2, q2, k)
    <3> SUFFICES ASSUME NEW r \in 1..(Len(q2) + 1), ToldAt(W2, q2, k, r), GoodAt(V2, W2, r),
                        BadAt(V2, W2, Len(q2) + 1)
                 PROVE  Repicked(V2, W2, r, Len(q2))
      BY DEF Watches
    <3>1. r # Len(q2) + 1
      BY DEF GoodAt, BadAt
    <3>2. r \in 1..(Len(q) + 1)
      BY <1>2, <3>1
    <3>3. ToldAt(W, q, k, r) /\ GoodAt(V, W, r)
      BY <1>7, <3>2
    <3>4. /\ W[Len(q) + 1].entry # None
          /\ u[W[Len(q) + 1].entry] # W[Len(q) + 1].contact
      BY <1>5, <1>6 DEF BadAt
    <3>5. CASE o[W[Len(q) + 1].entry] # W[Len(q) + 1].contact
      <4>1. BadAt(V, W, Len(q) + 1)
        BY <1>3, <1>6, <3>4, <3>5 DEF BadAt
      <4>2. Repicked(V, W, r, Len(q))
        BY <2>1, <3>2, <3>3, <4>1 DEF Watches
      <4> QED
        BY <1>7, <3>2, <4>2
    <3>6. CASE o[W[Len(q) + 1].entry] = W[Len(q) + 1].contact
      <4>1. W[Len(q) + 1].entry \in EntryId
        BY <2>4, <3>4 DEF Chosen
      <4>2. Repicks(W[Len(q) + 1], o, u)
        BY <1>3, <3>4, <3>6, <4>1 DEF Repicks
      <4> QED
        BY <1>7, <3>2, <4>2
    <3> QED
      BY <3>5, <3>6
  <2> QED
    BY <2>2, <2>5, <2>6
<1>11. ChatAgrees(V2, W2, q2, k, w, ch, tc)
  BY <1>3, <1>5, <1>8, <1>9, <1>10 DEF ChatAgrees
<1> QED
  BY <1>1, <1>11

\* More calls, or fewer, that say the same of the chat last.
LEMMA CallsAgree ==
  ASSUME NEW V, NEW W, NEW q, NEW k, NEW w, NEW ch, NEW tc, ChatAgrees(V, W, q, k, w, ch, tc),
         NEW tc2, \A f \in Chosen : LastPick(tc, k, f) => LastPick(tc2, k, f)
  PROVE  ChatAgrees(V, W, q, k, w, ch, tc2)
<1>1. Settles(V, W, q, k, ch, tc) => Settles(V, W, q, k, ch, tc2)
  BY DEF Settles
<1>2. LetsGo(V, W, q, k, ch, tc) => LetsGo(V, W, q, k, ch, tc2)
  BY DEF LetsGo
<1> QED
  BY <1>1, <1>2 DEF ChatAgrees

\* The core turns the chat to an entry of its contact, or to none, or, having nothing better,
\* to another contact's.
LEMMA TurnAgrees ==
  ASSUME NEW q, NEW q2, NEW m, Longer(q, q2, m), NEW V, NEW g, NEW o, RosterAgrees(V, q, g, o),
         NEW k, NEW w, NEW ch \in Chat, NEW tc, NEW W, ChatAgrees(V, W, q, k, w, ch, tc),
         NEW e \in Chosen, m = ChatEntryChanged(k, e),
         NEW ch2 \in Chat, ch2.contact = ch.contact, ch2.entry = e, NEW tc2,
         \/ e = None \/ o[e] = ch.contact
         \/ tc2 = tc /\ ch.entry # None /\ o[ch.entry] # ch.contact
  PROVE  \E W2 : ChatAgrees(RosterGrown(V, q, m), W2, q2, k, w, ch2, tc2)
<1>1. PICK W2, V2 : W2 = ViewGrown(W, q, m, k) /\ V2 = RosterGrown(V, q, m)
  OBVIOUS
<1>2. /\ q \in Seq(NoteMsg) /\ q2 \in Seq(NoteMsg) /\ Len(q) \in Nat /\ Len(q2) = Len(q) + 1
      /\ m \in NoteMsg /\ q2[Len(q) + 1] = m /\ \A i \in 1..Len(q) : q2[i] = q[i]
  BY DEF Longer
<1>3. /\ ViewReplay(W, q, k) /\ W[1] = w /\ Heard(V, W, q, k) /\ W[Len(q) + 1] # None
      /\ w = None => W[Len(q) + 1].contact = ch.contact
      /\ W[Len(q) + 1].contact = ch.contact =>
            /\ Settles(V, W, q, k, ch, tc) /\ LetsGo(V, W, q, k, ch, tc)
            /\ Watches(V, W, q, k)
  BY DEF ChatAgrees
<1>4. m.note = "chatEntryChanged" /\ m.chat = k /\ m.entry = e
  BY DEF ChatEntryChanged
<1>5. Turns(W[Len(q) + 1], m, k) /\ ~Opens(W[Len(q) + 1], m, k)
  BY <1>3, <1>4 DEF Turns, Opens
<1>6. RosterAfter(o, m) = o /\ Fits(o, m)
  BY <1>4 DEF RosterAfter, Fits, EntryMoves
<1>7. /\ ViewReplay(W2, q2, k) /\ Same(W, W2, Len(q) + 1)
      /\ W2[Len(q2) + 1] = [W[Len(q) + 1] EXCEPT !.entry = e]
  <2>1. ViewAfter(W[Len(q) + 1], m, k) = [W[Len(q) + 1] EXCEPT !.entry = e]
    BY <1>4, <1>5 DEF ViewAfter
  <2> QED
    BY <1>1, <1>3, <2>1, ViewMore
<1>8. /\ Same(V, V2, Len(q) + 1)
      /\ V2[Len(q2) + 1] = o /\ V2[Len(q) + 2] = o /\ V[Len(q) + 1] = o
  <2>1. RosterAgrees(V2, q2, g, o) /\ Same(V, V2, Len(q) + 1)
    BY <1>1, <1>6, RosterMore
  <2>2. Len(q2) + 1 = Len(q) + 2
    BY <1>2
  <2> QED
    BY <2>1, <2>2 DEF RosterAgrees
<1>9. /\ W[Len(q) + 1] \in Open
      /\ W2[Len(q2) + 1] # None /\ W2[Len(q2) + 1].entry = e
      /\ W2[Len(q2) + 1].contact = W[Len(q) + 1].contact
  <2>1. W[Len(q) + 1] \in Open
    BY <1>2, <1>3 DEF ViewReplay
  <2>2. [W[Len(q) + 1] EXCEPT !.entry = e] # None
    <3>1. \A x \in Open : [x EXCEPT !.entry = m.entry] \in Open
      BY <1>2, <1>4, NoteFields
    <3>2. [W[Len(q) + 1] EXCEPT !.entry = m.entry] \in Open
      BY <2>1, <3>1
    <3> QED
      BY <1>4, <3>2, ChatsAssumption
  <2> QED
    BY <1>7, <2>1, <2>2 DEF Open
<1>10. /\ \A r \in 1..(Len(q) + 1) :
            /\ ToldAt(W2, q2, k, r) <=> ToldAt(W, q, k, r)
            /\ GoodAt(V2, W2, r) <=> GoodAt(V, W, r)
            /\ Repicked(V, W, r, Len(q)) => Repicked(V2, W2, r, Len(q2))
      /\ ToldAt(W2, q2, k, Len(q2) + 1)
  BY <1>3, <1>5, <1>7, <1>8, MoreFacts
<1>11. 1 \in 1..(Len(q) + 1) /\ W2[1] = W[1]
  BY <1>2, <1>7 DEF Same
<1>12. Heard(V2, W2, q2, k)
  <2> SUFFICES ASSUME NEW i \in 1..Len(q2)
               PROVE  /\ q2[i].note = "chatEntryChanged" /\ q2[i].chat = k => W2[i] # None
                      /\ Opens(W2[i], q2[i], k) => V2[i][q2[i].entry] = q2[i].contact
    BY DEF Heard
  <2>1. CASE i = Len(q) + 1
    <3>1. i \in 1..(Len(q) + 1)
      BY <1>2, <2>1
    <3>2. W2[i] # None
      BY <1>3, <1>7, <2>1, <3>1 DEF Same
    <3> QED
      BY <3>2 DEF Opens
  <2>2. CASE i \in 1..Len(q)
    <3>1. i \in 1..(Len(q) + 1)
      BY <1>2, <2>2
    <3> QED
      BY <1>2, <1>3, <1>7, <1>8, <2>2, <3>1 DEF Heard, Same
  <2> QED
    BY <1>2, <2>1, <2>2
<1>13. ASSUME W[Len(q) + 1].contact = ch.contact
       PROVE  /\ Settles(V2, W2, q2, k, ch2, tc2) /\ LetsGo(V2, W2, q2, k, ch2, tc2)
              /\ Watches(V2, W2, q2, k)
  <2>1. Settles(V, W, q, k, ch, tc) /\ LetsGo(V, W, q, k, ch, tc) /\ Watches(V, W, q, k)
    BY <1>3, <1>13
  <2>2. Settles(V2, W2, q2, k, ch2, tc2)
    BY <1>9 DEF Settles
  <2>3. LetsGo(V2, W2, q2, k, ch2, tc2)
    <3>1. CASE e = None \/ o[e] = ch.contact
      BY <1>8, <3>1 DEF LetsGo
    <3>2. CASE tc2 = tc /\ ch.entry # None /\ o[ch.entry] # ch.contact
      <4>1. \/ Repicked(V, W, 1, Len(q))
            \/ \E f \in Chosen : LastPick(tc, k, f) /\ (f = None \/ o[f] = ch.contact)
        BY <1>8, <2>1, <3>2 DEF LetsGo
      <4>2. \/ Repicked(V2, W2, 1, Len(q2))
            \/ \E f \in Chosen : LastPick(tc2, k, f) /\ (f = None \/ V2[Len(q2) + 1][f] = ch2.contact)
        BY <1>8, <1>10, <1>11, <3>2, <4>1
      <4> QED
        BY <4>2 DEF LetsGo
    <3> QED
      BY <3>1, <3>2
  <2>4. Watches(V2, W2, q2, k)
    <3> SUFFICES ASSUME NEW r \in 1..(Len(q2) + 1), ToldAt(W2, q2, k, r), GoodAt(V2, W2, r),
                        BadAt(V2, W2, Len(q2) + 1)
                 PROVE  Repicked(V2, W2, r, Len(q2))
      BY DEF Watches
    <3>1. r # Len(q2) + 1
      BY DEF GoodAt, BadAt
    <3>2. r \in 1..(Len(q) + 1)
      BY <1>2, <3>1
    <3>3. ToldAt(W, q, k, r) /\ GoodAt(V, W, r)
      BY <1>10, <3>2
    <3>4. e # None /\ o[e] # ch.contact
      BY <1>8, <1>9, <1>13 DEF BadAt
    <3>5. ch.entry # None /\ o[ch.entry] # ch.contact
      BY <3>4
    <3>6. ToldAt(W, q, k, Len(q) + 1)
      <4>1. \A i \in 1..(r - 1) : i \in 1..(Len(q) + 1 - 1)
        BY <1>2, <3>2
      <4> QED
        BY <3>3, <4>1 DEF ToldAt
    <3>7. BadAt(V, W, Len(q) + 1)
      BY <1>3, <1>8, <1>13, <2>1, <3>5, <3>6 DEF Settles, BadAt
    <3>8. Repicked(V, W, r, Len(q))
      BY <2>1, <3>2, <3>3, <3>7 DEF Watches
    <3> QED
      BY <1>10, <3>2, <3>8
  <2> QED
    BY <2>2, <2>3, <2>4
<1>14. ChatAgrees(V2, W2, q2, k, w, ch2, tc2)
  BY <1>3, <1>7, <1>9, <1>11, <1>12, <1>13 DEF ChatAgrees
<1> QED
  BY <1>1, <1>14

\* A queue that says nothing of the chat's entry.
Unnamed(q, k) == \A i \in 1..Len(q) :
    ~(q[i].note \in {"chatIncoming", "chatEntryChanged"} /\ q[i].chat = k)
Always(w) == [i \in Nat |-> w]

LEMMA UnnamedView ==
  ASSUME NEW q \in Seq(NoteMsg), NEW k, Unnamed(q, k), NEW w \in Open \cup {None}
  PROVE  /\ ViewReplay(Always(w), q, k)
         /\ \A i \in 1..(Len(q) + 1) : Always(w)[i] = w /\ ~ToldAt(Always(w), q, k, i)
         /\ \A V : Heard(V, Always(w), q, k)
<1>1. Len(q) \in Nat
  BY LenProperties
<1>2. \A i \in 1..Len(q) : ~Opens(w, q[i], k) /\ ~Turns(w, q[i], k)
  BY DEF Unnamed, Opens, Turns
<1>3. Always(w) \in [Nat -> Open \cup {None}] /\ \A i \in Nat : Always(w)[i] = w
  BY DEF Always
<1>4. ASSUME NEW i \in 1..Len(q) PROVE Always(w)[i + 1] = ViewAfter(Always(w)[i], q[i], k)
  <2>1. i \in Nat /\ i + 1 \in Nat
    BY <1>1
  <2> QED
    BY <1>2, <1>3, <2>1 DEF ViewAfter
<1>5. ASSUME NEW r \in 1..(Len(q) + 1) PROVE Always(w)[r] = w /\ ~ToldAt(Always(w), q, k, r)
  <2>1. r \in Nat /\ \A i \in 1..(r - 1) : i \in 1..Len(q) /\ i \in Nat
    BY <1>1
  <2> QED
    BY <1>2, <1>3, <2>1 DEF ToldAt
<1>6. \A V : Heard(V, Always(w), q, k)
  <2>1. \A i \in 1..Len(q) : Always(w)[i] = w
    BY <1>1, <1>3
  <2> QED
    BY <1>2, <2>1 DEF Heard, Unnamed
<1> QED
  BY <1>3, <1>4, <1>5, <1>6 DEF ViewReplay

\* What m opens for the user interface, that has w of the chat.
Opening(q, k, w, ch, m, o) ==
    /\ Unnamed(q, k) /\ w \in Open \cup {None} /\ ch \in Chat /\ ch.entry \in EntryId
    /\ o[ch.entry] = ch.contact /\ m = ChatIncoming(k, ch.contact, ch.entry)
    /\ w = None \/ w.contact # ch.contact

\* A chat is made that the user interface has not heard of.
LEMMA OpenAgrees ==
  ASSUME NEW q, NEW q2, NEW m, Longer(q, q2, m), NEW V, NEW g, NEW o, RosterAgrees(V, q, g, o),
         NEW k, NEW w, NEW ch, Opening(q, k, w, ch, m, o)
  PROVE  \E W : \A tc : ChatAgrees(RosterGrown(V, q, m), W, q2, k, w, ch, tc)
<1>1. PICK c, e : c = ch.contact /\ e = ch.entry
  OBVIOUS
<1>2. /\ Unnamed(q, k) /\ w \in Open \cup {None} /\ ch \in Chat
      /\ c \in ContactId /\ e \in EntryId /\ o[e] = c /\ m = ChatIncoming(k, c, e)
      /\ w = None \/ w.contact # c
      /\ ch.contact = c /\ ch.entry = e
  BY <1>1 DEF Opening, Chat
<1>3. PICK A, W, V2 : A = Always(w) /\ W = ViewGrown(A, q, m, k) /\ V2 = RosterGrown(V, q, m)
  OBVIOUS
<1>4. /\ q \in Seq(NoteMsg) /\ q2 \in Seq(NoteMsg) /\ Len(q) \in Nat /\ Len(q2) = Len(q) + 1
      /\ m \in NoteMsg /\ q2[Len(q) + 1] = m /\ \A i \in 1..Len(q) : q2[i] = q[i]
  BY DEF Longer
<1>5. /\ ViewReplay(A, q, k) /\ A[1] = w /\ A[Len(q) + 1] = w /\ Heard(V, A, q, k)
      /\ \A i \in 1..(Len(q) + 1) : ~ToldAt(A, q, k, i)
  BY <1>3, <1>4, <1>2, UnnamedView
<1>6. m.note = "chatIncoming" /\ m.chat = k /\ m.contact = c /\ m.entry = e
  BY <1>2 DEF ChatIncoming
<1>7. RosterAfter(o, m) = o /\ Fits(o, m)
  BY <1>6 DEF RosterAfter, Fits, EntryMoves
<1>8. /\ ViewReplay(W, q2, k) /\ Same(A, W, Len(q) + 1)
      /\ W[Len(q2) + 1] = ViewAfter(w, m, k)
  BY <1>3, <1>5, ViewMore
<1>9. /\ Same(V, V2, Len(q) + 1) /\ V2[Len(q2) + 1] = o /\ V[Len(q) + 1] = o
  <2>1. RosterAgrees(V2, q2, g, o) /\ Same(V, V2, Len(q) + 1)
    BY <1>3, <1>7, RosterMore
  <2> QED
    BY <2>1 DEF RosterAgrees
<1>10. 1 \in 1..(Len(q) + 1) /\ Len(q) + 1 \in 1..(Len(q) + 1) /\ W[1] = w /\ W[Len(q) + 1] = w
  BY <1>4, <1>5, <1>8 DEF Same
<1>11. Heard(V2, W, q2, k)
  <2> SUFFICES ASSUME NEW i \in 1..Len(q2)
               PROVE  /\ q2[i].note = "chatEntryChanged" /\ q2[i].chat = k => W[i] # None
                      /\ Opens(W[i], q2[i], k) => V2[i][q2[i].entry] = q2[i].contact
    BY DEF Heard
  <2>1. CASE i = Len(q) + 1
    BY <1>4, <1>6, <1>9, <1>10, <1>2, <2>1 DEF Same
  <2>2. CASE i \in 1..Len(q)
    BY <1>4, <1>2, <2>2 DEF Unnamed, Opens
  <2> QED
    BY <1>4, <2>1, <2>2
<1>12. CASE w = None
  <2>1. /\ W[Len(q2) + 1] = [contact |-> c, entry |-> e] /\ W[Len(q2) + 1] # None
    <3>1. ViewAfter(w, m, k) = [contact |-> c, entry |-> e]
      BY <1>6, <1>12 DEF ViewAfter, Opens
    <3>2. [contact |-> c, entry |-> e] # None
      BY <1>4, <1>6, NoteFields
    <3> QED
      BY <1>8, <3>1, <3>2
  <2>2. \A tc : Settles(V2, W, q2, k, ch, tc)
    BY <1>2, <2>1 DEF Settles
  <2>3. \A tc : LetsGo(V2, W, q2, k, ch, tc)
    BY <1>9, <1>2 DEF LetsGo
  <2>4. Watches(V2, W, q2, k)
    BY <1>9, <1>2, <2>1 DEF Watches, BadAt
  <2>5. \A tc : ChatAgrees(V2, W, q2, k, w, ch, tc)
    BY <1>8, <1>10, <1>11, <1>2, <2>1, <2>2, <2>3, <2>4 DEF ChatAgrees
  <2> QED
    BY <1>3, <2>5
<1>13. CASE w # None
  <2>1. W[Len(q2) + 1] = w
    <3>1. ViewAfter(w, m, k) = w
      BY <1>6, <1>13 DEF ViewAfter, Opens, Turns
    <3> QED
      BY <1>8, <3>1
  <2>2. \A tc : ChatAgrees(V2, W, q2, k, w, ch, tc)
    BY <1>8, <1>10, <1>11, <1>13, <1>2, <2>1 DEF ChatAgrees
  <2> QED
    BY <1>3, <2>2
<1> QED
  BY <1>12, <1>13

\* What the user interface, that has w of the chat, has asked the core to make.
Starting(q, k, w, ch, g, o) ==
    /\ Unnamed(q, k) /\ w \in Open
    /\ w.contact = ch.contact =>
          /\ w.entry # None => g[w.entry] = w.contact
          /\ \/ ch.entry = w.entry
             \/ ch.entry = None /\ w.entry # None /\ o[w.entry] # w.contact

\* A chat is made that the user interface has asked for, and will have under its ID.
LEMMA StartAgrees ==
  ASSUME NEW q \in Seq(NoteMsg), NEW V, NEW g, NEW o, RosterAgrees(V, q, g, o),
         NEW k, NEW w, NEW ch, Starting(q, k, w, ch, g, o)
  PROVE  \E W : \A tc : ChatAgrees(V, W, q, k, w, ch, tc)
<1>1. /\ Unnamed(q, k) /\ w \in Open
      /\ w.contact = ch.contact =>
            /\ w.entry # None => g[w.entry] = w.contact
            /\ \/ ch.entry = w.entry
               \/ ch.entry = None /\ w.entry # None /\ o[w.entry] # w.contact
  BY DEF Starting
<1>2. PICK W : W = Always(w)
  OBVIOUS
<1>3. /\ Len(q) \in Nat /\ 1 \in 1..(Len(q) + 1) /\ Len(q) + 1 \in 1..(Len(q) + 1)
      /\ V[1] = g /\ V[Len(q) + 1] = o
  BY LenProperties DEF RosterAgrees
<1>4. /\ ViewReplay(W, q, k) /\ Heard(V, W, q, k) /\ w # None
      /\ \A i \in 1..(Len(q) + 1) : W[i] = w /\ ~ToldAt(W, q, k, i)
  BY <1>2, <1>1, UnnamedView, ChatsAssumption
<1>5. ASSUME w.contact = ch.contact, w.entry # None, o[w.entry] # w.contact
      PROVE  Repicked(V, W, 1, Len(q))
  <2>1. V[1][W[1].entry] = W[1].contact /\ V[Len(q) + 1][W[1].entry] # W[1].contact
    BY <1>3, <1>4, <1>5, <1>1
  <2>2. W[1] # None /\ W[1].entry # None /\ ~ToldAt(W, q, k, Len(q) + 1)
    BY <1>3, <1>4, <1>5, <1>1
  <2> QED
    BY <1>3, <1>4, <2>1, <2>2, LeftRepicks
<1>6. ASSUME w.contact = ch.contact
      PROVE  /\ \A tc : Settles(V, W, q, k, ch, tc) /\ LetsGo(V, W, q, k, ch, tc)
             /\ Watches(V, W, q, k)
  <2>1. \A tc : Settles(V, W, q, k, ch, tc)
    BY <1>3, <1>4, <1>5, <1>6, <1>1 DEF Settles
  <2>2. \A tc : LetsGo(V, W, q, k, ch, tc)
    BY <1>3, <1>4, <1>5, <1>6, <1>1 DEF LetsGo
  <2>3. Watches(V, W, q, k)
    BY <1>4 DEF Watches
  <2> QED
    BY <2>1, <2>2, <2>3
<1>7. \A tc : ChatAgrees(V, W, q, k, w, ch, tc)
  BY <1>3, <1>4, <1>6 DEF ChatAgrees
<1> QED
  BY <1>7

\* A pick that the core does not follow.
LEMMA IgnoredAgrees ==
  ASSUME NEW q \in Seq(NoteMsg), NEW V, NEW g, NEW o, RosterAgrees(V, q, g, o),
         NEW k, NEW w, NEW ch \in Chat, NEW W,
         NEW tc \in Seq(CallMsg), tc # <<>>, ChatAgrees(V, W, q, k, w, ch, tc),
         NEW f \in Chosen, Head(tc) = ChatChangeEntry(k, f),
         NEW e, e = IF f # None /\ o[f] # None THEN f ELSE None,
         e = ch.entry \/ (e # None /\ o[e] # ch.contact)
  PROVE  ChatAgrees(V, W, q, k, w, ch, Tail(tc))
<1>1. /\ ViewReplay(W, q, k) /\ W[1] = w /\ Heard(V, W, q, k) /\ W[Len(q) + 1] # None
      /\ w = None => W[Len(q) + 1].contact = ch.contact
      /\ W[Len(q) + 1].contact = ch.contact =>
            /\ Settles(V, W, q, k, ch, tc) /\ LetsGo(V, W, q, k, ch, tc)
            /\ Watches(V, W, q, k)
  BY DEF ChatAgrees
<1>2. ASSUME NEW x \in Chosen, LastPick(tc, k, x)
      PROVE  LastPick(Tail(tc), k, x) \/ x = f
  <2>1. \/ LastIn(Tail(tc), Picks(k), {ChatChangeEntry(k, x)})
        \/ Head(tc) \in Picks(k) \cap {ChatChangeEntry(k, x)}
    BY <1>2, ServeIn DEF LastPick
  <2> QED
    BY <2>1 DEF LastPick, ChatChangeEntry
<1>3. V[1] = g /\ V[Len(q) + 1] = o /\ Len(q) + 1 \in 1..(Len(q) + 1)
  BY LenProperties DEF RosterAgrees
<1>4. ASSUME W[Len(q) + 1].contact = ch.contact
      PROVE  /\ Settles(V, W, q, k, ch, Tail(tc)) /\ LetsGo(V, W, q, k, ch, Tail(tc))
  <2>1. Settles(V, W, q, k, ch, tc) /\ LetsGo(V, W, q, k, ch, tc)
    BY <1>1, <1>4
  <2>2. ch.contact \in ContactId /\ None \notin ContactId
    BY ChatsAssumption DEF Chat, ContactId
  <2>3. LetsGo(V, W, q, k, ch, Tail(tc))
    <3>1. SUFFICES ASSUME ch.entry # None, o[ch.entry] # ch.contact
                   PROVE  \/ Repicked(V, W, 1, Len(q))
                          \/ \E x \in Chosen : /\ LastPick(Tail(tc), k, x)
                                               /\ x = None \/ o[x] = ch.contact
      BY <1>3 DEF LetsGo
    <3>2. ~(f = None \/ o[f] = ch.contact)
      BY <2>2, <3>1
    <3>3. \/ Repicked(V, W, 1, Len(q))
          \/ \E x \in Chosen : LastPick(tc, k, x) /\ (x = None \/ o[x] = ch.contact)
      BY <1>3, <2>1, <3>1 DEF LetsGo
    <3> QED
      BY <1>2, <3>2, <3>3
  <2>4. Settles(V, W, q, k, ch, Tail(tc))
    <3>1. CASE \/ W[Len(q) + 1].entry = ch.entry
               \/ ~ToldAt(W, q, k, Len(q) + 1) /\ Repicked(V, W, 1, Len(q))
      BY <3>1 DEF Settles
    <3>2. ASSUME ~ToldAt(W, q, k, Len(q) + 1),
                 NEW x \in Chosen, LastPick(tc, k, x), W[1].entry = x,
                 x # None => V[1][x] = ch.contact
          PROVE  Settles(V, W, q, k, ch, Tail(tc))
      <4>1. CASE LastPick(Tail(tc), k, x)
        BY <3>2, <4>1 DEF Settles
      <4>2. CASE x = f
        <5>1. W[Len(q) + 1] = W[1]
          BY <1>1, <1>3, <3>2, Untold
        <5>2. CASE f = None \/ o[f] = ch.contact
          <6>1. e = f
            BY <2>2, <5>2
          <6>2. e = ch.entry
            BY <2>2, <5>2, <6>1
          <6> QED
            BY <3>2, <4>2, <5>1, <6>1, <6>2 DEF Settles
        <5>3. CASE f # None /\ o[f] # ch.contact
          <6>1. Repicked(V, W, 1, Len(q))
            <7>1. /\ W[1] # None /\ W[1].entry # None /\ V[1][W[1].entry] = W[1].contact
                  /\ V[Len(q) + 1][W[1].entry] # W[1].contact
              BY <1>1, <1>3, <1>4, <3>2, <4>2, <5>1, <5>3
            <7> QED
              BY <1>1, <1>3, <3>2, <7>1, LeftRepicks
          <6> QED
            BY <3>2, <6>1 DEF Settles
        <5> QED
          BY <5>2, <5>3
      <4> QED
        BY <1>2, <3>2, <4>1, <4>2
    <3> QED
      BY <2>1, <3>1, <3>2 DEF Settles
  <2> QED
    BY <2>3, <2>4
<1> QED
  BY <1>1, <1>4 DEF ChatAgrees

----------------------------------------------------------------------------
(* The user interface changes its mind. *)

\* The chat turned before the r-th notification; and what is replayed when the user
\* interface has w2 of the chat at first.
Turned(W, q, k, r) == \E i \in 1..(r - 1) : Turns(W[i], q[i], k)
Redirect(W, q, k, w2) ==
    [i \in Nat |-> IF Turned(W, q, k, i) /\ W[i] # None THEN [w2 EXCEPT !.entry = W[i].entry]
                                                       ELSE w2]

LEMMA TurnedFacts ==
  ASSUME NEW q \in Seq(NoteMsg), NEW k, NEW W, ViewReplay(W, q, k)
  PROVE  /\ ~Turned(W, q, k, 1)
         /\ \A i \in 1..Len(q) : Turned(W, q, k, i + 1) <=>
                Turned(W, q, k, i) \/ Turns(W[i], q[i], k)
         /\ \A r \in 1..(Len(q) + 1) : Turned(W, q, k, r) =>
                W[r] # None /\ W[r] \in Open /\ ToldAt(W, q, k, r)
<1>1. Len(q) \in Nat /\ \A i \in 1..(1 - 1) : FALSE
  BY LenProperties
<1>2. ~Turned(W, q, k, 1)
  BY <1>1 DEF Turned
<1>3. ASSUME NEW i \in 1..Len(q)
      PROVE  Turned(W, q, k, i + 1) <=> Turned(W, q, k, i) \/ Turns(W[i], q[i], k)
  <2>1. i \in 1..((i + 1) - 1) /\ \A j \in 1..(i - 1) : j \in 1..((i + 1) - 1)
    BY <1>1
  <2>2. \A j \in 1..((i + 1) - 1) : j = i \/ j \in 1..(i - 1)
    BY <1>1
  <2> QED
    BY <2>1, <2>2 DEF Turned
<1>4. ASSUME NEW r \in 1..(Len(q) + 1), Turned(W, q, k, r)
      PROVE  W[r] # None /\ W[r] \in Open /\ ToldAt(W, q, k, r)
  <2>1. PICK i \in 1..(r - 1) : Turns(W[i], q[i], k)
    BY <1>4 DEF Turned
  <2>2. i \in 1..Len(q) /\ i \in Nat /\ 1 <= i /\ i <= r /\ r \in Nat
    BY <1>1
  <2>3. W[i] # None
    BY <2>1 DEF Turns
  <2>4. W[r] # None
    BY <2>2, <2>3, OpenStays
  <2> QED
    BY <2>1, <2>2, <2>4 DEF ToldAt, ViewReplay
<1> QED
  BY <1>2, <1>3, <1>4

LEMMA Redirects ==
  ASSUME NEW q \in Seq(NoteMsg), NEW k, NEW V, NEW W, ViewReplay(W, q, k), Heard(V, W, q, k),
         NEW w2 \in Open
  PROVE  /\ ViewReplay(Redirect(W, q, k, w2), q, k) /\ Heard(V, Redirect(W, q, k, w2), q, k)
         /\ Redirect(W, q, k, w2)[1] = w2
         /\ \A r \in 1..(Len(q) + 1) :
               /\ Redirect(W, q, k, w2)[r] # None
               /\ Redirect(W, q, k, w2)[r].contact = w2.contact
               /\ ToldAt(Redirect(W, q, k, w2), q, k, r) <=> Turned(W, q, k, r)
               /\ Turned(W, q, k, r) => Redirect(W, q, k, w2)[r].entry = W[r].entry
               /\ Turned(W, q, k, r) /\ W[r].contact = w2.contact
                     => Redirect(W, q, k, w2)[r] = W[r]
               /\ ~Turned(W, q, k, r) => Redirect(W, q, k, w2)[r] = w2
<1>1. PICK R : R = Redirect(W, q, k, w2)
  OBVIOUS
<1>2. /\ Len(q) \in Nat /\ W \in [Nat -> Open \cup {None}] /\ None \notin Open
      /\ \A i \in 1..Len(q) : q[i] \in NoteMsg /\ i \in Nat /\ i + 1 \in Nat
      /\ w2.contact \in ContactId /\ w2.entry \in EntryId \cup {None}
  BY LenProperties, ElementOfSeq, ChatsAssumption DEF ViewReplay, Open
<1>3. \A x \in Open : /\ [w2 EXCEPT !.entry = x.entry] \in Open
                      /\ [w2 EXCEPT !.entry = x.entry].contact = w2.contact
                      /\ [w2 EXCEPT !.entry = x.entry].entry = x.entry
                      /\ x.contact = w2.contact => [w2 EXCEPT !.entry = x.entry] = x
  BY DEF Open
<1>4. \A r \in 1..(Len(q) + 1) : Turned(W, q, k, r) =>
                W[r] # None /\ W[r] \in Open /\ ToldAt(W, q, k, r)
  BY TurnedFacts
<1>5. \A i \in 1..(Len(q) + 1) :
           /\ Turned(W, q, k, i) => R[i] = [w2 EXCEPT !.entry = W[i].entry]
           /\ ~Turned(W, q, k, i) => R[i] = w2
  BY <1>1, <1>4 DEF Redirect
<1>6. ASSUME NEW r \in 1..(Len(q) + 1)
      PROVE  /\ R[r] \in Open /\ R[r] # None /\ R[r].contact = w2.contact
             /\ Turned(W, q, k, r) => R[r].entry = W[r].entry
             /\ Turned(W, q, k, r) /\ W[r].contact = w2.contact => R[r] = W[r]
             /\ ~Turned(W, q, k, r) => R[r] = w2
  <2>1. r \in Nat
    BY <1>2
  <2>2. CASE Turned(W, q, k, r)
    <3>1. W[r] \in Open /\ R[r] = [w2 EXCEPT !.entry = W[r].entry]
      BY <1>5, <1>4, <2>2
    <3> QED
      BY <1>2, <1>3, <2>2, <3>1
  <2>3. CASE ~Turned(W, q, k, r)
    BY <1>2, <1>5, <2>3
  <2> QED
    BY <2>2, <2>3
<1>7. ASSUME NEW i \in 1..Len(q)
      PROVE  /\ i \in 1..(Len(q) + 1) /\ i + 1 \in 1..(Len(q) + 1)
             /\ ~Opens(R[i], q[i], k)
             /\ Turns(R[i], q[i], k) <=> Turns(W[i], q[i], k)
  <2>1. i \in 1..(Len(q) + 1) /\ i + 1 \in 1..(Len(q) + 1)
    BY <1>2
  <2>2. R[i] # None
    BY <1>6, <2>1
  <2> QED
    BY <2>1, <2>2 DEF Opens, Turns, Heard
<1>8. ASSUME NEW i \in 1..Len(q) PROVE R[i + 1] = ViewAfter(R[i], q[i], k)
  <2>1. Turned(W, q, k, i + 1) <=> Turned(W, q, k, i) \/ Turns(W[i], q[i], k)
    BY TurnedFacts
  <2>2. W[i + 1] = ViewAfter(W[i], q[i], k)
    BY DEF ViewReplay
  <2>3. CASE Turns(W[i], q[i], k)
    <3>1. /\ W[i + 1] = [W[i] EXCEPT !.entry = q[i].entry] /\ W[i] \in Open
          /\ ~Opens(W[i], q[i], k)
      BY <1>2, <2>2, <2>3 DEF ViewAfter, Turns, Opens
    <3>2. W[i + 1].entry = q[i].entry
      BY <3>1 DEF Open
    <3>3. R[i + 1] = [w2 EXCEPT !.entry = q[i].entry]
      BY <1>5, <1>7, <2>1, <2>3, <3>2
    <3>4. R[i] \in Open /\ R[i].contact = w2.contact
      BY <1>6, <1>7
    <3>5. [R[i] EXCEPT !.entry = q[i].entry] = [w2 EXCEPT !.entry = q[i].entry]
      BY <3>4 DEF Open
    <3>6. ViewAfter(R[i], q[i], k) = [R[i] EXCEPT !.entry = q[i].entry]
      BY <1>7, <2>3 DEF ViewAfter
    <3> QED
      BY <3>3, <3>5, <3>6
  <2>4. CASE ~Turns(W[i], q[i], k)
    <3>1. ViewAfter(R[i], q[i], k) = R[i]
      BY <1>7, <2>4 DEF ViewAfter
    <3>2. CASE ~Turned(W, q, k, i)
      BY <1>5, <1>7, <2>1, <2>4, <3>1, <3>2
    <3>3. CASE Turned(W, q, k, i)
      <4>1. W[i] # None
        BY <1>4, <1>7, <3>3
      <4>2. W[i + 1] = W[i]
        BY <2>2, <2>4, <4>1 DEF ViewAfter, Opens
      <4>3. R[i + 1] = [w2 EXCEPT !.entry = W[i + 1].entry] /\ R[i] = [w2 EXCEPT !.entry = W[i].entry]
        BY <1>5, <1>7, <2>1, <3>3
      <4> QED
        BY <3>1, <4>2, <4>3
    <3> QED
      BY <3>2, <3>3
  <2> QED
    BY <2>3, <2>4
<1>9. R \in [Nat -> Open \cup {None}]
  <2>1. ASSUME NEW i \in Nat
        PROVE  (IF Turned(W, q, k, i) /\ W[i] # None THEN [w2 EXCEPT !.entry = W[i].entry]
                                                     ELSE w2) \in Open \cup {None}
    <3>1. W[i] # None => [w2 EXCEPT !.entry = W[i].entry] \in Open
      BY <1>2, <1>3
    <3> QED
      BY <3>1
  <2> QED
    BY <1>1, <2>1 DEF Redirect
<1>10. Heard(V, R, q, k)
  BY <1>6, <1>7 DEF Heard
<1>11. R[1] = w2
  <2>1. 1 \in 1..(Len(q) + 1) /\ ~Turned(W, q, k, 1)
    BY <1>2, TurnedFacts
  <2> QED
    BY <1>5, <2>1
<1>12. ASSUME NEW r \in 1..(Len(q) + 1) PROVE ToldAt(R, q, k, r) <=> Turned(W, q, k, r)
  <2>1. \A i \in 1..(r - 1) : i \in 1..Len(q)
    BY <1>2
  <2> QED
    BY <1>7, <2>1 DEF ToldAt, Turned
<1> QED
  BY <1>1, <1>6, <1>8, <1>9, <1>10, <1>11, <1>12 DEF ViewReplay

\* What stays of ChatAgrees when the user interface picks an entry.
Follows(V, W, q, k, ch) ==
    /\ ViewReplay(W, q, k) /\ Heard(V, W, q, k) /\ W[Len(q) + 1] # None
    /\ W[Len(q) + 1].contact = ch.contact =>
          /\ ToldAt(W, q, k, Len(q) + 1) => W[Len(q) + 1].entry = ch.entry
          /\ Watches(V, W, q, k)

\* Once the chat has turned, nothing depends on what the user interface has picked.
LEMMA TurnedSame ==
  ASSUME NEW q \in Seq(NoteMsg), NEW k, NEW V, NEW W, ViewReplay(W, q, k), Heard(V, W, q, k),
         NEW w2 \in Open, W[Len(q) + 1].contact = w2.contact,
         NEW R, R = Redirect(W, q, k, w2), NEW i \in 1..(Len(q) + 1), Turned(W, q, k, i)
  PROVE  /\ \A r \in i..(Len(q) + 1) :
               /\ Turned(W, q, k, r) /\ ToldAt(W, q, k, r)
               /\ R[r] = W[r] /\ W[r] # None /\ W[r] \in Open /\ W[r].contact = w2.contact
         /\ \A a \in i..(Len(q) + 1) : Repicked(V, W, a, Len(q)) => Repicked(V, R, a, Len(q))
<1>1. Len(q) \in Nat
  BY LenProperties
<1>2. ASSUME NEW r \in i..(Len(q) + 1)
      PROVE  /\ Turned(W, q, k, r) /\ ToldAt(W, q, k, r)
             /\ R[r] = W[r] /\ W[r] # None /\ W[r] \in Open /\ W[r].contact = w2.contact
  <2>1. r \in 1..(Len(q) + 1) /\ r \in Nat /\ 1 <= r /\ r <= Len(q) + 1
        /\ Len(q) + 1 \in 1..(Len(q) + 1)
    BY <1>1
  <2>2. Turned(W, q, k, r)
    <3>1. PICK j \in 1..(i - 1) : Turns(W[j], q[j], k)
      BY DEF Turned
    <3>2. j \in 1..(r - 1)
      BY <1>1
    <3> QED
      BY <3>1, <3>2 DEF Turned
  <2>3. W[r] # None /\ W[r] \in Open /\ ToldAt(W, q, k, r)
    BY <2>1, <2>2, TurnedFacts
  <2>4. W[Len(q) + 1].contact = W[r].contact
    BY <2>1, <2>3, OpenStays
  <2>5. R[r] = W[r]
    <3>1. \A x \in 1..(Len(q) + 1) : Turned(W, q, k, x) /\ W[x].contact = w2.contact => R[x] = W[x]
      BY Redirects
    <3>2. W[r].contact = w2.contact
      BY <2>4
    <3> QED
      BY <2>1, <2>2, <3>1, <3>2
  <2> QED
    BY <2>2, <2>3, <2>4, <2>5
<1>3. ASSUME NEW a \in i..(Len(q) + 1), Repicked(V, W, a, Len(q))
      PROVE  Repicked(V, R, a, Len(q))
  <2>1. PICK j \in a..Len(q) : RepickAt(V, W, j)
    BY <1>3 DEF Repicked
  <2>2. j \in i..(Len(q) + 1)
    BY <1>1
  <2>3. RepickAt(V, R, j)
    BY <1>2, <2>1, <2>2 DEF RepickAt
  <2> QED
    BY <2>3 DEF Repicked
<1> QED
  BY <1>2, <1>3

\* The entry that the user interface has picked leaves the contact: whoever turned the chat
\* since, the observer sees one leave.
LEMMA PickLeft ==
  ASSUME NEW q \in Seq(NoteMsg), NEW k, NEW V, RosterReplay(V, q), NEW W, ViewReplay(W, q, k),
         Heard(V, W, q, k), Watches(V, W, q, k), NEW w2 \in Open, NEW c, w2.contact = c,
         W[Len(q) + 1].contact = c,
         Turned(W, q, k, Len(q) + 1) => BadAt(V, W, Len(q) + 1),
         NEW R, R = Redirect(W, q, k, w2),
         w2.entry # None, V[1][w2.entry] = c, V[Len(q) + 1][w2.entry] # c
  PROVE  Repicked(V, R, 1, Len(q))
<1>1. Len(q) \in Nat /\ 1 \in Nat /\ Len(q) + 1 \in Nat /\ 1 <= Len(q) + 1
      /\ Len(q) + 1 \in 1..(Len(q) + 1) /\ (Len(q) + 1) - 1 = Len(q)
  BY LenProperties
<1>2. PICK f : f = w2.entry
  OBVIOUS
<1>3. f \in EntryId /\ w2 # None
  BY <1>2, ChatsAssumption DEF Open
<1>4. PICK i \in 1..Len(q) : V[i][f] = c /\ V[i + 1][f] # c
  <2>1. V[Len(q) + 1][f] # V[1][f] /\ V[1][f] = c
    BY <1>2
  <2>2. PICK b \in Nat : b = Len(q) + 1
    BY <1>1
  <2>3. 1 <= b /\ V[b][f] # V[1][f] /\ b - 1 = Len(q)
    BY <1>1, <2>1, <2>2
  <2>4. \E i \in 1..(b - 1) : V[i][f] = V[1][f] /\ V[i + 1][f] # V[1][f]
    BY <1>1, <2>2, <2>3, Leaves
  <2> QED
    BY <2>1, <2>3, <2>4
<1>5. i \in 1..(Len(q) + 1) /\ i + 1 \in 1..(Len(q) + 1) /\ i \in Nat /\ 1 <= i
  BY <1>1
<1>6. \A r \in 1..(Len(q) + 1) :
           /\ Turned(W, q, k, r) /\ W[r].contact = w2.contact => R[r] = W[r]
           /\ ~Turned(W, q, k, r) => R[r] = w2
  BY Redirects
<1>7. CASE ~Turned(W, q, k, i)
  <2>1. R[i] = w2
    BY <1>5, <1>6, <1>7
  <2>2. RepickAt(V, R, i)
    BY <1>2, <1>3, <1>4, <2>1 DEF RepickAt, Repicks
  <2> QED
    BY <2>2 DEF Repicked
<1>8. CASE Turned(W, q, k, i)
  <2>2. \A r \in i..(Len(q) + 1) :
             /\ Turned(W, q, k, r) /\ ToldAt(W, q, k, r)
             /\ R[r] = W[r] /\ W[r] # None /\ W[r] \in Open /\ W[r].contact = c
    BY <1>5, <1>8, TurnedSame
  <2>3. i \in i..(Len(q) + 1) /\ i + 1 \in i..(Len(q) + 1) /\ Len(q) + 1 \in i..(Len(q) + 1)
    BY <1>1
  <2>4. ~Turns(W[i], q[i], k) /\ ~Opens(W[i], q[i], k) => W[i + 1] = W[i]
    BY DEF ViewReplay, ViewAfter
  <2>5. ASSUME NEW a \in i..Len(q), Repicked(V, W, a, Len(q)) PROVE Repicked(V, R, 1, Len(q))
    <3>1. a \in i..(Len(q) + 1) /\ Repicked(V, R, a, Len(q))
      BY <1>1, <1>5, <1>8, <2>5, TurnedSame
    <3>2. \A j \in a..Len(q) : j \in 1..Len(q)
      BY <1>1
    <3> QED
      BY <3>1, <3>2 DEF Repicked
  <2>6. CASE RepickAt(V, W, i)
    <3>1. i \in i..Len(q) /\ Repicked(V, W, i, Len(q))
      BY <1>1, <2>6 DEF Repicked
    <3> QED
      BY <2>5, <3>1
  <2>7. CASE ~RepickAt(V, W, i)
    <3>1. W[i].entry = None \/ V[i + 1][W[i].entry] = c
      BY <1>3, <1>4, <2>2, <2>3, <2>7 DEF RepickAt, Repicks
    <3>2. W[i + 1].entry = W[i].entry
      <4>1. q[i].note \in EntryMoves
        BY <1>4 DEF RosterReplay, RosterAfter
      <4> QED
        BY <2>4, <4>1 DEF EntryMoves, Turns, Opens
    <3>3. GoodAt(V, W, i + 1)
      BY <2>2, <2>3, <3>1, <3>2 DEF GoodAt
    <3>4. BadAt(V, W, Len(q) + 1) /\ ToldAt(W, q, k, i + 1)
      BY <2>2, <2>3
    <3>5. Repicked(V, W, i + 1, Len(q))
      BY <1>5, <3>3, <3>4 DEF Watches
    <3>6. i + 1 \in i..Len(q)
      <4>1. PICK j \in (i + 1)..Len(q) : TRUE
        BY <3>5 DEF Repicked
      <4> QED
        BY <1>1, <4>1
    <3> QED
      BY <2>5, <3>5, <3>6
  <2> QED
    BY <2>6, <2>7
<1> QED
  BY <1>7, <1>8

\* A chat that is not open yet, and that the user interface has opened without an entry
\* because its contact has none: the observer sees the first that joins.
LEMMA JoinSeen ==
  ASSUME NEW q \in Seq(NoteMsg), NEW k, NEW V, NEW W, ViewReplay(W, q, k), Heard(V, W, q, k),
         NEW w2 \in Open, w2.entry = None, NEW R, R = Redirect(W, q, k, w2), W[1] = None,
         W[Len(q) + 1] # None, W[Len(q) + 1].contact = w2.contact,
         \A x \in EntryId : V[1][x] # w2.contact
  PROVE  Repicked(V, R, 1, Len(q))
<1>1. Len(q) \in Nat /\ 1 \in Nat /\ Len(q) + 1 \in Nat /\ 1 <= Len(q) + 1
      /\ Len(q) + 1 \in 1..(Len(q) + 1) /\ (Len(q) + 1) - 1 = Len(q)
  BY LenProperties
<1>2. PICK j \in 1..Len(q) : W[j] = None /\ W[j + 1] # None
  <2> DEFINE S == {i \in 1..(Len(q) + 1) : W[i] = None}
  <2>1. 1 \in S /\ Len(q) + 1 \notin S
    BY <1>1
  <2>2. PICK b \in Nat : b = Len(q) + 1
    BY <1>1
  <2>3. 1 <= b /\ b - 1 = Len(q) /\ b \notin S
    BY <1>1, <2>1, <2>2
  <2>4. \A i \in 1..Len(q) : i + 1 \in 1..(Len(q) + 1)
    BY <1>1
  <2>5. PICK i \in 1..(b - 1) : i \in S /\ i + 1 \notin S
    <3> HIDE DEF S
    <3> QED
      BY <1>1, <2>1, <2>2, <2>3, Between
  <2> QED
    BY <2>3, <2>4, <2>5
<1>3. j \in Nat /\ 1 <= j /\ j \in 1..(Len(q) + 1) /\ j + 1 \in 1..(Len(q) + 1)
      /\ j + 1 \in Nat /\ 1 <= j + 1 /\ j + 1 <= Len(q) + 1
  BY <1>1
<1>4. PICK x : x = q[j].entry
  OBVIOUS
<1>5. x \in EntryId /\ V[j][x] = w2.contact
  <2>1. Opens(W[j], q[j], k) /\ W[j + 1] = [contact |-> q[j].contact, entry |-> q[j].entry]
    BY <1>2 DEF ViewReplay, ViewAfter, Turns
  <2>2. W[j + 1].contact = q[j].contact
    BY <2>1
  <2>3. W[Len(q) + 1].contact = W[j + 1].contact
    BY <1>1, <1>2, <1>3, OpenStays
  <2>4. V[j][q[j].entry] = q[j].contact
    BY <2>1 DEF Heard
  <2>5. q[j] \in NoteMsg /\ q[j].note = "chatIncoming"
    BY <2>1, ElementOfSeq DEF Opens
  <2>6. q[j].entry \in EntryId
    BY <2>5, NoteFields
  <2> QED
    BY <1>4, <2>2, <2>3, <2>4, <2>6
<1>6. PICK i \in 1..(j - 1) : V[i][x] # w2.contact /\ V[i + 1][x] = w2.contact
  <2> DEFINE S == {i \in 1..j : V[i][x] # w2.contact}
  <2>1. 1 \in S /\ j \notin S
    BY <1>3, <1>5
  <2>2. \A i \in 1..(j - 1) : i + 1 \in 1..j
    BY <1>3
  <2>3. PICK i \in 1..(j - 1) : i \in S /\ i + 1 \notin S
    <3> HIDE DEF S
    <3> QED
      BY <1>1, <1>3, <2>1, Between
  <2> QED
    BY <2>2, <2>3
<1>7. i \in 1..Len(q) /\ i \in 1..(Len(q) + 1) /\ i \in Nat /\ 1 <= i /\ i <= j
  BY <1>1, <1>3
<1>8. ~Turned(W, q, k, i)
  <2>1. ASSUME W[i] # None PROVE FALSE
    BY <1>2, <1>3, <1>7, <2>1, OpenStays
  <2> QED
    BY <1>7, <2>1, TurnedFacts
<1>9. R[i] = w2
  BY <1>7, <1>8, Redirects
<1>10. RepickAt(V, R, i)
  BY <1>5, <1>6, <1>9, ChatsAssumption DEF RepickAt, Repicks
<1> QED
  BY <1>7, <1>10 DEF Repicked

\* The user interface turns a chat to an entry that it has listed; or it opens one that the
\* core has made, under an ID that it took from the answer to another call.
LEMMA RedirectAgrees ==
  ASSUME NEW q \in Seq(NoteMsg), NEW k, NEW V, RosterReplay(V, q), NEW W, NEW ch \in Chat,
         Follows(V, W, q, k, ch), NEW w2 \in Open, NEW tc2,
         w2.contact = ch.contact =>
            /\ W[Len(q) + 1].contact = ch.contact
            /\ \/ /\ LastPick(tc2, k, w2.entry)
                  /\ w2.entry # None => V[1][w2.entry] = ch.contact
               \/ /\ w2.entry # None /\ V[1][w2.entry] = ch.contact
                  /\ V[Len(q) + 1][w2.entry] # ch.contact
               \/ /\ w2.entry = None /\ W[1] = None
                  /\ \A x \in EntryId : V[1][x] # ch.contact
  PROVE  \E R : ChatAgrees(V, R, q, k, w2, ch, tc2)
<1>1. PICK R : R = Redirect(W, q, k, w2)
  OBVIOUS
<1>2. Len(q) \in Nat /\ Len(q) + 1 \in 1..(Len(q) + 1) /\ w2 # None /\ w2.entry \in Chosen
  BY LenProperties, ChatsAssumption DEF Open, Chosen
<1>3. /\ ViewReplay(W, q, k) /\ Heard(V, W, q, k) /\ W[Len(q) + 1] # None
      /\ W[Len(q) + 1].contact = ch.contact =>
            /\ ToldAt(W, q, k, Len(q) + 1) => W[Len(q) + 1].entry = ch.entry
            /\ Watches(V, W, q, k)
  BY DEF Follows
<1>4. /\ ViewReplay(R, q, k) /\ Heard(V, R, q, k) /\ R[1] = w2
      /\ R[Len(q) + 1] # None /\ R[Len(q) + 1].contact = w2.contact
      /\ \A r \in 1..(Len(q) + 1) : ToldAt(R, q, k, r) <=> Turned(W, q, k, r)
  BY <1>1, <1>2, <1>3, Redirects
<1>5. ASSUME w2.contact = ch.contact
      PROVE  Settles(V, R, q, k, ch, tc2) /\ LetsGo(V, R, q, k, ch, tc2) /\ Watches(V, R, q, k)
  <2>1. PICK c : c = ch.contact
    OBVIOUS
  <2>2. W[Len(q) + 1].contact = w2.contact /\ w2.contact = c /\ W[Len(q) + 1].contact = c
    BY <1>5, <2>1
  <2>3. Watches(V, W, q, k)
    BY <1>3, <1>5
  <2>4. Turned(W, q, k, Len(q) + 1) =>
            R[Len(q) + 1] = W[Len(q) + 1] /\ W[Len(q) + 1].entry = ch.entry
    <3>1. Turned(W, q, k, Len(q) + 1) => ToldAt(W, q, k, Len(q) + 1)
      BY <1>2, <1>3, TurnedFacts
    <3>2. Turned(W, q, k, Len(q) + 1) => R[Len(q) + 1] = W[Len(q) + 1]
      BY <1>1, <1>2, <1>3, <2>2, Redirects
    <3> QED
      BY <1>3, <1>5, <3>1, <3>2
  <2>5. ASSUME w2.entry # None, V[1][w2.entry] = c, V[Len(q) + 1][w2.entry] # c,
               Turned(W, q, k, Len(q) + 1) => BadAt(V, W, Len(q) + 1)
        PROVE  Repicked(V, R, 1, Len(q))
    BY <1>1, <1>3, <2>2, <2>3, <2>5, PickLeft
  <2>6. ASSUME w2.entry = None, W[1] = None, \A x \in EntryId : V[1][x] # c
        PROVE  Repicked(V, R, 1, Len(q))
    <3>1. \A x \in EntryId : V[1][x] # w2.contact
      BY <2>2, <2>6
    <3> QED
      BY <1>1, <1>3, <2>2, <2>6, <3>1, JoinSeen
  <2>7. Settles(V, R, q, k, ch, tc2)
    <3>1. CASE Turned(W, q, k, Len(q) + 1)
      BY <2>4, <3>1 DEF Settles
    <3>2. CASE ~Turned(W, q, k, Len(q) + 1)
      <4>1. ~ToldAt(R, q, k, Len(q) + 1)
        BY <1>2, <1>4, <3>2
      <4>2. \/ /\ LastPick(tc2, k, w2.entry)
               /\ w2.entry # None => V[1][w2.entry] = ch.contact
            \/ Repicked(V, R, 1, Len(q))
        BY <1>5, <2>1, <2>5, <2>6, <3>2
      <4> QED
        BY <1>2, <1>4, <4>1, <4>2 DEF Settles
    <3> QED
      BY <3>1, <3>2
  <2>8. LetsGo(V, R, q, k, ch, tc2)
    <3> SUFFICES ASSUME ch.entry # None, V[Len(q) + 1][ch.entry] # ch.contact
                 PROVE  \/ Repicked(V, R, 1, Len(q))
                        \/ \E f \in Chosen : /\ LastPick(tc2, k, f)
                                             /\ f = None \/ V[Len(q) + 1][f] = ch.contact
      BY DEF LetsGo
    <3>1. Turned(W, q, k, Len(q) + 1) => BadAt(V, W, Len(q) + 1)
      BY <1>3, <2>1, <2>2, <2>4 DEF BadAt
    <3> QED
      BY <1>2, <1>5, <2>1, <2>5, <2>6, <3>1
  <2>9. Watches(V, R, q, k)
    <3> SUFFICES ASSUME NEW r \in 1..(Len(q) + 1), ToldAt(R, q, k, r), GoodAt(V, R, r),
                        BadAt(V, R, Len(q) + 1)
                 PROVE  Repicked(V, R, r, Len(q))
      BY DEF Watches
    <3>1. Turned(W, q, k, r)
      BY <1>4
    <3>2. r \in r..(Len(q) + 1) /\ Len(q) + 1 \in r..(Len(q) + 1)
      BY <1>2
    <3>3. /\ \A i \in r..(Len(q) + 1) : R[i] = W[i] /\ ToldAt(W, q, k, i)
          /\ Repicked(V, W, r, Len(q)) => Repicked(V, R, r, Len(q))
      BY <1>1, <1>3, <2>2, <3>1, <3>2, TurnedSame
    <3>4. ToldAt(W, q, k, r) /\ GoodAt(V, W, r) /\ BadAt(V, W, Len(q) + 1)
      BY <3>2, <3>3 DEF GoodAt, BadAt
    <3> QED
      BY <2>3, <3>3, <3>4 DEF Watches
  <2> QED
    BY <2>7, <2>8, <2>9
<1>6. ChatAgrees(V, R, q, k, w2, ch, tc2)
  BY <1>2, <1>4, <1>5 DEF ChatAgrees
<1> QED
  BY <1>6

LEMMA AgreesFollows ==
  ASSUME NEW q, NEW k, NEW V, NEW W, NEW w, NEW ch, NEW tc, ChatAgrees(V, W, q, k, w, ch, tc)
  PROVE  Follows(V, W, q, k, ch)
  BY DEF ChatAgrees, Follows, Settles

LEMMA PickAgrees ==
  ASSUME NEW q \in Seq(NoteMsg), NEW k, NEW V, RosterReplay(V, q), NEW W, NEW ch \in Chat, NEW w,
         NEW tc, ChatAgrees(V, W, q, k, w, ch, tc), w # None,
         NEW f \in Chosen, f # None => V[1][f] = w.contact, NEW tc2, LastPick(tc2, k, f)
  PROVE  \E R : ChatAgrees(V, R, q, k, [w EXCEPT !.entry = f], ch, tc2)
<1>1. PICK w2 : w2 = [w EXCEPT !.entry = f]
  OBVIOUS
<1>2. ViewReplay(W, q, k) /\ W[1] = w /\ 1 \in Nat /\ Len(q) \in Nat
  BY LenProperties DEF ChatAgrees
<1>3. w \in Open
  BY <1>2 DEF ViewReplay
<1>4. w2 \in Open /\ w2.contact = w.contact /\ w2.entry = f
  BY <1>1, <1>3 DEF Open, Chosen
<1>5. W[Len(q) + 1].contact = w.contact
  <2>1. Len(q) + 1 \in 1..(Len(q) + 1) /\ 1 <= 1 /\ 1 <= Len(q) + 1 /\ W[1] # None
    BY <1>2
  <2>2. W[Len(q) + 1].contact = W[1].contact
    BY <1>2, <2>1, OpenStays
  <2> QED
    BY <1>2, <2>2
<1>6. Follows(V, W, q, k, ch)
  BY AgreesFollows
<1>7. w2.contact = ch.contact =>
            /\ W[Len(q) + 1].contact = ch.contact
            /\ LastPick(tc2, k, w2.entry) /\ (w2.entry # None => V[1][w2.entry] = ch.contact)
  BY <1>4, <1>5
<1>8. \E R : ChatAgrees(V, R, q, k, w2, ch, tc2)
  BY <1>4, <1>6, <1>7, RedirectAgrees
<1> QED
  BY <1>1, <1>8

\* The chat's opening is told, with an entry of its contact.
LEMMA OpeningTold ==
  ASSUME NEW q \in Seq(NoteMsg), NEW k, NEW V, RosterReplay(V, q), NEW W, ViewReplay(W, q, k),
         Heard(V, W, q, k), W[1] = None, W[Len(q) + 1] # None
  PROVE  \E r \in 1..(Len(q) + 1) : ToldAt(W, q, k, r) /\ GoodAt(V, W, r)
<1>1. Len(q) \in Nat /\ 1 \in Nat
  BY LenProperties
<1>2. PICK j \in 1..Len(q) : W[j] = None /\ W[j + 1] # None
  <2> DEFINE S == {i \in 1..(Len(q) + 1) : W[i] = None}
  <2>1. 1 \in S /\ Len(q) + 1 \notin S
    BY <1>1
  <2>2. PICK b \in Nat : b = Len(q) + 1
    BY <1>1
  <2>3. 1 <= b /\ b - 1 = Len(q) /\ b \notin S
    BY <1>1, <2>1, <2>2
  <2>4. \A i \in 1..Len(q) : i + 1 \in 1..(Len(q) + 1)
    BY <1>1
  <2>5. PICK i \in 1..(b - 1) : i \in S /\ i + 1 \notin S
    <3> HIDE DEF S
    <3> QED
      BY <1>1, <2>1, <2>2, <2>3, Between
  <2> QED
    BY <2>3, <2>4, <2>5
<1>3. /\ Opens(W[j], q[j], k)
      /\ W[j + 1] = [contact |-> q[j].contact, entry |-> q[j].entry]
  BY <1>2 DEF ViewReplay, ViewAfter, Turns
<1>4. V[j + 1] = V[j] /\ V[j][q[j].entry] = q[j].contact
  BY <1>3 DEF RosterReplay, RosterAfter, EntryMoves, Opens, Heard
<1>5. GoodAt(V, W, j + 1)
  BY <1>2, <1>3, <1>4 DEF GoodAt
<1>6. j + 1 \in 1..(Len(q) + 1) /\ j \in 1..((j + 1) - 1)
  BY <1>1
<1>7. ToldAt(W, q, k, j + 1)
  BY <1>3, <1>6 DEF ToldAt
<1> QED
  BY <1>5, <1>6, <1>7

\* Of a chat that the user interface has still to open, the calls say nothing.
LEMMA NoneAgrees ==
  ASSUME NEW q \in Seq(NoteMsg), NEW k, NEW V, RosterReplay(V, q), NEW W, NEW ch,
         NEW tc, ChatAgrees(V, W, q, k, None, ch, tc), NEW tc2
  PROVE  ChatAgrees(V, W, q, k, None, ch, tc2)
<1>1. /\ ViewReplay(W, q, k) /\ W[1] = None /\ Heard(V, W, q, k) /\ W[Len(q) + 1] # None
      /\ W[Len(q) + 1].contact = ch.contact
      /\ Settles(V, W, q, k, ch, tc) /\ Watches(V, W, q, k)
  BY DEF ChatAgrees
<1>2. PICK r \in 1..(Len(q) + 1) : ToldAt(W, q, k, r) /\ GoodAt(V, W, r)
  BY <1>1, OpeningTold
<1>3. Len(q) \in Nat
  BY LenProperties
<1>4. W[Len(q) + 1].entry = ch.entry
  <2>1. \A i \in 1..(r - 1) : i \in 1..((Len(q) + 1) - 1)
    BY <1>3
  <2>2. ToldAt(W, q, k, Len(q) + 1)
    BY <1>2, <2>1 DEF ToldAt
  <2> QED
    BY <1>1, <2>2 DEF Settles
<1>5. Settles(V, W, q, k, ch, tc2)
  BY <1>4 DEF Settles
<1>6. LetsGo(V, W, q, k, ch, tc2)
  <2>1. SUFFICES ASSUME ch.entry # None, V[Len(q) + 1][ch.entry] # ch.contact
                 PROVE  Repicked(V, W, 1, Len(q))
    BY DEF LetsGo
  <2>2. BadAt(V, W, Len(q) + 1)
    BY <1>1, <1>4, <2>1 DEF BadAt
  <2>3. Repicked(V, W, r, Len(q))
    BY <1>1, <1>2, <2>2 DEF Watches
  <2>4. \A i \in r..Len(q) : i \in 1..Len(q)
    BY <1>3
  <2> QED
    BY <2>3, <2>4 DEF Repicked
<1> QED
  BY <1>1, <1>5, <1>6 DEF ChatAgrees

\* The answer to a chatStart that made no chat has the ID of a chat that the user interface
\* has not opened.
LEMMA MistakeAgrees ==
  ASSUME NEW q \in Seq(NoteMsg), NEW k, NEW V, RosterReplay(V, q), NEW W, NEW ch \in Chat,
         NEW tc, ChatAgrees(V, W, q, k, None, ch, tc), NEW w2 \in Open, NEW tc2,
         \A x \in EntryId : V[Len(q) + 1][x] # w2.contact,
         IF w2.entry = None THEN \A x \in EntryId : V[1][x] # w2.contact
                            ELSE V[1][w2.entry] = w2.contact
  PROVE  \E R : ChatAgrees(V, R, q, k, w2, ch, tc2)
<1>1. Follows(V, W, q, k, ch)
  BY AgreesFollows
<1>2. W[1] = None /\ W[Len(q) + 1].contact = ch.contact
  BY DEF ChatAgrees
<1>3. w2.entry # None => w2.entry \in EntryId
  BY DEF Open
<1>4. w2.contact = ch.contact =>
            /\ W[Len(q) + 1].contact = ch.contact
            /\ \/ /\ LastPick(tc2, k, w2.entry)
                  /\ w2.entry # None => V[1][w2.entry] = ch.contact
               \/ /\ w2.entry # None /\ V[1][w2.entry] = ch.contact
                  /\ V[Len(q) + 1][w2.entry] # ch.contact
               \/ /\ w2.entry = None /\ W[1] = None
                  /\ \A x \in EntryId : V[1][x] # ch.contact
  BY <1>2, <1>3
<1> QED
  BY <1>1, <1>4, RedirectAgrees

----------------------------------------------------------------------------
(* The user interface hears a notification. *)

Shift(F) == [i \in Nat |-> F[i + 1]]

LEMMA ShiftRoster ==
  ASSUME NEW q \in Seq(NoteMsg), q # <<>>, NEW V, NEW g, NEW o, RosterAgrees(V, q, g, o)
  PROVE  /\ RosterAgrees(Shift(V), Tail(q), RosterAfter(g, Head(q)), o)
         /\ Fits(g, Head(q)) /\ V[2] = RosterAfter(g, Head(q))
<1>1. /\ Len(q) \in Nat /\ 1 \in 1..Len(q) /\ Len(Tail(q)) = Len(q) - 1 /\ Head(q) = q[1]
      /\ \A i \in 1..Len(Tail(q)) : Tail(q)[i] = q[i + 1] /\ i \in Nat /\ i + 1 \in 1..Len(q)
  BY LenProperties, HeadTailProperties, EmptySeq
<1>2. PICK S : S = Shift(V)
  OBVIOUS
<1>3. /\ V \in [Nat -> Owners] /\ V[1] = g /\ V[Len(q) + 1] = o
      /\ \A i \in 1..Len(q) : V[i + 1] = RosterAfter(V[i], q[i]) /\ Fits(V[i], q[i])
  BY DEF RosterAgrees, RosterReplay
<1>4. V[2] = RosterAfter(g, q[1]) /\ Fits(g, q[1])
  <2>1. V[1 + 1] = RosterAfter(V[1], q[1]) /\ Fits(V[1], q[1])
    BY <1>1, <1>3
  <2> QED
    BY <1>3, <2>1
<1>5. S \in [Nat -> Owners] /\ \A i \in Nat : S[i] = V[i + 1]
  BY <1>2, <1>3 DEF Shift
<1>6. ASSUME NEW i \in 1..Len(Tail(q))
      PROVE  S[i + 1] = RosterAfter(S[i], Tail(q)[i]) /\ Fits(S[i], Tail(q)[i])
  <2>1. i \in Nat /\ i + 1 \in Nat /\ i + 1 \in 1..Len(q) /\ Tail(q)[i] = q[i + 1]
    BY <1>1
  <2>2. S[i + 1] = V[(i + 1) + 1] /\ S[i] = V[i + 1]
    BY <1>5, <2>1
  <2> QED
    BY <1>3, <2>1, <2>2
<1>7. S[1] = V[2] /\ S[Len(Tail(q)) + 1] = V[Len(q) + 1]
  <2>1. 1 + 1 = 2 /\ 1 \in Nat /\ Len(Tail(q)) + 1 \in Nat /\ (Len(Tail(q)) + 1) + 1 = Len(q) + 1
    BY <1>1
  <2> QED
    BY <1>5, <2>1
<1> QED
  BY <1>1, <1>2, <1>3, <1>4, <1>5, <1>6, <1>7 DEF RosterAgrees, RosterReplay

LEMMA ShiftView ==
  ASSUME NEW q \in Seq(NoteMsg), q # <<>>, NEW k, NEW W, ViewReplay(W, q, k)
  PROVE  /\ ViewReplay(Shift(W), Tail(q), k)
         /\ Shift(W)[1] = ViewAfter(W[1], Head(q), k) /\ W[2] = ViewAfter(W[1], Head(q), k)
         /\ Shift(W)[Len(Tail(q)) + 1] = W[Len(q) + 1]
<1>1. /\ Len(q) \in Nat /\ 1 \in 1..Len(q) /\ Len(Tail(q)) = Len(q) - 1 /\ Head(q) = q[1]
      /\ \A i \in 1..Len(Tail(q)) : Tail(q)[i] = q[i + 1] /\ i \in Nat /\ i + 1 \in 1..Len(q)
  BY LenProperties, HeadTailProperties, EmptySeq
<1>2. PICK S : S = Shift(W)
  OBVIOUS
<1>3. /\ W \in [Nat -> Open \cup {None}]
      /\ \A i \in 1..Len(q) : W[i + 1] = ViewAfter(W[i], q[i], k)
  BY DEF ViewReplay
<1>4. W[2] = ViewAfter(W[1], q[1], k)
  <2>1. W[1 + 1] = ViewAfter(W[1], q[1], k)
    BY <1>1, <1>3
  <2> QED
    BY <2>1
<1>5. S \in [Nat -> Open \cup {None}] /\ \A i \in Nat : S[i] = W[i + 1]
  BY <1>2, <1>3 DEF Shift
<1>6. ASSUME NEW i \in 1..Len(Tail(q)) PROVE S[i + 1] = ViewAfter(S[i], Tail(q)[i], k)
  <2>1. i \in Nat /\ i + 1 \in Nat /\ i + 1 \in 1..Len(q) /\ Tail(q)[i] = q[i + 1]
    BY <1>1
  <2>2. S[i + 1] = W[(i + 1) + 1] /\ S[i] = W[i + 1]
    BY <1>5, <2>1
  <2> QED
    BY <1>3, <2>1, <2>2
<1>7. S[1] = W[2] /\ S[Len(Tail(q)) + 1] = W[Len(q) + 1]
  <2>1. 1 + 1 = 2 /\ 1 \in Nat /\ Len(Tail(q)) + 1 \in Nat /\ (Len(Tail(q)) + 1) + 1 = Len(q) + 1
    BY <1>1
  <2> QED
    BY <1>5, <2>1
<1> QED
  BY <1>1, <1>2, <1>4, <1>5, <1>6, <1>7 DEF ViewReplay

\* What the shorter queue says of the chat.
LEMMA ShiftFacts ==
  ASSUME NEW q \in Seq(NoteMsg), q # <<>>, NEW k, NEW V, NEW W
  PROVE  /\ Len(q) \in Nat /\ Len(Tail(q)) + 1 = Len(q) /\ Tail(q) \in Seq(NoteMsg)
         /\ \A r \in 1..Len(q) :
               /\ ToldAt(Shift(W), Tail(q), k, r) => ToldAt(W, q, k, r + 1)
               /\ ToldAt(W, q, k, r + 1) =>
                     \/ ToldAt(Shift(W), Tail(q), k, r)
                     \/ Opens(W[1], Head(q), k) \/ Turns(W[1], Head(q), k)
               /\ GoodAt(Shift(V), Shift(W), r) <=> GoodAt(V, W, r + 1)
               /\ BadAt(Shift(V), Shift(W), r) <=> BadAt(V, W, r + 1)
               /\ Repicked(V, W, r + 1, Len(q)) => Repicked(Shift(V), Shift(W), r, Len(Tail(q)))
               /\ Shift(V)[r] = V[r + 1] /\ Shift(W)[r] = W[r + 1]
         /\ Repicked(V, W, 1, Len(q)) =>
               RepickAt(V, W, 1) \/ Repicked(Shift(V), Shift(W), 1, Len(Tail(q)))
         /\ Heard(V, W, q, k) => Heard(Shift(V), Shift(W), Tail(q), k)
<1>1. PICK A, B, t : A = Shift(V) /\ B = Shift(W) /\ t = Tail(q)
  OBVIOUS
<1>2. /\ Len(q) \in Nat /\ 1 \in 1..Len(q) /\ Len(t) = Len(q) - 1 /\ Head(q) = q[1]
      /\ Len(t) + 1 = Len(q) /\ t \in Seq(NoteMsg)
      /\ \A i \in 1..Len(t) : t[i] = q[i + 1] /\ i \in Nat /\ i + 1 \in 1..Len(q)
  BY <1>1, LenProperties, HeadTailProperties, EmptySeq
<1>3. \A i \in Nat : A[i] = V[i + 1] /\ B[i] = W[i + 1]
  BY <1>1 DEF Shift
<1>4. ASSUME NEW r \in 1..Len(q), NEW i \in r..Len(t), RepickAt(V, W, i + 1)
      PROVE  RepickAt(A, B, i)
  <2>1. i \in Nat /\ i + 1 \in Nat
    BY <1>2
  <2>2. A[i] = V[i + 1] /\ A[i + 1] = V[(i + 1) + 1] /\ B[i] = W[i + 1]
    BY <1>3, <2>1
  <2> QED
    BY <1>4, <2>2 DEF RepickAt
<1>5. ASSUME NEW r \in 1..Len(q)
      PROVE  /\ ToldAt(B, t, k, r) => ToldAt(W, q, k, r + 1)
             /\ ToldAt(W, q, k, r + 1) =>
                   ToldAt(B, t, k, r) \/ Opens(W[1], Head(q), k) \/ Turns(W[1], Head(q), k)
             /\ GoodAt(A, B, r) <=> GoodAt(V, W, r + 1)
             /\ BadAt(A, B, r) <=> BadAt(V, W, r + 1)
             /\ Repicked(V, W, r + 1, Len(q)) => Repicked(A, B, r, Len(t))
             /\ A[r] = V[r + 1] /\ B[r] = W[r + 1]
  <2>1. r \in Nat /\ A[r] = V[r + 1] /\ B[r] = W[r + 1]
    BY <1>2, <1>3
  <2>2. ASSUME NEW i \in 1..(r - 1)
        PROVE  i + 1 \in 1..((r + 1) - 1) /\ B[i] = W[i + 1] /\ t[i] = q[i + 1]
    <3>1. i \in Nat /\ i \in 1..Len(t) /\ i + 1 \in 1..((r + 1) - 1)
      BY <1>2
    <3> QED
      BY <1>2, <1>3, <3>1
  <2>3. ToldAt(B, t, k, r) => ToldAt(W, q, k, r + 1)
    BY <2>2 DEF ToldAt
  <2>4. ASSUME ToldAt(W, q, k, r + 1), ~Opens(W[1], Head(q), k), ~Turns(W[1], Head(q), k)
        PROVE  ToldAt(B, t, k, r)
    <3>1. PICK i \in 1..((r + 1) - 1) : Opens(W[i], q[i], k) \/ Turns(W[i], q[i], k)
      BY <2>4 DEF ToldAt
    <3>2. i # 1
      BY <1>2, <2>4, <3>1
    <3>3. i - 1 \in 1..(r - 1) /\ (i - 1) + 1 = i
      BY <1>2, <3>2
    <3>4. B[i - 1] = W[i] /\ t[i - 1] = q[i]
      BY <2>2, <3>3
    <3>5. Opens(B[i - 1], t[i - 1], k) \/ Turns(B[i - 1], t[i - 1], k)
      BY <3>1, <3>4
    <3> QED
      BY <3>3, <3>5 DEF ToldAt
  <2>5. ASSUME Repicked(V, W, r + 1, Len(q)) PROVE Repicked(A, B, r, Len(t))
    <3>1. PICK i \in (r + 1)..Len(q) : RepickAt(V, W, i)
      BY <2>5 DEF Repicked
    <3>2. i - 1 \in r..Len(t) /\ (i - 1) + 1 = i
      BY <1>2
    <3>3. RepickAt(A, B, i - 1)
      BY <1>4, <3>1, <3>2
    <3> QED
      BY <3>2, <3>3 DEF Repicked
  <2> QED
    BY <2>1, <2>3, <2>4, <2>5 DEF GoodAt, BadAt
<1>6. ASSUME Repicked(V, W, 1, Len(q)), ~RepickAt(V, W, 1) PROVE Repicked(A, B, 1, Len(t))
  <2>1. PICK i \in 1..Len(q) : RepickAt(V, W, i)
    BY <1>6 DEF Repicked
  <2>2. i # 1
    BY <1>6, <2>1
  <2>3. i - 1 \in 1..Len(t) /\ (i - 1) + 1 = i
    BY <1>2, <2>2
  <2>4. RepickAt(A, B, i - 1)
    BY <1>2, <1>4, <2>1, <2>3
  <2> QED
    BY <2>3, <2>4 DEF Repicked
<1>7. ASSUME Heard(V, W, q, k), NEW i \in 1..Len(t)
      PROVE  /\ t[i].note = "chatEntryChanged" /\ t[i].chat = k => B[i] # None
             /\ Opens(B[i], t[i], k) => A[i][t[i].entry] = t[i].contact
  <2>1. i + 1 \in 1..Len(q) /\ t[i] = q[i + 1] /\ A[i] = V[i + 1] /\ B[i] = W[i + 1]
    BY <1>2, <1>3
  <2> QED
    BY <1>7, <2>1 DEF Heard
<1>8. Heard(V, W, q, k) => Heard(A, B, t, k)
  BY <1>7 DEF Heard
<1> QED
  BY <1>1, <1>2, <1>5, <1>6, <1>8

LEMMA HearAgrees ==
  ASSUME NEW q \in Seq(NoteMsg), q # <<>>, NEW k, NEW V, NEW g, NEW o, RosterAgrees(V, q, g, o),
         NEW W, NEW w, NEW ch, NEW tc, ChatAgrees(V, W, q, k, w, ch, tc),
         ~Repicks(w, g, RosterAfter(g, Head(q))),
         NEW tc2, \A f \in Chosen : LastPick(tc, k, f) => LastPick(tc2, k, f)
  PROVE  ChatAgrees(Shift(V), Shift(W), Tail(q), k, ViewAfter(w, Head(q), k), ch, tc2)
<1>1. PICK A, B, t, w1 : /\ A = Shift(V) /\ B = Shift(W) /\ t = Tail(q)
                         /\ w1 = ViewAfter(w, Head(q), k)
  OBVIOUS
<1>2. /\ ViewReplay(W, q, k) /\ W[1] = w /\ Heard(V, W, q, k) /\ W[Len(q) + 1] # None
      /\ w = None => W[Len(q) + 1].contact = ch.contact
      /\ W[Len(q) + 1].contact = ch.contact =>
            Settles(V, W, q, k, ch, tc) /\ LetsGo(V, W, q, k, ch, tc) /\ Watches(V, W, q, k)
  BY DEF ChatAgrees
<1>3. /\ ViewReplay(B, t, k) /\ B[1] = w1 /\ B[Len(t) + 1] = W[Len(q) + 1] /\ W[2] = w1
  BY <1>1, <1>2, ShiftView
<1>4. V[1] = g /\ V[2] = RosterAfter(g, Head(q)) /\ Fits(g, Head(q))
  BY ShiftRoster DEF RosterAgrees
<1>5. ~RepickAt(V, W, 1)
  <2>1. 1 + 1 = 2
    OBVIOUS
  <2> QED
    BY <1>2, <1>4, <2>1 DEF RepickAt
<1>6. /\ Len(q) \in Nat /\ Len(t) + 1 = Len(q)
      /\ Repicked(V, W, 1, Len(q)) => Repicked(A, B, 1, Len(t))
      /\ Heard(A, B, t, k)
      /\ \A r \in 1..Len(q) :
            /\ ToldAt(B, t, k, r) => ToldAt(W, q, k, r + 1)
            /\ GoodAt(A, B, r) <=> GoodAt(V, W, r + 1)
            /\ BadAt(A, B, r) <=> BadAt(V, W, r + 1)
            /\ Repicked(V, W, r + 1, Len(q)) => Repicked(A, B, r, Len(t))
            /\ A[r] = V[r + 1] /\ B[r] = W[r + 1]
  BY <1>1, <1>2, <1>5, ShiftFacts
<1>7. Len(q) \in 1..Len(q) /\ 1 \in 1..Len(q) /\ 1 + 1 = 2
  BY <1>6, LenProperties, EmptySeq
<1>8. w1 = None => w = None
  <2>1. 1 \in Nat /\ 2 \in 1..(Len(q) + 1) /\ 1 <= 1 /\ 1 <= 2
    BY <1>6, <1>7
  <2>2. W[1] # None => W[2] # None
    BY <1>2, <2>1, OpenStays
  <2> QED
    BY <1>2, <1>3, <2>2
<1>9. ASSUME W[Len(q) + 1].contact = ch.contact
      PROVE  Settles(A, B, t, k, ch, tc2) /\ LetsGo(A, B, t, k, ch, tc2) /\ Watches(A, B, t, k)
  <2>1. Settles(V, W, q, k, ch, tc) /\ LetsGo(V, W, q, k, ch, tc) /\ Watches(V, W, q, k)
    BY <1>2, <1>9
  <2>2. LetsGo(A, B, t, k, ch, tc2)
    BY <1>6, <1>7, <2>1 DEF LetsGo
  <2>3. Watches(A, B, t, k)
    <3> SUFFICES ASSUME NEW r \in 1..(Len(t) + 1), ToldAt(B, t, k, r), GoodAt(A, B, r),
                        BadAt(A, B, Len(t) + 1)
                 PROVE  Repicked(A, B, r, Len(t))
      BY DEF Watches
    <3>1. r \in 1..Len(q) /\ r + 1 \in 1..(Len(q) + 1) /\ BadAt(A, B, Len(q))
      BY <1>6
    <3>2. ToldAt(W, q, k, r + 1) /\ GoodAt(V, W, r + 1) /\ BadAt(V, W, Len(q) + 1)
      BY <1>6, <1>7, <3>1
    <3>3. Repicked(V, W, r + 1, Len(q))
      BY <2>1, <3>1, <3>2 DEF Watches
    <3> QED
      BY <1>6, <3>1, <3>3
  <2>4. Settles(A, B, t, k, ch, tc2)
    <3>1. CASE W[Len(q) + 1].entry = ch.entry
      BY <1>3, <3>1 DEF Settles
    <3>2. CASE ~ToldAt(W, q, k, Len(q) + 1)
      <4>1. ~ToldAt(B, t, k, Len(t) + 1)
        BY <1>6, <1>7, <3>2
      <4>2. CASE Repicked(V, W, 1, Len(q))
        BY <1>6, <4>1, <4>2 DEF Settles
      <4>3. ASSUME NEW f \in Chosen, LastPick(tc, k, f), W[1].entry = f,
                   f # None => V[1][f] = ch.contact
            PROVE  Settles(A, B, t, k, ch, tc2)
        <5>1. W[2] = W[1] /\ W[1] = W[Len(q) + 1]
          <6>1. 2 \in 1..(Len(q) + 1) /\ Len(q) + 1 \in 1..(Len(q) + 1)
            BY <1>6, <1>7
          <6>2. \A i \in 1..(Len(q) + 1) : W[i] = W[1]
            BY <1>2, <3>2, <6>1, Untold
          <6> QED
            BY <6>1, <6>2
        <5>2. w # None /\ w.contact = ch.contact /\ w.entry = f /\ w1 = w
          BY <1>2, <1>3, <1>9, <4>3, <5>1
        <5>3. f # None => V[2][f] = ch.contact
          <6>1. ASSUME f # None, V[2][f] # ch.contact PROVE FALSE
            <7>1. f \in EntryId /\ V[1][f] = ch.contact
              BY <4>3, <6>1 DEF Chosen
            <7>2. Repicks(w, g, RosterAfter(g, Head(q)))
              BY <1>4, <5>2, <6>1, <7>1 DEF Repicks
            <7> QED
              BY <7>2
          <6> QED
            BY <6>1
        <5>4. A[1] = V[2] /\ B[1].entry = f /\ LastPick(tc2, k, f)
          BY <1>3, <1>6, <1>7, <4>3, <5>2
        <5> QED
          BY <4>1, <5>3, <5>4 DEF Settles
      <4> QED
        BY <2>1, <3>2, <4>2, <4>3, <3>1 DEF Settles
    <3> QED
      BY <2>1, <3>1, <3>2 DEF Settles
  <2> QED
    BY <2>2, <2>3, <2>4
<1>10. ChatAgrees(A, B, t, k, w1, ch, tc2)
  BY <1>2, <1>3, <1>6, <1>8, <1>9 DEF ChatAgrees
<1> QED
  BY <1>1, <1>10

LEMMA RepickAgrees ==
  ASSUME NEW q \in Seq(NoteMsg), q # <<>>, NEW k, NEW V, NEW g, NEW o, RosterAgrees(V, q, g, o),
         NEW W, NEW w, NEW ch \in Chat, NEW tc, ChatAgrees(V, W, q, k, w, ch, tc),
         Repicks(w, g, RosterAfter(g, Head(q))),
         NEW f \in Chosen, f # None => RosterAfter(g, Head(q))[f] = w.contact,
         NEW tc2, LastPick(tc2, k, f)
  PROVE  \E R : ChatAgrees(Shift(V), R, Tail(q), k, [w EXCEPT !.entry = f], ch, tc2)
<1>1. PICK A, B, t, w2 : /\ A = Shift(V) /\ B = Shift(W) /\ t = Tail(q)
                         /\ w2 = [w EXCEPT !.entry = f]
  OBVIOUS
<1>2. /\ ViewReplay(W, q, k) /\ W[1] = w /\ Heard(V, W, q, k) /\ W[Len(q) + 1] # None
      /\ W[Len(q) + 1].contact = ch.contact =>
            Settles(V, W, q, k, ch, tc) /\ LetsGo(V, W, q, k, ch, tc) /\ Watches(V, W, q, k)
  BY DEF ChatAgrees
<1>3. /\ ViewReplay(B, t, k) /\ B[Len(t) + 1] = W[Len(q) + 1]
      /\ W[2] = ViewAfter(w, Head(q), k)
  BY <1>1, <1>2, ShiftView
<1>4. V[1] = g /\ V[2] = RosterAfter(g, Head(q)) /\ RosterReplay(A, t)
  BY <1>1, ShiftRoster DEF RosterAgrees
<1>5. Head(q).note \in EntryMoves /\ w # None
  BY DEF Repicks, RosterAfter
<1>6. ~Opens(W[1], Head(q), k) /\ ~Turns(W[1], Head(q), k)
  BY <1>5 DEF EntryMoves, Opens, Turns
<1>7. /\ Len(q) \in Nat /\ Len(t) + 1 = Len(q) /\ t \in Seq(NoteMsg)
      /\ Heard(A, B, t, k)
      /\ \A r \in 1..Len(q) :
            /\ ToldAt(B, t, k, r) => ToldAt(W, q, k, r + 1)
            /\ GoodAt(A, B, r) <=> GoodAt(V, W, r + 1)
            /\ BadAt(A, B, r) <=> BadAt(V, W, r + 1)
            /\ Repicked(V, W, r + 1, Len(q)) => Repicked(A, B, r, Len(t))
            /\ A[r] = V[r + 1] /\ B[r] = W[r + 1]
  BY <1>1, <1>2, ShiftFacts
<1>8. Len(q) \in 1..Len(q) /\ 1 \in 1..Len(q) /\ 1 + 1 = 2
  BY <1>7, LenProperties, EmptySeq
<1>9. Follows(A, B, t, k, ch)
  <2>1. ASSUME W[Len(q) + 1].contact = ch.contact
        PROVE  /\ ToldAt(B, t, k, Len(t) + 1) => W[Len(q) + 1].entry = ch.entry
               /\ Watches(A, B, t, k)
    <3>1. Settles(V, W, q, k, ch, tc) /\ Watches(V, W, q, k)
      BY <1>2, <2>1
    <3>2. ToldAt(B, t, k, Len(t) + 1) => W[Len(q) + 1].entry = ch.entry
      BY <1>7, <1>8, <3>1 DEF Settles
    <3>3. Watches(A, B, t, k)
      <4> SUFFICES ASSUME NEW r \in 1..(Len(t) + 1), ToldAt(B, t, k, r), GoodAt(A, B, r),
                          BadAt(A, B, Len(t) + 1)
                   PROVE  Repicked(A, B, r, Len(t))
        BY DEF Watches
      <4>1. r \in 1..Len(q) /\ r + 1 \in 1..(Len(q) + 1) /\ BadAt(A, B, Len(q))
        BY <1>7
      <4>2. ToldAt(W, q, k, r + 1) /\ GoodAt(V, W, r + 1) /\ BadAt(V, W, Len(q) + 1)
        BY <1>7, <1>8, <4>1
      <4>3. Repicked(V, W, r + 1, Len(q))
        BY <3>1, <4>1, <4>2 DEF Watches
      <4> QED
        BY <1>7, <4>1, <4>3
    <3> QED
      BY <3>2, <3>3
  <2> QED
    BY <1>2, <1>3, <1>7, <2>1 DEF Follows
<1>10. w \in Open
  BY <1>2, <1>5 DEF ViewReplay
<1>11. w2 \in Open /\ w2.contact = w.contact /\ w2.entry = f
  BY <1>1, <1>10 DEF Open, Chosen
<1>12. B[Len(t) + 1].contact = w.contact
  <2>1. 1 \in Nat /\ Len(q) + 1 \in 1..(Len(q) + 1) /\ 1 <= 1 /\ 1 <= Len(q) + 1
    BY <1>7
  <2>2. W[Len(q) + 1].contact = W[1].contact
    BY <1>2, <1>5, <2>1, OpenStays
  <2> QED
    BY <1>2, <1>3, <2>2
<1>13. w2.contact = ch.contact =>
            /\ B[Len(t) + 1].contact = ch.contact
            /\ LastPick(tc2, k, w2.entry) /\ (w2.entry # None => A[1][w2.entry] = ch.contact)
  BY <1>4, <1>7, <1>8, <1>11, <1>12
<1>14. \E R : ChatAgrees(A, R, t, k, w2, ch, tc2)
  BY <1>4, <1>7, <1>9, <1>11, <1>13, RedirectAgrees
<1> QED
  BY <1>1, <1>14

----------------------------------------------------------------------------
(* All chats. *)

\* The calls tc2 pick last for the chat what the calls tc do.
SameLast(tc, tc2, k) == \A f \in Chosen : LastPick(tc, k, f) => LastPick(tc2, k, f)
\* The chat has the same contact and entry.
Kept(ch, ch2) == ch2.contact = ch.contact /\ ch2.entry = ch.entry

LEMMA KeptAgrees ==
  ASSUME NEW V, NEW W, NEW q, NEW k, NEW w, NEW ch, NEW tc, ChatAgrees(V, W, q, k, w, ch, tc),
         NEW ch2, Kept(ch, ch2), NEW tc2, SameLast(tc, tc2, k)
  PROVE  ChatAgrees(V, W, q, k, w, ch2, tc2)
<1>1. ChatAgrees(V, W, q, k, w, ch, tc2)
  BY CallsAgree DEF SameLast
<1>2. ch2.contact = ch.contact /\ ch2.entry = ch.entry
  BY DEF Kept
<1>3. Settles(V, W, q, k, ch, tc2) => Settles(V, W, q, k, ch2, tc2)
  BY <1>2 DEF Settles
<1>4. LetsGo(V, W, q, k, ch, tc2) => LetsGo(V, W, q, k, ch2, tc2)
  BY <1>2 DEF LetsGo
<1> QED
  BY <1>1, <1>2, <1>3, <1>4 DEF ChatAgrees

\* Nothing is told, and less is asked.
LEMMA AgreeStill ==
  ASSUME NEW g, NEW vs, NEW q, NEW o, NEW chs, NEW tc, NEW X, Agreeing(g, vs, q, o, chs, tc, X),
         NEW vs2, NEW chs2, NEW tc2, NEW X2,
         \A k \in ChatId \ X2 : chs2[k] # None =>
            /\ k \notin X /\ chs[k] # None /\ Kept(chs[k], chs2[k])
            /\ vs2[k] \subseteq vs[k] /\ SameLast(tc, tc2, k)
  PROVE  Agreeing(g, vs2, q, o, chs2, tc2, X2)
<1>1. PICK V : /\ RosterAgrees(V, q, g, o)
               /\ \A k \in ChatId \ X : chs[k] # None =>
                      \A w \in vs[k] : \E W : ChatAgrees(V, W, q, k, w, chs[k], tc)
  BY DEF Agreeing
<1>2. ASSUME NEW k \in ChatId \ X2, chs2[k] # None, NEW w \in vs2[k]
      PROVE  \E W : ChatAgrees(V, W, q, k, w, chs2[k], tc2)
  <2>1. PICK W : ChatAgrees(V, W, q, k, w, chs[k], tc)
    BY <1>1, <1>2
  <2>2. Kept(chs[k], chs2[k]) /\ SameLast(tc, tc2, k)
    BY <1>2
  <2>3. ChatAgrees(V, W, q, k, w, chs2[k], tc2)
    BY <2>1, <2>2, KeptAgrees
  <2> QED
    BY <2>3
<1> QED
  BY <1>1, <1>2 DEF Agreeing

\* A notification that is not of a chat's entry.
LEMMA AgreeNote ==
  ASSUME NEW q, NEW q2, NEW m, Longer(q, q2, m),
         NEW g, NEW vs, NEW o, NEW chs \in [ChatId -> Chat \cup {None}], NEW tc, NEW X,
         Agreeing(g, vs, q, o, chs, tc, X), Fits(o, m),
         m.note \notin {"chatIncoming", "chatEntryChanged"}
  PROVE  Agreeing(g, vs, q2, RosterAfter(o, m), chs, tc, X)
<1>1. PICK V : /\ RosterAgrees(V, q, g, o)
               /\ \A k \in ChatId \ X : chs[k] # None =>
                      \A w \in vs[k] : \E W : ChatAgrees(V, W, q, k, w, chs[k], tc)
  BY DEF Agreeing
<1>2. RosterAgrees(RosterGrown(V, q, m), q2, g, RosterAfter(o, m))
  BY <1>1, RosterMore
<1>3. ASSUME NEW k \in ChatId \ X, chs[k] # None, NEW w \in vs[k]
      PROVE  \E W : ChatAgrees(RosterGrown(V, q, m), W, q2, k, w, chs[k], tc)
  <2>1. PICK W : ChatAgrees(V, W, q, k, w, chs[k], tc)
    BY <1>1, <1>3
  <2>2. chs[k] \in Chat
    BY <1>3
  <2> QED
    BY <1>1, <2>1, <2>2, NoteAgrees
<1> QED
  BY <1>2, <1>3 DEF Agreeing

\* What a step does to the other chats, and to what is asked of them.
SameOthers(k, tc, tc2) == \A j \in ChatId \ {k} : SameLast(tc, tc2, j)
OtherChats(k, chs, chs2) == \A j \in ChatId \ {k} : chs2[j] = chs[j]
FewerOthers(k, vs, vs2) == \A j \in ChatId \ {k} : vs2[j] \subseteq vs[j]

\* A chat turns.
TurnTo(k, e, chs, chs2) ==
    /\ chs[k] # None /\ chs2[k] \in Chat
    /\ chs2[k].contact = chs[k].contact /\ chs2[k].entry = e
    /\ OtherChats(k, chs, chs2)
LEMMA AgreeTurn ==
  ASSUME NEW q, NEW q2, NEW m, Longer(q, q2, m),
         NEW g, NEW vs, NEW o, NEW chs \in [ChatId -> Chat \cup {None}], NEW tc, NEW X,
         Agreeing(g, vs, q, o, chs, tc, X),
         NEW k \in ChatId, NEW e \in Chosen, m = ChatEntryChanged(k, e),
         NEW chs2, TurnTo(k, e, chs, chs2), NEW tc2, SameOthers(k, tc, tc2),
         k \notin X => \/ e = None \/ o[e] = chs[k].contact
                       \/ tc2 = tc /\ chs[k].entry # None /\ o[chs[k].entry] # chs[k].contact
  PROVE  Agreeing(g, vs, q2, o, chs2, tc2, X)
<1> /\ chs[k] # None /\ chs2[k] \in Chat
    /\ chs2[k].contact = chs[k].contact /\ chs2[k].entry = e
    /\ \A j \in ChatId \ {k} : chs2[j] = chs[j]
    /\ \A j \in ChatId \ {k} : SameLast(tc, tc2, j)
  BY DEF TurnTo, OtherChats, SameOthers
<1>1. PICK V : /\ RosterAgrees(V, q, g, o)
               /\ \A j \in ChatId \ X : chs[j] # None =>
                      \A w \in vs[j] : \E W : ChatAgrees(V, W, q, j, w, chs[j], tc)
  BY DEF Agreeing
<1>2. m.note = "chatEntryChanged" /\ m.chat = k
  BY DEF ChatEntryChanged
<1>3. Fits(o, m) /\ RosterAfter(o, m) = o
  BY <1>2 DEF Fits, RosterAfter, EntryMoves
<1>4. RosterAgrees(RosterGrown(V, q, m), q2, g, o)
  BY <1>1, <1>3, RosterMore
<1>5. ASSUME NEW j \in ChatId \ X, chs2[j] # None, NEW w \in vs[j]
      PROVE  \E W : ChatAgrees(RosterGrown(V, q, m), W, q2, j, w, chs2[j], tc2)
  <2>1. CASE j = k
    <3>1. PICK W : ChatAgrees(V, W, q, k, w, chs[k], tc)
      BY <1>1, <1>5, <2>1
    <3>2. PICK ch, ch2 : ch = chs[k] /\ ch2 = chs2[k]
      OBVIOUS
    <3>3. /\ ch \in Chat /\ ch2 \in Chat /\ ch2.contact = ch.contact /\ ch2.entry = e
          /\ \/ e = None \/ o[e] = ch.contact
             \/ tc2 = tc /\ ch.entry # None /\ o[ch.entry] # ch.contact
      BY <1>5, <2>1, <3>2
    <3>4. \E R : ChatAgrees(RosterGrown(V, q, m), R, q2, k, w, ch2, tc2)
      BY <1>1, <3>1, <3>2, <3>3, TurnAgrees
    <3> QED
      BY <2>1, <3>2, <3>4
  <2>2. CASE j # k
    <3>1. chs2[j] = chs[j] /\ SameLast(tc, tc2, j)
      BY <1>5, <2>2
    <3>2. PICK W : ChatAgrees(V, W, q, j, w, chs[j], tc)
      BY <1>1, <1>5, <3>1
    <3>3. chs[j] \in Chat
      BY <1>5, <3>1
    <3>4. PICK R : ChatAgrees(RosterGrown(V, q, m), R, q2, j, w, chs[j], tc)
      BY <1>1, <1>2, <1>3, <2>2, <3>2, <3>3, NoteAgrees
    <3>5. ChatAgrees(RosterGrown(V, q, m), R, q2, j, w, chs[j], tc2)
      BY <3>1, <3>4, CallsAgree DEF SameLast
    <3> QED
      BY <3>1, <3>5
  <2> QED
    BY <2>1, <2>2
<1> QED
  BY <1>4, <1>5 DEF Agreeing

\* A chat is made that the user interface is told of.
OpenAs(k, c, e, o, chs, chs2, vs, vs2) ==
    /\ o[e] = c /\ chs2[k] \in Chat /\ chs2[k].contact = c /\ chs2[k].entry = e
    /\ OtherChats(k, chs, chs2) /\ FewerOthers(k, vs, vs2)
    /\ \A w \in vs2[k] : w \in Open \cup {None} /\ (w = None \/ w.contact # c)
LEMMA AgreeOpen ==
  ASSUME NEW q, NEW q2, NEW m, Longer(q, q2, m),
         NEW g, NEW vs, NEW o, NEW chs \in [ChatId -> Chat \cup {None}], NEW tc, NEW X,
         Agreeing(g, vs, q, o, chs, tc, X),
         NEW k \in ChatId, Unnamed(q, k), NEW c \in ContactId, NEW e \in EntryId,
         m = ChatIncoming(k, c, e), NEW chs2, NEW vs2, OpenAs(k, c, e, o, chs, chs2, vs, vs2)
  PROVE  Agreeing(g, vs2, q2, o, chs2, tc, X)
<1> /\ o[e] = c /\ chs2[k] \in Chat /\ chs2[k].contact = c /\ chs2[k].entry = e
    /\ \A j \in ChatId \ {k} : chs2[j] = chs[j]
    /\ \A j \in ChatId \ {k} : vs2[j] \subseteq vs[j]
    /\ \A w \in vs2[k] : w \in Open \cup {None} /\ (w = None \/ w.contact # c)
  BY DEF OpenAs, OtherChats, FewerOthers
<1>1. PICK V : /\ RosterAgrees(V, q, g, o)
               /\ \A j \in ChatId \ X : chs[j] # None =>
                      \A w \in vs[j] : \E W : ChatAgrees(V, W, q, j, w, chs[j], tc)
  BY DEF Agreeing
<1>2. m.note = "chatIncoming" /\ m.chat = k
  BY DEF ChatIncoming
<1>3. Fits(o, m) /\ RosterAfter(o, m) = o
  BY <1>2 DEF Fits, RosterAfter, EntryMoves
<1>4. RosterAgrees(RosterGrown(V, q, m), q2, g, o)
  BY <1>1, <1>3, RosterMore
<1>5. ASSUME NEW j \in ChatId \ X, chs2[j] # None, NEW w \in vs2[j]
      PROVE  \E W : ChatAgrees(RosterGrown(V, q, m), W, q2, j, w, chs2[j], tc)
  <2>1. CASE j = k
    <3>1. PICK ch : ch = chs2[k]
      OBVIOUS
    <3>2. /\ ch \in Chat /\ ch.contact = c /\ ch.entry = e
          /\ w \in Open \cup {None} /\ (w = None \/ w.contact # c)
      BY <1>5, <2>1, <3>1
    <3>3. Opening(q, k, w, ch, m, o)
      BY <3>2 DEF Opening
    <3>4. \E R : \A t : ChatAgrees(RosterGrown(V, q, m), R, q2, k, w, ch, t)
      BY <1>1, <3>3, OpenAgrees
    <3> QED
      BY <2>1, <3>1, <3>4
  <2>2. CASE j # k
    <3>1. chs2[j] = chs[j] /\ w \in vs[j]
      BY <1>5, <2>2
    <3>2. PICK W : ChatAgrees(V, W, q, j, w, chs[j], tc)
      BY <1>1, <1>5, <3>1
    <3>3. chs[j] \in Chat
      BY <1>5, <3>1
    <3>4. \E R : ChatAgrees(RosterGrown(V, q, m), R, q2, j, w, chs[j], tc)
      BY <1>1, <1>2, <1>3, <2>2, <3>2, <3>3, NoteAgrees
    <3> QED
      BY <3>1, <3>4
  <2> QED
    BY <2>1, <2>2
<1> QED
  BY <1>4, <1>5 DEF Agreeing

\* A chat is made that the user interface has asked for; the ID may be that of a chat that
\* it has by mistake.
StartAs(k, g, o, chs, chs2, vs, vs2) ==
    /\ chs2[k] \in Chat /\ OtherChats(k, chs, chs2) /\ FewerOthers(k, vs, vs2)
    /\ \A w \in vs2[k] :
          /\ w \in Open
          /\ w.contact = chs2[k].contact =>
                /\ w.entry # None => g[w.entry] = w.contact
                /\ \/ chs2[k].entry = w.entry
                   \/ chs2[k].entry = None /\ w.entry # None /\ o[w.entry] # w.contact
LEMMA AgreeStart ==
  ASSUME NEW q \in Seq(NoteMsg),
         NEW g, NEW vs, NEW o, NEW chs \in [ChatId -> Chat \cup {None}], NEW tc, NEW X,
         Agreeing(g, vs, q, o, chs, tc, X),
         NEW k \in ChatId, Unnamed(q, k),
         NEW chs2, NEW vs2, StartAs(k, g, o, chs, chs2, vs, vs2),
         NEW tc2, SameOthers(k, tc, tc2)
  PROVE  Agreeing(g, vs2, q, o, chs2, tc2, X)
<1> /\ chs2[k] \in Chat /\ \A j \in ChatId \ {k} : chs2[j] = chs[j]
    /\ \A j \in ChatId \ {k} : vs2[j] \subseteq vs[j]
    /\ \A w \in vs2[k] :
          /\ w \in Open
          /\ w.contact = chs2[k].contact =>
                /\ w.entry # None => g[w.entry] = w.contact
                /\ \/ chs2[k].entry = w.entry
                   \/ chs2[k].entry = None /\ w.entry # None /\ o[w.entry] # w.contact
    /\ \A j \in ChatId \ {k} : SameLast(tc, tc2, j)
  BY DEF StartAs, OtherChats, FewerOthers, SameOthers
<1>1. PICK V : /\ RosterAgrees(V, q, g, o)
               /\ \A j \in ChatId \ X : chs[j] # None =>
                      \A w \in vs[j] : \E W : ChatAgrees(V, W, q, j, w, chs[j], tc)
  BY DEF Agreeing
<1>2. ASSUME NEW j \in ChatId \ X, chs2[j] # None, NEW w \in vs2[j]
      PROVE  \E W : ChatAgrees(V, W, q, j, w, chs2[j], tc2)
  <2>1. CASE j = k
    <3>1. PICK ch : ch = chs2[k]
      OBVIOUS
    <3>2. /\ ch \in Chat /\ w \in Open
          /\ w.contact = ch.contact =>
                /\ w.entry # None => g[w.entry] = w.contact
                /\ \/ ch.entry = w.entry
                   \/ ch.entry = None /\ w.entry # None /\ o[w.entry] # w.contact
      BY <1>2, <2>1, <3>1
    <3>3. Starting(q, k, w, ch, g, o)
      BY <3>2 DEF Starting
    <3>4. \E R : \A t : ChatAgrees(V, R, q, k, w, ch, t)
      BY <1>1, <3>3, StartAgrees
    <3> QED
      BY <2>1, <3>1, <3>4
  <2>2. CASE j # k
    <3>1. chs2[j] = chs[j] /\ w \in vs[j] /\ SameLast(tc, tc2, j)
      BY <1>2, <2>2
    <3>2. PICK W : ChatAgrees(V, W, q, j, w, chs[j], tc)
      BY <1>1, <1>2, <3>1
    <3>3. ChatAgrees(V, W, q, j, w, chs[j], tc2)
      BY <3>1, <3>2, CallsAgree DEF SameLast
    <3> QED
      BY <3>1, <3>3
  <2> QED
    BY <2>1, <2>2
<1> QED
  BY <1>1, <1>2 DEF Agreeing

\* The user interface opens a chat under an ID that it has by mistake, and the core has that
\* chat already.
MistakeAs(k, w2, g, o, chs, vs, vs2) ==
    /\ w2 \in Open /\ (chs[k] # None => None \in vs[k])
    /\ \A j \in ChatId : vs2[j] \subseteq IF j = k THEN vs[k] \cup {w2} ELSE vs[j]
    /\ \A x \in EntryId : o[x] # w2.contact
    /\ IF w2.entry = None THEN \A x \in EntryId : g[x] # w2.contact
                          ELSE g[w2.entry] = w2.contact
SameAll(tc, tc2) == \A j \in ChatId : SameLast(tc, tc2, j)
LEMMA AgreeMistake ==
  ASSUME NEW q \in Seq(NoteMsg),
         NEW g, NEW vs, NEW o, NEW chs \in [ChatId -> Chat \cup {None}], NEW tc, NEW X,
         Agreeing(g, vs, q, o, chs, tc, X),
         NEW k \in ChatId, NEW w2, NEW vs2, MistakeAs(k, w2, g, o, chs, vs, vs2), NEW tc2, SameAll(tc, tc2)
  PROVE  Agreeing(g, vs2, q, o, chs, tc2, X)
<1> /\ w2 \in Open /\ (chs[k] # None => None \in vs[k])
    /\ \A j \in ChatId : vs2[j] \subseteq IF j = k THEN vs[k] \cup {w2} ELSE vs[j]
    /\ \A x \in EntryId : o[x] # w2.contact
    /\ IF w2.entry = None THEN \A x \in EntryId : g[x] # w2.contact
                          ELSE g[w2.entry] = w2.contact
    /\ \A j \in ChatId : SameLast(tc, tc2, j)
  BY DEF MistakeAs, SameAll
<1>1. PICK V : /\ RosterAgrees(V, q, g, o)
               /\ \A j \in ChatId \ X : chs[j] # None =>
                      \A w \in vs[j] : \E W : ChatAgrees(V, W, q, j, w, chs[j], tc)
  BY DEF Agreeing
<1>2. RosterReplay(V, q) /\ V[1] = g /\ V[Len(q) + 1] = o
  BY <1>1 DEF RosterAgrees
<1>3. ASSUME NEW j \in ChatId \ X, chs[j] # None, NEW w \in vs2[j]
      PROVE  \E W : ChatAgrees(V, W, q, j, w, chs[j], tc2)
  <2>1. CASE w \in vs[j]
    <3>1. PICK W : ChatAgrees(V, W, q, j, w, chs[j], tc)
      BY <1>1, <1>3, <2>1
    <3>2. ChatAgrees(V, W, q, j, w, chs[j], tc2)
      BY <1>3, <3>1, CallsAgree DEF SameLast
    <3> QED
      BY <3>2
  <2>2. CASE w \notin vs[j]
    <3>1. j = k /\ w = w2 /\ None \in vs[k]
      BY <1>3, <2>2
    <3>2. PICK W : ChatAgrees(V, W, q, k, None, chs[k], tc)
      BY <1>1, <1>3, <3>1
    <3>3. PICK ch : ch = chs[k]
      OBVIOUS
    <3>4. ch \in Chat
      BY <1>3, <3>1, <3>3
    <3>5. ChatAgrees(V, W, q, k, None, ch, tc2)
      BY <1>2, <3>2, <3>3, NoneAgrees
    <3>6. /\ \A x \in EntryId : V[Len(q) + 1][x] # w2.contact
          /\ IF w2.entry = None THEN \A x \in EntryId : V[1][x] # w2.contact
                                ELSE V[1][w2.entry] = w2.contact
      BY <1>2
    <3>7. \E R : ChatAgrees(V, R, q, k, w2, ch, tc2)
      BY <1>2, <3>4, <3>5, <3>6, MistakeAgrees
    <3> QED
      BY <3>1, <3>3, <3>7
  <2> QED
    BY <2>1, <2>2
<1> QED
  BY <1>1, <1>3 DEF Agreeing

\* The user picks an entry.
PickAs(k, w0, f, g, vs, vs2) ==
    /\ w0 \in vs[k] /\ w0 # None /\ (f # None => g[f] = w0.contact)
    /\ FewerOthers(k, vs, vs2)
    /\ vs2[k] \subseteq {[w0 EXCEPT !.entry = f]} \cup (vs[k] \cap {None})
LEMMA AgreePick ==
  ASSUME NEW q \in Seq(NoteMsg),
         NEW g, NEW vs, NEW o, NEW chs \in [ChatId -> Chat \cup {None}], NEW tc, NEW X,
         Agreeing(g, vs, q, o, chs, tc, X),
         NEW k \in ChatId, NEW w0, NEW f \in Chosen, NEW vs2, PickAs(k, w0, f, g, vs, vs2),
         NEW tc2, LastPick(tc2, k, f), SameOthers(k, tc, tc2)
  PROVE  Agreeing(g, vs2, q, o, chs, tc2, X)
<1> /\ w0 \in vs[k] /\ w0 # None /\ (f # None => g[f] = w0.contact)
    /\ \A j \in ChatId \ {k} : SameLast(tc, tc2, j)
    /\ \A j \in ChatId \ {k} : vs2[j] \subseteq vs[j]
    /\ vs2[k] \subseteq {[w0 EXCEPT !.entry = f]} \cup (vs[k] \cap {None})
  BY DEF PickAs, FewerOthers, SameOthers
<1>1. PICK V : /\ RosterAgrees(V, q, g, o)
               /\ \A j \in ChatId \ X : chs[j] # None =>
                      \A w \in vs[j] : \E W : ChatAgrees(V, W, q, j, w, chs[j], tc)
  BY DEF Agreeing
<1>2. RosterReplay(V, q) /\ V[1] = g
  BY <1>1 DEF RosterAgrees
<1>3. ASSUME NEW j \in ChatId \ X, chs[j] # None, NEW w \in vs2[j]
      PROVE  \E W : ChatAgrees(V, W, q, j, w, chs[j], tc2)
  <2>1. CASE j # k
    <3>1. PICK W : ChatAgrees(V, W, q, j, w, chs[j], tc)
      BY <1>1, <1>3, <2>1
    <3>2. ChatAgrees(V, W, q, j, w, chs[j], tc2)
      BY <1>3, <2>1, <3>1, CallsAgree DEF SameLast
    <3> QED
      BY <3>2
  <2>2. CASE j = k /\ w = None /\ None \in vs[k]
    <3>1. PICK W : ChatAgrees(V, W, q, k, None, chs[k], tc)
      BY <1>1, <1>3, <2>2
    <3>2. ChatAgrees(V, W, q, k, None, chs[k], tc2)
      BY <1>2, <3>1, NoneAgrees
    <3> QED
      BY <2>2, <3>2
  <2>3. CASE j = k /\ w = [w0 EXCEPT !.entry = f]
    <3>1. PICK W : ChatAgrees(V, W, q, k, w0, chs[k], tc)
      BY <1>1, <1>3, <2>3
    <3>2. PICK ch : ch = chs[k]
      OBVIOUS
    <3>3. ch \in Chat /\ (f # None => V[1][f] = w0.contact)
      BY <1>2, <1>3, <2>3, <3>2
    <3>4. \E R : ChatAgrees(V, R, q, k, [w0 EXCEPT !.entry = f], ch, tc2)
      BY <1>2, <3>1, <3>2, <3>3, PickAgrees
    <3> QED
      BY <2>3, <3>2, <3>4
  <2> QED
    BY <1>3, <2>1, <2>2, <2>3
<1> QED
  BY <1>1, <1>3 DEF Agreeing

\* The user interface hears a notification, with what it makes of each chat.
HearAs(m, g, g2, vs, vs2, tc, tc2) ==
    \A k \in ChatId : \A x \in vs2[k] :
       \/ x = None /\ None \in vs[k] /\ ViewAfter(None, m, k) = None
       \/ \E w \in vs[k] : /\ ~Repicks(w, g, g2) /\ x = ViewAfter(w, m, k)
                           /\ SameLast(tc, tc2, k)
       \/ \E w \in vs[k], f \in Chosen :
             /\ Repicks(w, g, g2) /\ x = [w EXCEPT !.entry = f]
             /\ f # None => g2[f] = w.contact
             /\ LastPick(tc2, k, f)
LEMMA AgreeHear ==
  ASSUME NEW q \in Seq(NoteMsg), q # <<>>, NEW g2,
         NEW g, NEW vs, NEW o, NEW chs \in [ChatId -> Chat \cup {None}], NEW tc, NEW X,
         Agreeing(g, vs, q, o, chs, tc, X), g2 = RosterAfter(g, Head(q)),
         NEW vs2, NEW tc2, HearAs(Head(q), g, g2, vs, vs2, tc, tc2)
  PROVE  Agreeing(g2, vs2, Tail(q), o, chs, tc2, X)
<1> \A k \in ChatId : \A x \in vs2[k] :
       \/ x = None /\ None \in vs[k] /\ ViewAfter(None, Head(q), k) = None
       \/ \E w \in vs[k] : /\ ~Repicks(w, g, g2) /\ x = ViewAfter(w, Head(q), k)
                           /\ SameLast(tc, tc2, k)
       \/ \E w \in vs[k], f \in Chosen :
             /\ Repicks(w, g, g2) /\ x = [w EXCEPT !.entry = f]
             /\ f # None => g2[f] = w.contact
             /\ LastPick(tc2, k, f)
  BY DEF HearAs
<1>1. PICK V : /\ RosterAgrees(V, q, g, o)
               /\ \A j \in ChatId \ X : chs[j] # None =>
                      \A w \in vs[j] : \E W : ChatAgrees(V, W, q, j, w, chs[j], tc)
  BY DEF Agreeing
<1>2. RosterAgrees(Shift(V), Tail(q), g2, o)
  BY <1>1, ShiftRoster
<1>3. RosterReplay(Shift(V), Tail(q)) /\ Tail(q) \in Seq(NoteMsg)
  BY <1>2, HeadTailProperties DEF RosterAgrees
<1>4. ASSUME NEW k \in ChatId \ X, chs[k] # None, NEW x \in vs2[k]
      PROVE  \E W : ChatAgrees(Shift(V), W, Tail(q), k, x, chs[k], tc2)
  <2>0. PICK ch : ch = chs[k]
    OBVIOUS
  <2>1. ch \in Chat /\ \A w \in vs[k] : \E W : ChatAgrees(V, W, q, k, w, ch, tc)
    BY <1>1, <1>4, <2>0
  <2>2. CASE x = None /\ None \in vs[k] /\ ViewAfter(None, Head(q), k) = None
    <3>1. PICK W : ChatAgrees(V, W, q, k, None, ch, tc)
      BY <2>1, <2>2
    <3>2. ~Repicks(None, g, RosterAfter(g, Head(q)))
      BY DEF Repicks
    <3>3. ChatAgrees(Shift(V), Shift(W), Tail(q), k, ViewAfter(None, Head(q), k), ch, tc)
      BY <1>1, <3>1, <3>2, HearAgrees
    <3>4. ChatAgrees(Shift(V), Shift(W), Tail(q), k, None, ch, tc2)
      BY <1>3, <2>2, <3>3, NoneAgrees
    <3> QED
      BY <2>0, <2>2, <3>4
  <2>3. ASSUME NEW w \in vs[k], ~Repicks(w, g, g2), x = ViewAfter(w, Head(q), k),
               SameLast(tc, tc2, k)
        PROVE  \E W : ChatAgrees(Shift(V), W, Tail(q), k, x, ch, tc2)
    <3>1. PICK W : ChatAgrees(V, W, q, k, w, ch, tc)
      BY <2>1
    <3>2. ChatAgrees(Shift(V), Shift(W), Tail(q), k, ViewAfter(w, Head(q), k), ch, tc2)
      BY <1>1, <2>3, <3>1, HearAgrees DEF SameLast
    <3> QED
      BY <2>3, <3>2
  <2>4. ASSUME NEW w \in vs[k], NEW f \in Chosen, Repicks(w, g, g2),
               x = [w EXCEPT !.entry = f], f # None => g2[f] = w.contact, LastPick(tc2, k, f)
        PROVE  \E W : ChatAgrees(Shift(V), W, Tail(q), k, x, ch, tc2)
    <3>1. PICK W : ChatAgrees(V, W, q, k, w, ch, tc)
      BY <2>1
    <3>2. /\ Repicks(w, g, RosterAfter(g, Head(q)))
          /\ f # None => RosterAfter(g, Head(q))[f] = w.contact
      BY <2>4
    <3>3. \E R : ChatAgrees(Shift(V), R, Tail(q), k, [w EXCEPT !.entry = f], ch, tc2)
      BY <1>1, <2>1, <2>4, <3>1, <3>2, RepickAgrees
    <3> QED
      BY <2>4, <3>3
  <2> QED
    BY <1>4, <2>0, <2>2, <2>3, <2>4
<1> QED
  BY <1>2, <1>4 DEF Agreeing

----------------------------------------------------------------------------
(* Calls and notifications that leave the agreement alone. *)

LEMMA PickFacts ==
  ASSUME NEW k \in ChatId, NEW f \in Chosen
  PROVE  /\ ChatChangeEntry(k, f) \in PlainCall /\ ChatChangeEntry(k, f) \in Picks(k)
         /\ \A m \in CallMsg : m.call # "chatChangeEntry" => m \notin Picks(k)
         /\ \A j \in ChatId : j # k => ChatChangeEntry(k, f) \notin Picks(j)
<1>1. ChatChangeEntry(k, f) \in PlainCall
  BY DEF ChatChangeEntry, PlainCall
<1>2. \A j, f2 : ChatChangeEntry(j, f2).call = "chatChangeEntry" /\ ChatChangeEntry(j, f2).chat = j
  BY DEF ChatChangeEntry
<1>3. ChatChangeEntry(k, f) \in Picks(k)
  BY DEF Picks
<1>4. \A j, m : m \in Picks(j) => m.call = "chatChangeEntry" /\ m.chat = j
  BY <1>2 DEF Picks
<1> QED
  BY <1>1, <1>2, <1>3, <1>4

\* What is served, and what is called, leaves the last pick of the other chats alone.
LEMMA LastServed ==
  ASSUME NEW tc \in Seq(CallMsg), tc # <<>>, NEW k, Head(tc) \notin Picks(k)
  PROVE  SameLast(tc, Tail(tc), k)
<1>1. ASSUME NEW f \in Chosen, LastPick(tc, k, f) PROVE LastPick(Tail(tc), k, f)
  <2>1. \/ LastIn(Tail(tc), Picks(k), {ChatChangeEntry(k, f)})
        \/ Head(tc) \in Picks(k) \cap {ChatChangeEntry(k, f)}
    BY <1>1, ServeIn DEF LastPick
  <2> QED
    BY <2>1 DEF LastPick
<1> QED
  BY <1>1 DEF SameLast

LEMMA LastCalled ==
  ASSUME NEW tc \in Seq(CallMsg), NEW r \in Seq(CallMsg), NEW k, Silent(r, Picks(k))
  PROVE  SameLast(tc, tc \o r, k)
<1>1. ASSUME NEW f \in Chosen, LastPick(tc, k, f) PROVE LastPick(tc \o r, k, f)
  BY <1>1, JoinIn DEF LastPick
<1> QED
  BY <1>1 DEF SameLast

LEMMA SamePicks == \A tc, k : SameLast(tc, tc, k)
  BY DEF SameLast

\* A pick that the core ignores.
LEMMA AgreeIgnored ==
  ASSUME NEW q \in Seq(NoteMsg),
         NEW g, NEW vs, NEW o, NEW chs \in [ChatId -> Chat \cup {None}],
         NEW tc \in Seq(CallMsg), tc # <<>>, NEW X,
         Agreeing(g, vs, q, o, chs, tc, X),
         NEW k \in ChatId, NEW f \in Chosen, Head(tc) = ChatChangeEntry(k, f),
         NEW e, e = IF f # None /\ o[f] # None THEN f ELSE None,
         chs[k] # None => e = chs[k].entry \/ (e # None /\ o[e] # chs[k].contact)
  PROVE  Agreeing(g, vs, q, o, chs, Tail(tc), X)
<1>1. PICK V : /\ RosterAgrees(V, q, g, o)
               /\ \A j \in ChatId \ X : chs[j] # None =>
                      \A w \in vs[j] : \E W : ChatAgrees(V, W, q, j, w, chs[j], tc)
  BY DEF Agreeing
<1>2. ASSUME NEW j \in ChatId \ X, chs[j] # None, NEW w \in vs[j]
      PROVE  \E W : ChatAgrees(V, W, q, j, w, chs[j], Tail(tc))
  <2>1. PICK W : ChatAgrees(V, W, q, j, w, chs[j], tc)
    BY <1>1, <1>2
  <2>2. CASE j # k
    <3>1. Head(tc) \notin Picks(j)
      BY <1>2, <2>2, PickFacts
    <3>2. SameLast(tc, Tail(tc), j)
      BY <3>1, LastServed
    <3>3. ChatAgrees(V, W, q, j, w, chs[j], Tail(tc))
      BY <2>1, <3>2, CallsAgree DEF SameLast
    <3> QED
      BY <3>3
  <2>3. CASE j = k
    <3>1. PICK ch : ch = chs[k]
      OBVIOUS
    <3>2. ch \in Chat /\ (e = ch.entry \/ (e # None /\ o[e] # ch.contact))
      BY <1>2, <2>3, <3>1
    <3>3. ChatAgrees(V, W, q, k, w, ch, tc)
      BY <2>1, <2>3, <3>1
    <3>4. ChatAgrees(V, W, q, k, w, ch, Tail(tc))
      BY <1>1, <3>2, <3>3, IgnoredAgrees
    <3> QED
      BY <2>3, <3>1, <3>4
  <2> QED
    BY <2>2, <2>3
<1> QED
  BY <1>1, <1>2 DEF Agreeing

\* One notification of the roster, and several.
LEMMA AgreeOne ==
  ASSUME NEW q \in Seq(NoteMsg), NEW m \in NoteMsg,
         NEW g, NEW vs, NEW o, NEW chs \in [ChatId -> Chat \cup {None}], NEW tc, NEW X,
         Agreeing(g, vs, q, o, chs, tc, X), Fits(o, m),
         m.note \notin {"chatIncoming", "chatEntryChanged"}
  PROVE  Agreeing(g, vs, q \o <<m>>, RosterAfter(o, m), chs, tc, X) /\ q \o <<m>> \in Seq(NoteMsg)
<1>1. Longer(q, q \o <<m>>, m)
  BY OneMore
<1>2. q \o <<m>> \in Seq(NoteMsg)
  BY <1>1 DEF Longer
<1> QED
  BY <1>1, <1>2, AgreeNote

LEMMA AgreeNotes ==
  ASSUME NEW q \in Seq(NoteMsg), NEW r \in Seq(RosterNote), NEW O, NEW o, NEW o2,
         RosterAgrees(O, r, o, o2),
         NEW g, NEW vs, NEW chs \in [ChatId -> Chat \cup {None}], NEW tc, NEW X,
         Agreeing(g, vs, q, o, chs, tc, X)
  PROVE  Agreeing(g, vs, q \o r, o2, chs, tc, X)
<1> DEFINE Q(n) == q \o SubSeq(r, 1, n)
           T == {n \in 0..Len(r) : ~Agreeing(g, vs, Q(n), O[n + 1], chs, tc, X)}
<1>1. /\ Len(r) \in Nat /\ Len(q) \in Nat /\ RosterNote \subseteq NoteMsg
      /\ \A i \in 1..Len(r) : r[i] \in RosterNote
  BY LenProperties, ElementOfSeq DEF NoteMsg
<1>2. /\ O[1] = o /\ O[Len(r) + 1] = o2
      /\ \A i \in 1..Len(r) : O[i + 1] = RosterAfter(O[i], r[i]) /\ Fits(O[i], r[i])
  BY DEF RosterAgrees, RosterReplay
<1>3. ASSUME NEW n \in 0..Len(r)
      PROVE  /\ SubSeq(r, 1, n) \in Seq(NoteMsg) /\ Len(SubSeq(r, 1, n)) = n
             /\ \A i \in 1..n : SubSeq(r, 1, n)[i] = r[i]
  <2>1. \A i \in 1..n : r[i] \in NoteMsg
    BY <1>1
  <2> QED
    BY <1>1, <2>1, SubSeqProperties
<1>4. ASSUME NEW n \in 0..Len(r)
      PROVE  /\ Q(n) \in Seq(NoteMsg) /\ Len(Q(n)) = Len(q) + n
             /\ \A i \in 1..Len(q) : Q(n)[i] = q[i]
             /\ \A i \in 1..n : Q(n)[Len(q) + i] = r[i]
  <2>1. SubSeq(r, 1, n) \in Seq(NoteMsg) /\ Len(SubSeq(r, 1, n)) = n
    BY <1>3
  <2> QED
    BY <1>3, <2>1, Grows
<1>5. ASSUME NEW n \in 1..Len(r) PROVE Longer(Q(n - 1), Q(n), r[n])
  <2>1. n \in 0..Len(r) /\ n - 1 \in 0..Len(r)
    BY <1>1
  <2>2. /\ Q(n) \in Seq(NoteMsg) /\ Len(Q(n)) = Len(q) + n
        /\ \A i \in 1..Len(q) : Q(n)[i] = q[i]
        /\ \A i \in 1..n : Q(n)[Len(q) + i] = r[i]
    BY <1>4, <2>1
  <2>3. /\ Q(n - 1) \in Seq(NoteMsg) /\ Len(Q(n - 1)) = Len(q) + (n - 1)
        /\ \A i \in 1..Len(q) : Q(n - 1)[i] = q[i]
        /\ \A i \in 1..(n - 1) : Q(n - 1)[Len(q) + i] = r[i]
    BY <1>4, <2>1
  <2> HIDE DEF Q
  <2>4. ASSUME NEW i \in 1..Len(Q(n - 1)) PROVE Q(n)[i] = Q(n - 1)[i]
    <3>1. CASE i \in 1..Len(q)
      BY <2>2, <2>3, <3>1
    <3>2. CASE i \notin 1..Len(q)
      <4>1. i - Len(q) \in 1..(n - 1) /\ i - Len(q) \in 1..n /\ Len(q) + (i - Len(q)) = i
        BY <1>1, <2>3, <3>2
      <4> QED
        BY <2>2, <2>3, <4>1
    <3> QED
      BY <3>1, <3>2
  <2>5. Q(n)[Len(Q(n - 1)) + 1] = r[n] /\ r[n] \in NoteMsg
    <3>1. n \in 1..n /\ Len(Q(n - 1)) + 1 = Len(q) + n
      BY <1>1, <2>3
    <3> QED
      BY <1>1, <2>2, <3>1
  <2>6. Len(Q(n - 1)) \in Nat /\ Len(Q(n)) = Len(Q(n - 1)) + 1
    BY <1>1, <2>2, <2>3
  <2> QED
    BY <2>2, <2>3, <2>4, <2>5, <2>6 DEF Longer
<1>6. Q(0) = q
  <2>1. SubSeq(r, 1, 0) = <<>>
    BY <1>1, <1>3, EmptySeq
  <2> QED
    BY <2>1, ConcatEmptySeq
<1>7. Q(Len(r)) = q \o r
  <2>1. SubSeq(r, 1, Len(r)) = r
    BY <1>1, SubSeqProperties
  <2> QED
    BY <2>1
<1> HIDE DEF Q
<1>8. T = {}
  <2> SUFFICES ASSUME T # {} PROVE FALSE
    OBVIOUS
  <2>1. T \in SUBSET Nat
    BY <1>1
  <2>2. PICK n \in T : \A m \in T : n <= m
    BY <2>1, Least
  <2>3. n \in 0..Len(r) /\ n # 0
    <3>1. 0 + 1 = 1
      OBVIOUS
    <3> QED
      BY <1>2, <1>6, <3>1
  <2>4. n \in 1..Len(r) /\ n - 1 \in 0..Len(r) /\ n - 1 \notin T /\ (n - 1) + 1 = n
    BY <1>1, <2>2, <2>3
  <2>5. Agreeing(g, vs, Q(n - 1), O[n], chs, tc, X)
    BY <2>4
  <2>6. O[n + 1] = RosterAfter(O[n], r[n]) /\ Fits(O[n], r[n])
    BY <1>2, <2>4
  <2>7. r[n].note \notin {"chatIncoming", "chatEntryChanged"}
    BY <1>1, <2>4 DEF RosterNote
  <2>8. Longer(Q(n - 1), Q(n), r[n])
    BY <1>5, <2>4
  <2>9. Agreeing(g, vs, Q(n), RosterAfter(O[n], r[n]), chs, tc, X)
    BY <2>5, <2>6, <2>7, <2>8, AgreeNote
  <2> QED
    BY <2>2, <2>6, <2>9
<1>9. Len(r) \in 0..Len(r)
  BY <1>1
<1> QED
  BY <1>2, <1>7, <1>8, <1>9

----------------------------------------------------------------------------
(* What is numbered, and which address a chat has. *)

\* Contacts that are announced have been made.
Numbered(q, n) == \A i \in 1..Len(q) : q[i].note = "rosterContactAdded" => q[i].contact < n

\* Contacts and entries get their numbers in order; an entry belongs to a contact that the
\* core has; no two entries have the same address.
MadeInv ==
    /\ \A e \in EntryId : owner[e] # None => e < nextEntry /\ owner[e] \in contacts
    /\ \A c \in contacts \cup gcontacts : c < nextContact
    /\ waiting # None => waiting.contact < nextContact
    /\ Numbered(toGui, nextContact)
    /\ \A d, e \in EntryId : owner[d] # None /\ owner[e] # None /\ addr[d] = addr[e] => d = e

\* A chat has the address of its entry, while that entry's memory is not another's.
AddrRight(ch, n, a) == IF ch.entry = None THEN ch.addr = None
                       ELSE ch.entry < n /\ ch.addr = a[ch.entry]
AddrInv == \A k \in ChatId \ reused : chats[k] # None => AddrRight(chats[k], nextEntry, addr)

LEMMA NumberedJoin ==
  ASSUME NEW q \in Seq(NoteMsg), NEW r \in Seq(NoteMsg), NEW n, Numbered(q, n), Numbered(r, n)
  PROVE  Numbered(q \o r, n)
<1> SUFFICES ASSUME NEW i \in 1..Len(q \o r), (q \o r)[i].note = "rosterContactAdded"
             PROVE  (q \o r)[i].contact < n
  BY DEF Numbered
<1>1. CASE i \in 1..Len(q)
  BY <1>1, Grows DEF Numbered
<1>2. CASE i - Len(q) \in 1..Len(r)
  <2>1. (q \o r)[Len(q) + (i - Len(q))] = r[i - Len(q)] /\ Len(q) \in Nat
    BY <1>2, Grows
  <2>2. Len(q) + (i - Len(q)) = i
    BY <2>1
  <2> QED
    BY <1>2, <2>1, <2>2 DEF Numbered
<1> QED
  BY <1>1, <1>2, Grows

LEMMA NumberedTail ==
  ASSUME NEW q \in Seq(NoteMsg), q # <<>>, NEW n, Numbered(q, n)
  PROVE  /\ Numbered(Tail(q), n)
         /\ Head(q).note = "rosterContactAdded" => Head(q).contact < n
<1>1. /\ Head(q) = q[1] /\ Len(q) \in Nat \ {0}
      /\ \A i \in 1..Len(Tail(q)) : Tail(q)[i] = q[i + 1] /\ i + 1 \in 1..Len(q)
  BY Shrinks
<1>2. 1 \in 1..Len(q)
  BY <1>1
<1> QED
  BY <1>1, <1>2 DEF Numbered

LEMMA NumberedMore ==
  ASSUME NEW q \in Seq(NoteMsg), NEW n \in Nat, NEW m \in Nat, n <= m, Numbered(q, n)
  PROVE  Numbered(q, m)
<1> SUFFICES ASSUME NEW i \in 1..Len(q), q[i].note = "rosterContactAdded"
             PROVE  q[i].contact < m
  BY DEF Numbered
<1>1. q[i] \in NoteMsg /\ q[i].contact < n
  BY ElementOfSeq DEF Numbered
<1>2. q[i].contact \in Int
  BY <1>1 DEF NoteMsg, RosterNote, ChatNote, ContactId
<1> QED
  BY <1>1, <1>2

\* Notifications that announce no contact.
LEMMA NumberedOther ==
  ASSUME NEW n
  PROVE  /\ Numbered(<<>>, n)
         /\ \A m : m.note # "rosterContactAdded" => Numbered(<<m>>, n)
         /\ \A c : c < n => Numbered(<<ContactAdded(c)>>, n)
<1>1. Numbered(<<>>, n)
  <2>1. Len(<<>>) = 0 /\ 1..0 = {}
    OBVIOUS
  <2> QED
    BY <2>1 DEF Numbered
<1>2. \A m : Len(<<m>>) = 1 /\ <<m>>[1] = m /\ \A i \in 1..1 : i = 1
  OBVIOUS
<1>3. \A m : m.note # "rosterContactAdded" => Numbered(<<m>>, n)
  BY <1>2 DEF Numbered
<1>4. \A c : ContactAdded(c).contact = c
  BY DEF ContactAdded
<1>5. ASSUME NEW c, c < n PROVE Numbered(<<ContactAdded(c)>>, n)
  BY <1>2, <1>4, <1>5 DEF Numbered
<1> QED
  BY <1>1, <1>3, <1>5

\* What the core may do to the roster.
LEMMA MadeCore ==
  ASSUME TypeInv, MadeInv, UNCHANGED <<gcontacts, waiting>>,
         NEW r \in Seq(NoteMsg), toGui' = toGui \o r,
         nextContact' \in Nat, nextContact <= nextContact', Numbered(r, nextContact'),
         \A e \in EntryId : owner'[e] # None => e < nextEntry' /\ owner'[e] \in contacts',
         \A c \in contacts' : c < nextContact',
         \A d, e \in EntryId :
            owner'[d] # None /\ owner'[e] # None /\ addr'[d] = addr'[e] => d = e
  PROVE  MadeInv'
<1>1. toGui \in Seq(NoteMsg) /\ nextContact \in Nat /\ gcontacts \subseteq ContactId
      /\ waiting \in Open \cup {None}
  BY DEF TypeInv, QueuesOK, TypeOK, CoreOK, GuiOK, BridgeOK
<1>2. Numbered(toGui', nextContact')
  BY <1>1, NumberedJoin, NumberedMore DEF MadeInv
<1>3. \A c \in gcontacts' : c < nextContact'
  BY <1>1 DEF MadeInv, ContactId
<1>4. waiting' # None => waiting'.contact < nextContact'
  BY <1>1 DEF MadeInv, Open, ContactId
<1> QED
  BY <1>2, <1>3, <1>4 DEF MadeInv

\* Steps of the core after which the roster is the same.
LEMMA MadeStill ==
  ASSUME TypeInv, MadeInv, UNCHANGED <<gcontacts, waiting, rosterVars>>,
         NEW r \in Seq(ChatNote), toGui' = toGui \o r
  PROVE  MadeInv'
<1>1. UNCHANGED <<contacts, owner, addr, nextContact, nextEntry>>
  BY DEF rosterVars
<1>2. Numbered(r, nextContact) /\ r \in Seq(NoteMsg)
  <2>1. \A m \in ChatNote : m.note # "rosterContactAdded"
    BY DEF ChatNote
  <2> QED
    BY <2>1, ElementOfSeq, SeqMonotonic DEF Numbered, NoteMsg
<1>3. nextContact \in Nat
  BY DEF TypeInv, TypeOK, CoreOK
<1> QED
  BY <1>1, <1>2, <1>3, MadeCore DEF MadeInv

LEMMA NothingTold ==
  ASSUME TypeInv, UNCHANGED toGui
  PROVE  <<>> \in Seq(ChatNote) /\ toGui' = toGui \o <<>>
<1> QED
  BY EmptySeq, ConcatEmptySeq DEF TypeInv, QueuesOK

LEMMA AddrStill ==
  ASSUME TypeInv, AddrInv, UNCHANGED <<addr, nextEntry, reused>>,
         \A k \in ChatId : chats'[k] # None => chats'[k] = chats[k] \/ AddrRight(chats'[k], nextEntry', addr')
  PROVE  AddrInv'
BY DEF AddrInv

\* An entry is made, perhaps in the memory of a deleted one.
LEMMA AddrMade ==
  ASSUME TypeInv, AddrInv, NEW c, NEW e \in EntryId, NEW x, e = nextEntry, MakeEntry(e, c, x),
         NEW held, Reused(held),
         \A k \in ChatId \ reused' :
            chats'[k] # None => chats'[k] = held[k] \/ AddrRight(chats'[k], nextEntry', addr')
  PROVE  AddrInv'
<1>1. /\ addr' = [addr EXCEPT ![e] = x] /\ nextEntry' = e + 1 /\ nextEntry \in Nat
      /\ addr \in [EntryId -> Address \cup {None}] /\ chats \in [ChatId -> Chat \cup {None}]
  BY DEF MakeEntry, TypeInv, TypeOK, CoreOK
<1>2. ASSUME NEW ch \in Chat, AddrRight(ch, nextEntry, addr) PROVE AddrRight(ch, nextEntry', addr')
  <2>1. ch.entry \in EntryId \cup {None}
    BY DEF Chat
  <2>2. CASE ch.entry = None
    BY <1>2, <2>2 DEF AddrRight
  <2>3. CASE ch.entry # None
    <3>1. ch.entry < nextEntry /\ ch.addr = addr[ch.entry] /\ ch.entry \in EntryId
      BY <1>2, <2>1, <2>3 DEF AddrRight
    <3>2. ch.entry # e /\ ch.entry < e + 1
      BY <3>1 DEF EntryId
    <3> QED
      BY <1>1, <2>3, <3>1, <3>2 DEF AddrRight
  <2> QED
    BY <2>2, <2>3
<1> SUFFICES ASSUME NEW k \in ChatId \ reused', chats'[k] # None, chats'[k] = held[k]
             PROVE  AddrRight(chats'[k], nextEntry', addr')
  BY DEF AddrInv
<1>3. k \notin reused /\ held[k] = chats[k]
  BY DEF Reused
<1>4. chats[k] \in Chat /\ AddrRight(chats[k], nextEntry, addr)
  BY <1>1, <1>3 DEF AddrInv
<1> QED
  BY <1>2, <1>3, <1>4

----------------------------------------------------------------------------
(* What the core's steps do. *)

\* A message's entry and contact, the chats when they are known, and what is said of them.
Met(x, c, e, held, met) ==
    \/ /\ owner[e] = c /\ addr[e] = x /\ held = chats /\ met = <<>>
       /\ UNCHANGED <<rosterVars, reused>>
    \/ /\ EntriesAt(x) = {} /\ c = nextContact /\ e = nextEntry /\ held \in Rebound(e)
       /\ met = <<ContactAdded(c), EntryAdded(c, e)>>
       /\ WithContact(c) /\ MakeEntry(e, c, x) /\ Reused(held)
MakesChat(x, c, e, held, met) ==
    /\ ChatsLeft /\ nextChat' = nextChat + 1
    /\ chats' = [held EXCEPT ![nextChat] = [contact |-> c, entry |-> e, addr |-> x]]
    /\ toGui' = toGui \o (met \o <<ChatIncoming(nextChat, c, e), ChatMessageReceived(nextChat)>>)
TurnsChat(k, x, c, e, held, met) ==
    /\ UNCHANGED nextChat
    /\ chats' = [held EXCEPT ![k].entry = e, ![k].addr = x]
    /\ toGui' = toGui \o (met \o (IF held[k].entry = e THEN <<>> ELSE <<ChatEntryChanged(k, e)>>)
                              \o <<ChatMessageReceived(k)>>)

LEMMA FoundMatch ==
  ASSUME NEW held, NEW x, NEW c, NEW live, NEW maybe,
         NEW k \in FoundChat(held, x, c, live, maybe)
  PROVE  k \in ChatId /\ held[k] # None /\ (held[k].addr = x \/ held[k].contact = c)
  BY DEF FoundChat

LEMMA MessageFacts ==
  ASSUME TypeInv, NEW x \in Address, MessageReceived(x)
  PROVE  /\ CoreIdle
         /\ \E e \in EntryId, c \in ContactId, held \in [ChatId -> Chat \cup {None}],
               met \in Seq(RosterNote) :
               /\ Met(x, c, e, held, met)
               /\ \/ MakesChat(x, c, e, held, met)
                  \/ \E k \in ChatId : /\ held[k] # None
                                       /\ held[k].addr = x \/ held[k].contact = c
                                       /\ TurnsChat(k, x, c, e, held, met)
<1> DEFINE known == EntriesAt(x) # {}
<1>1. PICK e \in IF known THEN EntriesAt(x) ELSE EntryToMake,
           c \in IF known THEN contacts ELSE ContactToMake,
           maybe \in SUBSET {k \in ChatId : Dangles(k)} :
       \E held \in IF known THEN {chats} ELSE Rebound(e) :
          LET chat == FoundChat(held, x, c, LiveEntries \cup {e}, maybe)
              met == IF known THEN <<>> ELSE <<ContactAdded(c), EntryAdded(c, e)>>
          IN
          /\ known => c = owner[e]
          /\ Reused(held)
          /\ IF known THEN UNCHANGED rosterVars ELSE WithContact(c) /\ MakeEntry(e, c, x)
          /\ IF chat = {}
             THEN /\ ChatsLeft /\ nextChat' = nextChat + 1
                  /\ chats' = [held EXCEPT ![nextChat] =
                                  [contact |-> c, entry |-> e, addr |-> x]]
                  /\ Notify(met \o <<ChatIncoming(nextChat, c, e),
                                     ChatMessageReceived(nextChat)>>)
             ELSE \E k \in chat :
                  /\ chats' = [held EXCEPT ![k].entry = e, ![k].addr = x]
                  /\ Notify(met \o (IF held[k].entry = e THEN <<>>
                                    ELSE <<ChatEntryChanged(k, e)>>)
                                \o <<ChatMessageReceived(k)>>)
                  /\ UNCHANGED nextChat
  BY DEF MessageReceived
<1>2. e \in EntryId /\ c \in ContactId
  BY DEF TypeInv, TypeOK, CoreOK, ContactToMake, EntryToMake, EntriesAt
<1> DEFINE met == IF known THEN <<>> ELSE <<ContactAdded(c), EntryAdded(c, e)>>
<1>3. PICK held \in IF known THEN {chats} ELSE Rebound(e) :
          LET chat == FoundChat(held, x, c, LiveEntries \cup {e}, maybe) IN
          /\ known => c = owner[e]
          /\ Reused(held)
          /\ IF known THEN UNCHANGED rosterVars ELSE WithContact(c) /\ MakeEntry(e, c, x)
          /\ IF chat = {}
             THEN /\ ChatsLeft /\ nextChat' = nextChat + 1
                  /\ chats' = [held EXCEPT ![nextChat] =
                                  [contact |-> c, entry |-> e, addr |-> x]]
                  /\ Notify(met \o <<ChatIncoming(nextChat, c, e),
                                     ChatMessageReceived(nextChat)>>)
             ELSE \E k \in chat :
                  /\ chats' = [held EXCEPT ![k].entry = e, ![k].addr = x]
                  /\ Notify(met \o (IF held[k].entry = e THEN <<>>
                                    ELSE <<ChatEntryChanged(k, e)>>)
                                \o <<ChatMessageReceived(k)>>)
                  /\ UNCHANGED nextChat
  BY <1>1
<1>4. Met(x, c, e, held, met)
  <2>1. CASE known
    <3>1. e \in EntriesAt(x) /\ held = chats /\ met = <<>> /\ c = owner[e] /\ UNCHANGED rosterVars
      BY <1>1, <1>3, <2>1
    <3>2. addr[e] = x
      BY <3>1 DEF EntriesAt
    <3>3. Reused(chats)
      BY <1>3, <3>1
    <3>4. reused' = reused
      BY <3>3 DEF Reused
    <3> QED
      BY <3>1, <3>2, <3>4 DEF Met
  <2>2. CASE ~known
    <3>1. /\ EntriesAt(x) = {} /\ e \in EntryToMake /\ c \in ContactToMake /\ held \in Rebound(e)
          /\ met = <<ContactAdded(c), EntryAdded(c, e)>>
          /\ WithContact(c) /\ MakeEntry(e, c, x) /\ Reused(held)
      BY <1>1, <1>3, <2>2
    <3>2. c = nextContact /\ e = nextEntry
      BY <3>1 DEF EntryToMake, ContactToMake
    <3> QED
      BY <3>1, <3>2 DEF Met
  <2> QED
    BY <2>1, <2>2
<1>5. CoreIdle
  BY DEF MessageReceived
<1>6. held \in [ChatId -> Chat \cup {None}]
  BY <1>2, <1>4, ReboundType DEF Met, TypeInv, TypeOK, CoreOK
<1>7. met \in Seq(RosterNote)
  <2>1. <<ContactAdded(c), EntryAdded(c, e)>> \in Seq(RosterNote)
    BY <1>2, NewOwners
  <2> QED
    BY <2>1, EmptySeq
<1> DEFINE chat == FoundChat(held, x, c, LiveEntries \cup {e}, maybe)
<1> HIDE DEF met
<1>8. IF chat = {}
      THEN /\ ChatsLeft /\ nextChat' = nextChat + 1
           /\ chats' = [held EXCEPT ![nextChat] = [contact |-> c, entry |-> e, addr |-> x]]
           /\ Notify(met \o <<ChatIncoming(nextChat, c, e), ChatMessageReceived(nextChat)>>)
      ELSE \E k \in chat :
           /\ chats' = [held EXCEPT ![k].entry = e, ![k].addr = x]
           /\ Notify(met \o (IF held[k].entry = e THEN <<>> ELSE <<ChatEntryChanged(k, e)>>)
                         \o <<ChatMessageReceived(k)>>)
           /\ UNCHANGED nextChat
  BY <1>3 DEF met
<1>9. \A k \in chat : k \in ChatId /\ held[k] # None /\ (held[k].addr = x \/ held[k].contact = c)
  BY FoundMatch
<1> HIDE DEF chat
<1>10. CASE chat = {}
  <2>1. MakesChat(x, c, e, held, met)
    BY <1>8, <1>10 DEF MakesChat, Notify
  <2> QED
    BY <1>2, <1>4, <1>5, <1>6, <1>7, <2>1
<1>11. CASE chat # {}
  <2>1. PICK k \in chat :
           /\ chats' = [held EXCEPT ![k].entry = e, ![k].addr = x]
           /\ Notify(met \o (IF held[k].entry = e THEN <<>> ELSE <<ChatEntryChanged(k, e)>>)
                         \o <<ChatMessageReceived(k)>>)
           /\ UNCHANGED nextChat
    BY <1>8, <1>11
  <2>2. TurnsChat(k, x, c, e, held, met)
    BY <2>1 DEF TurnsChat, Notify
  <2> QED
    BY <1>2, <1>4, <1>5, <1>9, <1>6, <1>7, <2>2
<1> QED
  BY <1>10, <1>11

\* An entry and perhaps its contact are made.
LEMMA MadeEntry ==
  ASSUME TypeInv, MadeInv, NEW x, NEW c \in ContactId, c \in contacts \cup {nextContact},
         NEW e \in EntryId, e = nextEntry, EntriesAt(x) = {}, WithContact(c), MakeEntry(e, c, x),
         UNCHANGED <<gcontacts, waiting>>,
         NEW r \in Seq(NoteMsg), toGui' = toGui \o r,
         c < nextContact' => Numbered(r, nextContact')
  PROVE  MadeInv' /\ nextContact' \in Nat /\ nextContact <= nextContact' /\ c < nextContact'
<1>1. /\ contacts' = contacts \cup {c} /\ owner' = [owner EXCEPT ![e] = c]
      /\ addr' = [addr EXCEPT ![e] = x] /\ nextEntry' = e + 1
      /\ nextContact' = IF c = nextContact THEN c + 1 ELSE nextContact
  BY DEF WithContact, MakeEntry
<1>2. /\ owner \in [EntryId -> ContactId \cup {None}] /\ addr \in [EntryId -> Address \cup {None}]
      /\ nextContact \in Nat /\ nextEntry \in Nat /\ contacts \subseteq ContactId
  BY DEF TypeInv, TypeOK, CoreOK
<1>3. /\ owner'[e] = c /\ addr'[e] = x
      /\ \A d \in EntryId \ {e} : owner'[d] = owner[d] /\ addr'[d] = addr[d]
  BY <1>1, <1>2
<1>4. \A d \in EntryId : owner[d] # None => d < nextEntry /\ owner[d] \in contacts /\ addr[d] # x
  BY DEF MadeInv, EntriesAt
<1>5. nextContact' \in Nat /\ nextContact <= nextContact' /\ c < nextContact'
  BY <1>1, <1>2 DEF MadeInv
<1>6. \A d \in EntryId : owner'[d] # None => d < nextEntry' /\ owner'[d] \in contacts'
  <2> SUFFICES ASSUME NEW d \in EntryId, owner'[d] # None
               PROVE  d < nextEntry' /\ owner'[d] \in contacts'
    OBVIOUS
  <2>1. CASE d = e
    BY <1>1, <1>2, <1>3, <2>1
  <2>2. CASE d # e
    BY <1>1, <1>2, <1>3, <1>4, <2>2 DEF EntryId
  <2> QED
    BY <2>1, <2>2
<1>7. \A d \in contacts' : d < nextContact'
  BY <1>1, <1>2, <1>5 DEF MadeInv, ContactId
<1>8. \A d, f \in EntryId :
         owner'[d] # None /\ owner'[f] # None /\ addr'[d] = addr'[f] => d = f
  BY <1>3, <1>4 DEF MadeInv
<1>9. MadeInv'
  BY <1>5, <1>6, <1>7, <1>8, MadeCore
<1> QED
  BY <1>5, <1>9

LEMMA ItemAddedFacts ==
  ASSUME TypeInv, NEW x \in Address, ItemAdded(x)
  PROVE  /\ CoreIdle /\ UNCHANGED <<nextChat, stopped>> /\ EntriesAt(x) = {}
         /\ \E e \in EntryId, c \in ContactId :
               /\ e = nextEntry /\ c \in contacts \cup {nextContact}
               /\ WithContact(c) /\ MakeEntry(e, c, x) /\ chats' \in Rebound(e) /\ Reused(chats')
               /\ toGui' = toGui \o (NoticeOf(c) \o <<EntryAdded(c, e)>>)
<1>1. PICK e \in EntryToMake, c \in contacts \cup ContactToMake :
        /\ WithContact(c) /\ MakeEntry(e, c, x) /\ chats' \in Rebound(e) /\ Reused(chats')
        /\ Notify(NoticeOf(c) \o <<EntryAdded(c, e)>>)
  BY DEF ItemAdded
<1>2. c \in ContactId /\ e \in EntryId /\ e = nextEntry /\ c \in contacts \cup {nextContact}
  BY DEF TypeInv, TypeOK, CoreOK, ContactToMake, EntryToMake
<1>3. toGui' = toGui \o (NoticeOf(c) \o <<EntryAdded(c, e)>>)
  BY <1>1 DEF Notify
<1>4. CoreIdle /\ UNCHANGED <<nextChat, stopped>> /\ EntriesAt(x) = {}
  BY DEF ItemAdded
<1> QED
  BY <1>1, <1>2, <1>3, <1>4

LEMMA NoticeNumbered ==
  ASSUME NEW c \in ContactId, NEW n, c < n
  PROVE  NoticeOf(c) \in Seq(NoteMsg) /\ Numbered(NoticeOf(c), n)
<1>1. NoticeOf(c) \in Seq(NoteMsg)
  BY NoticeType, SeqMonotonic DEF NoteMsg
<1> QED
  BY <1>1, NumberedOther DEF NoticeOf

LEMMA ItemAddedMade ==
  ASSUME TypeInv, MadeInv, AddrInv, NEW x \in Address, ItemAdded(x)
  PROVE  MadeInv' /\ AddrInv'
<1>1. PICK e \in EntryId, c \in ContactId :
               /\ e = nextEntry /\ c \in contacts \cup {nextContact}
               /\ WithContact(c) /\ MakeEntry(e, c, x) /\ chats' \in Rebound(e) /\ Reused(chats')
               /\ toGui' = toGui \o (NoticeOf(c) \o <<EntryAdded(c, e)>>)
  BY ItemAddedFacts
<1>2. EntriesAt(x) = {} /\ CoreIdle
  BY ItemAddedFacts
<1>3. UNCHANGED <<gcontacts, waiting>>
  BY <1>2 DEF CoreIdle, guiVars
<1> DEFINE r == NoticeOf(c) \o <<EntryAdded(c, e)>>
<1>4. EntryAdded(c, e) \in NoteMsg /\ EntryAdded(c, e).note # "rosterContactAdded"
  BY NewOwners DEF NoteMsg, EntryAdded
<1>5. <<EntryAdded(c, e)>> \in Seq(NoteMsg) /\ NoticeOf(c) \in Seq(NoteMsg)
  BY <1>4, One, NoticeType, SeqMonotonic DEF NoteMsg
<1>6. r \in Seq(NoteMsg)
  BY <1>5, Grows
<1>7. c < nextContact' => Numbered(r, nextContact')
  <2> SUFFICES ASSUME c < nextContact' PROVE Numbered(r, nextContact')
    OBVIOUS
  <2>1. Numbered(NoticeOf(c), nextContact')
    BY NoticeNumbered
  <2>2. Numbered(<<EntryAdded(c, e)>>, nextContact')
    BY <1>4, NumberedOther
  <2> QED
    BY <1>5, <2>1, <2>2, NumberedJoin
<1> HIDE DEF r
<1>8. toGui' = toGui \o r
  BY <1>1 DEF r
<1>9. MadeInv'
  BY <1>1, <1>2, <1>3, <1>6, <1>7, <1>8, MadeEntry
<1>10. AddrInv'
  BY <1>1, AddrMade
<1> QED
  BY <1>9, <1>10

LEMMA MessageMade ==
  ASSUME TypeInv, MadeInv, AddrInv, NEW x \in Address, MessageReceived(x)
  PROVE  MadeInv' /\ AddrInv'
<1>1. PICK e \in EntryId, c \in ContactId, held \in [ChatId -> Chat \cup {None}],
               met \in Seq(RosterNote) :
               /\ Met(x, c, e, held, met)
               /\ \/ MakesChat(x, c, e, held, met)
                  \/ \E k \in ChatId : /\ held[k] # None
                                       /\ held[k].addr = x \/ held[k].contact = c
                                       /\ TurnsChat(k, x, c, e, held, met)
  BY MessageFacts
<1>2. UNCHANGED <<gcontacts, waiting>>
  BY MessageFacts DEF CoreIdle, guiVars
<1>3. CoreOK
  BY DEF TypeInv, TypeOK
<1>4. \E k \in ChatId, s \in Seq(ChatNote), ch \in Chat :
         /\ toGui' = toGui \o (met \o s)
         /\ chats' = [held EXCEPT ![k] = ch] /\ ch.entry = e /\ ch.addr = x
  <2>1. CASE MakesChat(x, c, e, held, met)
    <3>1. nextChat \in ChatId
      BY <2>1, ChatsAssumption DEF MakesChat, TypeInv, TypeOK, CoreOK, ChatsLeft, ChatId
    <3>2. <<ChatIncoming(nextChat, c, e), ChatMessageReceived(nextChat)>> \in Seq(ChatNote)
      BY <3>1, AnnouncingType, EmptySeq
    <3>3. PICK ch : ch = [contact |-> c, entry |-> e, addr |-> x]
      OBVIOUS
    <3>4. ch \in Chat /\ ch.entry = e /\ ch.addr = x
      BY <3>3 DEF Chat
    <3> QED
      BY <2>1, <3>1, <3>2, <3>3, <3>4 DEF MakesChat
  <2>2. CASE \E k \in ChatId : held[k] # None /\ TurnsChat(k, x, c, e, held, met)
    <3>1. PICK k \in ChatId : held[k] # None /\ TurnsChat(k, x, c, e, held, met)
      BY <2>2
    <3>2. PICK turn : turn = IF held[k].entry = e THEN <<>> ELSE <<ChatEntryChanged(k, e)>>
      OBVIOUS
    <3>3. turn \in Seq(ChatNote) /\ <<ChatMessageReceived(k)>> \in Seq(ChatNote)
      <4>1. ChatEntryChanged(k, e) \in ChatNote /\ ChatMessageReceived(k) \in ChatNote
        BY DEF ChatEntryChanged, ChatMessageReceived, ChatNote, Chosen
      <4> QED
        BY <3>2, <4>1, One, EmptySeq
    <3>4. turn \o <<ChatMessageReceived(k)>> \in Seq(ChatNote)
      BY <3>3, Grows
    <3>5. met \in Seq(NoteMsg)
      BY SeqMonotonic DEF NoteMsg
    <3>6. turn \in Seq(NoteMsg) /\ <<ChatMessageReceived(k)>> \in Seq(NoteMsg)
      BY <3>3, SeqMonotonic DEF NoteMsg
    <3>7. met \o turn \o <<ChatMessageReceived(k)>> = met \o (turn \o <<ChatMessageReceived(k)>>)
      BY <3>5, <3>6, ConcatAssociative
    <3>8. toGui' = toGui \o (met \o (turn \o <<ChatMessageReceived(k)>>))
      BY <3>1, <3>2, <3>7 DEF TurnsChat
    <3>9. PICK ch : ch = [held[k] EXCEPT !.entry = e, !.addr = x]
      OBVIOUS
    <3>10. held[k] \in Chat
      BY <3>1
    <3>11. ch \in Chat /\ ch.entry = e /\ ch.addr = x
      BY <3>9, <3>10 DEF Chat
    <3>12. chats' = [held EXCEPT ![k] = ch]
      BY <3>1, <3>9 DEF TurnsChat
    <3> QED
      BY <3>4, <3>8, <3>11, <3>12
  <2> QED
    BY <1>1, <2>1, <2>2
<1>5. PICK k \in ChatId, s \in Seq(ChatNote), ch \in Chat :
         /\ toGui' = toGui \o (met \o s)
         /\ chats' = [held EXCEPT ![k] = ch] /\ ch.entry = e /\ ch.addr = x
  BY <1>4
<1>6. chats'[k] = ch /\ \A j \in ChatId \ {k} : chats'[j] = held[j]
  BY <1>5
<1>7. CASE /\ owner[e] = c /\ addr[e] = x /\ held = chats /\ met = <<>>
           /\ UNCHANGED <<rosterVars, reused>>
  <2>1. toGui' = toGui \o s
    BY <1>5, <1>7, ConcatEmptySeq
  <2>2. MadeInv'
    BY <1>2, <1>7, <2>1, MadeStill
  <2>3. UNCHANGED <<addr, nextEntry, reused>> /\ e < nextEntry
    BY <1>7, NoneIds DEF rosterVars, MadeInv, ContactId
  <2>4. AddrRight(chats'[k], nextEntry', addr')
    <3>1. e # None /\ addr'[e] = x /\ chats'[k].entry = e /\ chats'[k].addr = x
      BY <1>5, <1>6, <1>7, <2>3, NoneIds DEF EntryId
    <3> QED
      BY <2>3, <3>1 DEF AddrRight
  <2>5. \A j \in ChatId : chats'[j] # None =>
           chats'[j] = chats[j] \/ AddrRight(chats'[j], nextEntry', addr')
    BY <1>6, <1>7, <2>4
  <2>6. AddrInv'
    BY <2>3, <2>5, AddrStill
  <2> QED
    BY <2>2, <2>6
<1>8. CASE /\ EntriesAt(x) = {} /\ c = nextContact /\ e = nextEntry /\ held \in Rebound(e)
           /\ met = <<ContactAdded(c), EntryAdded(c, e)>>
           /\ WithContact(c) /\ MakeEntry(e, c, x) /\ Reused(held)
  <2> DEFINE r == met \o s
  <2>1. met = <<ContactAdded(c)>> \o <<EntryAdded(c, e)>>
    BY <1>8
  <2>2. /\ <<ContactAdded(c)>> \in Seq(NoteMsg) /\ <<EntryAdded(c, e)>> \in Seq(NoteMsg)
        /\ EntryAdded(c, e).note # "rosterContactAdded"
    <3>1. ContactAdded(c) \in NoteMsg /\ EntryAdded(c, e) \in NoteMsg
      BY NewOwners DEF NoteMsg
    <3> QED
      BY <3>1, One DEF EntryAdded
  <2>3. s \in Seq(NoteMsg) /\ \A n : Numbered(s, n)
    <3>1. \A m \in ChatNote : m.note # "rosterContactAdded"
      BY DEF ChatNote
    <3> QED
      BY <3>1, ElementOfSeq, SeqMonotonic DEF Numbered, NoteMsg
  <2>4. met \in Seq(NoteMsg) /\ (c < nextContact' => Numbered(met, nextContact'))
    <3>1. met \in Seq(NoteMsg)
      BY <2>1, <2>2, Grows
    <3>2. ASSUME c < nextContact' PROVE Numbered(met, nextContact')
      <4>1. Numbered(<<ContactAdded(c)>>, nextContact')
        BY <3>2, NumberedOther
      <4>2. Numbered(<<EntryAdded(c, e)>>, nextContact')
        BY <2>2, NumberedOther
      <4>3. Numbered(<<ContactAdded(c)>> \o <<EntryAdded(c, e)>>, nextContact')
        BY <2>2, <4>1, <4>2, NumberedJoin
      <4> QED
        BY <2>1, <4>3
    <3> QED
      BY <3>1, <3>2
  <2>5. r \in Seq(NoteMsg) /\ (c < nextContact' => Numbered(r, nextContact'))
    BY <2>3, <2>4, Grows, NumberedJoin
  <2> HIDE DEF r
  <2>6. toGui' = toGui \o r
    BY <1>5 DEF r
  <2>7. c \in contacts \cup {nextContact}
    BY <1>8
  <2>8. MadeInv'
    BY <1>2, <1>8, <2>5, <2>6, <2>7, MadeEntry
  <2>9. AddrRight(chats'[k], nextEntry', addr')
    <3>1. nextEntry' = e + 1 /\ addr'[e] = x
      BY <1>3, <1>8 DEF MakeEntry, CoreOK
    <3>2. e < e + 1 /\ e # None
      BY NoneIds DEF EntryId
    <3> QED
      BY <1>5, <1>6, <3>1, <3>2 DEF AddrRight
  <2>10. AddrInv'
    BY <1>6, <1>8, <2>9, AddrMade
  <2> QED
    BY <2>8, <2>10
<1> QED
  BY <1>1, <1>7, <1>8 DEF Met

\* What goes with the contact c when its last entry goes.
Leaving(c, last) == last = <<>> \/ last = <<ContactRemoved(c)>>

LEMMA LastType ==
  ASSUME NEW c \in ContactId, NEW last, Leaving(c, last), NEW n
  PROVE  last \in Seq(NoteMsg) /\ Numbered(last, n)
<1>1. ContactRemoved(c) \in NoteMsg /\ ContactRemoved(c).note # "rosterContactAdded"
  BY DEF NoteMsg, RosterNote, ContactRemoved
<1>2. <<ContactRemoved(c)>> \in Seq(NoteMsg) /\ <<>> \in Seq(NoteMsg)
  BY <1>1, One, EmptySeq
<1> QED
  BY <1>1, <1>2, NumberedOther DEF Leaving

LEMMA ItemUpdatedFacts ==
  ASSUME TypeInv, NEW e \in EntryId, ItemUpdated(e)
  PROVE  /\ CoreIdle /\ UNCHANGED <<addr, nextEntry, chats, nextChat, reused, stopped>>
         /\ owner[e] \in ContactId
         /\ \E d \in ContactId, last \in Seq(NoteMsg) :
               /\ d \in contacts \cup {nextContact} /\ d # owner[e]
               /\ nextContact' = IF d = nextContact THEN d + 1 ELSE nextContact
               /\ \/ last = <<>> /\ contacts' = contacts \cup {d}
                  \/ /\ last = <<ContactRemoved(owner[e])>>
                     /\ contacts' = (contacts \cup {d}) \ {owner[e]} /\ EntriesIn(owner[e]) = {e}
               /\ owner' = [owner EXCEPT ![e] = d]
               /\ toGui' = toGui \o (NoticeOf(d) \o <<EntryContactChanged(e, owner[e], d)>> \o last)
<1> DEFINE c == owner[e]
           gone == IF EntriesIn(c) = {e} THEN {c} ELSE {}
           last == IF gone = {} THEN <<>> ELSE <<ContactRemoved(c)>>
<1>1. PICK d \in (contacts \cup ContactToMake) \ {owner[e]} :
        /\ contacts' = (contacts \cup {d}) \ gone
        /\ nextContact' = IF d = nextContact THEN d + 1 ELSE nextContact
        /\ owner' = [owner EXCEPT ![e] = d]
        /\ Notify(NoticeOf(d) \o <<EntryContactChanged(e, c, d)>> \o last)
  BY DEF ItemUpdated
<1>2. /\ c \in ContactId /\ d \in ContactId /\ c # d /\ d \in contacts \cup {nextContact}
  BY DEF TypeInv, TypeOK, CoreOK, ContactToMake, ItemUpdated, Live
<1>3. CoreIdle /\ UNCHANGED <<addr, nextEntry, chats, nextChat, reused, stopped>>
  BY DEF ItemUpdated
<1>4. toGui' = toGui \o (NoticeOf(d) \o <<EntryContactChanged(e, owner[e], d)>> \o last)
  BY <1>1 DEF Notify
<1>5. \/ last = <<>> /\ gone = {}
      \/ last = <<ContactRemoved(c)>> /\ gone = {c} /\ EntriesIn(c) = {e}
  <2>1. CASE EntriesIn(c) = {e}
    BY <2>1
  <2>2. CASE EntriesIn(c) # {e}
    BY <2>2
  <2> QED
    BY <2>1, <2>2
<1>6. last \in Seq(NoteMsg)
  BY <1>2, <1>5, LastType DEF Leaving
<1>7. \/ last = <<>> /\ contacts' = contacts \cup {d}
      \/ /\ last = <<ContactRemoved(c)>> /\ EntriesIn(c) = {e}
         /\ contacts' = (contacts \cup {d}) \ {c}
  <2> HIDE DEF last
  <2> QED
    BY <1>1, <1>5
<1> HIDE DEF last, gone
<1> QED
  BY <1>1, <1>2, <1>3, <1>4, <1>6, <1>7

LEMMA ItemUpdatedMade ==
  ASSUME TypeInv, MadeInv, AddrInv, NEW e \in EntryId, ItemUpdated(e)
  PROVE  MadeInv' /\ AddrInv'
<1>1. PICK d \in ContactId, last \in Seq(NoteMsg) :
               /\ d \in contacts \cup {nextContact} /\ d # owner[e]
               /\ nextContact' = IF d = nextContact THEN d + 1 ELSE nextContact
               /\ \/ last = <<>> /\ contacts' = contacts \cup {d}
                  \/ /\ last = <<ContactRemoved(owner[e])>>
                     /\ contacts' = (contacts \cup {d}) \ {owner[e]} /\ EntriesIn(owner[e]) = {e}
               /\ owner' = [owner EXCEPT ![e] = d]
               /\ toGui' = toGui \o (NoticeOf(d) \o <<EntryContactChanged(e, owner[e], d)>> \o last)
  BY ItemUpdatedFacts
<1>2. /\ CoreIdle /\ UNCHANGED <<addr, nextEntry, chats, nextChat, reused, stopped>>
      /\ owner[e] \in ContactId
  BY ItemUpdatedFacts
<1>3. UNCHANGED <<gcontacts, waiting>>
  BY <1>2 DEF CoreIdle, guiVars
<1>4. /\ owner \in [EntryId -> ContactId \cup {None}] /\ nextContact \in Nat
      /\ contacts \subseteq ContactId
  BY DEF TypeInv, TypeOK, CoreOK
<1>5. nextContact' \in Nat /\ nextContact <= nextContact' /\ d < nextContact'
  BY <1>1, <1>4 DEF MadeInv
<1> DEFINE m == EntryContactChanged(e, owner[e], d)
           two == NoticeOf(d) \o <<m>>
           r == two \o last
<1>6. m \in NoteMsg /\ m.note # "rosterContactAdded"
  <2>1. m \in RosterNote
    BY <1>2, NewOwners
  <2> QED
    BY <2>1 DEF NoteMsg, EntryContactChanged
<1>7. /\ <<m>> \in Seq(NoteMsg) /\ Numbered(<<m>>, nextContact')
      /\ NoticeOf(d) \in Seq(NoteMsg) /\ Numbered(NoticeOf(d), nextContact')
      /\ Numbered(last, nextContact')
  BY <1>1, <1>2, <1>5, <1>6, One, NumberedOther, NoticeNumbered, LastType DEF Leaving
<1> HIDE DEF m
<1>8. two \in Seq(NoteMsg) /\ Numbered(two, nextContact')
  BY <1>7, Grows, NumberedJoin
<1> HIDE DEF two
<1>9. r \in Seq(NoteMsg) /\ Numbered(r, nextContact')
  BY <1>7, <1>8, Grows, NumberedJoin
<1>10. toGui' = toGui \o r
  BY <1>1 DEF two, m
<1> HIDE DEF r
<1>11. owner'[e] = d /\ \A f \in EntryId \ {e} : owner'[f] = owner[f]
  BY <1>1, <1>4
<1>12. ASSUME NEW f \in EntryId, owner'[f] # None
       PROVE  f < nextEntry' /\ owner'[f] \in contacts'
  <2>1. CASE f = e
    <3>1. f < nextEntry
      BY <1>2, <2>1, ChatsAssumption, NoneIds DEF MadeInv, ContactId
    <3> QED
      BY <1>1, <1>2, <1>11, <2>1, <3>1
  <2>2. CASE f # e
    BY <1>1, <1>2, <1>11, <1>12, <2>2 DEF MadeInv, EntriesIn
  <2> QED
    BY <2>1, <2>2
<1>13. \A x \in contacts' : x < nextContact'
  <2>1. \A x \in contacts \cup {d} : x \in Nat /\ x < nextContact'
    <3>1. \A x \in contacts : x \in Nat /\ x < nextContact
      <4>1. \A x \in contacts : x \in 1..MaxContacts
        BY <1>4 DEF ContactId
      <4>2. \A x \in contacts : x < nextContact
        BY DEF MadeInv
      <4> QED
        BY <4>1, <4>2
    <3>2. \A x \in contacts : x < nextContact'
      BY <1>4, <1>5, <3>1
    <3>3. d \in Nat
      BY DEF ContactId
    <3> QED
      BY <1>5, <3>1, <3>2, <3>3
  <2> QED
    BY <1>1, <2>1
<1>14. \A f, x \in EntryId : owner'[f] # None /\ owner'[x] # None /\ addr'[f] = addr'[x] => f = x
  <2>1. owner[e] # None
    BY <1>2, NoneIds DEF ContactId
  <2> QED
    BY <1>2, <1>11, <2>1 DEF MadeInv
<1>15. MadeInv'
  BY <1>3, <1>5, <1>9, <1>10, <1>12, <1>13, <1>14, MadeCore
<1>16. AddrInv'
  BY <1>2, AddrStill
<1> QED
  BY <1>15, <1>16

LEMMA ItemRemovedFacts ==
  ASSUME TypeInv, NEW e \in EntryId, ItemRemoved(e)
  PROVE  /\ CoreIdle
         /\ UNCHANGED <<addr, nextContact, nextEntry, chats, nextChat, reused, stopped>>
         /\ owner[e] \in ContactId
         /\ \E last \in Seq(NoteMsg) :
               /\ \/ last = <<>> /\ contacts' = contacts
                  \/ /\ last = <<ContactRemoved(owner[e])>>
                     /\ contacts' = contacts \ {owner[e]} /\ EntriesIn(owner[e]) = {e}
               /\ owner' = [owner EXCEPT ![e] = None]
               /\ toGui' = toGui \o (<<EntryRemoved(e)>> \o last)
<1> DEFINE c == owner[e]
           gone == IF EntriesIn(c) = {e} THEN {c} ELSE {}
           last == IF gone = {} THEN <<>> ELSE <<ContactRemoved(c)>>
<1>1. /\ contacts' = contacts \ gone
      /\ owner' = [owner EXCEPT ![e] = None]
      /\ Notify(<<EntryRemoved(e)>> \o last)
  BY DEF ItemRemoved
<1>2. c \in ContactId
  BY DEF TypeInv, TypeOK, CoreOK, ItemRemoved, Live
<1>3. /\ CoreIdle
      /\ UNCHANGED <<addr, nextContact, nextEntry, chats, nextChat, reused, stopped>>
  BY DEF ItemRemoved
<1>4. toGui' = toGui \o (<<EntryRemoved(e)>> \o last)
  BY <1>1 DEF Notify
<1>5. \/ last = <<>> /\ gone = {}
      \/ last = <<ContactRemoved(c)>> /\ gone = {c} /\ EntriesIn(c) = {e}
  <2>1. CASE EntriesIn(c) = {e}
    BY <2>1
  <2>2. CASE EntriesIn(c) # {e}
    BY <2>2
  <2> QED
    BY <2>1, <2>2
<1>6. last \in Seq(NoteMsg)
  BY <1>2, <1>5, LastType DEF Leaving
<1>7. \/ last = <<>> /\ contacts' = contacts
      \/ /\ last = <<ContactRemoved(c)>> /\ EntriesIn(c) = {e}
         /\ contacts' = contacts \ {c}
  <2> HIDE DEF last
  <2> QED
    BY <1>1, <1>5
<1> HIDE DEF last, gone
<1> QED
  BY <1>1, <1>2, <1>3, <1>4, <1>6, <1>7

LEMMA ItemRemovedMade ==
  ASSUME TypeInv, MadeInv, AddrInv, NEW e \in EntryId, ItemRemoved(e)
  PROVE  MadeInv' /\ AddrInv'
<1>1. PICK last \in Seq(NoteMsg) :
               /\ \/ last = <<>> /\ contacts' = contacts
                  \/ /\ last = <<ContactRemoved(owner[e])>>
                     /\ contacts' = contacts \ {owner[e]} /\ EntriesIn(owner[e]) = {e}
               /\ owner' = [owner EXCEPT ![e] = None]
               /\ toGui' = toGui \o (<<EntryRemoved(e)>> \o last)
  BY ItemRemovedFacts
<1>2. /\ CoreIdle
      /\ UNCHANGED <<addr, nextContact, nextEntry, chats, nextChat, reused, stopped>>
      /\ owner[e] \in ContactId
  BY ItemRemovedFacts
<1>3. UNCHANGED <<gcontacts, waiting>>
  BY <1>2 DEF CoreIdle, guiVars
<1>4. /\ owner \in [EntryId -> ContactId \cup {None}] /\ nextContact \in Nat
      /\ contacts \subseteq ContactId
  BY DEF TypeInv, TypeOK, CoreOK
<1> DEFINE m == EntryRemoved(e)
           r == <<m>> \o last
<1>5. m \in NoteMsg /\ m.note # "rosterContactAdded"
  <2>1. m \in RosterNote
    BY <1>2, NewOwners
  <2> QED
    BY <2>1 DEF NoteMsg, EntryRemoved
<1>6. /\ <<m>> \in Seq(NoteMsg) /\ Numbered(<<m>>, nextContact)
      /\ Numbered(last, nextContact)
  BY <1>1, <1>2, <1>5, One, NumberedOther, LastType DEF Leaving
<1> HIDE DEF m
<1>7. r \in Seq(NoteMsg) /\ Numbered(r, nextContact)
  BY <1>6, Grows, NumberedJoin
<1>8. toGui' = toGui \o r
  BY <1>1 DEF m
<1> HIDE DEF r
<1>9. owner'[e] = None /\ \A f \in EntryId \ {e} : owner'[f] = owner[f]
  BY <1>1, <1>4
<1>10. \A f \in EntryId : owner'[f] # None => f < nextEntry' /\ owner'[f] \in contacts'
  BY <1>1, <1>2, <1>9 DEF MadeInv, EntriesIn
<1>11. \A x \in contacts' : x < nextContact'
  BY <1>1, <1>2, <1>4 DEF MadeInv
<1>12. \A f, x \in EntryId : owner'[f] # None /\ owner'[x] # None /\ addr'[f] = addr'[x] => f = x
  BY <1>2, <1>9 DEF MadeInv
<1>13. MadeInv'
  BY <1>2, <1>3, <1>4, <1>7, <1>8, <1>10, <1>11, <1>12, MadeCore
<1>14. AddrInv'
  BY <1>2, AddrStill
<1> QED
  BY <1>13, <1>14

LEMMA ContactRemoveMade ==
  ASSUME TypeInv, MadeInv, AddrInv, rosterContactRemove
  PROVE  MadeInv' /\ AddrInv'
<1> DEFINE c == Head(toCore).contact
<1>1. /\ UNCHANGED <<addr, nextContact, nextEntry, chats, nextChat, reused, gcontacts, waiting>>
  BY DEF rosterContactRemove, Serving, guiVars
<1>2. AddrInv'
  BY <1>1, AddrStill
<1>3. CASE UNCHANGED <<contacts, owner, toGui>>
  <2>1. UNCHANGED rosterVars
    BY <1>1, <1>3 DEF rosterVars
  <2> QED
    BY <1>1, <1>2, <1>3, <2>1, NothingTold, MadeStill
<1>4. CASE c \in contacts
  <2>1. /\ contacts' = contacts \ {c}
        /\ owner' = [e \in EntryId |-> IF owner[e] = c THEN None ELSE owner[e]]
        /\ toGui' = toGui \o RemovalOf(c)
    BY <1>4 DEF rosterContactRemove, Notify
  <2>2. /\ c \in ContactId /\ nextContact \in Nat /\ contacts \subseteq ContactId
    BY <1>4 DEF TypeInv, TypeOK, CoreOK
  <2>3. RemovalOf(c) \in Seq(RosterNote)
    BY <2>2, RemovalType
  <2>4. \A i \in 1..Len(RemovalOf(c)) :
           RemovalOf(c)[i].note # "rosterContactAdded"
    <3> DEFINE n == Cardinality(EntriesIn(c))
               removed == [i \in 1..n |-> EntryRemoved(SetToSeq(EntriesIn(c))[i])]
               last == <<ContactRemoved(c)>>
    <3>1. n \in Nat /\ \A i \in 1..n : SetToSeq(EntriesIn(c))[i] \in EntryId
      <4>1. EntriesIn(c) \subseteq EntryId /\ IsFiniteSet(EntriesIn(c))
        BY FiniteIds DEF EntriesIn
      <4> QED
        BY <4>1, SetToSeqType
    <3>2. removed \in Seq(RosterNote)
      <4>1. removed \in [1..n -> RosterNote]
        BY <3>1, NewOwners, <2>2
      <4> QED
        BY <3>1, <4>1, SeqDef
    <3>3. DOMAIN removed = 1..n /\ \A i \in 1..n : removed[i].note = "rosterEntryRemoved"
      BY DEF EntryRemoved
    <3>4. \A i \in 1..Len(removed) : removed[i].note = "rosterEntryRemoved"
      <4> HIDE DEF removed, n
      <4>1. Len(removed) = n
        BY <3>1, <3>2, <3>3, LenProperties
      <4> QED
        BY <3>3, <4>1
    <3>5. last \in Seq(RosterNote) /\ \A i \in 1..Len(last) : last[i].note = "rosterContactRemoved"
      <4>1. ContactRemoved(c) \in RosterNote /\ ContactRemoved(c).note = "rosterContactRemoved"
        BY <2>2 DEF RosterNote, ContactRemoved
      <4> QED
        BY <4>1, One
    <3>6. RemovalOf(c) = removed \o last
      BY DEF RemovalOf
    <3> HIDE DEF removed, last, n
    <3> SUFFICES ASSUME NEW i \in 1..Len(removed \o last)
                 PROVE  (removed \o last)[i].note # "rosterContactAdded"
      BY <3>6
    <3>7. CASE i \in 1..Len(removed)
      BY <3>2, <3>4, <3>5, <3>7, Grows
    <3>8. CASE i - Len(removed) \in 1..Len(last)
      <4>1. (removed \o last)[Len(removed) + (i - Len(removed))] = last[i - Len(removed)]
            /\ Len(removed) \in Nat
        BY <3>2, <3>5, <3>8, Grows
      <4>2. Len(removed) + (i - Len(removed)) = i
        BY <4>1
      <4> QED
        BY <3>5, <3>8, <4>1, <4>2
    <3> QED
      BY <3>2, <3>5, <3>7, <3>8, Grows
  <2>5. RemovalOf(c) \in Seq(NoteMsg) /\ Numbered(RemovalOf(c), nextContact')
    BY <2>3, <2>4, SeqMonotonic DEF NoteMsg, Numbered
  <2>6. \A e \in EntryId : owner'[e] # None => owner'[e] = owner[e] /\ owner[e] # c
    BY <2>1
  <2>7. \A f \in EntryId : owner'[f] # None => f < nextEntry' /\ owner'[f] \in contacts'
    BY <1>1, <2>1, <2>6 DEF MadeInv
  <2>8. \A x \in contacts' : x < nextContact'
    BY <1>1, <2>1 DEF MadeInv
  <2>9. \A f, x \in EntryId : owner'[f] # None /\ owner'[x] # None /\ addr'[f] = addr'[x] => f = x
    BY <1>1, <2>6 DEF MadeInv
  <2>11. nextContact' \in Nat /\ nextContact <= nextContact'
    BY <1>1, <2>2
  <2>12. RemovalOf(c) \in Seq(NoteMsg) /\ toGui' = toGui \o RemovalOf(c)
    BY <2>1, <2>5
  <2>13. UNCHANGED <<gcontacts, waiting>>
    BY <1>1
  <2> HIDE DEF c
  <2>10. MadeInv'
    BY <2>5, <2>11, <2>12, <2>13, <2>7, <2>8, <2>9, MadeCore
  <2> QED
    BY <1>2, <2>10
<1> QED
  BY <1>3, <1>4 DEF rosterContactRemove

LEMMA EntryChangeContactFacts ==
  ASSUME TypeInv, rosterEntryChangeContact
  PROVE  \/ UNCHANGED <<owner, toGui>>
         \/ \E e \in EntryId, c, d \in ContactId :
               /\ owner[e] = c /\ c # d /\ d \in contacts
               /\ owner' = [owner EXCEPT ![e] = d]
               /\ toGui' = toGui \o <<EntryContactChanged(e, c, d)>>
<1> DEFINE m == Head(toCore)
<1>1. m \in PlainCall /\ m.call = "rosterEntryChangeContact"
  BY ServedCall DEF rosterEntryChangeContact, Serving
<1>2. m.entry \in EntryId /\ m.old \in ContactId /\ m.new \in ContactId
  BY <1>1 DEF PlainCall
<1>3. \/ UNCHANGED <<owner, toGui>>
      \/ /\ owner[m.entry] = m.old /\ m.old # m.new /\ m.new \in contacts
         /\ owner' = [owner EXCEPT ![m.entry] = m.new]
         /\ toGui' = toGui \o <<EntryContactChanged(m.entry, m.old, m.new)>>
  BY DEF rosterEntryChangeContact, Notify
<1> HIDE DEF m
<1> QED
  BY <1>2, <1>3

LEMMA EntryChangeContactMade ==
  ASSUME TypeInv, MadeInv, AddrInv, rosterEntryChangeContact
  PROVE  MadeInv' /\ AddrInv'
<1>1. UNCHANGED <<contacts, addr, nextContact, nextEntry, chats, reused, gcontacts, waiting>>
  BY DEF rosterEntryChangeContact, Serving, guiVars
<1>2. AddrInv'
  BY <1>1, AddrStill
<1>3. CASE UNCHANGED <<owner, toGui>>
  <2>1. UNCHANGED rosterVars
    BY <1>1, <1>3 DEF rosterVars
  <2> QED
    BY <1>1, <1>2, <1>3, <2>1, NothingTold, MadeStill
<1>4. ASSUME NEW e \in EntryId, NEW c \in ContactId, NEW d \in ContactId,
             owner[e] = c, c # d, d \in contacts, owner' = [owner EXCEPT ![e] = d],
             toGui' = toGui \o <<EntryContactChanged(e, c, d)>>
      PROVE  MadeInv'
  <2>1. owner \in [EntryId -> ContactId \cup {None}] /\ nextContact \in Nat
    BY DEF TypeInv, TypeOK, CoreOK
  <2>2. owner'[e] = d /\ owner[e] # None /\ \A f \in EntryId \ {e} : owner'[f] = owner[f]
    BY <1>4, <2>1, NoneIds DEF ContactId
  <2>3. EntryContactChanged(e, c, d) \in NoteMsg
        /\ EntryContactChanged(e, c, d).note # "rosterContactAdded"
    BY NewOwners DEF NoteMsg, EntryContactChanged
  <2>4. /\ <<EntryContactChanged(e, c, d)>> \in Seq(NoteMsg)
        /\ Numbered(<<EntryContactChanged(e, c, d)>>, nextContact')
    BY <2>3, One, NumberedOther
  <2>5. \A f \in EntryId : owner'[f] # None => f < nextEntry' /\ owner'[f] \in contacts'
    BY <1>1, <1>4, <2>2 DEF MadeInv
  <2>6. \A f, x \in EntryId : owner'[f] # None /\ owner'[x] # None /\ addr'[f] = addr'[x] => f = x
    BY <1>1, <2>2 DEF MadeInv
  <2>7. \A x \in contacts' : x < nextContact'
    BY <1>1 DEF MadeInv
  <2>8. nextContact' \in Nat /\ nextContact <= nextContact' /\ UNCHANGED <<gcontacts, waiting>>
    BY <1>1, <2>1
  <2> QED
    BY <1>4, <2>4, <2>5, <2>6, <2>7, <2>8, MadeCore
<1> QED
  BY <1>2, <1>3, <1>4, EntryChangeContactFacts

\* What the user interface has of the chat, or will have when chatStart returns.
View(k) == IF open[k] # None THEN open[k] ELSE IF answer = k THEN waiting ELSE None
\* The call that the main thread waits for is the last one, and it names what the user
\* interface still has.
WaitInv == waiting # None /\ answer = None =>
    /\ toCore # <<>> /\ toCore[Len(toCore)] = ChatStart(waiting.contact, waiting.entry)
    /\ waiting.entry # None => gowner[waiting.entry] = waiting.contact
    /\ waiting.entry = None => \A e \in EntryId : gowner[e] # waiting.contact
\* A chat that the user interface has before the core has any is of a contact that is gone.
ZeroInv == \A k \in ChatId : k = 0 /\ nextChat = 0 /\ View(k) # None =>
    View(k).contact \notin contacts /\ View(k).contact < nextContact

\* Steps that leave the core alone.
LEMMA MadeGui ==
  ASSUME TypeInv, MadeInv, AddrInv, UNCHANGED coreVars,
         UNCHANGED toGui \/ (toGui # <<>> /\ toGui' = Tail(toGui)),
         \A c \in gcontacts' : c < nextContact,
         waiting' # None => waiting'.contact < nextContact
  PROVE  MadeInv' /\ AddrInv'
<1>1. UNCHANGED <<contacts, owner, addr, nextContact, nextEntry, chats, reused>>
  BY DEF coreVars, rosterVars
<1>2. Numbered(toGui', nextContact)
  BY NumberedTail DEF MadeInv, TypeInv, QueuesOK
<1>3. AddrInv'
  BY <1>1, AddrStill
<1> QED
  BY <1>1, <1>2, <1>3 DEF MadeInv

LEMMA TypingFacts ==
  ASSUME TypeInv, NEW x \in Address, TypingReceived(x)
  PROVE  /\ UNCHANGED coreVars /\ CoreIdle
         /\ \/ UNCHANGED toGui
            \/ \E k \in ChatId : toGui' = toGui \o <<ChatMessageReceived(k)>>
<1>1. UNCHANGED coreVars /\ CoreIdle
  BY DEF TypingReceived
<1>2. PICK maybe :
          LET c == IF EntriesAt(x) = {} THEN None ELSE owner[CHOOSE e \in EntriesAt(x) : TRUE]
              chat == FoundChat(chats, x, c, LiveEntries, maybe)
          IN \/ UNCHANGED toGui
             \/ Notify(IF chat = {} THEN <<>>
                       ELSE <<ChatMessageReceived(CHOOSE k \in chat : TRUE)>>)
  BY DEF TypingReceived
<1>3. PICK c : LET chat == FoundChat(chats, x, c, LiveEntries, maybe) IN
          \/ UNCHANGED toGui
          \/ Notify(IF chat = {} THEN <<>>
                    ELSE <<ChatMessageReceived(CHOOSE k \in chat : TRUE)>>)
  BY <1>2
<1> DEFINE chat == FoundChat(chats, x, c, LiveEntries, maybe)
<1>4. chat \subseteq ChatId
  BY FoundType
<1>5. toGui \o <<>> = toGui
  BY ConcatEmptySeq DEF TypeInv, QueuesOK
<1>6. \/ UNCHANGED toGui
      \/ chat = {} /\ toGui' = toGui \o <<>>
      \/ chat # {} /\ toGui' = toGui \o <<ChatMessageReceived(CHOOSE k \in chat : TRUE)>>
  BY <1>3 DEF Notify
<1> HIDE DEF chat
<1>7. chat # {} => (CHOOSE k \in chat : TRUE) \in ChatId
  BY <1>4
<1> QED
  BY <1>1, <1>5, <1>6, <1>7

LEMMA ServerMade ==
  ASSUME TypeInv, MadeInv, AddrInv, Server
  PROVE  MadeInv' /\ AddrInv'
<1>1. ASSUME NEW x \in Address, TypingReceived(x) PROVE MadeInv' /\ AddrInv'
  <2>1. UNCHANGED coreVars /\ CoreIdle
    BY <1>1, TypingFacts
  <2>2. UNCHANGED <<gcontacts, waiting, rosterVars, addr, nextEntry, reused, chats>>
    BY <2>1 DEF CoreIdle, guiVars, coreVars, rosterVars
  <2>3. \E r \in Seq(ChatNote) : toGui' = toGui \o r
    <3>1. \A k \in ChatId : <<ChatMessageReceived(k)>> \in Seq(ChatNote)
      BY One DEF ChatMessageReceived, ChatNote
    <3> QED
      BY <1>1, <3>1, TypingFacts, NothingTold
  <2>4. AddrInv'
    BY <2>2, AddrStill
  <2> QED
    BY <2>2, <2>3, <2>4, MadeStill
<1> QED
  BY <1>1, ItemAddedMade, ItemUpdatedMade, ItemRemovedMade, MessageMade DEF Server

LEMMA ChatStartFacts ==
  ASSUME TypeInv, chatStart
  PROVE  \E c \in ContactId, f \in Chosen :
            /\ toCore # <<>> /\ Head(toCore) = ChatStart(c, f) /\ toCore' = Tail(toCore)
            /\ UNCHANGED <<rosterVars, toGui, stopped, guiVars, waiting, reused>>
            /\ \/ c \notin contacts /\ answer' = 0 /\ UNCHANGED <<chats, nextChat>>
               \/ \E e \in Chosen, x \in Address \cup {None} :
                     /\ c \in contacts /\ e = IF f # None /\ owner[f] # None THEN f ELSE None
                     /\ x = IF e = None THEN None ELSE addr[e]
                     /\ chats' = [chats EXCEPT ![nextChat] =
                                     [contact |-> c, entry |-> e, addr |-> x]]
                     /\ answer' = nextChat /\ nextChat' = nextChat + 1
<1> DEFINE m == Head(toCore)
<1>1. m \in StartCall /\ m.call = "chatStart"
  BY ServedCall DEF chatStart, Serving
<1>2. PICK c, f : c = m.contact /\ f = m.entry
  OBVIOUS
<1>3. c \in ContactId /\ f \in Chosen /\ m = ChatStart(c, f)
  BY <1>1, <1>2 DEF StartCall, ChatStart
<1>4. /\ toCore # <<>> /\ toCore' = Tail(toCore)
      /\ UNCHANGED <<rosterVars, toGui, stopped, guiVars, waiting, reused>>
  BY DEF chatStart, Serving
<1>5. PICK e : e = IF Live(f) THEN f ELSE None
  OBVIOUS
<1>6. e \in Chosen /\ e = IF f # None /\ owner[f] # None THEN f ELSE None
  BY <1>3, <1>5 DEF Live, Chosen
<1>7. \/ c \notin contacts /\ answer' = 0 /\ UNCHANGED <<chats, nextChat>>
      \/ /\ c \in contacts
         /\ chats' = [chats EXCEPT ![nextChat] =
                         [contact |-> c, entry |-> e,
                          addr |-> IF e = None THEN None ELSE addr[e]]]
         /\ answer' = nextChat /\ nextChat' = nextChat + 1
  BY <1>2, <1>5 DEF chatStart
<1>8. PICK x : x = IF e = None THEN None ELSE addr[e]
  OBVIOUS
<1>9. x \in Address \cup {None}
  BY <1>6, <1>8 DEF TypeInv, TypeOK, CoreOK, Chosen
<1> QED
  BY <1>3, <1>4, <1>6, <1>7, <1>8, <1>9

LEMMA ChangeEntryFacts ==
  ASSUME TypeInv, chatChangeEntry
  PROVE  \E k \in ChatId, f \in Chosen, e \in Chosen :
            /\ toCore # <<>> /\ Head(toCore) = ChatChangeEntry(k, f) /\ toCore' = Tail(toCore)
            /\ UNCHANGED <<rosterVars, nextChat, answer, stopped, guiVars, waiting, reused>>
            /\ e = IF f # None /\ owner[f] # None THEN f ELSE None
            /\ \/ /\ UNCHANGED <<chats, toGui>>
                  /\ chats[k] # None => e = chats[k].entry \/ (e # None /\ owner[e] # chats[k].contact)
               \/ /\ chats[k] # None /\ (e = None \/ owner[e] = chats[k].contact)
                  /\ chats' = [chats EXCEPT ![k].entry = e,
                                            ![k].addr = IF e = None THEN None ELSE addr[e]]
                  /\ toGui' = toGui \o <<ChatEntryChanged(k, e)>>
<1> DEFINE m == Head(toCore)
<1>1. m \in PlainCall /\ m.call = "chatChangeEntry"
  BY ServedCall DEF chatChangeEntry, Serving
<1>2. PICK k, f : k = m.chat /\ f = m.entry
  OBVIOUS
<1>3. k \in ChatId /\ f \in Chosen /\ m = ChatChangeEntry(k, f)
  BY <1>1, <1>2 DEF PlainCall, ChatChangeEntry
<1>4. /\ toCore # <<>> /\ toCore' = Tail(toCore)
      /\ UNCHANGED <<rosterVars, nextChat, answer, stopped, guiVars, waiting, reused>>
  BY DEF chatChangeEntry, Serving
<1>5. PICK e : e = IF Live(f) THEN f ELSE None
  OBVIOUS
<1>6. e \in Chosen /\ e = IF f # None /\ owner[f] # None THEN f ELSE None
  BY <1>3, <1>5 DEF Live, Chosen
<1>7. IF \/ chats[k] = None
         \/ e # None /\ owner[e] # chats[k].contact
         \/ e = chats[k].entry
      THEN UNCHANGED <<chats, toGui>>
      ELSE /\ chats' = [chats EXCEPT ![k].entry = e,
                           ![k].addr = IF e = None THEN None ELSE addr[e]]
           /\ Notify(<<ChatEntryChanged(k, e)>>)
  BY <1>2, <1>5 DEF chatChangeEntry
<1> HIDE DEF m
<1>8. \/ /\ UNCHANGED <<chats, toGui>>
         /\ chats[k] # None => e = chats[k].entry \/ (e # None /\ owner[e] # chats[k].contact)
      \/ /\ chats[k] # None /\ (e = None \/ owner[e] = chats[k].contact)
         /\ chats' = [chats EXCEPT ![k].entry = e,
                                   ![k].addr = IF e = None THEN None ELSE addr[e]]
         /\ toGui' = toGui \o <<ChatEntryChanged(k, e)>>
  BY <1>7 DEF Notify
<1> QED
  BY <1>3, <1>4, <1>6, <1>8 DEF m

LEMMA ChatStartMade ==
  ASSUME TypeInv, MadeInv, AddrInv, chatStart
  PROVE  MadeInv' /\ AddrInv'
<1>1. PICK c \in ContactId, f \in Chosen :
            /\ toCore # <<>> /\ Head(toCore) = ChatStart(c, f) /\ toCore' = Tail(toCore)
            /\ UNCHANGED <<rosterVars, toGui, stopped, guiVars, waiting, reused>>
            /\ \/ c \notin contacts /\ answer' = 0 /\ UNCHANGED <<chats, nextChat>>
               \/ \E e \in Chosen, x \in Address \cup {None} :
                     /\ c \in contacts /\ e = IF f # None /\ owner[f] # None THEN f ELSE None
                     /\ x = IF e = None THEN None ELSE addr[e]
                     /\ chats' = [chats EXCEPT ![nextChat] =
                                     [contact |-> c, entry |-> e, addr |-> x]]
                     /\ answer' = nextChat /\ nextChat' = nextChat + 1
  BY ChatStartFacts
<1>2. UNCHANGED <<gcontacts, waiting, rosterVars, addr, nextEntry, reused>>
  BY <1>1 DEF guiVars, rosterVars
<1>3. MadeInv'
  BY <1>1, <1>2, NothingTold, MadeStill
<1>4. CASE UNCHANGED chats
  BY <1>2, <1>3, <1>4, AddrStill
<1>5. ASSUME NEW e \in Chosen, NEW x, e # None => owner[e] # None,
             x = IF e = None THEN None ELSE addr[e],
             chats' = [chats EXCEPT ![nextChat] = [contact |-> c, entry |-> e, addr |-> x]]
      PROVE  AddrInv'
  <2>1. PICK ch : ch = [contact |-> c, entry |-> e, addr |-> x]
    OBVIOUS
  <2>2. AddrRight(ch, nextEntry', addr')
    BY <1>2, <1>5, <2>1 DEF AddrRight, MadeInv, Chosen
  <2>3. \A k \in ChatId : chats'[k] = chats[k] \/ chats'[k] = ch
    BY <1>5, <2>1 DEF TypeInv, TypeOK, CoreOK
  <2> QED
    BY <1>2, <2>2, <2>3, AddrStill
<1> QED
  BY <1>1, <1>3, <1>4, <1>5

LEMMA ChangeEntryMade ==
  ASSUME TypeInv, MadeInv, AddrInv, chatChangeEntry
  PROVE  MadeInv' /\ AddrInv'
<1>1. PICK k \in ChatId, f \in Chosen, e \in Chosen :
            /\ UNCHANGED <<rosterVars, nextChat, answer, stopped, guiVars, waiting, reused>>
            /\ e = IF f # None /\ owner[f] # None THEN f ELSE None
            /\ \/ UNCHANGED <<chats, toGui>>
               \/ /\ chats[k] # None
                  /\ chats' = [chats EXCEPT ![k].entry = e,
                                            ![k].addr = IF e = None THEN None ELSE addr[e]]
                  /\ toGui' = toGui \o <<ChatEntryChanged(k, e)>>
  BY ChangeEntryFacts
<1>2. UNCHANGED <<gcontacts, waiting, rosterVars, addr, nextEntry, reused>>
  BY <1>1 DEF guiVars, rosterVars
<1>3. MadeInv'
  <2>1. <<ChatEntryChanged(k, e)>> \in Seq(ChatNote)
    BY One DEF ChatEntryChanged, ChatNote
  <2> QED
    BY <1>1, <1>2, <2>1, NothingTold, MadeStill
<1>4. CASE UNCHANGED chats
  BY <1>2, <1>3, <1>4, AddrStill
<1>5. CASE /\ chats[k] # None
           /\ chats' = [chats EXCEPT ![k].entry = e,
                                     ![k].addr = IF e = None THEN None ELSE addr[e]]
  <2>0. chats \in [ChatId -> Chat \cup {None}]
    BY DEF TypeInv, TypeOK, CoreOK
  <2>1. PICK ch, x : /\ x = IF e = None THEN None ELSE addr[e]
                     /\ ch = [chats[k] EXCEPT !.entry = e, !.addr = x]
    OBVIOUS
  <2>2. chats[k] \in Chat
    BY <1>5, <2>0
  <2>3. ch.entry = e /\ ch.addr = x
    BY <2>1, <2>2 DEF Chat
  <2>4. AddrRight(ch, nextEntry', addr')
    BY <1>1, <1>2, <2>1, <2>3 DEF AddrRight, MadeInv, Chosen
  <2>5. \A j \in ChatId : chats'[j] = chats[j] \/ chats'[j] = ch
    BY <1>5, <2>0, <2>1
  <2> QED
    BY <1>2, <1>3, <2>4, <2>5, AddrStill
<1> QED
  BY <1>1, <1>4, <1>5

LEMMA CoreServesMade ==
  ASSUME TypeInv, MadeInv, AddrInv, CoreServes
  PROVE  MadeInv' /\ AddrInv'
<1>1. ASSUME chatEnd \/ chatMessageSend PROVE MadeInv' /\ AddrInv'
  <2>1. /\ UNCHANGED <<toGui, gcontacts, waiting, rosterVars, addr, nextEntry, reused>>
        /\ \A k \in ChatId : chats'[k] = chats[k] \/ chats'[k] = None
    BY <1>1 DEF chatEnd, chatMessageSend, Serving, guiVars, rosterVars, coreVars, TypeInv,
                TypeOK, CoreOK
  <2> QED
    BY <2>1, NothingTold, MadeStill, AddrStill
<1> QED
  BY <1>1, ChatStartMade, ChangeEntryMade, ContactRemoveMade, EntryChangeContactMade
     DEF CoreServes

LEMMA UserMade ==
  ASSUME TypeInv, MadeInv, AddrInv, User
  PROVE  MadeInv' /\ AddrInv'
<1>1. UNCHANGED <<coreVars, toGui, gcontacts>>
  BY DEF User, StartChat, PickEntry, EndChat, Send, RemoveContact, MoveEntry, GuiIdle, guiVars
<1>2. \/ UNCHANGED waiting
      \/ \E c \in gcontacts : waiting'.contact = c
  <2>1. ASSUME NEW c, NEW e, StartChat(c, e) PROVE c \in gcontacts /\ waiting'.contact = c
    BY <2>1 DEF StartChat
  <2> QED
    BY <2>1 DEF User, PickEntry, EndChat, Send, RemoveContact, MoveEntry
<1>3. \A c \in gcontacts : c < nextContact
  BY DEF MadeInv
<1>4. \A c \in gcontacts' : c < nextContact
  BY <1>1, <1>3
<1>5. waiting' # None => waiting'.contact < nextContact
  BY <1>2, <1>3 DEF MadeInv
<1> QED
  BY <1>1, <1>4, <1>5, MadeGui

LEMMA GuiServesMade ==
  ASSUME TypeInv, MadeInv, AddrInv, GuiServes \/ ChatStarted
  PROVE  MadeInv' /\ AddrInv'
<1>1. UNCHANGED coreVars
  BY DEF GuiServes, ChatStarted, rosterContactAdded, rosterContactRemoved, rosterEntryAdded,
         rosterEntryRemoved, rosterEntryContactChanged, chatIncoming, chatEntryChanged,
         chatMessageReceived, Noticing
<1>2. UNCHANGED toGui \/ (toGui # <<>> /\ toGui' = Tail(toGui))
  BY DEF GuiServes, ChatStarted, rosterContactAdded, rosterContactRemoved, rosterEntryAdded,
         rosterEntryRemoved, rosterEntryContactChanged, chatIncoming, chatEntryChanged,
         chatMessageReceived, Noticing
<1>3. waiting' # None => waiting' = waiting
  BY DEF GuiServes, ChatStarted, rosterContactAdded, rosterContactRemoved, rosterEntryAdded,
         rosterEntryRemoved, rosterEntryContactChanged, chatIncoming, chatEntryChanged,
         chatMessageReceived, Noticing
<1>4. \A c \in gcontacts' : c < nextContact
  <2>1. ASSUME rosterContactAdded PROVE \A c \in gcontacts' : c < nextContact
    <3>1. /\ gcontacts' = gcontacts \cup {Head(toGui).contact}
          /\ toGui # <<>> /\ Head(toGui).note = "rosterContactAdded"
      BY <2>1 DEF rosterContactAdded, Noticing
    <3>2. Head(toGui).contact < nextContact
      BY <3>1, NumberedTail DEF MadeInv, TypeInv, QueuesOK
    <3> QED
      BY <3>1, <3>2 DEF MadeInv
  <2>2. ASSUME ~rosterContactAdded PROVE gcontacts' \subseteq gcontacts
    BY <2>2 DEF GuiServes, ChatStarted, rosterContactRemoved, rosterEntryAdded,
         rosterEntryRemoved, rosterEntryContactChanged, chatIncoming, chatEntryChanged,
         chatMessageReceived, guiVars
  <2> QED
    BY <2>1, <2>2 DEF MadeInv
<1> QED
  BY <1>1, <1>2, <1>3, <1>4, MadeGui DEF MadeInv

LEMMA MadeStep ==
  ASSUME TypeInv, MadeInv, AddrInv, [Next]_vars
  PROVE  MadeInv' /\ AddrInv'
<1>1. CASE UNCHANGED vars
  <2>1. UNCHANGED <<coreVars, toGui, gcontacts, waiting>>
    BY <1>1 DEF vars, guiVars
  <2> QED
    BY <2>1, MadeGui DEF MadeInv
<1> QED
  BY <1>1, ServerMade, CoreServesMade, UserMade, GuiServesMade DEF Next

LEMMA WaitStill ==
  ASSUME WaitInv, UNCHANGED <<waiting, answer, toCore, gowner>>
  PROVE  WaitInv'
  BY DEF WaitInv

LEMMA WaitServed ==
  ASSUME TypeInv, WaitInv, UNCHANGED <<waiting, answer, gowner>>,
         toCore # <<>>, Head(toCore).call # "chatStart", toCore' = Tail(toCore)
  PROVE  WaitInv'
<1>1. /\ Head(toCore) = toCore[1] /\ Len(toCore) \in Nat \ {0}
      /\ Len(Tail(toCore)) = Len(toCore) - 1 /\ Tail(toCore) \in Seq(CallMsg)
      /\ \A i \in 1..Len(Tail(toCore)) : Tail(toCore)[i] = toCore[i + 1]
  BY Shrinks DEF TypeInv, QueuesOK
<1>2. ASSUME waiting # None, answer = None
      PROVE  Tail(toCore) # <<>> /\ Tail(toCore)[Len(Tail(toCore))] = toCore[Len(toCore)]
  <2>1. toCore[Len(toCore)].call = "chatStart"
    BY <1>2 DEF WaitInv, ChatStart
  <2>2. Len(toCore) # 1
    BY <1>1, <2>1
  <2>3. Len(Tail(toCore)) \in 1..Len(Tail(toCore)) /\ Len(Tail(toCore)) + 1 = Len(toCore)
    BY <1>1, <2>2
  <2>4. Tail(toCore) # <<>>
    <3>1. Len(<<>>) = 0
      OBVIOUS
    <3> QED
      BY <1>1, <2>2, <3>1
  <2> QED
    BY <1>1, <2>3, <2>4
<1> QED
  BY <1>2 DEF WaitInv

LEMMA WaitNone ==
  ASSUME waiting' = None
  PROVE  WaitInv'
  BY DEF WaitInv

LEMMA WaitStep ==
  ASSUME TypeInv, WaitInv, [Next]_vars
  PROVE  WaitInv'
<1>1. CASE UNCHANGED vars
  BY <1>1, WaitStill DEF vars, guiVars
<1>2. CASE Server
  <2>1. CoreIdle
    <3>1. ASSUME NEW x \in Address, MessageReceived(x) PROVE CoreIdle
      BY <3>1, MessageFacts
    <3>2. ASSUME NEW x \in Address, TypingReceived(x) PROVE CoreIdle
      BY <3>2, TypingFacts
    <3>3. ASSUME NEW x \in Address, ItemAdded(x) PROVE CoreIdle
      BY <3>3, ItemAddedFacts
    <3>4. ASSUME NEW e \in EntryId, ItemUpdated(e) \/ ItemRemoved(e) PROVE CoreIdle
      BY <3>4, ItemUpdatedFacts, ItemRemovedFacts
    <3> QED
      BY <1>2, <3>1, <3>2, <3>3, <3>4 DEF Server
  <2> QED
    BY <2>1, WaitStill DEF CoreIdle, guiVars
<1>3. CASE CoreServes
  <2>1. UNCHANGED <<waiting, gowner>> /\ toCore # <<>> /\ toCore' = Tail(toCore)
    BY <1>3 DEF CoreServes, chatStart, chatChangeEntry, chatEnd, chatMessageSend,
                rosterContactRemove, rosterEntryChangeContact, Serving, guiVars
  <2>2. CASE chatStart
    <3>1. answer' # None
      BY <2>2, chatStartKind, ChatIdNat, NoneIds
    <3> QED
      BY <3>1 DEF WaitInv
  <2>3. CASE ~chatStart
    <3>1. UNCHANGED answer /\ Head(toCore).call # "chatStart"
      BY <1>3, <2>3 DEF CoreServes, chatChangeEntry, chatEnd, chatMessageSend,
                rosterContactRemove, rosterEntryChangeContact, Serving
    <3> QED
      BY <2>1, <3>1, WaitServed
  <2> QED
    BY <2>2, <2>3
<1>4. ASSUME NEW c \in ContactId, NEW e \in EntryId \cup {None}, StartChat(c, e) PROVE WaitInv'
  <2>1. /\ e \in MainEntry(Listed(c)) /\ waiting' = [contact |-> c, entry |-> e]
        /\ toCore' = toCore \o <<ChatStart(c, e)>> /\ UNCHANGED gowner
    BY <1>4 DEF StartChat, Call, guiVars
  <2>2. waiting'.contact = c /\ waiting'.entry = e
    BY <2>1
  <2>3. IF e = None THEN \A x \in EntryId : gowner[x] # c ELSE gowner[e] = c
    <3>1. CASE Listed(c) = {}
      BY <2>1, <3>1 DEF MainEntry, Listed
    <3>2. CASE Listed(c) # {}
      <4>1. e \in Listed(c)
        BY <2>1, <3>2 DEF MainEntry
      <4>2. e \in EntryId /\ gowner[e] = c
        BY <4>1 DEF Listed
      <4> QED
        BY <4>2, NoneIds DEF EntryId
    <3> QED
      BY <3>1, <3>2
  <2>4. ChatStart(c, e) \in CallMsg
    BY DEF ChatStart, CallMsg, StartCall, Chosen
  <2>5. /\ toCore' \in Seq(CallMsg) /\ Len(toCore') = Len(toCore) + 1 /\ Len(toCore) \in Nat
        /\ toCore'[Len(toCore) + 1] = ChatStart(c, e)
    <3>1. <<ChatStart(c, e)>> \in Seq(CallMsg) /\ Len(<<ChatStart(c, e)>>) = 1
          /\ <<ChatStart(c, e)>>[1] = ChatStart(c, e) /\ 1 \in 1..1
      BY <2>4, One
    <3> QED
      BY <2>1, <3>1, Grows DEF TypeInv, QueuesOK
  <2>6. toCore' # <<>>
    BY <2>5, EmptySeq
  <2> QED
    BY <2>1, <2>2, <2>3, <2>5, <2>6 DEF WaitInv
<1>5. CASE User /\ ~\E c \in ContactId, e \in EntryId \cup {None} : StartChat(c, e)
  <2>1. waiting = None /\ UNCHANGED waiting
    BY <1>5 DEF User, PickEntry, EndChat, Send, RemoveContact, MoveEntry, Free
  <2> QED
    BY <2>1, WaitNone
<1>6. CASE ChatStarted \/ GuiServes
  <2>1. waiting' = None
    BY <1>6 DEF GuiServes, ChatStarted, rosterContactAdded, rosterContactRemoved,
         rosterEntryAdded, rosterEntryRemoved, rosterEntryContactChanged, chatIncoming,
         chatEntryChanged, chatMessageReceived, Noticing
  <2> QED
    BY <2>1, WaitNone
<1> QED
  BY <1>1, <1>2, <1>3, <1>4, <1>5, <1>6 DEF Next

----------------------------------------------------------------------------
(* The chats that the user interface has before the core has any. *)

LEMMA ViewType ==
  ASSUME TypeInv, NEW k \in ChatId
  PROVE  View(k) \in Open \cup {None}
  BY DEF View, TypeInv, TypeOK, GuiOK, BridgeOK

\* Steps that open and end no chat of the user interface.
LEMMA ViewSame ==
  ASSUME SameOpen, UNCHANGED <<waiting, answer>>, NEW k \in ChatId
  PROVE  /\ View(k)' = None <=> View(k) = None
         /\ View(k) # None => View(k)'.contact = View(k).contact
  BY DEF SameOpen, View

LEMMA ZeroStill ==
  ASSUME TypeInv, ZeroInv, nextChat' = 0 => nextChat = 0,
         \A k \in ChatId : k = 0 /\ View(k)' # None =>
            View(k) # None /\ View(k)'.contact = View(k).contact,
         nextContact' \in Nat, nextContact <= nextContact',
         \A c \in contacts' : c \in contacts \/ nextContact <= c
  PROVE  ZeroInv'
<1> SUFFICES ASSUME NEW k \in ChatId, k = 0, nextChat' = 0, View(k)' # None
             PROVE  View(k)'.contact \notin contacts' /\ View(k)'.contact < nextContact'
  BY DEF ZeroInv
<1>1. View(k) # None /\ View(k)'.contact = View(k).contact
  OBVIOUS
<1>2. View(k).contact \in Nat
  BY <1>1, ViewType DEF Open, ContactId
<1>3. View(k).contact \notin contacts /\ View(k).contact < nextContact
  BY <1>1 DEF ZeroInv
<1>4. nextContact \in Nat
  BY DEF TypeInv, TypeOK, CoreOK
<1> QED
  BY <1>1, <1>2, <1>3, <1>4

\* Contacts that the core gets are new.
LEMMA ContactsNew ==
  ASSUME TypeInv, [Next]_vars
  PROVE  /\ nextContact' \in Nat /\ nextContact <= nextContact'
         /\ \A c \in contacts' : c \in contacts \/ nextContact <= c
<1>1. nextContact \in Nat
  BY DEF TypeInv, TypeOK, CoreOK
<1>2. ASSUME NEW c, c \in contacts \cup {nextContact}, WithContact(c)
      PROVE  /\ nextContact' \in Nat /\ nextContact <= nextContact'
             /\ \A d \in contacts' : d \in contacts \/ nextContact <= d
  BY <1>1, <1>2 DEF WithContact
<1>3. CASE UNCHANGED <<contacts, nextContact>>
  BY <1>1, <1>3
<1>4. CASE Server
  <2>1. ASSUME NEW x \in Address, ItemAdded(x)
        PROVE  \E c \in contacts \cup {nextContact} : WithContact(c)
    BY <2>1, ItemAddedFacts
  <2>2. ASSUME NEW x \in Address, MessageReceived(x)
        PROVE  \/ UNCHANGED <<contacts, nextContact>>
               \/ \E c \in contacts \cup {nextContact} : WithContact(c)
    <3>1. PICK e \in EntryId, c \in ContactId, held \in [ChatId -> Chat \cup {None}],
               met \in Seq(RosterNote) : Met(x, c, e, held, met)
      BY <2>2, MessageFacts
    <3> QED
      BY <3>1 DEF Met, rosterVars
  <2>3. ASSUME NEW e \in EntryId, ItemUpdated(e)
        PROVE  /\ nextContact' \in Nat /\ nextContact <= nextContact'
               /\ \A d \in contacts' : d \in contacts \/ nextContact <= d
    <3>1. PICK d \in contacts \cup {nextContact} :
             /\ nextContact' = IF d = nextContact THEN d + 1 ELSE nextContact
             /\ contacts' \subseteq contacts \cup {d}
      BY <2>3, ItemUpdatedFacts
    <3> QED
      BY <1>1, <3>1
  <2>4. ASSUME NEW e \in EntryId, ItemRemoved(e)
        PROVE  UNCHANGED nextContact /\ contacts' \subseteq contacts
    BY <2>4, ItemRemovedFacts
  <2>5. ASSUME NEW x \in Address, TypingReceived(x)
        PROVE  UNCHANGED <<contacts, nextContact>>
    BY <2>5, TypingFacts DEF coreVars, rosterVars
  <2> QED
    BY <1>1, <1>2, <1>3, <1>4, <2>1, <2>2, <2>3, <2>4, <2>5 DEF Server
<1>5. CASE CoreServes
  <2>1. UNCHANGED nextContact /\ contacts' \subseteq contacts
    BY <1>5 DEF CoreServes, chatStart, chatChangeEntry, chatEnd, chatMessageSend,
                rosterContactRemove, rosterEntryChangeContact, coreVars, rosterVars
  <2> QED
    BY <1>1, <2>1
<1>6. CASE User \/ ChatStarted \/ GuiServes
  <2>1. UNCHANGED coreVars
    BY <1>6 DEF User, StartChat, PickEntry, EndChat, Send, RemoveContact, MoveEntry, GuiIdle,
         GuiServes, ChatStarted, rosterContactAdded, rosterContactRemoved, rosterEntryAdded,
         rosterEntryRemoved, rosterEntryContactChanged, chatIncoming, chatEntryChanged,
         chatMessageReceived, Noticing
  <2> QED
    BY <1>3, <2>1 DEF coreVars, rosterVars
<1> QED
  BY <1>3, <1>4, <1>5, <1>6 DEF Next, vars, coreVars, rosterVars

\* chatStart's answer, and what the user interface does with it.
LEMMA StartedViews ==
  ASSUME TypeInv, ChatStarted, NEW k \in ChatId
  PROVE  View(k)' = View(k)
<1>1. open \in [ChatId -> Open \cup {None}] /\ answer \in ChatId /\ waiting \in Open
  BY ChatStartedType DEF TypeInv, TypeOK, GuiOK
<1>2. waiting # None /\ \A j \in ChatId : j # None
  BY <1>1, NoneIds, ChatIdNat, NoteFields, ChatsAssumption
<1>3. waiting' = None /\ answer' = None
  BY DEF ChatStarted
<1>4. View(k)' = open'[k]
  BY <1>2, <1>3 DEF View
<1>5. open' = IF open[answer] # None THEN open ELSE [open EXCEPT ![answer] = waiting]
  BY DEF ChatStarted
<1>6. CASE open[answer] # None
  BY <1>1, <1>2, <1>4, <1>5, <1>6 DEF View
<1>7. CASE open[answer] = None
  BY <1>1, <1>2, <1>4, <1>5, <1>7 DEF View
<1> QED
  BY <1>6, <1>7

LEMMA WindowIds ==
  ASSUME TypeInv, waiting = None
  PROVE  answer = None /\ \A k \in ChatId : View(k) = open[k]
<1>1. answer = None
  BY DEF TypeInv, StartInv
<1> QED
  BY <1>1, NoneIds, ChatIdNat DEF View

LEMMA NextChats ==
  ASSUME TypeInv, [Next]_vars
  PROVE  nextChat' = 0 => nextChat = 0
<1>1. nextChat \in Nat
  BY DEF TypeInv, TypeOK, CoreOK
<1>2. CASE UNCHANGED vars
  BY <1>2 DEF vars, coreVars
<1>3. CASE Next
  <2>1. StepKind
    BY <1>3, StepsKind
  <2>2. nextChat' = nextChat \/ nextChat' = nextChat + 1
    BY <2>1 DEF StepKind, SayStep, NewChatStep, ServeStep, StartStep, EndStep, UserStep,
                NoticeStep, SameChats, ChatMade, chatIncoming, Noticing, ChatStarted, StartChat,
                EndChat, GuiIdle, coreVars
  <2> QED
    BY <1>1, <2>2
<1> QED
  BY <1>2, <1>3

LEMMA ServerStill ==
  ASSUME TypeInv, Server
  PROVE  CoreIdle
<1>1. ASSUME NEW x \in Address, MessageReceived(x) PROVE CoreIdle
  BY <1>1, MessageFacts
<1>2. ASSUME NEW x \in Address, TypingReceived(x) PROVE CoreIdle
  BY <1>2, TypingFacts
<1>3. ASSUME NEW x \in Address, ItemAdded(x) PROVE CoreIdle
  BY <1>3, ItemAddedFacts
<1>4. ASSUME NEW e \in EntryId, ItemUpdated(e) \/ ItemRemoved(e) PROVE CoreIdle
  BY <1>4, ItemUpdatedFacts, ItemRemovedFacts
<1> QED
  BY <1>1, <1>2, <1>3, <1>4 DEF Server

LEMMA ZeroStep ==
  ASSUME TypeInv, ChatInv, MadeInv, WaitInv, ZeroInv, [Next]_vars
  PROVE  ZeroInv'
<1>1. /\ nextContact' \in Nat /\ nextContact <= nextContact'
      /\ \A c \in contacts' : c \in contacts \/ nextContact <= c
      /\ nextChat' = 0 => nextChat = 0
  BY ContactsNew, NextChats
<1>2. CASE UNCHANGED <<open, answer, waiting>>
  <2>1. \A k \in ChatId : View(k)' = View(k)
    BY <1>2 DEF View
  <2> QED
    BY <1>1, <2>1, ZeroStill
<1>3. CASE SameOpen /\ UNCHANGED <<answer, waiting>>
  <2>1. \A k \in ChatId : View(k)' # None =>
           View(k) # None /\ View(k)'.contact = View(k).contact
    BY <1>3, ViewSame
  <2> QED
    BY <1>1, <2>1, ZeroStill
<1>4. CASE UNCHANGED vars
  BY <1>2, <1>4 DEF vars, guiVars
<1>5. CASE Server
  BY <1>2, <1>5, ServerStill DEF CoreIdle, guiVars
<1>6. CASE chatStart
  <2>1. PICK c \in ContactId, f \in Chosen :
            /\ toCore # <<>> /\ Head(toCore) = ChatStart(c, f)
            /\ UNCHANGED <<rosterVars, guiVars, waiting>>
            /\ \/ c \notin contacts /\ answer' = 0
               \/ nextChat' = nextChat + 1
    BY <1>6, ChatStartFacts
  <2>2. toCore[1] \in StartCall /\ 1 \in 1..Len(toCore)
    <3>1. Head(toCore).call = "chatStart"
      BY <2>1 DEF ChatStart
    <3> QED
      BY <2>1, <3>1, ServedCall
  <2>3. 1 = Len(toCore) /\ waiting # None /\ answer = None
    BY <2>2 DEF TypeInv, StartInv
  <2>4. ChatStart(waiting.contact, waiting.entry) = ChatStart(c, f)
    BY <2>1, <2>2, <2>3, ServedCall DEF WaitInv
  <2>5. waiting.contact = c
    BY <2>4 DEF ChatStart
  <2>6. CASE nextChat' = nextChat + 1
    <3>1. nextChat' # 0
      BY <2>6 DEF TypeInv, TypeOK, CoreOK
    <3> QED
      BY <3>1 DEF ZeroInv
  <2>7. CASE c \notin contacts /\ answer' = 0
    <3>1. c < nextContact
      BY <2>3, <2>5 DEF MadeInv
    <3>2. UNCHANGED <<contacts, nextContact, open, waiting>>
      BY <2>1 DEF rosterVars, guiVars
    <3>3. \A k \in ChatId : View(k)' = IF open[k] # None THEN View(k) ELSE IF k = 0 THEN waiting ELSE None
      BY <2>7, <3>2 DEF View
    <3>4. ASSUME NEW k \in ChatId, k = 0, nextChat' = 0, View(k)' # None
          PROVE  View(k)'.contact \notin contacts' /\ View(k)'.contact < nextContact'
      <4>1. CASE open[k] # None
        <5>1. View(k)' = View(k) /\ View(k) # None /\ nextChat = 0
          BY <1>1, <3>3, <3>4, <4>1
        <5> QED
          BY <3>2, <3>4, <5>1 DEF ZeroInv
      <4>2. CASE open[k] = None
        BY <2>5, <2>7, <3>1, <3>2, <3>3, <3>4, <4>2
      <4> QED
        BY <4>1, <4>2
    <3> QED
      BY <3>4 DEF ZeroInv
  <2> QED
    BY <2>1, <2>6, <2>7
<1>7. CASE CoreServes /\ ~chatStart
  BY <1>2, <1>7 DEF CoreServes, chatChangeEntry, chatEnd, chatMessageSend,
              rosterContactRemove, rosterEntryChangeContact, Serving, guiVars
<1>8. ASSUME NEW c \in ContactId, NEW e \in EntryId \cup {None}, StartChat(c, e) PROVE ZeroInv'
  <2>1. UNCHANGED <<open, answer>> /\ waiting = None
    BY <1>8 DEF StartChat, guiVars, GuiIdle, Free
  <2>2. \A k \in ChatId : View(k)' = View(k)
    BY <2>1, WindowIds, NoneIds, ChatIdNat DEF View
  <2> QED
    BY <1>1, <2>2, ZeroStill
<1>9. ASSUME NEW c \in ContactId, EndChat(c) PROVE ZeroInv'
  <2>1. /\ UNCHANGED <<answer, waiting>> /\ waiting = None
        /\ open' = [open EXCEPT ![windows[c]] = None]
    BY <1>9 DEF EndChat, GuiIdle, Free
  <2>2. answer = None /\ answer' = None
    BY <2>1, WindowIds
  <2>3. \A k \in ChatId : View(k)' = open'[k] /\ View(k) = open[k]
    BY <2>2, NoneIds, ChatIdNat DEF View
  <2>4. \A k \in ChatId : View(k)' = View(k) \/ View(k)' = None
    BY <2>1, <2>3 DEF TypeInv, TypeOK, GuiOK
  <2> QED
    BY <1>1, <2>4, ZeroStill
<1>10. ASSUME UserStep \/ NoticeStep PROVE ZeroInv'
  BY <1>3, <1>10 DEF UserStep, NoticeStep
<1>11. CASE ChatStarted
  <2>1. \A k \in ChatId : View(k)' = View(k)
    BY <1>11, StartedViews
  <2> QED
    BY <1>1, <2>1, ZeroStill
<1>12. CASE chatIncoming
  <2>1. /\ toGui # <<>> /\ Head(toGui).note = "chatIncoming"
    BY <1>12 DEF chatIncoming, Noticing
  <2>2. Head(toGui) = toGui[1] /\ 1 \in 1..Len(toGui) /\ Head(toGui).chat \in ChatId
    BY <2>1, ServedNote
  <2>3. Head(toGui).chat \in Named
    BY <2>1, <2>2 DEF Named, Names, ChatNotes
  <2>4. nextChat # 0
    <3>1. Head(toGui).chat < nextChat /\ Head(toGui).chat \in Nat
      BY <2>2, <2>3, ChatIdNat DEF ChatInv, IdInv
    <3>2. nextChat \in Nat
      BY DEF TypeInv, TypeOK, CoreOK
    <3> QED
      BY <3>1, <3>2
  <2> QED
    BY <1>1, <2>4 DEF ZeroInv
<1>13. CASE User
  BY <1>8, <1>9, <1>10, <1>13, PickEntryKind, SendKind, RemoveContactKind, MoveEntryKind DEF User
<1>14. CASE GuiServes
  BY <1>10, <1>12, <1>14, rosterContactKind, rosterEntryAddedKind, rosterEntryRemovedKind,
     rosterEntryContactChangedKind, chatEntryChangedKind DEF GuiServes
<1> QED
  BY <1>4, <1>5, <1>6, <1>7, <1>11, <1>13, <1>14 DEF Next

----------------------------------------------------------------------------
(* The steps of the program. *)

\* What the user interface may have of the chat: what it has, or nothing yet when the chat
\* is still to be announced.
Views(k) == ({View(k)} \ {None}) \cup (IF k \in Awaited THEN {None} ELSE {})
AllViews == [k \in ChatId |-> Views(k)]
AgreeNow == Agreeing(gowner, AllViews, toGui, owner, chats, toCore, reused)
AgreeInv == stopped = "no" => AgreeNow

\* What the notifications say of the roster.
LEMMA MoveFacts ==
  ASSUME NEW o, NEW e, NEW c, NEW d
  PROVE  /\ RosterAfter(o, EntryAdded(c, e)) = [o EXCEPT ![e] = c]
         /\ Fits(o, EntryAdded(c, e)) <=> o[e] = None
         /\ RosterAfter(o, EntryRemoved(e)) = [o EXCEPT ![e] = None]
         /\ Fits(o, EntryRemoved(e))
         /\ RosterAfter(o, EntryContactChanged(e, c, d)) = [o EXCEPT ![e] = d]
         /\ Fits(o, EntryContactChanged(e, c, d)) <=> o[e] = c /\ c # d
<1>1. /\ EntryAdded(c, e).note = "rosterEntryAdded" /\ EntryAdded(c, e).contact = c
      /\ EntryAdded(c, e).entry = e
  BY DEF EntryAdded
<1>2. EntryRemoved(e).note = "rosterEntryRemoved" /\ EntryRemoved(e).entry = e
  BY DEF EntryRemoved
<1>3. /\ EntryContactChanged(e, c, d).note = "rosterEntryContactChanged"
      /\ EntryContactChanged(e, c, d).entry = e
      /\ EntryContactChanged(e, c, d).old = c /\ EntryContactChanged(e, c, d).new = d
  BY DEF EntryContactChanged
<1>4. /\ RosterAfter(o, EntryAdded(c, e)) = [o EXCEPT ![e] = c]
      /\ Fits(o, EntryAdded(c, e)) <=> o[e] = None
  BY <1>1 DEF RosterAfter, Fits, NewOwner, EntryMoves
<1>5. /\ RosterAfter(o, EntryRemoved(e)) = [o EXCEPT ![e] = None]
      /\ Fits(o, EntryRemoved(e))
  BY <1>2 DEF RosterAfter, Fits, NewOwner, EntryMoves
<1>6. RosterAfter(o, EntryContactChanged(e, c, d)) = [o EXCEPT ![e] = d]
  BY <1>3 DEF RosterAfter, NewOwner, EntryMoves
<1>7. Fits(o, EntryContactChanged(e, c, d)) <=> o[e] = c /\ c # d
  BY <1>3 DEF Fits
<1> QED
  BY <1>4, <1>5, <1>6, <1>7

\* Notifications that say nothing of entries.
LEMMA OtherFacts ==
  ASSUME NEW o, NEW m, m.note \notin EntryMoves
  PROVE  RosterAfter(o, m) = o /\ Fits(o, m)
  BY DEF RosterAfter, Fits, EntryMoves

\* One notification, or none, that says nothing of entries and opens and turns no chat.
LEMMA AgreeContact ==
  ASSUME NEW q \in Seq(NoteMsg), NEW g, NEW vs, NEW o, NEW chs \in [ChatId -> Chat \cup {None}],
         NEW tc, NEW X, Agreeing(g, vs, q, o, chs, tc, X),
         NEW r, r = <<>> \/ \E m \in NoteMsg : /\ r = <<m>> /\ m.note \notin EntryMoves
                                             /\ m.note \notin {"chatIncoming", "chatEntryChanged"}
  PROVE  Agreeing(g, vs, q \o r, o, chs, tc, X) /\ q \o r \in Seq(NoteMsg)
<1>1. CASE r = <<>>
  <2>1. q \o <<>> = q
    BY ConcatEmptySeq
  <2> QED
    BY <1>1, <2>1
<1>2. ASSUME NEW m \in NoteMsg, r = <<m>>, m.note \notin EntryMoves,
             m.note \notin {"chatIncoming", "chatEntryChanged"}
      PROVE  Agreeing(g, vs, q \o r, o, chs, tc, X) /\ q \o r \in Seq(NoteMsg)
  <2>1. RosterAfter(o, m) = o /\ Fits(o, m)
    BY <1>2, OtherFacts
  <2>2. Agreeing(g, vs, q \o <<m>>, RosterAfter(o, m), chs, tc, X) /\ q \o <<m>> \in Seq(NoteMsg)
    BY <1>2, <2>1, AgreeOne
  <2> QED
    BY <1>2, <2>1, <2>2
<1> QED
  BY <1>1, <1>2

LEMMA ContactNotes ==
  ASSUME NEW c \in ContactId
  PROVE  /\ \A r \in {NoticeOf(c), <<ContactAdded(c)>>, <<ContactRemoved(c)>>} :
               \/ r = <<>>
               \/ \E m \in NoteMsg : /\ r = <<m>> /\ m.note \notin EntryMoves
                                     /\ m.note \notin {"chatIncoming", "chatEntryChanged"}
         /\ NoticeOf(c) \in Seq(NoteMsg)
<1>1. ContactAdded(c) \in NoteMsg /\ ContactRemoved(c) \in NoteMsg
  BY DEF NoteMsg, RosterNote, ContactAdded, ContactRemoved
<1>2. /\ ContactAdded(c).note = "rosterContactAdded"
      /\ ContactRemoved(c).note = "rosterContactRemoved"
  BY DEF ContactAdded, ContactRemoved
<1>3. NoticeOf(c) = <<>> \/ NoticeOf(c) = <<ContactAdded(c)>>
  BY DEF NoticeOf
<1>4. NoticeOf(c) \in Seq(NoteMsg)
  BY NoticeType, SeqMonotonic DEF NoteMsg
<1> QED
  BY <1>1, <1>2, <1>3, <1>4 DEF EntryMoves

LEMMA MessageNote ==
  ASSUME NEW k \in ChatId
  PROVE  /\ ChatMessageReceived(k) \in NoteMsg /\ ChatMessageReceived(k).note \notin EntryMoves
         /\ ChatMessageReceived(k).note \notin {"chatIncoming", "chatEntryChanged"}
  BY DEF ChatMessageReceived, NoteMsg, ChatNote, EntryMoves

\* Queues are joined in any order.
LEMMA TwoOnes ==
  ASSUME NEW S, NEW a \in S, NEW b \in S
  PROVE  <<a, b>> = <<a>> \o <<b>>
<1>1. /\ <<a>> \in Seq(S) /\ <<b>> \in Seq(S) /\ <<a, b>> \in Seq(S)
      /\ Len(<<a>>) = 1 /\ Len(<<b>>) = 1 /\ Len(<<a, b>>) = 2
  OBVIOUS
<1>2. <<a>> \o <<b>> \in Seq(S) /\ Len(<<a>> \o <<b>>) = 2
  BY <1>1, ConcatProperties
<1>3. <<a>>[1] = a /\ <<b>>[1] = b /\ <<a, b>>[1] = a /\ <<a, b>>[2] = b
  OBVIOUS
<1>4. (<<a>> \o <<b>>)[1] = a /\ (<<a>> \o <<b>>)[2] = b
  BY <1>1, <1>3, ConcatProperties
<1>5. PICK p : p = <<a, b>>
  OBVIOUS
<1>6. PICK q : q = <<a>> \o <<b>>
  OBVIOUS
<1>7. /\ p \in Seq(S) /\ q \in Seq(S) /\ Len(p) = 2 /\ Len(q) = 2
      /\ p[1] = a /\ p[2] = b /\ q[1] = a /\ q[2] = b
  BY <1>1, <1>2, <1>3, <1>4, <1>5, <1>6
<1>8. \A i \in 1..Len(p) : p[i] = q[i]
  BY <1>7
<1> QED
  BY <1>5, <1>6, <1>7, <1>8, SeqEqual

\* The calls by which the observers of chats make them turn.
LEMMA ChangesPicks ==
  ASSUME NEW ks \in SUBSET ChatId, NEW e \in Chosen
  PROVE  /\ Changes(ks, e) \in Seq(CallMsg)
         /\ \A k \in ks : LastPick(Changes(ks, e), k, e)
         /\ \A k \in ChatId \ ks : Silent(Changes(ks, e), Picks(k))
<1> DEFINE n == Cardinality(ks)
           q == Changes(ks, e)
<1>1. IsFiniteSet(ks)
  BY FiniteIds
<1>2. n \in Nat /\ \A i \in 1..n : SetToSeq(ks)[i] \in ks
  BY <1>1, SetToSeqType
<1>3. q \in Seq(CallMsg)
  BY ChangesType, SeqMonotonic DEF CallMsg
<1>4. DOMAIN q = 1..n /\ \A i \in 1..n : q[i] = ChatChangeEntry(SetToSeq(ks)[i], e)
  BY DEF Changes
<1>5. Len(q) = n
  <2> HIDE DEF q, n
  <2> QED
    BY <1>2, <1>3, <1>4, LenProperties
<1> HIDE DEF q
<1>6. \A j, k \in ChatId : ChatChangeEntry(j, e) \in Picks(k) => j = k
  BY PickFacts
<1>7. ASSUME NEW k \in ks PROVE LastPick(q, k, e)
  <2>1. PICK i \in 1..n : SetToSeq(ks)[i] = k /\ \A j \in 1..n : SetToSeq(ks)[j] = k => j = i
    BY <1>1, SetToSeqAll
  <2>2. q[i] = ChatChangeEntry(k, e) /\ q[i] \in Picks(k)
    BY <1>4, <2>1, PickFacts
  <2>3. ASSUME NEW j \in 1..n, q[j] \in Picks(k) PROVE j = i
    <3>1. SetToSeq(ks)[j] = k
      BY <1>2, <1>4, <1>6, <2>3
    <3> QED
      BY <2>1, <3>1
  <2>4. /\ i \in 1..Len(q)
        /\ \A j \in 1..Len(q) : q[j] \in Picks(k) => j = i /\ q[j] \in {ChatChangeEntry(k, e)}
    BY <1>5, <2>2, <2>3
  <2>5. LastIn(q, Picks(k), {ChatChangeEntry(k, e)})
    BY <1>3, <2>2, <2>4, AllIn
  <2> QED
    BY <2>5 DEF LastPick
<1>8. ASSUME NEW k \in ChatId \ ks PROVE Silent(q, Picks(k))
  BY <1>2, <1>4, <1>5, <1>6 DEF Silent
<1> QED
  BY <1>3, <1>7, <1>8 DEF q

LEMMA OtherCalls ==
  ASSUME NEW m \in CallMsg, m.call # "chatChangeEntry"
  PROVE  <<m>> \in Seq(CallMsg) /\ \A k \in ChatId : Silent(<<m>>, Picks(k)) /\ m \notin Picks(k)
<1>1. \A k \in ChatId : m \notin Picks(k)
  <2>1. \A k, f : ChatChangeEntry(k, f).call = "chatChangeEntry"
    BY DEF ChatChangeEntry
  <2> QED
    BY <2>1 DEF Picks
<1> QED
  BY <1>1, One, OneIn

LEMMA LeftEmptyPicks ==
  ASSUME NEW c \in ContactId \cup {None}, NEW list
  PROVE  LeftEmpty(c, list) \in Seq(CallMsg) /\ \A k \in ChatId : Silent(LeftEmpty(c, list), Picks(k))
<1>1. ContactRemove(c) \in CallMsg /\ ContactRemove(c).call # "chatChangeEntry"
  BY DEF ContactRemove, CallMsg, PlainCall
<1>2. LeftEmpty(c, list) = <<>> \/ LeftEmpty(c, list) = <<ContactRemove(c)>>
  BY DEF LeftEmpty
<1> QED
  BY <1>1, <1>2, OtherCalls, NothingIn, EmptySeq

LEMMA SilentJoin ==
  ASSUME NEW q \in Seq(CallMsg), NEW r \in Seq(CallMsg), NEW k
  PROVE  /\ q \o r \in Seq(CallMsg)
         /\ Silent(r, Picks(k)) => SameLast(q, q \o r, k)
         /\ \A f \in Chosen : LastPick(r, k, f) => LastPick(q \o r, k, f)
         /\ \A f \in Chosen : LastPick(q, k, f) /\ Silent(r, Picks(k)) => LastPick(q \o r, k, f)
         /\ Silent(q, Picks(k)) /\ Silent(r, Picks(k)) => Silent(q \o r, Picks(k))
<1>1. q \o r \in Seq(CallMsg)
  BY Grows
<1>2. \A f \in Chosen : LastPick(r, k, f) => LastPick(q \o r, k, f)
  BY JoinIn DEF LastPick
<1>3. \A f \in Chosen : LastPick(q, k, f) /\ Silent(r, Picks(k)) => LastPick(q \o r, k, f)
  BY JoinIn DEF LastPick
<1>4. Silent(q, Picks(k)) /\ Silent(r, Picks(k)) => Silent(q \o r, Picks(k))
  BY JoinIn
<1> QED
  BY <1>1, <1>2, <1>3, <1>4, LastCalled

\* What the head of the queue says fits the roster of the user interface.
LEMMA HeadFits ==
  ASSUME NEW q \in Seq(NoteMsg), q # <<>>, NEW g, NEW vs, NEW o, NEW chs, NEW tc, NEW X,
         Agreeing(g, vs, q, o, chs, tc, X)
  PROVE  Fits(g, Head(q))
<1>1. PICK V : RosterReplay(V, q) /\ V[1] = g
  BY DEF Agreeing, RosterAgrees
<1>2. Head(q) = q[1] /\ 1 \in 1..Len(q)
  BY Shrinks
<1> QED
  BY <1>1, <1>2 DEF RosterReplay

----------------------------------------------------------------------------
(* What the core does to the agreement: the roster, and the calls that it serves. *)

\* The queues are the same, and what the user interface has of chats.
LEMMA AgreeSame ==
  ASSUME NEW q, q = toGui', NEW o, o = owner', NEW tc, tc = toCore',
         Agreeing(gowner, AllViews, q, o, chats', tc, reused'),
         UNCHANGED gowner, AllViews' = AllViews
  PROVE  AgreeNow'
BY DEF AgreeNow

LEMMA ViewsStill ==
  ASSUME UNCHANGED <<open, answer, waiting>>, Awaited' = Awaited
  PROVE  AllViews' = AllViews
<1>1. ASSUME NEW k \in ChatId PROVE Views(k)' = Views(k)
  BY DEF Views, View
<1> QED
  BY <1>1 DEF AllViews

LEMMA SayViews ==
  ASSUME TypeInv, SayStep, CoreIdle
  PROVE  AllViews' = AllViews /\ UNCHANGED <<gowner, toCore>>
<1>1. Awaited' = Awaited
  BY SaidChats DEF SayStep
<1>2. UNCHANGED <<open, answer, waiting, gowner, toCore>>
  BY DEF CoreIdle, guiVars
<1> QED
  BY <1>1, <1>2, ViewsStill

\* The memory of a deleted entry is given to another.
LEMMA AgreeReused ==
  ASSUME NEW g, NEW vs, NEW q, NEW o, NEW tc, Agreeing(g, vs, q, o, chats, tc, reused),
         NEW held, Reused(held)
  PROVE  Agreeing(g, vs, q, o, held, tc, reused')
<1>1. \A k \in ChatId \ reused' : k \notin reused /\ held[k] = chats[k]
  BY DEF Reused
<1>2. \A k \in ChatId \ reused' : held[k] # None =>
         /\ k \notin reused /\ chats[k] # None /\ Kept(chats[k], held[k])
         /\ vs[k] \subseteq vs[k] /\ SameLast(tc, tc, k)
  BY <1>1, SamePicks DEF Kept
<1> QED
  BY <1>2, AgreeStill

LEMMA ChatsType ==
  ASSUME TypeInv
  PROVE  /\ chats \in [ChatId -> Chat \cup {None}] /\ toGui \in Seq(NoteMsg)
         /\ toCore \in Seq(CallMsg) /\ owner \in Owners /\ gowner \in Owners
  BY DEF TypeInv, TypeOK, CoreOK, GuiOK, QueuesOK, Owners

\* A new entry is of no contact yet.
LEMMA NewEntry ==
  ASSUME TypeInv, MadeInv, NEW e \in EntryId, e = nextEntry
  PROVE  owner[e] = None
  BY DEF TypeInv, TypeOK, CoreOK, MadeInv

LEMMA AgreeAdded ==
  ASSUME NEW q \in Seq(NoteMsg), NEW g, NEW vs, NEW o, NEW chs \in [ChatId -> Chat \cup {None}],
         NEW tc, NEW X, Agreeing(g, vs, q, o, chs, tc, X),
         NEW e \in EntryId, NEW c \in ContactId, o[e] = None
  PROVE  /\ Agreeing(g, vs, q \o <<EntryAdded(c, e)>>, [o EXCEPT ![e] = c], chs, tc, X)
         /\ q \o <<EntryAdded(c, e)>> \in Seq(NoteMsg)
<1>1. PICK m : m = EntryAdded(c, e)
  OBVIOUS
<1>2. m \in NoteMsg /\ m.note \notin {"chatIncoming", "chatEntryChanged"}
  BY <1>1, NewOwners DEF NoteMsg, EntryAdded
<1>3. Fits(o, m) /\ RosterAfter(o, m) = [o EXCEPT ![e] = c]
  <2>1. m.note = "rosterEntryAdded" /\ m.entry = e /\ m.contact = c
    BY <1>1 DEF EntryAdded
  <2> QED
    BY <2>1 DEF Fits, RosterAfter, NewOwner, EntryMoves
<1>4. Agreeing(g, vs, q \o <<m>>, RosterAfter(o, m), chs, tc, X) /\ q \o <<m>> \in Seq(NoteMsg)
  BY <1>2, <1>3, AgreeOne
<1> QED
  BY <1>1, <1>3, <1>4

LEMMA AgreeRemoved ==
  ASSUME NEW q \in Seq(NoteMsg), NEW g, NEW vs, NEW o, NEW chs \in [ChatId -> Chat \cup {None}],
         NEW tc, NEW X, Agreeing(g, vs, q, o, chs, tc, X), NEW e \in EntryId
  PROVE  /\ Agreeing(g, vs, q \o <<EntryRemoved(e)>>, [o EXCEPT ![e] = None], chs, tc, X)
         /\ q \o <<EntryRemoved(e)>> \in Seq(NoteMsg)
<1>1. PICK m : m = EntryRemoved(e)
  OBVIOUS
<1>2. m \in NoteMsg /\ m.note \notin {"chatIncoming", "chatEntryChanged"}
  BY <1>1 DEF NoteMsg, RosterNote, EntryRemoved
<1>3. Fits(o, m) /\ RosterAfter(o, m) = [o EXCEPT ![e] = None]
  BY <1>1, MoveFacts
<1>4. Agreeing(g, vs, q \o <<m>>, RosterAfter(o, m), chs, tc, X) /\ q \o <<m>> \in Seq(NoteMsg)
  BY <1>2, <1>3, AgreeOne
<1> QED
  BY <1>1, <1>3, <1>4

LEMMA AgreeMoved ==
  ASSUME NEW q \in Seq(NoteMsg), NEW g, NEW vs, NEW o, NEW chs \in [ChatId -> Chat \cup {None}],
         NEW tc, NEW X, Agreeing(g, vs, q, o, chs, tc, X),
         NEW e \in EntryId, NEW c \in ContactId, NEW d \in ContactId, o[e] = c, c # d
  PROVE  /\ Agreeing(g, vs, q \o <<EntryContactChanged(e, c, d)>>, [o EXCEPT ![e] = d], chs, tc, X)
         /\ q \o <<EntryContactChanged(e, c, d)>> \in Seq(NoteMsg)
<1>1. PICK m : m = EntryContactChanged(e, c, d)
  OBVIOUS
<1>2. m \in NoteMsg /\ m.note \notin {"chatIncoming", "chatEntryChanged"}
  BY <1>1, NewOwners DEF NoteMsg, EntryContactChanged
<1>3. Fits(o, m) /\ RosterAfter(o, m) = [o EXCEPT ![e] = d]
  BY <1>1, MoveFacts
<1>4. Agreeing(g, vs, q \o <<m>>, RosterAfter(o, m), chs, tc, X) /\ q \o <<m>> \in Seq(NoteMsg)
  BY <1>2, <1>3, AgreeOne
<1> QED
  BY <1>1, <1>3, <1>4

LEMMA ItemAddedAgrees ==
  ASSUME TypeInv, MadeInv, AgreeNow, NEW x \in Address, ItemAdded(x)
  PROVE  AgreeNow'
<1>1. CoreIdle /\ SayStep
  BY ItemAddedFacts, ItemAddedKind
<1>2. PICK e \in EntryId, c \in ContactId :
         /\ e = nextEntry /\ c \in contacts \cup {nextContact}
         /\ WithContact(c) /\ MakeEntry(e, c, x) /\ chats' \in Rebound(e) /\ Reused(chats')
         /\ toGui' = toGui \o (NoticeOf(c) \o <<EntryAdded(c, e)>>)
  BY ItemAddedFacts
<1>3. Agreeing(gowner, AllViews, toGui, owner, chats, toCore, reused)
  BY DEF AgreeNow
<1>4. /\ Agreeing(gowner, AllViews, toGui \o NoticeOf(c), owner, chats, toCore, reused)
      /\ toGui \o NoticeOf(c) \in Seq(NoteMsg) /\ NoticeOf(c) \in Seq(NoteMsg)
  BY <1>3, ContactNotes, ChatsType, AgreeContact
<1>5. /\ Agreeing(gowner, AllViews, (toGui \o NoticeOf(c)) \o <<EntryAdded(c, e)>>,
                  [owner EXCEPT ![e] = c], chats, toCore, reused)
  BY <1>2, <1>4, ChatsType, NewEntry, AgreeAdded
<1>6. /\ Agreeing(gowner, AllViews, (toGui \o NoticeOf(c)) \o <<EntryAdded(c, e)>>,
                  [owner EXCEPT ![e] = c], chats', toCore, reused')
  BY <1>2, <1>5, AgreeReused
<1>7. <<EntryAdded(c, e)>> \in Seq(NoteMsg)
  BY NewOwners, One DEF NoteMsg
<1>8. (toGui \o NoticeOf(c)) \o <<EntryAdded(c, e)>> = toGui'
  BY <1>2, <1>4, <1>7, ChatsType, ConcatAssociative
<1>9. [owner EXCEPT ![e] = c] = owner'
  BY <1>2 DEF MakeEntry
<1>10. AllViews' = AllViews /\ UNCHANGED <<gowner, toCore>>
  BY <1>1, SayViews
<1> QED
  BY <1>6, <1>8, <1>9, <1>10, AgreeSame

\* What goes with a contact.
LEMMA AgreeLast ==
  ASSUME NEW q \in Seq(NoteMsg), NEW g, NEW vs, NEW o, NEW chs \in [ChatId -> Chat \cup {None}],
         NEW tc, NEW X, Agreeing(g, vs, q, o, chs, tc, X), NEW c \in ContactId,
         NEW last, last = <<>> \/ last = <<ContactRemoved(c)>>
  PROVE  Agreeing(g, vs, q \o last, o, chs, tc, X)
<1>1. CASE last = <<>>
  BY <1>1, AgreeContact
<1>2. CASE last = <<ContactRemoved(c)>>
  BY <1>2, ContactNotes, AgreeContact
<1> QED
  BY <1>1, <1>2

LEMMA ItemUpdatedAgrees ==
  ASSUME TypeInv, AgreeNow, NEW e \in EntryId, ItemUpdated(e)
  PROVE  AgreeNow'
<1>1. CoreIdle /\ SayStep /\ UNCHANGED <<chats, reused>> /\ owner[e] \in ContactId
  BY ItemUpdatedFacts, ItemUpdatedKind
<1>2. PICK d \in ContactId, last \in Seq(NoteMsg) :
         /\ d # owner[e] /\ (last = <<>> \/ last = <<ContactRemoved(owner[e])>>)
         /\ owner' = [owner EXCEPT ![e] = d]
         /\ toGui' = toGui \o (NoticeOf(d) \o <<EntryContactChanged(e, owner[e], d)>> \o last)
  BY ItemUpdatedFacts, ZenonT(60)
<1>3. Agreeing(gowner, AllViews, toGui, owner, chats, toCore, reused)
  BY DEF AgreeNow
<1>4. /\ Agreeing(gowner, AllViews, toGui \o NoticeOf(d), owner, chats, toCore, reused)
      /\ toGui \o NoticeOf(d) \in Seq(NoteMsg) /\ NoticeOf(d) \in Seq(NoteMsg)
  BY <1>3, ContactNotes, ChatsType, AgreeContact
<1>5. PICK c \in ContactId : c = owner[e]
  BY <1>1
<1>6. PICK m : m = EntryContactChanged(e, c, d)
  OBVIOUS
<1>7. /\ Agreeing(gowner, AllViews, (toGui \o NoticeOf(d)) \o <<m>>,
                  owner', chats, toCore, reused)
      /\ (toGui \o NoticeOf(d)) \o <<m>> \in Seq(NoteMsg)
  BY <1>2, <1>4, <1>5, <1>6, ChatsType, AgreeMoved
<1>8. Agreeing(gowner, AllViews, ((toGui \o NoticeOf(d)) \o <<m>>) \o last,
               owner', chats, toCore, reused)
  BY <1>2, <1>5, <1>7, ChatsType, AgreeLast
<1>9. <<m>> \in Seq(NoteMsg) /\ NoticeOf(d) \o <<m>> \in Seq(NoteMsg)
  <2>1. m \in NoteMsg
    BY <1>6, NewOwners DEF NoteMsg
  <2>2. <<m>> \in Seq(NoteMsg)
    BY <2>1, One
  <2> QED
    BY <1>4, <2>2, Grows
<1>10. toGui \o ((NoticeOf(d) \o <<m>>) \o last) = (toGui \o (NoticeOf(d) \o <<m>>)) \o last
  BY <1>9, ChatsType, ConcatAssociative
<1>11. toGui \o (NoticeOf(d) \o <<m>>) = (toGui \o NoticeOf(d)) \o <<m>>
  BY <1>4, <1>9, ChatsType, ConcatAssociative
<1>12. ((toGui \o NoticeOf(d)) \o <<m>>) \o last = toGui'
  BY <1>2, <1>5, <1>6, <1>10, <1>11
<1>13. AllViews' = AllViews /\ UNCHANGED <<gowner, toCore>>
  BY <1>1, SayViews
<1> QED
  BY <1>1, <1>8, <1>12, <1>13, AgreeSame

LEMMA ItemRemovedAgrees ==
  ASSUME TypeInv, AgreeNow, NEW e \in EntryId, ItemRemoved(e)
  PROVE  AgreeNow'
<1>1. CoreIdle /\ SayStep /\ UNCHANGED <<chats, reused>> /\ owner[e] \in ContactId
  BY ItemRemovedFacts, ItemRemovedKind
<1>2. PICK last \in Seq(NoteMsg) :
         /\ last = <<>> \/ last = <<ContactRemoved(owner[e])>>
         /\ owner' = [owner EXCEPT ![e] = None]
         /\ toGui' = toGui \o (<<EntryRemoved(e)>> \o last)
  BY ItemRemovedFacts
<1>3. Agreeing(gowner, AllViews, toGui, owner, chats, toCore, reused)
  BY DEF AgreeNow
<1>4. PICK c \in ContactId : c = owner[e]
  BY <1>1
<1>5. PICK m : m = EntryRemoved(e)
  OBVIOUS
<1>6. /\ Agreeing(gowner, AllViews, toGui \o <<m>>, owner', chats, toCore, reused)
      /\ toGui \o <<m>> \in Seq(NoteMsg)
  BY <1>2, <1>3, <1>5, ChatsType, AgreeRemoved
<1>7. Agreeing(gowner, AllViews, (toGui \o <<m>>) \o last, owner', chats, toCore, reused)
  BY <1>2, <1>4, <1>6, ChatsType, AgreeLast
<1>8. <<m>> \in Seq(NoteMsg)
  BY <1>5, One DEF NoteMsg, RosterNote, EntryRemoved
<1>9. (toGui \o <<m>>) \o last = toGui'
  BY <1>2, <1>5, <1>8, ChatsType, ConcatAssociative
<1>10. AllViews' = AllViews /\ UNCHANGED <<gowner, toCore>>
  BY <1>1, SayViews
<1> QED
  BY <1>1, <1>7, <1>9, <1>10, AgreeSame

\* A call is served that picks no entry.
LEMMA AgreeServed ==
  ASSUME NEW g, NEW vs, NEW q, NEW o, NEW chs, NEW tc \in Seq(CallMsg), tc # <<>>, NEW X,
         Head(tc).call # "chatChangeEntry", Agreeing(g, vs, q, o, chs, tc, X)
  PROVE  Agreeing(g, vs, q, o, chs, Tail(tc), X)
<1>1. Head(tc) \in CallMsg
  BY Shrinks
<1>2. \A k \in ChatId : Head(tc) \notin Picks(k)
  BY <1>1, OtherCalls
<1>3. \A k \in ChatId : SameLast(tc, Tail(tc), k)
  BY <1>2, LastServed
<1>4. \A k \in ChatId \ X : chs[k] # None =>
         /\ k \notin X /\ chs[k] # None /\ Kept(chs[k], chs[k])
         /\ vs[k] \subseteq vs[k] /\ SameLast(tc, Tail(tc), k)
  BY <1>3 DEF Kept
<1> QED
  BY <1>4, AgreeStill

\* Entries that are removed one after the other.
Removing(n, L, o, r, o2) ==
    /\ n \in Nat /\ o \in Owners
    /\ \A i \in 1..n : L[i] \in EntryId
    /\ DOMAIN r = 1..n /\ r = [i \in 1..n |-> r[i]]
    /\ \A i \in 1..n : r[i] = EntryRemoved(L[i])
    /\ o2 = [e \in EntryId |-> IF \E i \in 1..n : L[i] = e THEN None ELSE o[e]]
LEMMA RemovedNotes ==
  ASSUME NEW n, NEW L, NEW o, NEW r, NEW o2, Removing(n, L, o, r, o2)
  PROVE  r \in Seq(RosterNote) /\ \E O : RosterAgrees(O, r, o, o2)
<1> /\ n \in Nat /\ o \in Owners
    /\ \A i \in 1..n : L[i] \in EntryId
    /\ DOMAIN r = 1..n /\ r = [i \in 1..n |-> r[i]]
    /\ \A i \in 1..n : r[i] = EntryRemoved(L[i])
    /\ o2 = [e \in EntryId |-> IF \E i \in 1..n : L[i] = e THEN None ELSE o[e]]
  BY DEF Removing
<1>1. \A i \in 1..n : L[i] \in EntryId /\ r[i] = EntryRemoved(L[i]) /\ r[i] \in RosterNote
  <2>1. \A e \in EntryId : EntryRemoved(e) \in RosterNote
    BY DEF EntryRemoved, RosterNote
  <2> QED
    BY <2>1
<1>2. r \in Seq(RosterNote) /\ Len(r) = n
  <2>1. r \in [1..n -> RosterNote]
    BY <1>1
  <2>2. r \in Seq(RosterNote)
    BY <2>1, SeqDef
  <2>3. Len(r) = n
    BY <2>2, LenProperties
  <2> QED
    BY <2>2, <2>3
<1> DEFINE O == [i \in Nat |-> [e \in EntryId |->
                   IF \E j \in 1..n : j < i /\ L[j] = e THEN None ELSE o[e]]]
<1>3. O \in [Nat -> Owners]
  BY DEF Owners
<1>4. O[1] = o
  <2>1. O[1] = [e \in EntryId |-> o[e]]
    OBVIOUS
  <2> QED
    BY <2>1 DEF Owners
<1>5. O[n + 1] = o2
  <2>1. \A e \in EntryId : (\E j \in 1..n : j < n + 1 /\ L[j] = e) <=> \E i \in 1..n : L[i] = e
    OBVIOUS
  <2>2. O[n + 1] = [e \in EntryId |->
                       IF \E j \in 1..n : j < n + 1 /\ L[j] = e THEN None ELSE o[e]]
    OBVIOUS
  <2> QED
    BY <2>1, <2>2
<1>6. ASSUME NEW i \in 1..n
      PROVE  O[i + 1] = RosterAfter(O[i], r[i]) /\ Fits(O[i], r[i])
  <2>1. i \in Nat /\ i + 1 \in Nat /\ r[i] = EntryRemoved(L[i]) /\ L[i] \in EntryId
    BY <1>1
  <2>2. RosterAfter(O[i], r[i]) = [O[i] EXCEPT ![L[i]] = None] /\ Fits(O[i], r[i])
    <3> HIDE DEF O
    <3>1. r[i].note = "rosterEntryRemoved" /\ r[i].entry = L[i]
      BY <2>1 DEF EntryRemoved
    <3> QED
      BY <3>1 DEF RosterAfter, Fits, NewOwner, EntryMoves
  <2>3. \A e \in EntryId : (\E j \in 1..n : j < i + 1 /\ L[j] = e)
                              <=> (\E j \in 1..n : j < i /\ L[j] = e) \/ e = L[i]
    OBVIOUS
  <2>4. O[i] = [e \in EntryId |-> IF \E j \in 1..n : j < i /\ L[j] = e THEN None ELSE o[e]]
    BY <2>1
  <2>5. O[i + 1] = [e \in EntryId |->
                       IF \E j \in 1..n : j < i + 1 /\ L[j] = e THEN None ELSE o[e]]
    BY <2>1
  <2>6. O[i + 1] = [O[i] EXCEPT ![L[i]] = None]
    <3> HIDE DEF O
    <3>1. \A e \in EntryId : O[i + 1][e] = IF e = L[i] THEN None ELSE O[i][e]
      BY <2>3, <2>4, <2>5
    <3>2. O[i] = [e \in EntryId |-> O[i][e]] /\ O[i + 1] = [e \in EntryId |-> O[i + 1][e]]
      BY <2>4, <2>5
    <3> QED
      BY <3>1, <3>2
  <2> QED
    BY <2>2, <2>6
<1>7. RosterAgrees(O, r, o, o2)
  <2> HIDE DEF O
  <2> QED
    BY <1>2, <1>3, <1>4, <1>5, <1>6 DEF RosterAgrees, RosterReplay
<1> QED
  BY <1>2, <1>7

LEMMA ContactRemoveAgrees ==
  ASSUME TypeInv, AgreeNow, rosterContactRemove
  PROVE  AgreeNow'
<1>1. PICK c : c = Head(toCore).contact
  OBVIOUS
<1>2. /\ UNCHANGED <<guiVars, waiting, reused, chats, answer>>
      /\ toCore # <<>> /\ Head(toCore).call = "rosterContactRemove" /\ toCore' = Tail(toCore)
  BY DEF rosterContactRemove, Serving
<1>3. AllViews' = AllViews /\ UNCHANGED gowner
  <2>1. Awaited' = Awaited
    BY rosterContactRemoveKind, SaidChats DEF ServeStep
  <2>2. UNCHANGED <<open, answer, waiting, gowner>>
    BY <1>2 DEF guiVars
  <2> QED
    BY <2>1, <2>2, ViewsStill
<1>4. Agreeing(gowner, AllViews, toGui, owner, chats, toCore', reused)
  BY <1>2, ChatsType, AgreeServed DEF AgreeNow
<1>5. CASE UNCHANGED <<owner, toGui>>
  BY <1>2, <1>3, <1>4, <1>5, AgreeSame
<1>6. CASE c \in contacts
  <2>1. /\ owner' = [e \in EntryId |-> IF owner[e] = c THEN None ELSE owner[e]]
        /\ toGui' = toGui \o RemovalOf(c)
    BY <1>1, <1>6 DEF rosterContactRemove, Notify
  <2>2. c \in ContactId
    BY <1>6 DEF TypeInv, TypeOK, CoreOK
  <2>3. PICK es \in SUBSET EntryId : es = EntriesIn(c)
    BY DEF EntriesIn
  <2>4. PICK r : r = [i \in 1..Cardinality(es) |-> EntryRemoved(SetToSeq(es)[i])]
    OBVIOUS
  <2>5. RemovalOf(c) = r \o <<ContactRemoved(c)>>
    BY <2>3, <2>4 DEF RemovalOf
  <2>6. PICK n, L : n = Cardinality(es) /\ L = SetToSeq(es)
    OBVIOUS
  <2>60. n \in Nat /\ (\A i \in 1..n : L[i] \in es) /\ \A e \in es : \E i \in 1..n : L[i] = e
    <3>1. IsFiniteSet(es)
      BY FiniteIds
    <3>2. n \in Nat /\ \A i \in 1..n : L[i] \in es
      BY <2>6, <3>1, SetToSeqType
    <3>3. \A e \in es : \E i \in 1..n : L[i] = e
      BY <2>6, <3>1, SetToSeqAll
    <3> QED
      BY <3>2, <3>3
  <2>61. owner' = [e \in EntryId |-> IF \E i \in 1..n : L[i] = e THEN None ELSE owner[e]]
    <3>1. \A e \in EntryId : owner[e] = c <=> \E i \in 1..n : L[i] = e
      BY <2>3, <2>60 DEF EntriesIn
    <3> QED
      BY <2>1, <3>1
  <2>62. /\ DOMAIN r = 1..n /\ r = [i \in 1..n |-> r[i]]
         /\ \A i \in 1..n : r[i] = EntryRemoved(L[i])
    BY <2>4, <2>6
  <2>63. \A i \in 1..n : L[i] \in EntryId
    BY <2>60
  <2>64. Removing(n, L, owner, r, owner')
    BY <2>60, <2>61, <2>62, <2>63, ChatsType DEF Removing
  <2>7. r \in Seq(RosterNote) /\ \E O : RosterAgrees(O, r, owner, owner')
    BY <2>64, RemovedNotes
  <2>8. Agreeing(gowner, AllViews, toGui \o r, owner', chats, toCore', reused)
    BY <1>4, <2>7, ChatsType, AgreeNotes
  <2>9. /\ r \in Seq(NoteMsg) /\ toGui \o r \in Seq(NoteMsg) /\ ContactRemoved(c) \in NoteMsg
        /\ <<ContactRemoved(c)>> \in Seq(NoteMsg)
    <3>1. r \in Seq(NoteMsg)
      BY <2>7, SeqMonotonic DEF NoteMsg
    <3>2. ContactRemoved(c) \in NoteMsg
      BY <2>2 DEF NoteMsg, RosterNote, ContactRemoved
    <3> QED
      BY <3>1, <3>2, ChatsType, Grows, One
  <2>10. Agreeing(gowner, AllViews, (toGui \o r) \o <<ContactRemoved(c)>>, owner', chats, toCore', reused)
    BY <2>2, <2>8, <2>9, ChatsType, AgreeLast
  <2>11. (toGui \o r) \o <<ContactRemoved(c)>> = toGui'
    BY <2>1, <2>5, <2>9, ChatsType, ConcatAssociative
  <2> QED
    BY <1>2, <1>3, <2>10, <2>11, AgreeSame
<1> QED
  BY <1>1, <1>5, <1>6 DEF rosterContactRemove

LEMMA EntryChangeContactAgrees ==
  ASSUME TypeInv, AgreeNow, rosterEntryChangeContact
  PROVE  AgreeNow'
<1>1. /\ UNCHANGED <<guiVars, waiting, reused, chats, answer>>
      /\ toCore # <<>> /\ Head(toCore).call = "rosterEntryChangeContact"
      /\ toCore' = Tail(toCore)
  BY DEF rosterEntryChangeContact, Serving
<1>2. AllViews' = AllViews /\ UNCHANGED gowner
  <2>1. Awaited' = Awaited
    BY rosterEntryChangeContactKind, SaidChats DEF ServeStep
  <2>2. UNCHANGED <<open, answer, waiting, gowner>>
    BY <1>1 DEF guiVars
  <2> QED
    BY <2>1, <2>2, ViewsStill
<1>3. Agreeing(gowner, AllViews, toGui, owner, chats, toCore', reused)
  BY <1>1, ChatsType, AgreeServed DEF AgreeNow
<1>4. CASE UNCHANGED <<owner, toGui>>
  BY <1>1, <1>2, <1>3, <1>4, AgreeSame
<1>5. ASSUME NEW e \in EntryId, NEW c \in ContactId, NEW d \in ContactId,
             owner[e] = c, c # d, owner' = [owner EXCEPT ![e] = d],
             toGui' = toGui \o <<EntryContactChanged(e, c, d)>>
      PROVE  AgreeNow'
  <2>1. Agreeing(gowner, AllViews, toGui', owner', chats, toCore', reused)
    BY <1>3, <1>5, ChatsType, AgreeMoved
  <2> QED
    BY <1>1, <1>2, <2>1, AgreeSame
<1> QED
  BY <1>4, <1>5, EntryChangeContactFacts

LEMMA SendAgrees ==
  ASSUME TypeInv, AgreeNow, chatMessageSend
  PROVE  AgreeNow'
<1>1. /\ UNCHANGED <<coreVars, guiVars, waiting, reused, answer, toGui>>
      /\ toCore # <<>> /\ Head(toCore).call = "chatMessageSend" /\ toCore' = Tail(toCore)
  BY DEF chatMessageSend, Serving
<1>2. UNCHANGED <<open, answer, waiting, gowner, chats, owner>>
  BY <1>1 DEF guiVars, coreVars, rosterVars
<1>3. AllViews' = AllViews
  BY <1>1, <1>2, GuiQueueStill, ViewsStill
<1>4. Agreeing(gowner, AllViews, toGui, owner, chats, toCore', reused)
  BY <1>1, ChatsType, AgreeServed DEF AgreeNow
<1> QED
  BY <1>1, <1>2, <1>3, <1>4, AgreeSame

LEMMA EndAgrees ==
  ASSUME TypeInv, AgreeNow, chatEnd
  PROVE  AgreeNow'
<1>1. /\ UNCHANGED <<rosterVars, guiVars, waiting, reused, answer, toGui>>
      /\ toCore # <<>> /\ Head(toCore).call = "chatEnd" /\ toCore' = Tail(toCore)
      /\ chats' = [chats EXCEPT ![Head(toCore).chat] = None]
  BY DEF chatEnd, Serving
<1>2. UNCHANGED <<open, answer, waiting, gowner, owner>>
  BY <1>1 DEF guiVars, rosterVars
<1>3. AllViews' = AllViews
  BY <1>1, <1>2, GuiQueueStill, ViewsStill
<1>4. Agreeing(gowner, AllViews, toGui, owner, chats, toCore', reused)
  BY <1>1, ChatsType, AgreeServed DEF AgreeNow
<1>5. \A k \in ChatId \ reused : chats'[k] # None =>
         /\ k \notin reused /\ chats[k] # None /\ Kept(chats[k], chats'[k])
         /\ AllViews[k] \subseteq AllViews[k] /\ SameLast(toCore', toCore', k)
  <2>1. \A k \in ChatId : chats'[k] # None => chats'[k] = chats[k]
    BY <1>1, ChatsType
  <2> QED
    BY <2>1, SamePicks DEF Kept
<1>6. Agreeing(gowner, AllViews, toGui, owner, chats', toCore', reused)
  <2>1. PICK chs2 : chs2 = chats'
    OBVIOUS
  <2>2. PICK tc : tc = toCore'
    OBVIOUS
  <2>3. Agreeing(gowner, AllViews, toGui, owner, chs2, tc, reused)
    BY <1>4, <1>5, <2>1, <2>2, AgreeStill
  <2> QED
    BY <2>1, <2>2, <2>3
<1> QED
  BY <1>1, <1>2, <1>3, <1>6, AgreeSame

LEMMA AgreeTurned ==
  ASSUME NEW q \in Seq(NoteMsg),
         NEW g, NEW vs, NEW o, NEW chs \in [ChatId -> Chat \cup {None}], NEW tc, NEW X,
         Agreeing(g, vs, q, o, chs, tc, X),
         NEW k \in ChatId, NEW e \in Chosen, NEW chs2, TurnTo(k, e, chs, chs2),
         NEW tc2, SameOthers(k, tc, tc2),
         k \notin X => \/ e = None \/ o[e] = chs[k].contact
                       \/ tc2 = tc /\ chs[k].entry # None /\ o[chs[k].entry] # chs[k].contact
  PROVE  /\ Agreeing(g, vs, q \o <<ChatEntryChanged(k, e)>>, o, chs2, tc2, X)
         /\ q \o <<ChatEntryChanged(k, e)>> \in Seq(NoteMsg)
<1>1. PICK m : m = ChatEntryChanged(k, e)
  OBVIOUS
<1>2. m \in NoteMsg
  BY <1>1 DEF NoteMsg, ChatNote, ChatEntryChanged
<1>3. Longer(q, q \o <<m>>, m)
  BY <1>2, OneMore
<1>4. q \o <<m>> \in Seq(NoteMsg)
  BY <1>3 DEF Longer
<1>5. Agreeing(g, vs, q \o <<m>>, o, chs2, tc2, X)
  BY <1>1, <1>3, AgreeTurn
<1> QED
  BY <1>1, <1>4, <1>5

LEMMA ChangeEntryAgrees ==
  ASSUME TypeInv, AgreeNow, chatChangeEntry
  PROVE  AgreeNow'
<1>1. PICK k \in ChatId, f \in Chosen, e \in Chosen :
         /\ toCore # <<>> /\ Head(toCore) = ChatChangeEntry(k, f) /\ toCore' = Tail(toCore)
         /\ UNCHANGED <<rosterVars, nextChat, answer, stopped, guiVars, waiting, reused>>
         /\ e = IF f # None /\ owner[f] # None THEN f ELSE None
         /\ \/ /\ UNCHANGED <<chats, toGui>>
               /\ chats[k] # None => e = chats[k].entry \/ (e # None /\ owner[e] # chats[k].contact)
            \/ /\ chats[k] # None /\ (e = None \/ owner[e] = chats[k].contact)
               /\ chats' = [chats EXCEPT ![k].entry = e,
                                         ![k].addr = IF e = None THEN None ELSE addr[e]]
               /\ toGui' = toGui \o <<ChatEntryChanged(k, e)>>
  BY ChangeEntryFacts
<1>2. UNCHANGED <<open, gowner, answer, waiting, reused, owner>>
  BY <1>1 DEF guiVars, rosterVars
<1>3. AllViews' = AllViews
  <2>1. Awaited' = Awaited
    BY chatChangeEntryKind, SaidChats DEF ServeStep
  <2> QED
    BY <1>2, <2>1, ViewsStill
<1>4. Agreeing(gowner, AllViews, toGui, owner, chats, toCore, reused)
  BY DEF AgreeNow
<1>5. CASE /\ UNCHANGED <<chats, toGui>>
           /\ chats[k] # None => e = chats[k].entry \/ (e # None /\ owner[e] # chats[k].contact)
  <2>1. Agreeing(gowner, AllViews, toGui, owner, chats, Tail(toCore), reused)
    BY <1>1, <1>4, <1>5, ChatsType, AgreeIgnored
  <2> QED
    BY <1>1, <1>2, <1>3, <1>5, <2>1, AgreeSame, ZenonT(60)
<1>6. CASE /\ chats[k] # None /\ (e = None \/ owner[e] = chats[k].contact)
           /\ chats' = [chats EXCEPT ![k].entry = e,
                                     ![k].addr = IF e = None THEN None ELSE addr[e]]
           /\ toGui' = toGui \o <<ChatEntryChanged(k, e)>>
  <2>1. SameOthers(k, toCore, toCore')
    BY <1>1, ChatsType, PickFacts, LastServed DEF SameOthers
  <2>2. chats' \in [ChatId -> Chat \cup {None}] /\ chats[k] \in Chat
    BY <1>6, chatChangeEntryKind, ChatsType DEF CoreOK
  <2>3. /\ chats'[k].contact = chats[k].contact /\ chats'[k].entry = e
        /\ \A j \in ChatId \ {k} : chats'[j] = chats[j]
    BY <1>6, <2>2, ChatsType DEF Chat
  <2>4. chats'[k] # None
    BY <1>6, chatChangeEntryKind DEF ServeStep, SameChats
  <2>5. TurnTo(k, e, chats, chats')
    BY <1>6, <2>2, <2>3, <2>4 DEF TurnTo, OtherChats
  <2>6. PICK chs2, tc2 : chs2 = chats' /\ tc2 = toCore'
    OBVIOUS
  <2>7. Agreeing(gowner, AllViews, toGui \o <<ChatEntryChanged(k, e)>>, owner, chs2, tc2, reused)
    BY <1>4, <1>6, <2>1, <2>5, <2>6, ChatsType, AgreeTurned
  <2> QED
    BY <1>2, <1>3, <1>6, <2>6, <2>7, AgreeSame
<1> QED
  BY <1>1, <1>5, <1>6

\* The chatStart that is served is the one that the main thread waits for.
LEMMA StartServes ==
  ASSUME TypeInv, ChatInv, WaitInv, chatStart
  PROVE  /\ waiting \in Open /\ answer = None /\ nextChat \in ChatId /\ Ending = {}
         /\ toCore # <<>> /\ Head(toCore) = ChatStart(waiting.contact, waiting.entry)
         /\ waiting.entry # None => gowner[waiting.entry] = waiting.contact
         /\ waiting.entry = None => \A x \in EntryId : gowner[x] # waiting.contact
<1>1. toCore # <<>> /\ Head(toCore).call = "chatStart"
  BY DEF chatStart, Serving
<1>2. toCore[1] \in StartCall /\ 1 \in 1..Len(toCore) /\ Head(toCore) = toCore[1]
  BY <1>1, ServedCall
<1>3. 1 = Len(toCore) /\ waiting # None /\ answer = None /\ nextChat < MaxChats
  BY <1>2 DEF TypeInv, StartInv
<1>4. waiting \in Open /\ nextChat \in ChatId
  BY <1>3, ChatsAssumption DEF TypeInv, TypeOK, BridgeOK, CoreOK, ChatId
<1>5. Ending = {}
  <2>1. ASSUME NEW i \in 1..Len(toCore) PROVE toCore[i].call # "chatEnd"
    <3>1. i \in 1..1
      BY <1>3
    <3>2. i = 1
      BY <3>1
    <3> QED
      BY <1>1, <1>2, <3>2
  <2> QED
    BY <2>1 DEF Ending, Calls
<1>6. /\ Head(toCore) = ChatStart(waiting.contact, waiting.entry)
      /\ waiting.entry # None => gowner[waiting.entry] = waiting.contact
      /\ waiting.entry = None => \A x \in EntryId : gowner[x] # waiting.contact
  BY <1>2, <1>3 DEF WaitInv
<1> QED
  BY <1>1, <1>3, <1>4, <1>5, <1>6

LEMMA StartedAgrees ==
  ASSUME TypeInv, ChatInv, WaitInv, ZeroInv, AgreeNow, chatStart, answer' = nextChat,
         nextChat' = nextChat + 1, UNCHANGED <<rosterVars, toGui, guiVars, waiting, reused>>,
         toCore' = Tail(toCore), waiting.contact \in contacts,
         NEW e \in Chosen, NEW x, e = IF waiting.entry # None /\ owner[waiting.entry] # None
                                    THEN waiting.entry ELSE None,
         chats' = [chats EXCEPT ![nextChat] = [contact |-> waiting.contact, entry |-> e, addr |-> x]]
  PROVE  AgreeNow'
<1>1. /\ waiting \in Open /\ answer = None /\ nextChat \in ChatId
      /\ toCore # <<>> /\ Head(toCore) = ChatStart(waiting.contact, waiting.entry)
      /\ waiting.entry # None => gowner[waiting.entry] = waiting.contact
  BY StartServes
<1>2. PICK k \in ChatId : k = nextChat
  BY <1>1
<1>3. k \in Nat /\ k \notin Named
  BY <1>2, ChatIdNat DEF ChatInv, IdInv
<1>4. Unnamed(toGui, k)
  BY <1>3 DEF Unnamed, Named, Names, ChatNotes
<1>5. UNCHANGED <<open, gowner, owner, waiting, reused>>
  BY DEF guiVars, rosterVars
<1>6. Awaited' = Awaited /\ k \notin Awaited
  <2>1. k \notin Awaited
    BY <1>3 DEF Named, Names, Awaited, Notes, ChatNotes
  <2> QED
    BY <2>1, GuiQueueStill
<1>7. OtherChats(k, chats, chats') /\ FewerOthers(k, AllViews, AllViews')
  <2>1. \A j \in ChatId \ {k} : chats'[j] = chats[j]
    BY <1>2, ChatsType
  <2>2. ASSUME NEW j \in ChatId \ {k} PROVE View(j)' = View(j)
    <3>1. answer # j /\ answer' # j
      BY <1>1, <1>2, NoneIds, ChatIdNat
    <3> QED
      BY <1>5, <3>1 DEF View
  <2>3. ASSUME NEW j \in ChatId \ {k} PROVE Views(j)' = Views(j)
    BY <1>6, <2>2 DEF Views
  <2> QED
    BY <2>1, <2>3 DEF OtherChats, FewerOthers, AllViews
<1>8. chats'[k] = [contact |-> waiting.contact, entry |-> e, addr |-> x] /\ chats'[k] \in Chat
  <2>1. chats' \in [ChatId -> Chat \cup {None}]
    BY chatStartKind DEF CoreOK
  <2>2. chats'[k] = [contact |-> waiting.contact, entry |-> e, addr |-> x]
    BY <1>2, ChatsType
  <2>3. chats'[k] # None
    BY <1>2, NoneIds, ChatIdNat, chatStartKind DEF StartStep, ChatMade, SameChats
  <2> QED
    BY <2>1, <2>2, <2>3
<1>9. ASSUME NEW w \in Views(k)'
      PROVE  /\ w \in Open
             /\ w.contact = waiting.contact =>
                  /\ w.entry # None => gowner[w.entry] = w.contact
                  /\ e = w.entry \/ (e = None /\ w.entry # None /\ owner[w.entry] # w.contact)
  <2>1. w = View(k)' /\ w # None
    BY <1>6, <1>9 DEF Views
  <2>2. CASE open[k] # None
    <3>1. w = open[k] /\ w = View(k)
      BY <1>5, <2>1, <2>2 DEF View
    <3>2. k = 0
      <4>1. chats[k] = None
        BY <1>2, <1>3 DEF ChatInv, IdInv
      <4> QED
        BY <2>2, <4>1 DEF ChatInv, LifeInv
    <3>3. w.contact \notin contacts
      BY <1>2, <2>1, <3>1, <3>2 DEF ZeroInv
    <3> QED
      BY <2>1, <3>1, <3>3 DEF TypeInv, TypeOK, GuiOK
  <2>3. CASE open[k] = None
    <3>1. w = waiting
      BY <1>2, <1>5, <2>1, <2>3 DEF View
    <3>2. \A f : owner[f] # None \/ owner[f] # waiting.contact
      BY <1>1, NoneIds DEF Open, ContactId
    <3> QED
      BY <1>1, <3>1, <3>2
  <2> QED
    BY <2>2, <2>3
<1>10. PICK chs2, vs2, tc2 : chs2 = chats' /\ vs2 = AllViews' /\ tc2 = toCore'
  OBVIOUS
<1>11. StartAs(k, gowner, owner, chats, chs2, AllViews, vs2)
  BY <1>7, <1>8, <1>9, <1>10 DEF StartAs, AllViews
<1>12. SameOthers(k, toCore, tc2)
  <2>1. Head(toCore) \in CallMsg /\ Head(toCore).call # "chatChangeEntry"
    BY <1>1, ServedCall DEF ChatStart
  <2> QED
    BY <1>1, <1>10, <2>1, OtherCalls, ChatsType, LastServed DEF SameOthers
<1>13. Agreeing(gowner, vs2, toGui, owner, chs2, tc2, reused)
  BY <1>4, <1>11, <1>12, ChatsType, AgreeStart DEF AgreeNow
<1> QED
  BY <1>5, <1>10, <1>13 DEF AgreeNow

LEMMA MistakeAgreesNow ==
  ASSUME TypeInv, ChatInv, WaitInv, MadeInv, AgreeNow, chatStart, answer' = 0,
         UNCHANGED <<chats, rosterVars, toGui, guiVars, waiting, reused>>,
         toCore' = Tail(toCore), waiting.contact \notin contacts
  PROVE  AgreeNow'
<1>1. /\ waiting \in Open /\ answer = None /\ Ending = {}
      /\ toCore # <<>> /\ Head(toCore) = ChatStart(waiting.contact, waiting.entry)
      /\ waiting.entry # None => gowner[waiting.entry] = waiting.contact
      /\ waiting.entry = None => \A x \in EntryId : gowner[x] # waiting.contact
  BY StartServes
<1>2. PICK k \in ChatId : k = 0
  BY chatStartKind
<1>3. UNCHANGED <<open, gowner, owner, waiting, reused>>
  BY DEF guiVars, rosterVars
<1>4. Awaited' = Awaited
  BY GuiQueueStill
<1>5. \A j \in ChatId \ {k} : View(j)' = View(j)
  <2>1. ASSUME NEW j \in ChatId \ {k} PROVE answer # j /\ answer' # j
    BY <1>1, <1>2, NoneIds, ChatIdNat
  <2> QED
    BY <1>3, <2>1 DEF View
<1>6. /\ open[k] # None => View(k)' = View(k)
      /\ open[k] = None => View(k)' = waiting /\ View(k) = None
  BY <1>1, <1>2, <1>3, NoneIds DEF View
<1>7. ASSUME NEW j \in ChatId PROVE SameLast(toCore, toCore', j)
  <2>1. Head(toCore) \in CallMsg /\ Head(toCore).call # "chatChangeEntry"
    BY <1>1, ServedCall DEF ChatStart
  <2> QED
    BY <1>1, <2>1, OtherCalls, ChatsType, LastServed
<1>8. PICK vs2, tc2 : vs2 = AllViews' /\ tc2 = toCore'
  OBVIOUS
<1>9. CASE open[k] # None
  <2>1. \A j \in ChatId : View(j)' = View(j)
    BY <1>5, <1>6, <1>9
  <2>2. \A j \in ChatId : Views(j)' = Views(j)
    BY <1>4, <2>1 DEF Views
  <2>3. vs2 = AllViews
    BY <1>8, <2>2 DEF AllViews
  <2>4. \A j \in ChatId \ reused : chats[j] # None =>
           /\ j \notin reused /\ chats[j] # None /\ Kept(chats[j], chats[j])
           /\ vs2[j] \subseteq AllViews[j] /\ SameLast(toCore, tc2, j)
    BY <1>7, <1>8, <2>3 DEF Kept
  <2>5. Agreeing(gowner, vs2, toGui, owner, chats, tc2, reused)
    BY <2>4, AgreeStill DEF AgreeNow
  <2> QED
    BY <1>3, <1>8, <2>5 DEF AgreeNow
<1>10. CASE open[k] = None
  <2>1. chats[k] # None => k \in Awaited
    <3>1. chats[k] # None => First(k)
      BY <1>1, <1>10, NoneIds, ChatIdNat DEF ChatInv, KnownInv, Existing
    <3> QED
      BY <3>1 DEF First, Awaited
  <2>2. chats[k] # None => None \in AllViews[k]
    BY <2>1 DEF AllViews, Views
  <2>3. ASSUME NEW j \in ChatId
        PROVE  Views(j)' \subseteq IF j = k THEN Views(k) \cup {waiting} ELSE Views(j)
    BY <1>4, <1>5, <1>6, <1>10 DEF Views
  <2>4. \A j \in ChatId : vs2[j] \subseteq IF j = k THEN AllViews[k] \cup {waiting} ELSE AllViews[j]
    BY <1>8, <2>3 DEF AllViews
  <2>5. \A x \in EntryId : owner[x] # waiting.contact
    <3>1. waiting.contact \in ContactId /\ None \notin ContactId
      BY <1>1, NoneIds DEF Open, ContactId
    <3> QED
      BY <3>1 DEF MadeInv
  <2>6. MistakeAs(k, waiting, gowner, owner, chats, AllViews, vs2)
    BY <1>1, <2>2, <2>4, <2>5 DEF MistakeAs
  <2>7. SameAll(toCore, tc2)
    BY <1>7, <1>8 DEF SameAll
  <2>8. Agreeing(gowner, vs2, toGui, owner, chats, tc2, reused)
    BY <2>6, <2>7, ChatsType, AgreeMistake DEF AgreeNow
  <2> QED
    BY <1>3, <1>8, <2>8 DEF AgreeNow
<1> QED
  BY <1>9, <1>10

LEMMA StartAgreesNow ==
  ASSUME TypeInv, ChatInv, WaitInv, ZeroInv, MadeInv, AgreeNow, chatStart
  PROVE  AgreeNow'
<1>1. PICK c \in ContactId, f \in Chosen :
        /\ toCore # <<>> /\ Head(toCore) = ChatStart(c, f) /\ toCore' = Tail(toCore)
        /\ UNCHANGED <<rosterVars, toGui, stopped, guiVars, waiting, reused>>
        /\ \/ c \notin contacts /\ answer' = 0 /\ UNCHANGED <<chats, nextChat>>
           \/ \E e \in Chosen, x \in Address \cup {None} :
                 /\ c \in contacts /\ e = IF f # None /\ owner[f] # None THEN f ELSE None
                 /\ x = IF e = None THEN None ELSE addr[e]
                 /\ chats' = [chats EXCEPT ![nextChat] =
                                 [contact |-> c, entry |-> e, addr |-> x]]
                 /\ answer' = nextChat /\ nextChat' = nextChat + 1
  BY ChatStartFacts
<1>2. ChatStart(waiting.contact, waiting.entry) = ChatStart(c, f)
  BY <1>1, StartServes
<1>3. waiting.contact = c /\ waiting.entry = f
  BY <1>2 DEF ChatStart
<1>4. CASE c \notin contacts /\ answer' = 0 /\ UNCHANGED <<chats, nextChat>>
  <2>1. waiting.contact \notin contacts /\ answer' = 0 /\ UNCHANGED chats
    BY <1>3, <1>4
  <2>2. UNCHANGED <<chats, rosterVars, toGui, guiVars, waiting, reused>>
    BY <1>1, <2>1
  <2> QED
    BY <1>1, <2>1, <2>2, MistakeAgreesNow
<1>5. ASSUME NEW e \in Chosen, NEW x,
             c \in contacts, e = IF f # None /\ owner[f] # None THEN f ELSE None,
             chats' = [chats EXCEPT ![nextChat] = [contact |-> c, entry |-> e, addr |-> x]],
             answer' = nextChat, nextChat' = nextChat + 1
      PROVE  AgreeNow'
  <2>1. /\ waiting.contact \in contacts
        /\ e = IF waiting.entry # None /\ owner[waiting.entry] # None THEN waiting.entry ELSE None
        /\ chats' = [chats EXCEPT ![nextChat] = [contact |-> waiting.contact, entry |-> e, addr |-> x]]
    BY <1>3, <1>5
  <2>2. UNCHANGED <<rosterVars, toGui, guiVars, waiting, reused>> /\ toCore' = Tail(toCore)
    BY <1>1
  <2> QED
    BY <1>5, <2>1, <2>2, StartedAgrees
<1> QED
  BY <1>1, <1>4, <1>5

LEMMA JoinThree ==
  ASSUME NEW q \in Seq(NoteMsg), NEW r \in Seq(NoteMsg), NEW t \in Seq(NoteMsg),
         NEW u \in Seq(NoteMsg)
  PROVE  q \o ((r \o t) \o u) = ((q \o r) \o t) \o u
<1>1. PICK p \in Seq(NoteMsg) : p = r \o t
  BY Grows
<1>2. (q \o p) \o u = q \o (p \o u)
  BY ConcatAssociative, SMTT(30)
<1>3. (q \o r) \o t = q \o (r \o t)
  BY ConcatAssociative, SMTT(30)
<1> QED
  BY <1>1, <1>2, <1>3

LEMMA UnnamedJoin ==
  ASSUME NEW q \in Seq(NoteMsg), NEW r \in Seq(RosterNote), NEW k, Unnamed(q, k)
  PROVE  Unnamed(q \o r, k)
<1>1. r \in Seq(NoteMsg)
  BY SeqMonotonic DEF NoteMsg
<1>2. \A m \in RosterNote : m.note \notin {"chatIncoming", "chatEntryChanged"}
  BY DEF RosterNote
<1>3. ASSUME NEW i \in 1..Len(q \o r)
      PROVE  ~((q \o r)[i].note \in {"chatIncoming", "chatEntryChanged"} /\ (q \o r)[i].chat = k)
  <2>1. CASE i \in 1..Len(q)
    BY <1>1, <2>1, Grows DEF Unnamed
  <2>2. CASE i - Len(q) \in 1..Len(r)
    <3>1. PICK j \in 1..Len(r) : j = i - Len(q)
      BY <2>2
    <3>2. (q \o r)[Len(q) + j] = r[j] /\ Len(q) \in Nat /\ Len(q \o r) \in Nat
      BY <1>1, Grows, LenProperties
    <3>3. r[j] \in RosterNote
      BY ElementOfSeq
    <3>4. Len(q) + j = i
      BY <1>3, <3>1, <3>2
    <3> QED
      BY <1>2, <3>2, <3>3, <3>4
  <2> QED
    BY <1>1, <2>1, <2>2, Grows
<1> QED
  BY <1>3 DEF Unnamed

\* Who sent a message is met before the message is told.
LEMMA MetAgrees ==
  ASSUME TypeInv, MadeInv, AgreeNow, NEW x \in Address, NEW c \in ContactId, NEW e \in EntryId,
         NEW held, NEW met \in Seq(RosterNote), Met(x, c, e, held, met)
  PROVE  /\ Agreeing(gowner, AllViews, toGui \o met, owner', held, toCore, reused')
         /\ toGui \o met \in Seq(NoteMsg) /\ owner'[e] = c
         /\ \A k \in ChatId \ reused' : k \notin reused /\ held[k] = chats[k]
         /\ \A d \in EntryId : d # e /\ addr[d] = x /\ d < nextEntry => owner'[d] = None
         /\ c \in contacts \/ c = nextContact
<1>1. None \notin ContactId
  BY NoneIds DEF ContactId
<1>2. CASE /\ owner[e] = c /\ addr[e] = x /\ held = chats /\ met = <<>>
           /\ UNCHANGED <<rosterVars, reused>>
  <2>1. toGui \o met = toGui /\ owner' = owner
    BY <1>2, ChatsType, ConcatEmptySeq DEF rosterVars
  <2>2. \A d \in EntryId : d # e /\ addr[d] = x => owner[d] = None
    BY <1>1, <1>2 DEF MadeInv
  <2>3. c \in contacts
    BY <1>1, <1>2 DEF MadeInv
  <2> QED
    BY <1>2, <2>1, <2>2, <2>3, ChatsType DEF AgreeNow
<1>3. CASE /\ EntriesAt(x) = {} /\ c = nextContact /\ e = nextEntry /\ held \in Rebound(e)
           /\ met = <<ContactAdded(c), EntryAdded(c, e)>>
           /\ WithContact(c) /\ MakeEntry(e, c, x) /\ Reused(held)
  <2>1. Agreeing(gowner, AllViews, toGui, owner, chats, toCore, reused)
    BY DEF AgreeNow
  <2>2. /\ Agreeing(gowner, AllViews, toGui \o <<ContactAdded(c)>>, owner, chats, toCore, reused)
        /\ toGui \o <<ContactAdded(c)>> \in Seq(NoteMsg)
    BY <2>1, ContactNotes, ChatsType, AgreeContact
  <2>3. owner[e] = None
    BY <1>3, NewEntry
  <2>4. /\ Agreeing(gowner, AllViews, (toGui \o <<ContactAdded(c)>>) \o <<EntryAdded(c, e)>>,
                    [owner EXCEPT ![e] = c], chats, toCore, reused)
        /\ (toGui \o <<ContactAdded(c)>>) \o <<EntryAdded(c, e)>> \in Seq(NoteMsg)
    BY <2>2, <2>3, ChatsType, AgreeAdded
  <2>5. Agreeing(gowner, AllViews, (toGui \o <<ContactAdded(c)>>) \o <<EntryAdded(c, e)>>,
                 [owner EXCEPT ![e] = c], held, toCore, reused')
    BY <1>3, <2>4, AgreeReused
  <2>6. ContactAdded(c) \in NoteMsg /\ EntryAdded(c, e) \in NoteMsg
    BY NewOwners DEF NoteMsg
  <2>7. (toGui \o <<ContactAdded(c)>>) \o <<EntryAdded(c, e)>> = toGui \o met
    <3>1. met = <<ContactAdded(c)>> \o <<EntryAdded(c, e)>>
      BY <1>3, <2>6, TwoOnes
    <3>2. <<ContactAdded(c)>> \in Seq(NoteMsg) /\ <<EntryAdded(c, e)>> \in Seq(NoteMsg)
      BY <2>6, One
    <3> QED
      BY <3>1, <3>2, ChatsType, ConcatAssociative
  <2>8. owner' = [owner EXCEPT ![e] = c] /\ owner'[e] = c
    BY <1>3, ChatsType DEF MakeEntry, Owners
  <2>9. \A k \in ChatId \ reused' : k \notin reused /\ held[k] = chats[k]
    BY <1>3 DEF Reused
  <2>10. \A d \in EntryId : d # e /\ addr[d] = x => owner'[d] = None
    <3>1. \A d \in EntryId : addr[d] = x => owner[d] = None
      BY <1>3 DEF EntriesAt
    <3> QED
      BY <2>8, <3>1, ChatsType DEF Owners
  <2> QED
    BY <1>3, <2>4, <2>5, <2>7, <2>8, <2>9, <2>10
<1> QED
  BY <1>2, <1>3 DEF Met

LEMMA MakesAgrees ==
  ASSUME TypeInv, ChatInv, MadeInv, ZeroInv, AgreeNow, NEW x \in Address, MessageReceived(x), CoreIdle,
         NEW c \in ContactId, NEW e \in EntryId, NEW held \in [ChatId -> Chat \cup {None}],
         NEW met \in Seq(RosterNote), Met(x, c, e, held, met), MakesChat(x, c, e, held, met)
  PROVE  AgreeNow'
<1>1. /\ nextChat' = nextChat + 1
      /\ chats' = [held EXCEPT ![nextChat] = [contact |-> c, entry |-> e, addr |-> x]]
      /\ toGui' = toGui \o (met \o <<ChatIncoming(nextChat, c, e), ChatMessageReceived(nextChat)>>)
  BY DEF MakesChat
<1>2. NewChatStep /\ nextChat \in ChatId
  <2>1. ~SayStep
    BY <1>1 DEF SayStep, SameChats, TypeInv, TypeOK, CoreOK
  <2>2. NewChatStep
    BY <2>1, MessageReceivedKind
  <2> QED
    BY <2>2 DEF NewChatStep, ChatMade
<1>3. PICK k \in ChatId : k = nextChat
  BY <1>2
<1>4. k \in Nat /\ k \notin Named /\ chats[k] = None
  BY <1>3, ChatIdNat DEF ChatInv, IdInv
<1>5. Awaited' = Awaited \cup {k}
  BY <1>2, <1>3, <1>4, NewChatSaid
<1>6. /\ Agreeing(gowner, AllViews, toGui \o met, owner', held, toCore, reused')
      /\ toGui \o met \in Seq(NoteMsg) /\ owner'[e] = c /\ (c \in contacts \/ c = nextContact)
  BY MetAgrees
<1>7. UNCHANGED <<open, answer, waiting, gowner, toCore>>
  BY DEF CoreIdle, guiVars
<1>8. Unnamed(toGui \o met, k)
  <2>1. Unnamed(toGui, k)
    BY <1>4 DEF Unnamed, Named, Names, ChatNotes
  <2> QED
    BY <2>1, ChatsType, UnnamedJoin
<1>9. \A j \in ChatId : View(j)' = View(j)
  BY <1>7 DEF View
<1>10. ASSUME NEW j \in ChatId \ {k} PROVE Views(j)' = Views(j)
  BY <1>5, <1>9 DEF Views
<1>11. ASSUME NEW w \in Views(k)', w # None PROVE w \in Open /\ w.contact # c
  <2>1. w = View(k)
    BY <1>9, <1>11 DEF Views
  <2>2. w \in Open
    BY <1>11, <2>1, ViewType
  <2>3. k = 0
    BY <1>4, <1>11, <2>1 DEF View, ChatInv, LifeInv
  <2>4. w.contact \notin contacts /\ w.contact < nextContact
    BY <1>3, <1>11, <2>1, <2>3 DEF ZeroInv
  <2>5. nextContact \in Nat
    BY DEF TypeInv, TypeOK, CoreOK
  <2> QED
    BY <1>6, <2>2, <2>4, <2>5
<1>12. PICK chs2, vs2, o2 : chs2 = chats' /\ vs2 = AllViews' /\ o2 = owner'
  OBVIOUS
<1>13. PICK m : m = ChatIncoming(k, c, e)
  OBVIOUS
<1>14. PICK n : n = ChatMessageReceived(k)
  OBVIOUS
<1>15. m \in NoteMsg /\ n \in NoteMsg
  BY <1>13, <1>14, MessageNote DEF NoteMsg, ChatNote, ChatIncoming
<1>16. chs2 \in [ChatId -> Chat \cup {None}] /\ chs2[k] = [contact |-> c, entry |-> e, addr |-> x]
  BY <1>1, <1>3, <1>12, MessageReceivedKind DEF CoreOK
<1>17. chs2[k] \in Chat
  BY <1>16 DEF Chat
<1>18. OpenAs(k, c, e, o2, held, chs2, AllViews, vs2)
  <2>1. OtherChats(k, held, chs2)
    BY <1>1, <1>3, <1>12 DEF OtherChats
  <2>2. FewerOthers(k, AllViews, vs2)
    BY <1>10, <1>12 DEF FewerOthers, AllViews
  <2>3. \A w \in vs2[k] : w \in Open \cup {None} /\ (w = None \/ w.contact # c)
    BY <1>11, <1>12 DEF AllViews
  <2> QED
    BY <1>6, <1>12, <1>16, <1>17, <2>1, <2>2, <2>3 DEF OpenAs
<1>19. Longer(toGui \o met, (toGui \o met) \o <<m>>, m)
  BY <1>6, <1>15, OneMore
<1>20. Agreeing(gowner, AllViews, toGui \o met, o2, held, toCore, reused')
  BY <1>6, <1>12
<1>21. Agreeing(gowner, vs2, (toGui \o met) \o <<m>>, o2, chs2, toCore, reused')
  BY <1>8, <1>13, <1>18, <1>19, <1>20, AgreeOpen
<1>22. (toGui \o met) \o <<m>> \in Seq(NoteMsg)
  BY <1>19 DEF Longer
<1>23. Agreeing(gowner, vs2, ((toGui \o met) \o <<m>>) \o <<n>>, o2, chs2, toCore, reused')
  BY <1>14, <1>15, <1>16, <1>21, <1>22, MessageNote, AgreeContact
<1>24. ((toGui \o met) \o <<m>>) \o <<n>> = toGui'
  <2>1. met \in Seq(NoteMsg)
    BY SeqMonotonic DEF NoteMsg
  <2>2. toGui' = toGui \o (met \o <<m, n>>)
    BY <1>1, <1>3, <1>13, <1>14
  <2> QED
    <3>1. <<m>> \in Seq(NoteMsg) /\ <<n>> \in Seq(NoteMsg) /\ <<m, n>> = <<m>> \o <<n>>
      BY <1>15, One, TwoOnes
    <3>2. met \o (<<m>> \o <<n>>) = (met \o <<m>>) \o <<n>>
      BY <2>1, <3>1, ConcatAssociative
    <3> QED
      BY <2>1, <2>2, <3>1, <3>2, ChatsType, JoinThree, SMTT(30)
<1> QED
  BY <1>7, <1>12, <1>23, <1>24 DEF AgreeNow

LEMMA TurnsAgrees ==
  ASSUME TypeInv, MadeInv, AddrInv, AgreeNow, NEW x \in Address, MessageReceived(x), CoreIdle,
         NEW c \in ContactId, NEW e \in EntryId, NEW held \in [ChatId -> Chat \cup {None}],
         NEW met \in Seq(RosterNote), Met(x, c, e, held, met),
         NEW k \in ChatId, held[k] # None, held[k].addr = x \/ held[k].contact = c,
         TurnsChat(k, x, c, e, held, met)
  PROVE  AgreeNow'
<1>1. /\ UNCHANGED nextChat
      /\ chats' = [held EXCEPT ![k].entry = e, ![k].addr = x]
      /\ toGui' = toGui \o (met \o (IF held[k].entry = e THEN <<>> ELSE <<ChatEntryChanged(k, e)>>)
                              \o <<ChatMessageReceived(k)>>)
  BY DEF TurnsChat
<1>2. AllViews' = AllViews /\ UNCHANGED <<gowner, toCore>>
  <2>1. ~NewChatStep
    <3>1. nextChat' # nextChat + 1
      BY <1>1 DEF TypeInv, TypeOK, CoreOK
    <3> QED
      BY <3>1 DEF NewChatStep, ChatMade
  <2> QED
    BY <2>1, MessageReceivedKind, SayViews
<1>3. /\ Agreeing(gowner, AllViews, toGui \o met, owner', held, toCore, reused')
      /\ toGui \o met \in Seq(NoteMsg) /\ owner'[e] = c
      /\ \A j \in ChatId \ reused' : j \notin reused /\ held[j] = chats[j]
      /\ \A d \in EntryId : d # e /\ addr[d] = x /\ d < nextEntry => owner'[d] = None
  BY MetAgrees
<1>4. PICK chs2, o2, X2 : chs2 = chats' /\ o2 = owner' /\ X2 = reused'
  OBVIOUS
<1>5. /\ chs2 \in [ChatId -> Chat \cup {None}] /\ held[k] \in Chat
      /\ chs2[k] = [held[k] EXCEPT !.entry = e, !.addr = x]
      /\ \A j \in ChatId \ {k} : chs2[j] = held[j]
  BY <1>1, <1>4, MessageReceivedKind DEF CoreOK
<1>6. chs2[k].contact = held[k].contact /\ chs2[k].entry = e /\ chs2[k] \in Chat
  BY <1>5 DEF Chat
<1>7. PICK m : m = ChatEntryChanged(k, e)
  OBVIOUS
<1>8. PICK n : n = ChatMessageReceived(k)
  OBVIOUS
<1>9. m \in NoteMsg /\ n \in NoteMsg /\ met \in Seq(NoteMsg)
  BY <1>7, <1>8, MessageNote, SeqMonotonic DEF NoteMsg, ChatNote, ChatEntryChanged, Chosen
<1>10. CASE held[k].entry = e
  <2>1. \A j \in ChatId : chs2[j] # None => held[j] # None /\ Kept(held[j], chs2[j])
    BY <1>5, <1>6, <1>10 DEF Kept
  <2>2. \A j \in ChatId \ X2 : chs2[j] # None =>
           /\ j \notin X2 /\ held[j] # None /\ Kept(held[j], chs2[j])
           /\ AllViews[j] \subseteq AllViews[j] /\ SameLast(toCore, toCore, j)
    BY <2>1, SamePicks
  <2>3. Agreeing(gowner, AllViews, toGui \o met, o2, held, toCore, X2)
    BY <1>3, <1>4
  <2>4. Agreeing(gowner, AllViews, toGui \o met, o2, chs2, toCore, X2)
    BY <2>2, <2>3, AgreeStill
  <2>5. Agreeing(gowner, AllViews, (toGui \o met) \o <<n>>, o2, chs2, toCore, X2)
    BY <1>3, <1>5, <1>8, <2>4, MessageNote, AgreeContact
  <2>6. (toGui \o met) \o <<n>> = toGui'
    <3>1. toGui' = toGui \o (met \o <<>> \o <<n>>)
      BY <1>1, <1>8, <1>10
    <3>2. met \o <<>> = met /\ <<n>> \in Seq(NoteMsg)
      BY <1>9, One, ConcatEmptySeq
    <3> QED
      BY <1>9, <3>1, <3>2, ChatsType, ConcatAssociative
  <2> QED
    BY <1>2, <1>4, <2>5, <2>6, AgreeSame
<1>11. CASE held[k].entry # e
  <2>1. TurnTo(k, e, held, chs2)
    BY <1>5, <1>6 DEF TurnTo, OtherChats
  <2>2. SameOthers(k, toCore, toCore)
    BY SamePicks DEF SameOthers
  <2>3. k \notin X2 => \/ e = None \/ o2[e] = held[k].contact
                       \/ /\ toCore = toCore
                          /\ held[k].entry # None /\ o2[held[k].entry] # held[k].contact
    <3> SUFFICES ASSUME k \notin X2, held[k].contact # c
                 PROVE  held[k].entry # None /\ o2[held[k].entry] # held[k].contact
      BY <1>3, <1>4
    <3>1. k \notin reused /\ held[k] = chats[k] /\ held[k].addr = x
      BY <1>3, <1>4
    <3>2. AddrRight(held[k], nextEntry, addr)
      BY <3>1 DEF AddrInv
    <3>3. x # None
      BY ChatsAssumption
    <3>4. held[k].entry # None /\ held[k].entry < nextEntry /\ addr[held[k].entry] = x
      BY <3>1, <3>2, <3>3 DEF AddrRight
    <3>5. held[k].entry \in EntryId /\ held[k].contact \in ContactId
      BY <1>5, <3>4 DEF Chat
    <3>6. o2[held[k].entry] = None
      BY <1>3, <1>4, <1>11, <3>4, <3>5
    <3> QED
      BY <3>4, <3>5, <3>6, NoneIds DEF ContactId
  <2>4. Agreeing(gowner, AllViews, toGui \o met, o2, held, toCore, X2)
    BY <1>3, <1>4
  <2>5. e \in Chosen
    BY DEF Chosen
  <2>6. /\ Agreeing(gowner, AllViews, (toGui \o met) \o <<m>>, o2, chs2, toCore, X2)
        /\ (toGui \o met) \o <<m>> \in Seq(NoteMsg)
    <3>1. PICK q : q = toGui \o met
      OBVIOUS
    <3>2. q \in Seq(NoteMsg) /\ Agreeing(gowner, AllViews, q, o2, held, toCore, X2)
      BY <1>3, <2>4, <3>1
    <3>3. /\ Agreeing(gowner, AllViews, q \o <<ChatEntryChanged(k, e)>>, o2, chs2, toCore, X2)
          /\ q \o <<ChatEntryChanged(k, e)>> \in Seq(NoteMsg)
      BY <2>1, <2>2, <2>3, <2>5, <3>2, AgreeTurned, SMTT(30)
    <3> QED
      BY <1>7, <3>1, <3>3
  <2>7. Agreeing(gowner, AllViews, ((toGui \o met) \o <<m>>) \o <<n>>, o2, chs2, toCore, X2)
    BY <1>5, <1>8, <2>6, MessageNote, AgreeContact
  <2>8. ((toGui \o met) \o <<m>>) \o <<n>> = toGui'
    <3>1. toGui' = toGui \o (met \o <<m>> \o <<n>>)
      BY <1>1, <1>7, <1>8, <1>11
    <3>2. <<m>> \in Seq(NoteMsg) /\ <<n>> \in Seq(NoteMsg)
      BY <1>9, One
    <3> QED
      BY <1>9, <3>1, <3>2, ChatsType, JoinThree, SMTT(30)
  <2> QED
    BY <1>2, <1>4, <2>7, <2>8, AgreeSame
<1> QED
  BY <1>10, <1>11

LEMMA MessageAgrees ==
  ASSUME TypeInv, ChatInv, MadeInv, AddrInv, ZeroInv, AgreeNow, NEW x \in Address, MessageReceived(x)
  PROVE  AgreeNow'
<1>1. CoreIdle
  BY MessageFacts
<1>2. PICK e \in EntryId, c \in ContactId, held \in [ChatId -> Chat \cup {None}],
         met \in Seq(RosterNote) :
         /\ Met(x, c, e, held, met)
         /\ \/ MakesChat(x, c, e, held, met)
            \/ \E k \in ChatId : /\ held[k] # None
                                 /\ held[k].addr = x \/ held[k].contact = c
                                 /\ TurnsChat(k, x, c, e, held, met)
  BY MessageFacts
<1>3. CASE MakesChat(x, c, e, held, met)
  BY <1>1, <1>2, <1>3, MakesAgrees
<1>4. ASSUME NEW k \in ChatId, held[k] # None, held[k].addr = x \/ held[k].contact = c,
             TurnsChat(k, x, c, e, held, met)
      PROVE  AgreeNow'
  BY <1>1, <1>2, <1>4, TurnsAgrees
<1> QED
  BY <1>2, <1>3, <1>4

LEMMA TypingAgrees ==
  ASSUME TypeInv, AgreeNow, NEW x \in Address, TypingReceived(x)
  PROVE  AgreeNow'
<1>1. UNCHANGED coreVars /\ CoreIdle /\ SayStep
  BY TypingFacts, TypingReceivedKind
<1>2. AllViews' = AllViews /\ UNCHANGED <<gowner, toCore>>
  BY <1>1, SayViews
<1>3. UNCHANGED <<chats, owner, reused>>
  BY <1>1 DEF coreVars, rosterVars
<1>4. CASE UNCHANGED toGui
  BY <1>2, <1>3, <1>4, AgreeSame DEF AgreeNow
<1>5. ASSUME NEW k \in ChatId, toGui' = toGui \o <<ChatMessageReceived(k)>> PROVE AgreeNow'
  <2>1. Agreeing(gowner, AllViews, toGui \o <<ChatMessageReceived(k)>>, owner, chats, toCore, reused)
    BY ChatsType, MessageNote, AgreeContact DEF AgreeNow
  <2> QED
    BY <1>2, <1>3, <1>5, <2>1, AgreeSame
<1> QED
  BY <1>4, <1>5, TypingFacts

LEMMA ServerAgrees ==
  ASSUME TypeInv, ChatInv, MadeInv, AddrInv, ZeroInv, AgreeNow, Server
  PROVE  AgreeNow'
  BY ItemAddedAgrees, MessageAgrees, TypingAgrees, ItemUpdatedAgrees, ItemRemovedAgrees DEF Server

LEMMA CoreServesAgrees ==
  ASSUME TypeInv, ChatInv, MadeInv, WaitInv, ZeroInv, AgreeNow, CoreServes
  PROVE  AgreeNow'
  BY StartAgreesNow, ChangeEntryAgrees, EndAgrees, SendAgrees, ContactRemoveAgrees,
     EntryChangeContactAgrees DEF CoreServes

----------------------------------------------------------------------------
(* What the user does to the agreement. *)

\* Calls that pick no entry, and chats that the user interface ends.
LEMMA UserStill ==
  ASSUME TypeInv, AgreeNow, UNCHANGED <<chats, owner, gowner, toGui, reused>>,
         NEW r \in Seq(CallMsg), toCore' = toCore \o r, \A k \in ChatId : Silent(r, Picks(k)),
         \A k \in ChatId : Views(k)' \subseteq Views(k)
  PROVE  AgreeNow'
<1>1. PICK vs2, tc2 : vs2 = AllViews' /\ tc2 = toCore'
  OBVIOUS
<1>2. \A k \in ChatId : vs2[k] \subseteq AllViews[k]
  BY <1>1 DEF AllViews
<1>3. \A k \in ChatId : SameLast(toCore, tc2, k)
  BY <1>1, ChatsType, SilentJoin
<1>4. \A k \in ChatId \ reused : chats[k] # None =>
         /\ k \notin reused /\ chats[k] # None /\ Kept(chats[k], chats[k])
         /\ vs2[k] \subseteq AllViews[k] /\ SameLast(toCore, tc2, k)
  BY <1>2, <1>3 DEF Kept
<1>5. Agreeing(gowner, vs2, toGui, owner, chats, tc2, reused)
  BY <1>4, AgreeStill DEF AgreeNow
<1> QED
  BY <1>1, <1>5 DEF AgreeNow

\* One call, and the same chats.
LEMMA UserCalls ==
  ASSUME TypeInv, AgreeNow, UNCHANGED <<chats, owner, gowner, toGui, reused, open>>,
         waiting = None, UNCHANGED answer,
         NEW m \in CallMsg, m.call # "chatChangeEntry", toCore' = toCore \o <<m>>
  PROVE  AgreeNow'
<1>1. <<m>> \in Seq(CallMsg) /\ \A k \in ChatId : Silent(<<m>>, Picks(k))
  BY OtherCalls
<1>2. ASSUME NEW k \in ChatId PROVE Views(k)' \subseteq Views(k)
  <2>1. View(k)' = View(k)
    BY WindowIds, NoneIds, ChatIdNat DEF View
  <2>2. Awaited' = Awaited
    BY GuiQueueStill
  <2> QED
    BY <2>1, <2>2 DEF Views
<1> QED
  BY <1>1, <1>2, UserStill

LEMMA EndChatAgrees ==
  ASSUME TypeInv, AgreeNow, NEW c \in ContactId, EndChat(c)
  PROVE  AgreeNow'
<1>1. PICK typed \in {<<>>, <<ChatMessageSend(windows[c])>>} :
         toCore' = toCore \o (typed \o <<ChatEnd(windows[c])>>)
  BY DEF EndChat, Call
<1>2. /\ UNCHANGED <<gowner, answer, toGui, waiting>> /\ waiting = None
      /\ open' = [open EXCEPT ![windows[c]] = None] /\ UNCHANGED coreVars
  BY DEF EndChat, GuiIdle, Free
<1>3. UNCHANGED <<chats, owner, reused>>
  BY <1>2 DEF coreVars, rosterVars
<1>4. windows[c] \in ChatId
  BY EndChatType
<1>5. ASSUME NEW k \in ChatId PROVE Views(k)' \subseteq Views(k)
  <2>1. answer = None /\ View(k) = open[k]
    BY <1>2, WindowIds
  <2>2. View(k)' = open'[k]
    BY <1>2, <2>1, NoneIds, ChatIdNat DEF View
  <2>3. open'[k] = open[k] \/ open'[k] = None
    BY <1>2, <1>4 DEF TypeInv, TypeOK, GuiOK
  <2>4. Awaited' = Awaited
    BY <1>2, GuiQueueStill
  <2> QED
    BY <2>1, <2>2, <2>3, <2>4 DEF Views
<1>6. PICK r : r = typed \o <<ChatEnd(windows[c])>>
  OBVIOUS
<1>7. /\ r \in Seq(CallMsg)
      /\ \A k \in ChatId : Silent(r, Picks(k))
  <2>1. /\ ChatEnd(windows[c]) \in CallMsg /\ ChatEnd(windows[c]).call # "chatChangeEntry"
        /\ ChatMessageSend(windows[c]) \in CallMsg
        /\ ChatMessageSend(windows[c]).call # "chatChangeEntry"
    BY <1>4 DEF ChatEnd, ChatMessageSend, CallMsg, EndCall, PlainCall
  <2>2. /\ <<ChatEnd(windows[c])>> \in Seq(CallMsg)
        /\ \A k \in ChatId : Silent(<<ChatEnd(windows[c])>>, Picks(k))
    BY <2>1, OtherCalls
  <2>3. typed \in Seq(CallMsg) /\ \A k \in ChatId : Silent(typed, Picks(k))
    BY <2>1, OtherCalls, EmptySeq, NothingIn
  <2> QED
    BY <1>6, <2>2, <2>3, SilentJoin
<1> QED
  BY <1>1, <1>2, <1>3, <1>5, <1>6, <1>7, UserStill

LEMMA PickEntryAgrees ==
  ASSUME TypeInv, AgreeNow, NEW k \in ChatId, NEW e \in EntryId, PickEntry(k, e)
  PROVE  AgreeNow'
<1>1. /\ UNCHANGED <<gowner, answer, toGui, waiting>> /\ waiting = None /\ UNCHANGED coreVars
      /\ open[k] # None /\ gowner[e] = open[k].contact
      /\ toCore' = toCore \o <<ChatChangeEntry(k, e)>> /\ open' = SetActive({k}, e)
  BY DEF PickEntry, GuiIdle, Free, Listed, Call
<1>2. UNCHANGED <<chats, owner, reused>>
  BY <1>1 DEF coreVars, rosterVars
<1>3. answer = None /\ \A j \in ChatId : View(j) = open[j]
  BY <1>1, WindowIds
<1>4. \A j \in ChatId : View(j)' = open'[j]
  BY <1>1, <1>3, NoneIds, ChatIdNat DEF View
<1>5. open'[k] = [open[k] EXCEPT !.entry = e] /\ \A j \in ChatId \ {k} : open'[j] = open[j]
  BY <1>1 DEF SetActive
<1>6. Awaited' = Awaited
  BY <1>1, GuiQueueStill
<1>7. PICK vs2, tc2 : vs2 = AllViews' /\ tc2 = toCore'
  OBVIOUS
<1>8. PickAs(k, open[k], e, gowner, AllViews, vs2)
  <2>1. open[k] \in AllViews[k]
    BY <1>1, <1>3 DEF AllViews, Views
  <2>2. \A j \in ChatId \ {k} : Views(j)' = Views(j)
    BY <1>3, <1>4, <1>5, <1>6 DEF Views
  <2>3. Views(k)' \subseteq {[open[k] EXCEPT !.entry = e]} \cup (Views(k) \cap {None})
    BY <1>4, <1>5, <1>6 DEF Views
  <2> QED
    BY <1>1, <1>7, <2>1, <2>2, <2>3 DEF PickAs, FewerOthers, AllViews
<1>9. e \in Chosen
  BY DEF Chosen
<1>10. /\ ChatChangeEntry(k, e) \in CallMsg /\ ChatChangeEntry(k, e) \in Picks(k)
       /\ \A j \in ChatId : j # k => ChatChangeEntry(k, e) \notin Picks(j)
  BY <1>9, PickFacts DEF CallMsg
<1>11. /\ <<ChatChangeEntry(k, e)>> \in Seq(CallMsg)
       /\ LastPick(<<ChatChangeEntry(k, e)>>, k, e)
       /\ \A j \in ChatId \ {k} : Silent(<<ChatChangeEntry(k, e)>>, Picks(j))
  BY <1>10, One, OneIn DEF LastPick
<1>12. LastPick(tc2, k, e)
  BY <1>1, <1>7, <1>9, <1>11, ChatsType, SilentJoin
<1>13. SameOthers(k, toCore, tc2)
  BY <1>1, <1>7, <1>11, ChatsType, SilentJoin DEF SameOthers
<1>14. Agreeing(gowner, vs2, toGui, owner, chats, tc2, reused)
  BY <1>8, <1>9, <1>12, <1>13, ChatsType, AgreePick DEF AgreeNow
<1> QED
  BY <1>1, <1>2, <1>7, <1>14 DEF AgreeNow

LEMMA UserAgrees ==
  ASSUME TypeInv, AgreeNow, User
  PROVE  AgreeNow'
<1>1. ASSUME NEW c \in ContactId, NEW e \in EntryId \cup {None}, StartChat(c, e) PROVE AgreeNow'
  <2>1. /\ UNCHANGED <<guiVars, coreVars, answer, toGui>> /\ waiting = None
        /\ toCore' = toCore \o <<ChatStart(c, e)>>
    BY <1>1 DEF StartChat, Free, GuiIdle, Call
  <2>2. ChatStart(c, e) \in CallMsg /\ ChatStart(c, e).call # "chatChangeEntry"
    BY DEF ChatStart, CallMsg, StartCall, Chosen
  <2>3. UNCHANGED <<chats, owner, gowner, toGui, reused, open>>
    BY <2>1 DEF guiVars, coreVars, rosterVars
  <2> QED
    BY <2>1, <2>2, <2>3, UserCalls
<1>2. ASSUME NEW c \in ContactId, Send(c) PROVE AgreeNow'
  <2>1. /\ UNCHANGED <<guiVars, coreVars, answer, toGui>> /\ waiting = None
        /\ toCore' = toCore \o <<ChatMessageSend(windows[c])>> /\ windows[c] \in ChatId
    BY <1>2 DEF Send, Free, GuiIdle, Call, TypeInv, TypeOK, GuiOK
  <2>2. ChatMessageSend(windows[c]) \in CallMsg /\ ChatMessageSend(windows[c]).call # "chatChangeEntry"
    BY <2>1 DEF ChatMessageSend, CallMsg, PlainCall
  <2>3. UNCHANGED <<chats, owner, gowner, toGui, reused, open>>
    BY <2>1 DEF guiVars, coreVars, rosterVars
  <2> QED
    BY <2>1, <2>2, <2>3, UserCalls
<1>3. ASSUME NEW c \in ContactId, RemoveContact(c) PROVE AgreeNow'
  <2>1. /\ UNCHANGED <<guiVars, coreVars, answer, toGui>> /\ waiting = None
        /\ toCore' = toCore \o <<ContactRemove(c)>>
    BY <1>3 DEF RemoveContact, Free, GuiIdle, Call
  <2>2. ContactRemove(c) \in CallMsg /\ ContactRemove(c).call # "chatChangeEntry"
    BY DEF ContactRemove, CallMsg, PlainCall
  <2>3. UNCHANGED <<chats, owner, gowner, toGui, reused, open>>
    BY <2>1 DEF guiVars, coreVars, rosterVars
  <2> QED
    BY <2>1, <2>2, <2>3, UserCalls
<1>4. ASSUME NEW e \in EntryId, NEW d \in ContactId, MoveEntry(e, d) PROVE AgreeNow'
  <2>1. /\ UNCHANGED <<guiVars, coreVars, answer, toGui>> /\ waiting = None
        /\ toCore' = toCore \o <<EntryChangeContact(e, gowner[e], d)>>
        /\ gowner[e] \in ContactId
    BY <1>4 DEF MoveEntry, Free, GuiIdle, Call, TypeInv, TypeOK, GuiOK
  <2>2. /\ EntryChangeContact(e, gowner[e], d) \in CallMsg
        /\ EntryChangeContact(e, gowner[e], d).call # "chatChangeEntry"
    BY <2>1 DEF EntryChangeContact, CallMsg, PlainCall
  <2>3. UNCHANGED <<chats, owner, gowner, toGui, reused, open>>
    BY <2>1 DEF guiVars, coreVars, rosterVars
  <2> QED
    BY <2>1, <2>2, <2>3, UserCalls
<1> QED
  BY <1>1, <1>2, <1>3, <1>4, EndChatAgrees, PickEntryAgrees DEF User

LEMMA StartedStill ==
  ASSUME TypeInv, AgreeNow, ChatStarted
  PROVE  AgreeNow'
<1>1. UNCHANGED <<coreVars, toCore, toGui, gowner>>
  BY DEF ChatStarted
<1>2. UNCHANGED <<chats, owner, reused>>
  BY <1>1 DEF coreVars, rosterVars
<1>3. \A k \in ChatId : Views(k)' = Views(k)
  BY <1>1, StartedViews, GuiQueueStill DEF Views
<1>4. AllViews' = AllViews
  BY <1>3 DEF AllViews
<1> QED
  BY <1>1, <1>2, <1>4, AgreeSame DEF AgreeNow

----------------------------------------------------------------------------
(* What the main thread does to the agreement as it hears a notification. *)

\* What the user interface makes of the head of its queue, and of the chat k, with the
\* calls r.
Hears(k, r) ==
    \/ /\ ~Repicks(open[k], gowner, gowner')
       /\ open'[k] = ViewAfter(open[k], Head(toGui), k) /\ Silent(r, Picks(k))
    \/ \E f \in Chosen :
          /\ Repicks(open[k], gowner, gowner') /\ open'[k] = [open[k] EXCEPT !.entry = f]
          /\ f # None => gowner'[f] = open[k].contact
          /\ LastPick(r, k, f)

LEMMA HearStill ==
  ASSUME TypeInv, ChatInv, AgreeNow, toGui # <<>>, toGui' = Tail(toGui), waiting = None,
         UNCHANGED <<coreVars, answer, waiting>>, gowner' = RosterAfter(gowner, Head(toGui)),
         NEW r \in Seq(CallMsg), toCore' = toCore \o r, \A k \in ChatId : Hears(k, r)
  PROVE  AgreeNow'
<1>1. PICK m : m = Head(toGui)
  OBVIOUS
<1>2. UNCHANGED <<chats, owner, reused>>
  BY DEF coreVars, rosterVars
<1>3. answer = None /\ \A j \in ChatId : View(j) = open[j]
  BY WindowIds
<1>4. \A j \in ChatId : View(j)' = open'[j]
  BY <1>3, NoneIds, ChatIdNat DEF View
<1>5. /\ Awaited' \subseteq Awaited
      /\ m.note = "chatIncoming" => m.chat \in Awaited /\ m.chat \notin Awaited'
  BY <1>1, TailSaid DEF ChatInv
<1>6. PICK vs2, tc2, g2 : vs2 = AllViews' /\ tc2 = toCore' /\ g2 = gowner'
  OBVIOUS
<1>7. \A k \in ChatId : open[k] # None => open[k] \in AllViews[k]
  BY <1>3 DEF AllViews, Views
<1>8. \A k \in Awaited : k \in ChatId => None \in AllViews[k]
  BY DEF AllViews, Views
<1>9. ASSUME NEW k \in ChatId, NEW x \in vs2[k]
      PROVE  \/ x = None /\ None \in AllViews[k] /\ ViewAfter(None, m, k) = None
             \/ \E w \in AllViews[k] : /\ ~Repicks(w, gowner, g2) /\ x = ViewAfter(w, m, k)
                                       /\ SameLast(toCore, tc2, k)
             \/ \E w \in AllViews[k], f \in Chosen :
                   /\ Repicks(w, gowner, g2) /\ x = [w EXCEPT !.entry = f]
                   /\ f # None => g2[f] = w.contact
                   /\ LastPick(tc2, k, f)
  <2>1. (x = open'[k] /\ x # None) \/ (x = None /\ k \in Awaited')
    BY <1>4, <1>6, <1>9 DEF AllViews, Views
  <2>2. CASE x = None /\ k \in Awaited'
    <3>1. ~(m.note = "chatIncoming" /\ m.chat = k)
      BY <1>5, <2>2
    <3>2. ViewAfter(None, m, k) = None
      BY <3>1 DEF ViewAfter, Opens, Turns
    <3> QED
      BY <1>5, <1>8, <2>2, <3>2
  <2>3. ASSUME x = open'[k], x # None, ~Repicks(open[k], gowner, gowner'),
               open'[k] = ViewAfter(open[k], Head(toGui), k), Silent(r, Picks(k))
        PROVE  \E w \in AllViews[k] : /\ ~Repicks(w, gowner, g2) /\ x = ViewAfter(w, m, k)
                                      /\ SameLast(toCore, tc2, k)
    <3>1. SameLast(toCore, tc2, k)
      BY <1>6, <2>3, ChatsType, SilentJoin
    <3>2. open[k] \in AllViews[k]
      <4>1. CASE open[k] # None
        BY <1>7, <4>1
      <4>2. CASE open[k] = None
        <5>1. m.note = "chatIncoming" /\ m.chat = k
          BY <1>1, <2>3, <4>2 DEF ViewAfter, Opens, Turns
        <5> QED
          BY <1>5, <1>8, <4>2, <5>1
      <4> QED
        BY <4>1, <4>2
    <3> QED
      BY <1>1, <1>6, <2>3, <3>1, <3>2
  <2>4. ASSUME x = open'[k], x # None, NEW f \in Chosen,
               Repicks(open[k], gowner, gowner'), open'[k] = [open[k] EXCEPT !.entry = f],
               f # None => gowner'[f] = open[k].contact, LastPick(r, k, f)
        PROVE  \E w \in AllViews[k], h \in Chosen :
                   /\ Repicks(w, gowner, g2) /\ x = [w EXCEPT !.entry = h]
                   /\ h # None => g2[h] = w.contact
                   /\ LastPick(tc2, k, h)
    <3>1. LastPick(tc2, k, f)
      BY <1>6, <2>4, ChatsType, SilentJoin
    <3>2. open[k] \in AllViews[k]
      BY <1>7, <2>4 DEF Repicks
    <3> QED
      BY <1>6, <2>4, <3>1, <3>2
  <2> QED
    BY <2>1, <2>2, <2>3, <2>4 DEF Hears
<1>10. HearAs(Head(toGui), gowner, g2, AllViews, vs2, toCore, tc2)
  BY <1>1, <1>9 DEF HearAs
<1>11. g2 = RosterAfter(gowner, Head(toGui))
  BY <1>6
<1>12. Agreeing(g2, vs2, Tail(toGui), owner, chats, tc2, reused)
  BY <1>10, <1>11, ChatsType, AgreeHear DEF AgreeNow
<1> QED
  BY <1>2, <1>6, <1>12 DEF AgreeNow

\* Notifications that change no entry of the roster.
LEMMA SameRosterHears ==
  ASSUME TypeInv, ChatInv, AgreeNow, toGui # <<>>, toGui' = Tail(toGui), waiting = None,
         UNCHANGED <<coreVars, answer, waiting, gowner, toCore>>,
         Head(toGui).note \notin EntryMoves,
         \A k \in ChatId : open'[k] = ViewAfter(open[k], Head(toGui), k)
  PROVE  AgreeNow'
<1>1. gowner' = RosterAfter(gowner, Head(toGui))
  BY OtherFacts
<1>2. <<>> \in Seq(CallMsg) /\ toCore' = toCore \o <<>>
  BY ChatsType, EmptySeq, ConcatEmptySeq
<1>3. \A k \in ChatId : Hears(k, <<>>)
  BY NothingIn DEF Hears, Repicks
<1> QED
  BY <1>1, <1>2, <1>3, HearStill

LEMMA PlainHears ==
  ASSUME TypeInv, ChatInv, AgreeNow,
         rosterContactAdded \/ rosterContactRemoved \/ chatMessageReceived
  PROVE  AgreeNow'
<1>1. /\ toGui # <<>> /\ toGui' = Tail(toGui) /\ waiting = None
      /\ UNCHANGED <<coreVars, answer, waiting>>
      /\ Head(toGui).note \in {"rosterContactAdded", "rosterContactRemoved", "chatMessageReceived"}
  BY DEF rosterContactAdded, rosterContactRemoved, chatMessageReceived, Noticing
<1>2. UNCHANGED <<gowner, open, toCore>>
  BY DEF rosterContactAdded, rosterContactRemoved, chatMessageReceived, guiVars
<1>3. \A k \in ChatId : open'[k] = ViewAfter(open[k], Head(toGui), k)
  BY <1>1, <1>2 DEF ViewAfter, Opens, Turns
<1> QED
  BY <1>1, <1>2, <1>3, SameRosterHears DEF EntryMoves

LEMMA ChangedHears ==
  ASSUME TypeInv, ChatInv, AgreeNow, chatEntryChanged
  PROVE  AgreeNow'
<1>1. /\ toGui # <<>> /\ toGui' = Tail(toGui) /\ waiting = None
      /\ UNCHANGED <<coreVars, answer, waiting>> /\ Head(toGui).note = "chatEntryChanged"
  BY DEF chatEntryChanged, Noticing
<1>2. PICK m : m = Head(toGui)
  OBVIOUS
<1>3. UNCHANGED <<gowner, toCore>>
  BY DEF chatEntryChanged
<1>4. open' = IF open[m.chat] = None THEN open ELSE [open EXCEPT ![m.chat].entry = m.entry]
  BY <1>2 DEF chatEntryChanged
<1>5. m.chat \in ChatId
  BY <1>1, <1>2, ServedNote
<1>6. \A k \in ChatId : open'[k] = ViewAfter(open[k], m, k)
  BY <1>1, <1>2, <1>4, <1>5 DEF ViewAfter, Opens, Turns, TypeInv, TypeOK, GuiOK
<1> QED
  BY <1>1, <1>2, <1>3, <1>6, SameRosterHears DEF EntryMoves

LEMMA IncomingHears ==
  ASSUME TypeInv, ChatInv, AgreeNow, chatIncoming
  PROVE  AgreeNow'
<1>1. /\ toGui # <<>> /\ toGui' = Tail(toGui) /\ waiting = None
      /\ UNCHANGED <<coreVars, answer, waiting>> /\ Head(toGui).note = "chatIncoming"
  BY DEF chatIncoming, Noticing
<1>2. PICK m : m = Head(toGui)
  OBVIOUS
<1>3. UNCHANGED <<gowner, toCore>>
  BY DEF chatIncoming
<1>4. open' = IF open[m.chat] # None THEN open
              ELSE [open EXCEPT ![m.chat] = [contact |-> m.contact, entry |-> m.entry]]
  BY <1>2 DEF chatIncoming
<1>5. m.chat \in ChatId
  BY <1>1, <1>2, ServedNote
<1>6. \A k \in ChatId : open'[k] = ViewAfter(open[k], m, k)
  BY <1>1, <1>2, <1>4, <1>5 DEF ViewAfter, Opens, Turns, TypeInv, TypeOK, GuiOK
<1> QED
  BY <1>1, <1>2, <1>3, <1>6, SameRosterHears DEF EntryMoves

\* The chats that the observers of a contact's entries make turn are those that would have
\* another contact's entry, or none.
LEMMA LostRepicks ==
  ASSUME TypeInv, NEW c \in ContactId, NEW list \in SUBSET EntryId,
         \A e \in EntryId : e \in list <=> gowner'[e] = c,
         NEW n \in EntryId, ~(gowner[n] = c <=> gowner'[n] = c), NEW k \in ChatId
  PROVE  k \in Lost(c, list) <=>
            open[k] # None /\ open[k].contact = c /\ Repicks(open[k], gowner, gowner')
<1>1. CASE open[k] = None \/ open[k].contact # c
  BY <1>1 DEF Lost
<1>2. CASE open[k] # None /\ open[k].contact = c
  <2>1. open[k].entry \in Chosen
    BY <1>2 DEF TypeInv, TypeOK, GuiOK, Open, Chosen
  <2>2. None \notin EntryId
    BY NoneIds DEF EntryId
  <2>3. k \in Lost(c, list) <=> open[k].entry \notin list /\ ~(list = {} /\ open[k].entry = None)
    BY <1>2 DEF Lost
  <2>4. Repicks(open[k], gowner, gowner') <=>
          IF open[k].entry = None THEN \E e \in EntryId : gowner'[e] = c
                                  ELSE gowner'[open[k].entry] # c
    BY <1>2 DEF Repicks
  <2>5. CASE open[k].entry = None
    BY <1>2, <2>2, <2>3, <2>4, <2>5
  <2>6. CASE open[k].entry \in EntryId
    BY <1>2, <2>2, <2>3, <2>4, <2>6
  <2> QED
    BY <2>1, <2>5, <2>6 DEF Chosen
<1> QED
  BY <1>1, <1>2

\* Notifications of entries tell nothing of chats.
LEMMA MoveView ==
  ASSUME NEW m, m.note \in EntryMoves
  PROVE  \A w, k : ViewAfter(w, m, k) = w
  BY DEF ViewAfter, Opens, Turns, EntryMoves

LEMMA LostHears ==
  ASSUME TypeInv, NEW c \in ContactId, NEW list \in SUBSET EntryId,
         \A e \in EntryId : e \in list <=> gowner'[e] = c,
         NEW n \in EntryId, ~(gowner[n] = c <=> gowner'[n] = c),
         NEW main \in MainEntry(list), NEW r \in Seq(CallMsg), NEW k \in Lost(c, list),
         open'[k] = [open[k] EXCEPT !.entry = main], LastPick(r, k, main)
  PROVE  Hears(k, r)
<1>1. k \in ChatId
  BY DEF Lost
<1>2. open[k] # None /\ open[k].contact = c /\ Repicks(open[k], gowner, gowner')
  BY <1>1, LostRepicks
<1>3. main \in Chosen /\ (main # None => gowner'[main] = c)
  BY DEF MainEntry, Chosen
<1> QED
  BY <1>2, <1>3 DEF Hears

LEMMA AddedHears ==
  ASSUME TypeInv, ChatInv, AgreeNow, rosterEntryAdded, stopped' # "gui"
  PROVE  AgreeNow'
<1>1. /\ toGui # <<>> /\ toGui' = Tail(toGui) /\ waiting = None
      /\ UNCHANGED <<coreVars, answer, waiting>> /\ Head(toGui).note = "rosterEntryAdded"
  BY DEF rosterEntryAdded, Noticing
<1>2. PICK m : m = Head(toGui)
  OBVIOUS
<1>3. PICK list : list = Listed(m.contact) \cup {m.entry}
  OBVIOUS
<1>4. PICK lost : lost = Lost(m.contact, list)
  OBVIOUS
<1>5. PICK main \in list : /\ gowner' = [gowner EXCEPT ![m.entry] = m.contact]
                           /\ open' = SetActive(lost, main)
                           /\ toCore' = toCore \o Changes(lost, main)
  BY <1>2, <1>3, <1>4 DEF rosterEntryAdded, Call
<1>6. m.contact \in ContactId /\ m.entry \in EntryId
  BY <1>1, <1>2, ServedNote
<1>7. gowner[m.entry] = None /\ gowner' = RosterAfter(gowner, m)
  <2>1. Fits(gowner, m)
    BY <1>1, <1>2, ChatsType, HeadFits DEF AgreeNow
  <2> QED
    BY <1>1, <1>2, <1>5, <2>1 DEF Fits, RosterAfter, EntryMoves, NewOwner
<1>8. /\ list \in SUBSET EntryId
      /\ \A e \in EntryId : e \in list <=> gowner'[e] = m.contact
      /\ ~(gowner[m.entry] = m.contact <=> gowner'[m.entry] = m.contact)
      /\ \A c \in ContactId : c # m.contact =>
            \A e \in EntryId : gowner[e] = c <=> gowner'[e] = c
  <2>1. None \notin ContactId
    BY NoneIds DEF ContactId
  <2> QED
    BY <1>3, <1>5, <1>6, <1>7, <2>1, ChatsType DEF Listed, Owners
<1>9. main \in Chosen /\ main \in MainEntry(list)
  BY <1>5, <1>8 DEF Chosen, MainEntry
<1>10. lost \in SUBSET ChatId
  BY <1>4 DEF Lost
<1>11. /\ Changes(lost, main) \in Seq(CallMsg)
       /\ \A k \in lost : LastPick(Changes(lost, main), k, main)
       /\ \A k \in ChatId \ lost : Silent(Changes(lost, main), Picks(k))
  BY <1>9, <1>10, ChangesPicks
<1>12. \A k \in ChatId : open'[k] = IF k \in lost THEN [open[k] EXCEPT !.entry = main] ELSE open[k]
  BY <1>5 DEF SetActive
<1>13. ASSUME NEW k \in ChatId PROVE Hears(k, Changes(lost, main))
  <2>1. CASE k \in lost
    BY <1>4, <1>6, <1>8, <1>9, <1>11, <1>12, <2>1, LostHears
  <2>2. CASE k \notin lost
    <3>1. ~Repicks(open[k], gowner, gowner')
      <4>1. CASE open[k] = None
        BY <4>1 DEF Repicks
      <4>2. CASE open[k] # None /\ open[k].contact = m.contact
        BY <1>4, <1>6, <1>8, <2>2, <4>2, LostRepicks
      <4>3. CASE open[k] # None /\ open[k].contact # m.contact
        <5>1. open[k].contact \in ContactId
          BY <4>3 DEF TypeInv, TypeOK, GuiOK, Open
        <5> QED
          BY <1>8, <4>3, <5>1 DEF Repicks
      <4> QED
        BY <4>1, <4>2, <4>3
    <3>2. Head(toGui).note \in EntryMoves
      BY <1>1 DEF EntryMoves
    <3>3. ViewAfter(open[k], Head(toGui), k) = open[k]
      BY <3>2, MoveView
    <3>4. open'[k] = ViewAfter(open[k], Head(toGui), k)
      BY <1>12, <2>2, <3>3
    <3> QED
      BY <1>11, <2>2, <3>1, <3>4 DEF Hears
  <2> QED
    BY <2>1, <2>2
<1> QED
  BY <1>1, <1>2, <1>5, <1>7, <1>11, <1>13, HearStill

\* A chat whose contact keeps its entries hears nothing.
LEMMA DeafHears ==
  ASSUME NEW k \in ChatId, Head(toGui).note \in EntryMoves, open'[k] = open[k],
         ~Repicks(open[k], gowner, gowner'), NEW r \in Seq(CallMsg), Silent(r, Picks(k))
  PROVE  Hears(k, r)
<1>1. ViewAfter(open[k], Head(toGui), k) = open[k]
  BY MoveView
<1> QED
  BY <1>1 DEF Hears

\* Nothing is picked for a chat of a contact that keeps its entries.
LEMMA SameKeeps ==
  ASSUME TypeInv, NEW k \in ChatId,
         open[k] # None => \A e \in EntryId : gowner[e] = open[k].contact
                                                <=> gowner'[e] = open[k].contact
  PROVE  ~Repicks(open[k], gowner, gowner')
  BY DEF Repicks

LEMMA RemovedHears ==
  ASSUME TypeInv, ChatInv, AgreeNow, rosterEntryRemoved
  PROVE  AgreeNow'
<1>1. /\ toGui # <<>> /\ toGui' = Tail(toGui) /\ waiting = None
      /\ UNCHANGED <<coreVars, answer, waiting>> /\ Head(toGui).note = "rosterEntryRemoved"
  BY DEF rosterEntryRemoved, Noticing
<1>2. PICK e : e = Head(toGui).entry
  OBVIOUS
<1>3. PICK c : c = gowner[e]
  OBVIOUS
<1>4. PICK list : list = Listed(c) \ {e}
  OBVIOUS
<1>5. PICK lost : lost = Lost(c, list)
  OBVIOUS
<1>6. PICK main \in MainEntry(list) : /\ open' = SetActive(lost, main)
                                     /\ toCore' = toCore \o (Changes(lost, main) \o LeftEmpty(c, list))
  BY <1>2, <1>3, <1>4, <1>5 DEF rosterEntryRemoved, Call
<1>7. gowner' = [gowner EXCEPT ![e] = None]
  BY <1>2 DEF rosterEntryRemoved
<1>8. e \in EntryId /\ c \in ContactId \cup {None}
  BY <1>1, <1>2, <1>3, ServedNote, ChatsType DEF Owners
<1>9. Head(toGui).note \in EntryMoves /\ gowner' = RosterAfter(gowner, Head(toGui))
  BY <1>1, <1>2, <1>7 DEF RosterAfter, EntryMoves, NewOwner
<1>10. list \in SUBSET EntryId /\ main \in Chosen /\ lost \in SUBSET ChatId
  BY <1>4, <1>5, <1>6 DEF Listed, MainEntry, Chosen, Lost
<1>11. PICK r : r = Changes(lost, main) \o LeftEmpty(c, list)
  OBVIOUS
<1>12. /\ Changes(lost, main) \in Seq(CallMsg)
       /\ \A k \in lost : LastPick(Changes(lost, main), k, main)
       /\ \A k \in ChatId \ lost : Silent(Changes(lost, main), Picks(k))
  BY <1>10, ChangesPicks
<1>13. LeftEmpty(c, list) \in Seq(CallMsg) /\ \A k \in ChatId : Silent(LeftEmpty(c, list), Picks(k))
  BY <1>8, LeftEmptyPicks
<1>14. /\ r \in Seq(CallMsg)
       /\ \A k \in lost : LastPick(r, k, main)
       /\ \A k \in ChatId \ lost : Silent(r, Picks(k))
  BY <1>10, <1>11, <1>12, <1>13, SilentJoin
<1>15. \A k \in ChatId : open'[k] = IF k \in lost THEN [open[k] EXCEPT !.entry = main] ELSE open[k]
  BY <1>6 DEF SetActive
<1>16. ASSUME NEW k \in ChatId PROVE Hears(k, r)
  <2>1. open[k] # None => open[k].contact \in ContactId
    BY DEF TypeInv, TypeOK, GuiOK, Open
  <2>2. None \notin ContactId
    BY NoneIds DEF ContactId
  <2>3. CASE c = None
    <3>1. k \notin lost
      BY <1>5, <2>1, <2>2, <2>3 DEF Lost
    <3>2. \A d \in ContactId : \A n \in EntryId : gowner[n] = d <=> gowner'[n] = d
      BY <1>3, <1>7, <1>8, <2>2, <2>3, ChatsType DEF Owners
    <3>3. ~Repicks(open[k], gowner, gowner')
      BY <2>1, <3>2, SameKeeps
    <3> QED
      BY <1>9, <1>14, <1>15, <3>1, <3>3, DeafHears
  <2>4. CASE c \in ContactId
    <3>1. /\ \A n \in EntryId : n \in list <=> gowner'[n] = c
          /\ ~(gowner[e] = c <=> gowner'[e] = c)
          /\ \A d \in ContactId : d # c => \A n \in EntryId : gowner[n] = d <=> gowner'[n] = d
      BY <1>3, <1>4, <1>7, <1>8, <2>2, <2>4, ChatsType DEF Owners, Listed
    <3>2. CASE k \in lost
      BY <1>5, <1>6, <1>8, <1>10, <1>14, <1>15, <2>4, <3>1, <3>2, LostHears
    <3>3. CASE k \notin lost
      <4>1. CASE open[k] # None /\ open[k].contact = c
        <5>1. ~Repicks(open[k], gowner, gowner')
          BY <1>5, <1>8, <1>10, <2>4, <3>1, <3>3, <4>1, LostRepicks
        <5> QED
          BY <1>9, <1>14, <1>15, <3>3, <5>1, DeafHears
      <4>2. CASE ~(open[k] # None /\ open[k].contact = c)
        <5>1. ~Repicks(open[k], gowner, gowner')
          BY <2>1, <3>1, <4>2, SameKeeps
        <5> QED
          BY <1>9, <1>14, <1>15, <3>3, <5>1, DeafHears
      <4> QED
        BY <4>1, <4>2
    <3> QED
      BY <3>2, <3>3
  <2> QED
    BY <1>8, <2>3, <2>4
<1> QED
  BY <1>1, <1>6, <1>9, <1>11, <1>14, <1>16, HearStill

LEMMA MovedHears ==
  ASSUME TypeInv, ChatInv, AgreeNow, rosterEntryContactChanged
  PROVE  AgreeNow'
<1>1. /\ toGui # <<>> /\ toGui' = Tail(toGui) /\ waiting = None
      /\ UNCHANGED <<coreVars, answer, waiting>> /\ Head(toGui).note = "rosterEntryContactChanged"
  BY DEF rosterEntryContactChanged, Noticing
<1>2. PICK m : m = Head(toGui)
  OBVIOUS
<1>3. PICK list, joined : list = Listed(m.old) \ {m.entry} /\ joined = Listed(m.new) \cup {m.entry}
  OBVIOUS
<1>4. PICK lost, joining : lost = Lost(m.old, list) /\ joining = Lost(m.new, joined)
  OBVIOUS
<1>5. PICK main \in MainEntry(list), new \in joined :
          /\ open' = [k \in ChatId |-> IF k \in joining THEN [open[k] EXCEPT !.entry = new]
                                       ELSE SetActive(lost, main)[k]]
          /\ toCore' = toCore \o (Changes(lost, main) \o LeftEmpty(m.old, list) \o Changes(joining, new))
  BY <1>2, <1>3, <1>4 DEF rosterEntryContactChanged, Call
<1>6. gowner' = [gowner EXCEPT ![m.entry] = m.new]
  BY <1>2 DEF rosterEntryContactChanged
<1>7. m.entry \in EntryId /\ m.old \in ContactId /\ m.new \in ContactId
  BY <1>1, <1>2, ServedNote
<1>8. gowner[m.entry] = m.old /\ m.old # m.new
  <2>1. Fits(gowner, m)
    BY <1>1, <1>2, ChatsType, HeadFits DEF AgreeNow
  <2> QED
    BY <1>1, <1>2, <2>1 DEF Fits
<1>9. Head(toGui).note \in EntryMoves /\ gowner' = RosterAfter(gowner, Head(toGui))
  BY <1>1, <1>2, <1>6 DEF RosterAfter, EntryMoves, NewOwner
<1>10. /\ list \in SUBSET EntryId /\ joined \in SUBSET EntryId
       /\ main \in Chosen /\ new \in Chosen /\ new \in MainEntry(joined)
       /\ lost \in SUBSET ChatId /\ joining \in SUBSET ChatId
       /\ \A k \in lost : k \notin joining
  BY <1>3, <1>4, <1>5, <1>7, <1>8 DEF Listed, MainEntry, Chosen, Lost
<1>11. PICK first, r : /\ first = Changes(lost, main) \o LeftEmpty(m.old, list)
                       /\ r = first \o Changes(joining, new)
  OBVIOUS
<1>12. /\ Changes(lost, main) \in Seq(CallMsg)
       /\ \A k \in lost : LastPick(Changes(lost, main), k, main)
       /\ \A k \in ChatId \ lost : Silent(Changes(lost, main), Picks(k))
  BY <1>10, ChangesPicks
<1>13. /\ LeftEmpty(m.old, list) \in Seq(CallMsg)
       /\ \A k \in ChatId : Silent(LeftEmpty(m.old, list), Picks(k))
  BY <1>7, LeftEmptyPicks
<1>14. /\ Changes(joining, new) \in Seq(CallMsg)
       /\ \A k \in joining : LastPick(Changes(joining, new), k, new)
       /\ \A k \in ChatId \ joining : Silent(Changes(joining, new), Picks(k))
  BY <1>10, ChangesPicks
<1>15. /\ first \in Seq(CallMsg)
       /\ \A k \in lost : LastPick(first, k, main)
       /\ \A k \in ChatId \ lost : Silent(first, Picks(k))
  BY <1>10, <1>11, <1>12, <1>13, SilentJoin
<1>16. /\ r \in Seq(CallMsg)
       /\ \A k \in lost : LastPick(r, k, main)
       /\ \A k \in joining : LastPick(r, k, new)
       /\ \A k \in ChatId \ (lost \cup joining) : Silent(r, Picks(k))
  <2>1. r \in Seq(CallMsg)
    BY <1>11, <1>14, <1>15, SilentJoin
  <2>2. ASSUME NEW k \in lost PROVE LastPick(r, k, main)
    <3>1. LastPick(first, k, main) /\ Silent(Changes(joining, new), Picks(k))
      BY <1>10, <1>14, <1>15
    <3> QED
      BY <1>10, <1>11, <1>14, <1>15, <3>1, SilentJoin
  <2>3. \A k \in joining : LastPick(r, k, new)
    BY <1>10, <1>11, <1>14, <1>15, SilentJoin
  <2>4. \A k \in ChatId \ (lost \cup joining) : Silent(r, Picks(k))
    BY <1>11, <1>14, <1>15, SilentJoin
  <2> QED
    BY <2>1, <2>2, <2>3, <2>4
<1>17. \A k \in ChatId : open'[k] = IF k \in joining THEN [open[k] EXCEPT !.entry = new]
                                    ELSE IF k \in lost THEN [open[k] EXCEPT !.entry = main]
                                    ELSE open[k]
  BY <1>5 DEF SetActive
<1>18. /\ \A n \in EntryId : n \in list <=> gowner'[n] = m.old
       /\ ~(gowner[m.entry] = m.old <=> gowner'[m.entry] = m.old)
  BY <1>3, <1>6, <1>7, <1>8, ChatsType DEF Owners, Listed
<1>19. /\ \A n \in EntryId : n \in joined <=> gowner'[n] = m.new
       /\ ~(gowner[m.entry] = m.new <=> gowner'[m.entry] = m.new)
  BY <1>3, <1>6, <1>7, <1>8, ChatsType DEF Owners, Listed
<1>20. \A d \in ContactId \ {m.old, m.new} : \A n \in EntryId : gowner[n] = d <=> gowner'[n] = d
  BY <1>6, <1>7, <1>8, ChatsType DEF Owners
<1>21. ASSUME NEW k \in ChatId PROVE Hears(k, r)
  <2>1. open[k] # None => open[k].contact \in ContactId
    BY DEF TypeInv, TypeOK, GuiOK, Open
  <2>2. CASE k \in lost
    <3>1. open'[k] = [open[k] EXCEPT !.entry = main]
      BY <1>10, <1>17, <2>2
    <3> QED
      BY <1>4, <1>5, <1>7, <1>10, <1>16, <1>18, <2>2, <3>1, LostHears
  <2>3. CASE k \in joining
    <3>1. open'[k] = [open[k] EXCEPT !.entry = new]
      BY <1>17, <2>3
    <3> QED
      BY <1>4, <1>7, <1>10, <1>16, <1>19, <2>3, <3>1, LostHears
  <2>4. CASE k \notin lost /\ k \notin joining
    <3>1. ~Repicks(open[k], gowner, gowner')
      <4>1. CASE open[k] # None /\ open[k].contact = m.old
        BY <1>4, <1>7, <1>10, <1>18, <2>4, <4>1, LostRepicks
      <4>2. CASE open[k] # None /\ open[k].contact = m.new
        BY <1>4, <1>7, <1>10, <1>19, <2>4, <4>2, LostRepicks
      <4>3. CASE open[k] = None \/ open[k].contact \notin {m.old, m.new}
        BY <1>20, <2>1, <4>3, SameKeeps
      <4> QED
        BY <4>1, <4>2, <4>3
    <3>2. open'[k] = open[k] /\ Silent(r, Picks(k))
      BY <1>16, <1>17, <2>4
    <3> QED
      BY <1>9, <1>16, <3>1, <3>2, DeafHears
  <2> QED
    BY <2>2, <2>3, <2>4
<1> QED
  BY <1>1, <1>5, <1>9, <1>11, <1>16, <1>21, HearStill

LEMMA GuiServesAgrees ==
  ASSUME TypeInv, ChatInv, AgreeNow, GuiServes, stopped' # "gui"
  PROVE  AgreeNow'
  BY PlainHears, ChangedHears, IncomingHears, AddedHears, RemovedHears, MovedHears DEF GuiServes

----------------------------------------------------------------------------
(* The inductive invariant, and the theorems. *)

\* Where every action of the program begins.
LEMMA GoesOn ==
  ASSUME Next
  PROVE  stopped = "no"
<1>1. CASE Server
  <2>1. Room
    BY <1>1 DEF Server, ItemAdded, MessageReceived, TypingReceived, ItemUpdated, ItemRemoved
  <2> QED
    BY <2>1 DEF Room
<1>2. CASE User
  BY <1>2 DEF User, StartChat, PickEntry, EndChat, Send, RemoveContact, MoveEntry, Free, Room
<1>3. CASE CoreServes
  BY <1>3 DEF CoreServes, chatStart, chatChangeEntry, chatEnd, chatMessageSend,
              rosterContactRemove, rosterEntryChangeContact, Serving
<1>4. CASE ChatStarted
  BY <1>4 DEF ChatStarted
<1>5. CASE GuiServes
  BY <1>5 DEF GuiServes, rosterContactAdded, rosterContactRemoved, rosterEntryAdded,
       rosterEntryRemoved, rosterEntryContactChanged, chatIncoming, chatEntryChanged,
       chatMessageReceived, Noticing
<1> QED
  BY <1>1, <1>2, <1>3, <1>4, <1>5 DEF Next

LEMMA AgreeStep ==
  ASSUME TypeInv, ChatInv, MadeInv, AddrInv, WaitInv, ZeroInv, AgreeInv, [Next]_vars
  PROVE  AgreeInv'
<1>1. CASE UNCHANGED vars
  <2>1. UNCHANGED <<stopped, gowner, open, answer, waiting, toGui, owner, chats, toCore, reused>>
    BY <1>1 DEF vars, coreVars, rosterVars, guiVars
  <2>2. Awaited' = Awaited
    BY <2>1 DEF Awaited, Notes
  <2>3. AllViews' = AllViews
    BY <2>1, <2>2, ViewsStill
  <2> QED
    BY <2>1, <2>3 DEF AgreeInv, AgreeNow
<1>2. CASE Next
  <2> SUFFICES ASSUME stopped' = "no" PROVE AgreeNow'
    BY DEF AgreeInv
  <2>1. AgreeNow
    BY <1>2, GoesOn DEF AgreeInv
  <2> QED
    BY <1>2, <2>1, ServerAgrees, UserAgrees, CoreServesAgrees, StartedStill, GuiServesAgrees DEF Next
<1> QED
  BY <1>1, <1>2

LEMMA NothingToHear ==
  ASSUME NEW g \in Owners
  PROVE  RosterAgrees([i \in Nat |-> g], <<>>, g, g)
<1>1. Len(<<>>) = 0 /\ 1..0 = {}
  OBVIOUS
<1> QED
  BY <1>1 DEF RosterAgrees, RosterReplay

\* All that a behaviour keeps of the chats and of what is said of them.
TalkInv == TypeInv /\ ChatInv /\ MadeInv /\ AddrInv /\ WaitInv /\ ZeroInv /\ AgreeInv

LEMMA TalkInit ==
  ASSUME Init
  PROVE  TalkInv
<1>1. TypeInv /\ ChatInv
  BY TypeInvInit, ChatInvInit
<1>2. /\ contacts = {} /\ gcontacts = {} /\ waiting = None /\ toGui = <<>> /\ toCore = <<>>
      /\ answer = None
      /\ \A e \in EntryId : owner[e] = None
      /\ \A k \in ChatId : chats[k] = None /\ open[k] = None
  BY DEF Init
<1>3. Numbered(<<>>, nextContact)
  BY NumberedOther
<1>4. MadeInv
  BY <1>2, <1>3 DEF MadeInv
<1>5. AddrInv /\ WaitInv
  BY <1>2 DEF AddrInv, WaitInv
<1>6. ZeroInv
  BY <1>2 DEF ZeroInv, View
<1>7. AgreeNow
  <2>1. gowner = owner /\ gowner \in Owners
    BY <1>1, ChatsType DEF Init
  <2>2. RosterAgrees([i \in Nat |-> gowner], toGui, gowner, owner)
    BY <1>2, <2>1, NothingToHear
  <2> QED
    BY <1>2, <2>2 DEF AgreeNow, Agreeing
<1> QED
  BY <1>1, <1>4, <1>5, <1>6, <1>7 DEF TalkInv, AgreeInv

LEMMA TalkStep ==
  ASSUME TalkInv, [Next]_vars
  PROVE  TalkInv'
<1>1. TypeInv' /\ ChatInv'
  BY TypeInvStep, ChatInvStep DEF TalkInv
<1>2. MadeInv' /\ AddrInv'
  BY MadeStep DEF TalkInv
<1>3. WaitInv' /\ ZeroInv'
  BY WaitStep, ZeroStep DEF TalkInv
<1>4. AgreeInv'
  BY AgreeStep DEF TalkInv
<1> QED
  BY <1>1, <1>2, <1>3, <1>4 DEF TalkInv

\* A chat that both sides have, and whose entry is its own: what the user interface will
\* have heard of it.
LEMMA SharedReplay ==
  ASSUME TalkInv, stopped = "no", NEW k \in ChatId \ reused, Shared(k)
  PROVE  \E V, W : /\ RosterAgrees(V, toGui, gowner, owner)
                   /\ ChatAgrees(V, W, toGui, k, open[k], chats[k], toCore)
                   /\ W[Len(toGui) + 1].contact = chats[k].contact
                   /\ Settles(V, W, toGui, k, chats[k], toCore)
                   /\ LetsGo(V, W, toGui, k, chats[k], toCore)
<1>1. chats[k] # None /\ open[k] # None /\ chats[k].contact = open[k].contact
  BY DEF Shared
<1>2. open[k] \in AllViews[k]
  BY <1>1 DEF AllViews, Views, View
<1>3. PICK V, W : /\ RosterAgrees(V, toGui, gowner, owner)
                  /\ ChatAgrees(V, W, toGui, k, open[k], chats[k], toCore)
  BY <1>1, <1>2 DEF TalkInv, AgreeInv, AgreeNow, Agreeing
<1>4. ViewReplay(W, toGui, k) /\ W[1] = open[k]
  BY <1>3 DEF ChatAgrees
<1>5. W[Len(toGui) + 1].contact = W[1].contact
  <2>1. toGui \in Seq(NoteMsg)
    BY ChatsType DEF TalkInv
  <2>2. Len(toGui) \in Nat
    BY <2>1, LenProperties
  <2>3. Len(toGui) + 1 \in 1..(Len(toGui) + 1)
    BY <2>2
  <2> QED
    BY <1>1, <1>4, <2>1, <2>2, <2>3, OpenStays
<1> QED
  BY <1>1, <1>3, <1>4, <1>5 DEF ChatAgrees

LEMMA NothingLeft ==
  ASSUME NEW V, NEW W, NEW k
  PROVE  /\ ~Repicked(V, W, 1, Len(<<>>))
         /\ \A f : ~LastPick(<<>>, k, f)
<1>1. Len(<<>>) = 0 /\ 1..0 = {}
  OBVIOUS
<1> QED
  BY <1>1 DEF Repicked, LastPick, LastIn

\* When nothing is on its way, both sides agree on the entry that a chat talks to, however
\* the user's choices, the messages and the roster's changes crossed, and that entry is one
\* of the contact's, with the address that messages go to (chatChangeEntry, getChatForJID;
\* LPChat's observer, setActiveContactEntry, handleActiveContactEntryChanged).
THEOREM EntryAgreedHolds == Spec => []EntryAgreed
<1>1. TalkInv => EntryAgreed
  <2> SUFFICES ASSUME TalkInv, toCore = <<>>, toGui = <<>>, stopped = "no",
                      NEW k \in ChatId \ reused, Shared(k)
               PROVE  /\ open[k].entry = chats[k].entry
                      /\ chats[k].entry # None =>
                            /\ owner[chats[k].entry] = chats[k].contact
                            /\ chats[k].addr = addr[chats[k].entry]
    BY DEF EntryAgreed, Quiet
  <2>1. PICK V, W : /\ RosterAgrees(V, toGui, gowner, owner)
                    /\ ChatAgrees(V, W, toGui, k, open[k], chats[k], toCore)
                    /\ Settles(V, W, toGui, k, chats[k], toCore)
                    /\ LetsGo(V, W, toGui, k, chats[k], toCore)
    BY SharedReplay
  <2>2. W[Len(toGui) + 1] = open[k] /\ V[Len(toGui) + 1] = owner
    <3>1. Len(toGui) + 1 = 1
      OBVIOUS
    <3> QED
      BY <2>1, <3>1 DEF ChatAgrees, RosterAgrees
  <2>3. ~Repicked(V, W, 1, Len(toGui)) /\ \A f : ~LastPick(toCore, k, f)
    BY NothingLeft
  <2>4. open[k].entry = chats[k].entry
    BY <2>1, <2>2, <2>3 DEF Settles
  <2>5. chats[k].entry # None => owner[chats[k].entry] = chats[k].contact
    BY <2>1, <2>2, <2>3 DEF LetsGo
  <2>6. chats[k].entry # None => chats[k].addr = addr[chats[k].entry]
    BY DEF TalkInv, AddrInv, AddrRight, Shared
  <2> QED
    BY <2>4, <2>5, <2>6
<1> QED
  BY <1>1, TalkInit, TalkStep, PTL DEF Spec

\* The notifications by which an entry joins a contact, and by which one leaves it.
LEMMA Joins ==
  ASSUME NEW q \in Seq(NoteMsg), NEW V, RosterReplay(V, q), NEW i \in 1..Len(q),
         NEW n \in EntryId, NEW c \in ContactId, V[i][n] # c, V[i + 1][n] = c
  PROVE  \/ q[i].note = "rosterEntryAdded" /\ q[i].contact = c
         \/ q[i].note = "rosterEntryContactChanged" /\ q[i].new = c
<1>1. V[i + 1] = RosterAfter(V[i], q[i]) /\ V[i] \in Owners /\ q[i] \in NoteMsg
  BY DEF RosterReplay
<1>2. q[i].note \in EntryMoves /\ NewOwner(q[i]) = c
  BY <1>1 DEF RosterAfter, Owners
<1>3. c # None
  BY NoneIds DEF ContactId
<1> QED
  BY <1>1, <1>2, <1>3, NoteFields DEF EntryMoves

LEMMA Parts ==
  ASSUME NEW q \in Seq(NoteMsg), NEW V, RosterReplay(V, q), NEW i \in 1..Len(q),
         NEW n \in EntryId, NEW c \in ContactId, V[i][n] = c, V[i + 1][n] # c
  PROVE  /\ q[i].note \in {"rosterEntryRemoved", "rosterEntryContactChanged"}
         /\ q[i].entry = n
<1>1. /\ V[i + 1] = RosterAfter(V[i], q[i]) /\ V[i] \in Owners /\ q[i] \in NoteMsg
      /\ Fits(V[i], q[i])
  BY DEF RosterReplay
<1>2. q[i].note \in EntryMoves /\ q[i].entry = n
  BY <1>1 DEF RosterAfter, Owners
<1>3. c # None
  BY NoneIds DEF ContactId
<1> QED
  BY <1>1, <1>2, <1>3 DEF Fits, EntryMoves

\* A chat keeps a deleted entry only as long as the user interface has still to hear that
\* an entry has left the contact or joined it, or while its choice of another entry is on
\* its way: no chat is told that its entry is gone (client_rosterItemRemoved,
\* rosterContactRemove), and yet each will be given another.
THEOREM DanglingIsBriefHolds == Spec => []DanglingIsBrief
<1>1. TalkInv => DanglingIsBrief
  <2> SUFFICES ASSUME TalkInv, stopped = "no", NEW k \in ChatId \ reused, Shared(k), Dangles(k)
               PROVE  \/ \E i \in Notes("rosterEntryRemoved") \cup Notes("rosterEntryContactChanged") :
                            gowner[toGui[i].entry] = open[k].contact
                      \/ \E i \in Notes("rosterEntryAdded") : toGui[i].contact = open[k].contact
                      \/ \E i \in Notes("rosterEntryContactChanged") : toGui[i].new = open[k].contact
                      \/ \E i \in Calls("chatChangeEntry") : toCore[i].chat = k
    BY DEF DanglingIsBrief
  <2>1. PICK V, W : /\ RosterAgrees(V, toGui, gowner, owner)
                    /\ ChatAgrees(V, W, toGui, k, open[k], chats[k], toCore)
                    /\ LetsGo(V, W, toGui, k, chats[k], toCore)
    BY SharedReplay
  <2>2. PICK c : c = open[k].contact
    OBVIOUS
  <2>3. open[k] # None /\ c \in ContactId /\ chats[k].contact = c
    BY <2>2 DEF Shared, TalkInv, TypeInv, TypeOK, GuiOK, Open
  <2>4. /\ RosterReplay(V, toGui) /\ V[1] = gowner /\ V[Len(toGui) + 1] = owner
        /\ ViewReplay(W, toGui, k) /\ W[1] = open[k]
    BY <2>1 DEF RosterAgrees, ChatAgrees
  <2>5. toGui \in Seq(NoteMsg) /\ toCore \in Seq(CallMsg) /\ Len(toGui) \in Nat
    BY ChatsType, LenProperties DEF TalkInv
  <2>6. chats[k].entry # None /\ owner[chats[k].entry] # c
    <3>1. c # None
      BY <2>3, NoneIds DEF ContactId
    <3> QED
      BY <3>1 DEF Dangles
  <2>7. \/ Repicked(V, W, 1, Len(toGui))
        \/ \E f \in Chosen : LastPick(toCore, k, f)
    BY <2>1, <2>3, <2>4, <2>6 DEF LetsGo
  <2>8. ASSUME NEW f \in Chosen, LastPick(toCore, k, f)
        PROVE  \E i \in Calls("chatChangeEntry") : toCore[i].chat = k
    <3>1. PICK i \in 1..Len(toCore) : toCore[i] = ChatChangeEntry(k, f)
      BY <2>8 DEF LastPick, LastIn
    <3> QED
      BY <3>1 DEF Calls, ChatChangeEntry
  <2>9. ASSUME NEW i \in 1..Len(toGui), NEW n \in EntryId, V[i][n] # c, V[i + 1][n] = c
        PROVE  \/ \E j \in Notes("rosterEntryAdded") : toGui[j].contact = c
               \/ \E j \in Notes("rosterEntryContactChanged") : toGui[j].new = c
    BY <2>3, <2>4, <2>5, <2>9, Joins DEF Notes
  <2>10. ASSUME NEW i \in 1..Len(toGui), RepickAt(V, W, i)
         PROVE  \/ \E j \in Notes("rosterEntryRemoved") \cup Notes("rosterEntryContactChanged") :
                      gowner[toGui[j].entry] = c
                \/ \E j \in Notes("rosterEntryAdded") : toGui[j].contact = c
                \/ \E j \in Notes("rosterEntryContactChanged") : toGui[j].new = c
    <3>1. W[i].contact = c
      <4>1. 1 \in Nat /\ i \in 1..(Len(toGui) + 1) /\ 1 <= i
        BY <2>5
      <4> QED
        BY <2>2, <2>3, <2>4, <2>5, <4>1, OpenStays
    <3>2. PICK n \in EntryId : ~(V[i][n] = c <=> V[i + 1][n] = c)
      BY <2>10, <3>1 DEF RepickAt, Repicks
    <3>3. CASE V[i][n] # c
      BY <2>9, <3>2, <3>3
    <3>4. CASE V[i][n] = c
      <4>1. /\ toGui[i].note \in {"rosterEntryRemoved", "rosterEntryContactChanged"}
            /\ toGui[i].entry = n
        <5>1. V[i + 1][n] # c
          BY <3>2, <3>4
        <5> QED
          BY <2>3, <2>4, <2>5, <3>4, <5>1, Parts
      <4>2. CASE gowner[n] = c
        BY <4>1, <4>2 DEF Notes
      <4>3. CASE gowner[n] # c
        <5>1. \E j \in 1..(i - 1) : V[j][n] # c /\ V[j + 1][n] = c
          <6> DEFINE S == {j \in 1..i : V[j][n] # c}
          <6>1. 1 \in S /\ i \notin S /\ i \in Nat /\ 1 <= i
            BY <2>4, <2>5, <3>4, <4>3
          <6>2. PICK j \in 1..(i - 1) : j \in S /\ j + 1 \notin S
            <7> HIDE DEF S
            <7> QED
              BY <6>1, Between
          <6>3. j + 1 \in 1..i
            BY <6>1
          <6> QED
            BY <6>2, <6>3
        <5>2. PICK j \in 1..(i - 1) : V[j][n] # c /\ V[j + 1][n] = c
          BY <5>1
        <5>3. j \in 1..Len(toGui)
          BY <2>5
        <5> QED
          BY <2>9, <5>2, <5>3
      <4> QED
        BY <4>2, <4>3
    <3> QED
      BY <3>3, <3>4
  <2> QED
    BY <2>2, <2>7, <2>8, <2>10 DEF Repicked
<1> QED
  BY <1>1, TalkInit, TalkStep, PTL DEF Spec
==================================================================================
