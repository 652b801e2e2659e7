---------------------------- MODULE Chats_proofs ----------------------------
(* What Chats promises for any number of contacts, entries and chats: types, that
   every chat of the core is known to the user interface or about to be, and that
   the user interface has no chat that the core does not have; and that when nothing
   is on its way, both sides have the same roster.

   The proof first reduces every step to one of eleven kinds, by what it does to the
   queues and to the two tables of chats.  The roster's is about the last message of
   a kind in a queue: the last notification about a contact, or about an entry, tells
   what the core has, and where none is on its way, the user interface has it already. *)
EXTENDS Chats, FiniteSetTheorems, SequenceTheorems, TLAPS

Chosen == EntryId \cup {None}

RosterNote ==
    [note : {"rosterContactAdded", "rosterContactRemoved"}, contact : ContactId]
      \cup [note : {"rosterEntryAdded"}, contact : ContactId, entry : EntryId]
      \cup [note : {"rosterEntryRemoved"}, entry : EntryId]
      \cup [note : {"rosterEntryContactChanged"}, entry : EntryId,
            old : ContactId, new : ContactId]
ChatNote ==
    [note : {"chatIncoming"}, chat : ChatId, contact : ContactId, entry : EntryId]
      \cup [note : {"chatEntryChanged"}, chat : ChatId, entry : Chosen]
      \cup [note : {"chatMessageReceived"}, chat : ChatId]
NoteMsg == RosterNote \cup ChatNote

StartCall == [call : {"chatStart"}, contact : ContactId, entry : Chosen]
EndCall == [call : {"chatEnd"}, chat : ChatId]
PlainCall ==
    [call : {"chatChangeEntry"}, chat : ChatId, entry : Chosen]
      \cup [call : {"chatMessageSend"}, chat : ChatId]
      \cup [call : {"rosterContactRemove"}, contact : ContactId \cup {None}]
      \cup [call : {"rosterEntryChangeContact"}, entry : EntryId,
            old : ContactId, new : ContactId]
CallMsg == StartCall \cup EndCall \cup PlainCall

----------------------------------------------------------------------------
(* Queues. *)

\* A queue that takes more elements keeps those that it has, in their places.
LEMMA Grows ==
  ASSUME NEW S, NEW q \in Seq(S), NEW r \in Seq(S)
  PROVE  /\ q \o r \in Seq(S) /\ Len(q \o r) = Len(q) + Len(r)
         /\ Len(q) \in Nat /\ Len(r) \in Nat
         /\ \A i \in 1..Len(q) : (q \o r)[i] = q[i] /\ q[i] \in S
         /\ \A i \in 1..Len(r) : (q \o r)[Len(q) + i] = r[i] /\ r[i] \in S
         /\ \A i \in 1..Len(q \o r) : i \in 1..Len(q) \/ i - Len(q) \in 1..Len(r)
<1>1. /\ q \o r \in Seq(S) /\ Len(q \o r) = Len(q) + Len(r)
      /\ \A i \in 1..Len(q) + Len(r) :
            (q \o r)[i] = IF i <= Len(q) THEN q[i] ELSE r[i - Len(q)]
  BY ConcatProperties
<1>2. Len(q) \in Nat /\ Len(r) \in Nat
  BY LenProperties
<1>3. /\ \A i \in 1..Len(q) : q[i] \in S
      /\ \A i \in 1..Len(r) : r[i] \in S
  BY ElementOfSeq
<1> QED
  BY <1>1, <1>2, <1>3

\* A queue that is served loses its head, and the others move up.
LEMMA Shrinks ==
  ASSUME NEW S, NEW q \in Seq(S), q # <<>>
  PROVE  /\ Head(q) \in S /\ Tail(q) \in Seq(S) /\ Head(q) = q[1]
         /\ Len(q) \in Nat \ {0} /\ Len(Tail(q)) = Len(q) - 1
         /\ \A i \in 1..Len(Tail(q)) : Tail(q)[i] = q[i + 1] /\ i + 1 \in 1..Len(q)
  BY HeadTailProperties, EmptySeq, LenProperties

\* Sequences of one element.
LEMMA One ==
  ASSUME NEW S, NEW x \in S
  PROVE  <<x>> \in Seq(S) /\ Len(<<x>>) = 1 /\ <<x>>[1] = x
  OBVIOUS

\* SetToSeq lists the elements of a finite set.
LEMMA SetToSeqType ==
  ASSUME NEW S, IsFiniteSet(S)
  PROVE  /\ Cardinality(S) \in Nat
         /\ \A i \in 1..Cardinality(S) : SetToSeq(S)[i] \in S
<1>1. Cardinality(S) \in Nat /\ ExistsBijection(1..Cardinality(S), S)
  BY FS_CardinalityType
<1>2. \E f \in [1..Cardinality(S) -> S] : IsInjective(f)
  BY <1>1 DEF ExistsBijection, Bijection, Injection
<1>3. SetToSeq(S) \in [1..Cardinality(S) -> S]
  BY <1>2 DEF SetToSeq
<1> QED
  BY <1>1, <1>3

LEMMA FiniteIds ==
  /\ \A S : S \subseteq ChatId => IsFiniteSet(S)
  /\ \A S : S \subseteq EntryId => IsFiniteSet(S)
<1>1. IsFiniteSet(ChatId) /\ IsFiniteSet(EntryId)
  BY FS_Interval, ChatsAssumption DEF ChatId, EntryId
<1> QED
  BY <1>1, FS_Subset

\* The calls that make chats turn to another entry.
LEMMA ChangesType ==
  ASSUME NEW ks \in SUBSET ChatId, NEW e \in Chosen
  PROVE  Changes(ks, e) \in Seq(PlainCall)
<1>1. /\ Cardinality(ks) \in Nat
      /\ \A i \in 1..Cardinality(ks) : SetToSeq(ks)[i] \in ChatId
  BY FiniteIds, SetToSeqType
<1>2. \A i \in 1..Cardinality(ks) : ChatChangeEntry(SetToSeq(ks)[i], e) \in PlainCall
  BY <1>1 DEF ChatChangeEntry, PlainCall
<1>3. Changes(ks, e) \in [1..Cardinality(ks) -> PlainCall]
  BY <1>2 DEF Changes
<1> QED
  BY <1>1, <1>3, SeqDef

\* The notifications that a contact and its entries are gone.
LEMMA RemovalType ==
  ASSUME NEW c \in ContactId
  PROVE  RemovalOf(c) \in Seq(RosterNote)
<1> DEFINE es == EntriesIn(c)
           removed == [i \in 1..Cardinality(es) |-> EntryRemoved(SetToSeq(es)[i])]
<1>1. es \subseteq EntryId
  BY DEF EntriesIn
<1>2. /\ Cardinality(es) \in Nat
      /\ \A i \in 1..Cardinality(es) : SetToSeq(es)[i] \in EntryId
  BY <1>1, FiniteIds, SetToSeqType
<1> HIDE DEF es
<1>3. removed \in [1..Cardinality(es) -> RosterNote]
  BY <1>2 DEF EntryRemoved, RosterNote
<1>4. removed \in Seq(RosterNote)
  BY <1>2, <1>3, SeqDef
<1>5. <<ContactRemoved(c)>> \in Seq(RosterNote)
  BY DEF ContactRemoved, RosterNote
<1> QED
  BY <1>4, <1>5, Grows DEF RemovalOf, es

----------------------------------------------------------------------------
(* Types, and the kinds of steps. *)

QueuesOK == toCore \in Seq(CallMsg) /\ toGui \in Seq(NoteMsg)

\* While chatStart is in the queue, it is the last call there, the main thread waits
\* for it, and an ID is left for it.
StartInv ==
    /\ \A i \in 1..Len(toCore) :
          toCore[i] \in StartCall => i = Len(toCore) /\ waiting # None /\ answer = None
    /\ answer # None => waiting # None
    /\ waiting # None /\ answer = None => nextChat < MaxChats

TypeInv == TypeOK /\ QueuesOK /\ StartInv

\* Notifications that announce no chat and speak only of chats that exist.
Saying == RosterNote \cup {n \in ChatNote : n.note # "chatIncoming" /\ chats[n.chat] # None}
Said == \E q \in Seq(Saying) : toGui' = toGui \o q

SameChats == UNCHANGED nextChat /\ \A k \in ChatId : chats'[k] = None <=> chats[k] = None
ChatMade == /\ nextChat' = nextChat + 1 /\ nextChat \in ChatId
            /\ \A k \in ChatId : chats'[k] = None <=> chats[k] = None /\ k # nextChat
SameOpen == /\ UNCHANGED windows
            /\ \A k \in ChatId : /\ open'[k] = None <=> open[k] = None
                                 /\ open[k] # None => open'[k].contact = open[k].contact
Served(calls) == toCore # <<>> /\ Head(toCore) \in calls /\ toCore' = Tail(toCore)
GuiStill == UNCHANGED <<open, windows, waiting>>
Called == \E r \in Seq(PlainCall) : toCore' = toCore \o r

SayStep == Said /\ SameChats /\ GuiStill /\ UNCHANGED <<toCore, answer>>
NewChatStep ==
    /\ \E r \in Seq(RosterNote), c \in ContactId, e \in EntryId :
          toGui' = toGui \o (r \o <<ChatIncoming(nextChat, c, e), ChatMessageReceived(nextChat)>>)
    /\ ChatsLeft /\ ChatMade /\ GuiStill /\ UNCHANGED <<toCore, answer>>
ServeStep == Served(PlainCall) /\ Said /\ SameChats /\ GuiStill /\ UNCHANGED answer
StartStep == /\ Served(StartCall) /\ GuiStill /\ UNCHANGED toGui
             /\ \/ answer' = 0 /\ SameChats
                \/ answer' = nextChat /\ ChatMade
EndStep == /\ Served(EndCall) /\ GuiStill /\ UNCHANGED <<toGui, answer, nextChat>>
           /\ \A k \in ChatId : chats'[k] = None <=> chats[k] = None \/ k = Head(toCore).chat
UserStep == /\ waiting = None /\ Called /\ SameOpen
            /\ UNCHANGED <<chats, nextChat, answer, toGui, waiting>>
NoticeStep == /\ waiting = None /\ toGui # <<>> /\ Head(toGui).note # "chatIncoming"
              /\ toGui' = Tail(toGui) /\ Called /\ SameOpen
              /\ UNCHANGED <<chats, nextChat, answer, waiting>>

StepKind == \/ SayStep \/ NewChatStep \/ ServeStep \/ StartStep \/ EndStep
            \/ UserStep \/ NoticeStep \/ chatIncoming \/ ChatStarted
            \/ \E c \in ContactId, e \in Chosen : StartChat(c, e)
            \/ \E c \in ContactId : EndChat(c)

LEMMA NoneIds == \A n \in Nat : n # None
  BY ChatsAssumption

\* What the core may have in the queue may be seen as speaking of existing chats.
LEMMA RosterSaid ==
  ASSUME NEW r \in Seq(RosterNote), toGui' = toGui \o r
  PROVE  Said
<1>1. r \in Seq(Saying)
  BY SeqMonotonic DEF Saying
<1> QED
  BY <1>1 DEF Said

LEMMA NoticeType ==
  ASSUME NEW c \in ContactId
  PROVE  /\ NoticeOf(c) \in Seq(RosterNote)
         /\ \A S : (IF S = {} THEN <<>> ELSE <<ContactRemoved(c)>>) \in Seq(RosterNote)
<1>1. ContactAdded(c) \in RosterNote /\ ContactRemoved(c) \in RosterNote
  BY DEF ContactAdded, ContactRemoved, RosterNote
<1> QED
  BY <1>1, One, EmptySeq DEF NoticeOf

LEMMA ReboundType ==
  ASSUME CoreOK, NEW e \in EntryId, NEW held \in Rebound(e)
  PROVE  /\ held \in [ChatId -> Chat \cup {None}]
         /\ \A k \in ChatId : held[k] = None <=> chats[k] = None
<1>1. CASE held = chats
  BY <1>1 DEF CoreOK
<1>2. CASE held # chats
  <2>1. PICK d \in ChatId :
           held = [k \in ChatId |-> IF chats[k] # None /\ chats[k].entry = chats[d].entry
                                    THEN [chats[k] EXCEPT !.entry = e] ELSE chats[k]]
    BY <1>2 DEF Rebound
  <2>2. \A k \in ChatId : chats[k] # None => [chats[k] EXCEPT !.entry = e] \in Chat
    BY DEF CoreOK, Chat
  <2>3. None \notin Chat
    BY ChatsAssumption
  <2> QED
    BY <2>1, <2>2, <2>3 DEF CoreOK
<1> QED
  BY <1>1, <1>2

LEMMA ItemAddedKind ==
  ASSUME TypeInv, NEW x \in Address, ItemAdded(x)
  PROVE  SayStep /\ CoreOK'
<1>1. PICK e \in EntryToMake, c \in contacts \cup ContactToMake :
        /\ WithContact(c) /\ MakeEntry(e, c, x)
        /\ chats' \in Rebound(e) /\ Reused(chats')
        /\ Notify(NoticeOf(c) \o <<EntryAdded(c, e)>>)
  BY DEF ItemAdded
<1>2. c \in ContactId /\ e \in EntryId /\ e = nextEntry
  BY DEF TypeInv, TypeOK, CoreOK, ContactToMake, EntryToMake
<1>3. EntryAdded(c, e) \in RosterNote
  BY <1>2 DEF EntryAdded, RosterNote
<1>4. NoticeOf(c) \o <<EntryAdded(c, e)>> \in Seq(RosterNote)
  BY <1>2, <1>3, NoticeType, One, Grows
<1>5. Said
  BY <1>1, <1>4, RosterSaid DEF Notify
<1>6. /\ chats' \in [ChatId -> Chat \cup {None}]
      /\ \A k \in ChatId : chats'[k] = None <=> chats[k] = None
  BY <1>1, <1>2, ReboundType DEF TypeInv, TypeOK
<1>7. SayStep
  BY <1>5, <1>6 DEF SayStep, SameChats, GuiStill, ItemAdded, CoreIdle, guiVars
<1>8. CoreOK'
  BY <1>1, <1>2, <1>6 DEF ItemAdded, TypeInv, TypeOK, CoreOK, WithContact, MakeEntry, Reused
<1> QED
  BY <1>7, <1>8

LEMMA ItemUpdatedKind ==
  ASSUME TypeInv, NEW e \in EntryId, ItemUpdated(e)
  PROVE  SayStep /\ CoreOK'
<1> DEFINE c == owner[e]
           gone == IF EntriesIn(c) = {e} THEN {c} ELSE {}
           last == IF gone = {} THEN <<>> ELSE <<ContactRemoved(c)>>
<1>1. PICK d \in (contacts \cup ContactToMake) \ {owner[e]} :
        /\ contacts' = (contacts \cup {d}) \ gone
        /\ nextContact' = IF d = nextContact THEN d + 1 ELSE nextContact
        /\ owner' = [owner EXCEPT ![e] = d]
        /\ Notify(NoticeOf(d) \o <<EntryContactChanged(e, c, d)>> \o last)
  BY DEF ItemUpdated
<1>2. c \in ContactId /\ d \in ContactId
  BY DEF TypeInv, TypeOK, CoreOK, ContactToMake, ItemUpdated, Live
<1>3. EntryContactChanged(e, c, d) \in RosterNote
  BY <1>2 DEF EntryContactChanged, RosterNote
<1>4. last \in Seq(RosterNote) /\ NoticeOf(d) \in Seq(RosterNote)
  BY <1>2, NoticeType
<1>5. NoticeOf(d) \o <<EntryContactChanged(e, c, d)>> \o last \in Seq(RosterNote)
  BY <1>3, <1>4, One, Grows
<1>6. Said
  BY <1>1, <1>5, RosterSaid DEF Notify
<1>7. SayStep
  BY <1>6 DEF SayStep, SameChats, GuiStill, ItemUpdated, CoreIdle, guiVars
<1>8. CoreOK'
  BY <1>1, <1>2 DEF ItemUpdated, TypeInv, TypeOK, CoreOK
<1> QED
  BY <1>7, <1>8

LEMMA ItemRemovedKind ==
  ASSUME TypeInv, NEW e \in EntryId, ItemRemoved(e)
  PROVE  SayStep /\ CoreOK'
<1> DEFINE c == owner[e]
           gone == IF EntriesIn(c) = {e} THEN {c} ELSE {}
           last == IF gone = {} THEN <<>> ELSE <<ContactRemoved(c)>>
<1>1. c \in ContactId
  BY DEF TypeInv, TypeOK, CoreOK, ItemRemoved, Live
<1>2. EntryRemoved(e) \in RosterNote
  BY DEF EntryRemoved, RosterNote
<1>3. last \in Seq(RosterNote)
  BY <1>1, NoticeType
<1>4. <<EntryRemoved(e)>> \o last \in Seq(RosterNote)
  BY <1>2, <1>3, One, Grows
<1>5. Said
  BY <1>4, RosterSaid DEF Notify, ItemRemoved
<1>6. SayStep
  BY <1>5 DEF SayStep, SameChats, GuiStill, ItemRemoved, CoreIdle, guiVars
<1>7. CoreOK'
  BY DEF ItemRemoved, TypeInv, TypeOK, CoreOK
<1> QED
  BY <1>6, <1>7

\* A chat that is found is one of those searched.
LEMMA FoundType ==
  ASSUME NEW held, NEW x, NEW c, NEW live, NEW maybe
  PROVE  FoundChat(held, x, c, live, maybe) \subseteq {k \in ChatId : held[k] # None}
  BY DEF FoundChat

LEMMA ReceivedSaying ==
  ASSUME NEW k \in ChatId, chats[k] # None
  PROVE  /\ ChatMessageReceived(k) \in Saying
         /\ \A e \in Chosen : ChatEntryChanged(k, e) \in Saying
  BY DEF ChatMessageReceived, ChatEntryChanged, Saying, ChatNote

LEMMA MessageReceivedKind ==
  ASSUME TypeInv, NEW x \in Address, MessageReceived(x)
  PROVE  (SayStep \/ NewChatStep) /\ CoreOK'
<1> DEFINE known == EntriesAt(x) # {}
<1>1. PICK e \in IF known THEN EntriesAt(x) ELSE EntryToMake,
           c \in IF known THEN contacts ELSE ContactToMake,
           maybe \in SUBSET {k \in ChatId : Dangles(k)} :
       \E held \in IF known THEN {chats} ELSE Rebound(e) :
          LET chat == FoundChat(held, x, c, LiveEntries \cup {e}, maybe)
              met == IF known THEN <<>> ELSE <<ContactAdded(c), EntryAdded(c, e)>>
          IN
          /\ known => c = owner[e]
          /\ Reused(held)
          /\ IF known THEN UNCHANGED rosterVars ELSE WithContact(c) /\ MakeEntry(e, c, x)
          /\ IF chat = {}
             THEN /\ ChatsLeft /\ nextChat' = nextChat + 1
                  /\ chats' = [held EXCEPT ![nextChat] =
                                  [contact |-> c, entry |-> e, addr |-> x]]
                  /\ Notify(met \o <<ChatIncoming(nextChat, c, e),
                                     ChatMessageReceived(nextChat)>>)
             ELSE \E k \in chat :
                  /\ chats' = [held EXCEPT ![k].entry = e, ![k].addr = x]
                  /\ Notify(met \o (IF held[k].entry = e THEN <<>>
                                    ELSE <<ChatEntryChanged(k, e)>>)
                                \o <<ChatMessageReceived(k)>>)
                  /\ UNCHANGED nextChat
  BY DEF MessageReceived
<1>2. e \in EntryId /\ c \in ContactId /\ (~known => e = nextEntry)
  BY DEF TypeInv, TypeOK, CoreOK, ContactToMake, EntryToMake, EntriesAt
<1> DEFINE met == IF known THEN <<>> ELSE <<ContactAdded(c), EntryAdded(c, e)>>
<1> HIDE DEF known
<1>3. met \in Seq(RosterNote)
  <2>1. ContactAdded(c) \in RosterNote /\ EntryAdded(c, e) \in RosterNote
    BY <1>2 DEF ContactAdded, EntryAdded, RosterNote
  <2> QED
    BY <2>1
<1>4. PICK held \in IF known THEN {chats} ELSE Rebound(e) :
          LET chat == FoundChat(held, x, c, LiveEntries \cup {e}, maybe) IN
          /\ known => c = owner[e]
          /\ Reused(held)
          /\ IF known THEN UNCHANGED rosterVars ELSE WithContact(c) /\ MakeEntry(e, c, x)
          /\ IF chat = {}
             THEN /\ ChatsLeft /\ nextChat' = nextChat + 1
                  /\ chats' = [held EXCEPT ![nextChat] =
                                  [contact |-> c, entry |-> e, addr |-> x]]
                  /\ Notify(met \o <<ChatIncoming(nextChat, c, e),
                                     ChatMessageReceived(nextChat)>>)
             ELSE \E k \in chat :
                  /\ chats' = [held EXCEPT ![k].entry = e, ![k].addr = x]
                  /\ Notify(met \o (IF held[k].entry = e THEN <<>>
                                    ELSE <<ChatEntryChanged(k, e)>>)
                                \o <<ChatMessageReceived(k)>>)
                  /\ UNCHANGED nextChat
  BY <1>1 DEF known
<1>5. /\ held \in [ChatId -> Chat \cup {None}]
      /\ \A k \in ChatId : held[k] = None <=> chats[k] = None
  BY <1>2, <1>4, ReboundType DEF TypeInv, TypeOK, CoreOK
<1>6. /\ contacts' \subseteq ContactId /\ nextContact' \in Nat /\ nextEntry' \in Nat
      /\ owner' \in [EntryId -> ContactId \cup {None}]
      /\ addr' \in [EntryId -> Address \cup {None}]
  BY <1>2, <1>4 DEF TypeInv, TypeOK, CoreOK, rosterVars, WithContact, MakeEntry
<1>0. reused' \subseteq ChatId
  BY <1>4 DEF Reused, TypeInv, TypeOK, CoreOK
<1>7. UNCHANGED <<toCore, answer, open, windows, waiting>>
  BY DEF MessageReceived, CoreIdle, guiVars
<1> DEFINE chat == FoundChat(held, x, c, LiveEntries \cup {e}, maybe)
<1>8. CASE chat = {}
  <2> DEFINE new == [contact |-> c, entry |-> e, addr |-> x]
  <2>1. /\ ChatsLeft /\ nextChat' = nextChat + 1 /\ chats' = [held EXCEPT ![nextChat] = new]
        /\ toGui' = toGui \o (met \o <<ChatIncoming(nextChat, c, e),
                                       ChatMessageReceived(nextChat)>>)
    BY <1>4, <1>8 DEF Notify
  <2>2. nextChat \in ChatId /\ nextChat' \in 0..MaxChats
    BY <2>1, ChatsAssumption DEF TypeInv, TypeOK, CoreOK, ChatsLeft, ChatId
  <2>3. new \in Chat /\ new # None
    BY <1>2, ChatsAssumption DEF Chat
  <2> HIDE DEF new, met
  <2>4. ChatMade /\ chats' \in [ChatId -> Chat \cup {None}]
    BY <1>5, <2>1, <2>2, <2>3 DEF ChatMade
  <2>5. NewChatStep
    BY <1>2, <1>3, <1>7, <2>1, <2>4 DEF NewChatStep, GuiStill
  <2> QED
    BY <1>0, <1>6, <2>2, <2>4, <2>5 DEF CoreOK
<1>9. CASE chat # {}
  <2>1. PICK k \in chat :
          /\ chats' = [held EXCEPT ![k].entry = e, ![k].addr = x]
          /\ toGui' = toGui \o (met \o (IF held[k].entry = e THEN <<>>
                                        ELSE <<ChatEntryChanged(k, e)>>)
                                    \o <<ChatMessageReceived(k)>>)
          /\ UNCHANGED nextChat
    BY <1>4, <1>9 DEF Notify
  <2>2. k \in ChatId /\ held[k] # None /\ chats[k] # None
    BY <1>5, FoundType
  <2> DEFINE turn == IF held[k].entry = e THEN <<>> ELSE <<ChatEntryChanged(k, e)>>
  <2>3. turn \in Seq(Saying) /\ <<ChatMessageReceived(k)>> \in Seq(Saying)
    BY <1>2, <2>2, ReceivedSaying, One, EmptySeq DEF Chosen
  <2>4. met \in Seq(Saying)
    BY <1>3, SeqMonotonic DEF Saying
  <2> HIDE DEF turn, met
  <2>5. met \o turn \o <<ChatMessageReceived(k)>> \in Seq(Saying)
    BY <2>3, <2>4, Grows
  <2>6. Said
    BY <2>1, <2>5 DEF Said, turn
  <2> DEFINE now == [held[k] EXCEPT !.entry = e, !.addr = x]
  <2>7. held[k] \in Chat /\ now \in Chat
    BY <1>2, <1>5, <2>2 DEF Chat
  <2>8. chats' = [held EXCEPT ![k] = now]
    BY <1>5, <2>1, <2>2
  <2> HIDE DEF now
  <2>9. /\ chats' \in [ChatId -> Chat \cup {None}]
        /\ \A j \in ChatId : chats'[j] = None <=> chats[j] = None
    BY <1>5, <2>2, <2>7, <2>8, ChatsAssumption
  <2>10. SayStep
    BY <1>7, <2>1, <2>6, <2>9 DEF SayStep, SameChats, GuiStill
  <2> QED
    BY <1>0, <1>6, <2>1, <2>9, <2>10 DEF CoreOK, TypeInv, TypeOK
<1> QED
  BY <1>8, <1>9

LEMMA TypingReceivedKind ==
  ASSUME TypeInv, NEW x \in Address, TypingReceived(x)
  PROVE  SayStep /\ CoreOK'
<1>1. PICK maybe \in SUBSET {k \in ChatId : Dangles(k)} :
          LET c == IF EntriesAt(x) = {} THEN None ELSE owner[CHOOSE e \in EntriesAt(x) : TRUE]
              chat == FoundChat(chats, x, c, LiveEntries, maybe)
          IN IF c = None /\ chat = {} THEN stopped' = "core" /\ UNCHANGED toGui
             ELSE /\ Notify(IF chat = {} THEN <<>>
                            ELSE <<ChatMessageReceived(CHOOSE k \in chat : TRUE)>>)
                  /\ UNCHANGED stopped
  BY DEF TypingReceived
<1>2. PICK c : LET chat == FoundChat(chats, x, c, LiveEntries, maybe) IN
          \/ UNCHANGED toGui
          \/ Notify(IF chat = {} THEN <<>>
                    ELSE <<ChatMessageReceived(CHOOSE k \in chat : TRUE)>>)
  BY <1>1
<1> DEFINE chat == FoundChat(chats, x, c, LiveEntries, maybe)
<1>3. toGui \in Seq(NoteMsg)
  BY DEF TypeInv, QueuesOK
<1>4. CASE UNCHANGED toGui \/ (chat = {} /\ Notify(<<>>))
  <2>1. toGui' = toGui \o <<>> /\ <<>> \in Seq(Saying)
    BY <1>3, <1>4, ConcatEmptySeq, EmptySeq DEF Notify
  <2> QED
    BY <2>1 DEF Said, SayStep, SameChats, GuiStill, TypingReceived, CoreIdle, guiVars,
                coreVars, rosterVars, TypeInv, TypeOK, CoreOK
<1>5. CASE chat # {} /\ Notify(<<ChatMessageReceived(CHOOSE k \in chat : TRUE)>>)
  <2>1. (CHOOSE k \in chat : TRUE) \in chat
    BY <1>5
  <2>2. PICK k \in chat : Notify(<<ChatMessageReceived(k)>>)
    BY <1>5, <2>1
  <2>3. <<ChatMessageReceived(k)>> \in Seq(Saying)
    BY FoundType, ReceivedSaying, One
  <2> QED
    BY <2>2, <2>3 DEF Notify, Said, SayStep, SameChats, GuiStill, TypingReceived, CoreIdle,
                guiVars, coreVars, rosterVars, TypeInv, TypeOK, CoreOK
<1> QED
  BY <1>2, <1>4, <1>5
----------------------------------------------------------------------------
(* The calls that the core serves. *)

\* The call that is served, by its name.
LEMMA ServedCall ==
  ASSUME TypeInv, toCore # <<>>
  PROVE  /\ Head(toCore) \in CallMsg /\ Head(toCore) = toCore[1] /\ 1 \in 1..Len(toCore)
         /\ Head(toCore).call = "chatStart" => Head(toCore) \in StartCall
         /\ Head(toCore).call = "chatEnd" => Head(toCore) \in EndCall
         /\ Head(toCore).call \notin {"chatStart", "chatEnd"} => Head(toCore) \in PlainCall
<1>1. Head(toCore) \in CallMsg /\ Head(toCore) = toCore[1] /\ Len(toCore) \in Nat \ {0}
  BY Shrinks DEF TypeInv, QueuesOK
<1> QED
  BY <1>1 DEF CallMsg, StartCall, EndCall, PlainCall

LEMMA NothingSaid ==
  ASSUME TypeInv, UNCHANGED toGui
  PROVE  Said
<1>1. toGui' = toGui \o <<>> /\ <<>> \in Seq(Saying)
  BY ConcatEmptySeq, EmptySeq DEF TypeInv, QueuesOK
<1> QED
  BY <1>1 DEF Said

LEMMA chatStartKind ==
  ASSUME TypeInv, chatStart
  PROVE  StartStep /\ CoreOK' /\ answer' \in ChatId
<1> DEFINE m == Head(toCore)
           e == IF Live(m.entry) THEN m.entry ELSE None
           new == [contact |-> m.contact, entry |-> e,
                   addr |-> IF e = None THEN None ELSE addr[e]]
<1>1. /\ toCore # <<>> /\ m \in StartCall /\ toCore' = Tail(toCore)
      /\ UNCHANGED <<guiVars, waiting, rosterVars, toGui, reused>>
  BY ServedCall DEF chatStart, Serving
<1>2. Served(StartCall) /\ GuiStill
  BY <1>1 DEF Served, GuiStill, guiVars
<1>3. nextChat < MaxChats
  BY <1>1, ServedCall DEF TypeInv, StartInv
<1>4. nextChat \in ChatId /\ nextChat + 1 \in 0..MaxChats
  BY <1>3, ChatsAssumption DEF TypeInv, TypeOK, CoreOK, ChatId
<1>5. CASE m.contact \notin contacts
  <2>1. answer' = 0 /\ UNCHANGED <<chats, nextChat>>
    BY <1>5 DEF chatStart
  <2> QED
    BY <1>1, <1>2, <1>4, <2>1, ChatsAssumption
       DEF StartStep, SameChats, TypeInv, TypeOK, CoreOK, rosterVars, ChatId
<1>6. CASE m.contact \in contacts
  <2>1. chats' = [chats EXCEPT ![nextChat] = new] /\ answer' = nextChat
        /\ nextChat' = nextChat + 1
    BY <1>6 DEF chatStart
  <2>2. new \in Chat /\ new # None
    <3>1. m.contact \in ContactId /\ e \in EntryId \cup {None}
      BY <1>1 DEF StartCall, Chosen
    <3>2. (IF e = None THEN None ELSE addr[e]) \in Address \cup {None}
      BY <3>1 DEF TypeInv, TypeOK, CoreOK
    <3> QED
      BY <3>1, <3>2, ChatsAssumption DEF Chat
  <2> HIDE DEF new
  <2>3. chats' \in [ChatId -> Chat \cup {None}] /\ ChatMade
    BY <1>4, <2>1, <2>2 DEF ChatMade, TypeInv, TypeOK, CoreOK
  <2> QED
    BY <1>1, <1>2, <1>4, <2>1, <2>3 DEF StartStep, TypeInv, TypeOK, CoreOK, rosterVars
<1> QED
  BY <1>5, <1>6

LEMMA chatChangeEntryKind ==
  ASSUME TypeInv, chatChangeEntry
  PROVE  ServeStep /\ CoreOK'
<1> DEFINE m == Head(toCore)
           e == IF Live(m.entry) THEN m.entry ELSE None
           a == IF e = None THEN None ELSE addr[e]
<1>1. /\ toCore # <<>> /\ m \in PlainCall /\ m.call = "chatChangeEntry"
      /\ toCore' = Tail(toCore)
      /\ UNCHANGED <<guiVars, waiting, rosterVars, nextChat, answer, reused>>
  BY ServedCall DEF chatChangeEntry, Serving
<1>2. m.chat \in ChatId /\ e \in EntryId \cup {None}
  BY <1>1 DEF PlainCall, Chosen
<1>3. Served(PlainCall) /\ GuiStill
  BY <1>1 DEF Served, GuiStill, guiVars
<1>4. CASE UNCHANGED <<chats, toGui>>
  BY <1>1, <1>3, <1>4, NothingSaid
     DEF ServeStep, SameChats, TypeInv, TypeOK, CoreOK, rosterVars
<1>5. CASE /\ chats[m.chat] # None
           /\ chats' = [chats EXCEPT ![m.chat].entry = e, ![m.chat].addr = a]
           /\ toGui' = toGui \o <<ChatEntryChanged(m.chat, e)>>
  <2>1. <<ChatEntryChanged(m.chat, e)>> \in Seq(Saying)
    BY <1>2, <1>5, ReceivedSaying, One DEF Chosen
  <2>2. Said
    BY <1>5, <2>1 DEF Said
  <2>3. a \in Address \cup {None}
    BY <1>2 DEF TypeInv, TypeOK, CoreOK
  <2> HIDE DEF a, e, m
  <2> DEFINE now == [chats[m.chat] EXCEPT !.entry = e, !.addr = a]
  <2>4. now \in Chat /\ now # None
    BY <1>2, <1>5, <2>3, ChatsAssumption DEF Chat, TypeInv, TypeOK, CoreOK
  <2>5. chats' = [chats EXCEPT ![m.chat] = now]
    BY <1>2, <1>5 DEF TypeInv, TypeOK, CoreOK
  <2> HIDE DEF now
  <2>6. chats' \in [ChatId -> Chat \cup {None}] /\ SameChats
    BY <1>1, <1>2, <1>5, <2>4, <2>5 DEF SameChats, TypeInv, TypeOK, CoreOK
  <2> QED
    BY <1>1, <1>3, <2>2, <2>6 DEF ServeStep, TypeInv, TypeOK, CoreOK, rosterVars
<1> QED
  BY <1>4, <1>5 DEF chatChangeEntry, Notify

LEMMA chatEndKind ==
  ASSUME TypeInv, chatEnd
  PROVE  EndStep /\ CoreOK'
<1>1. Head(toCore) \in EndCall /\ Served(EndCall)
  BY ServedCall DEF chatEnd, Serving, Served
<1>2. Head(toCore).chat \in ChatId
  BY <1>1 DEF EndCall
<1> QED
  BY <1>1, <1>2 DEF chatEnd, Serving, EndStep, GuiStill, guiVars, rosterVars,
                    TypeInv, TypeOK, CoreOK

LEMMA chatMessageSendKind ==
  ASSUME TypeInv, chatMessageSend
  PROVE  ServeStep /\ CoreOK'
<1>1. Served(PlainCall)
  BY ServedCall DEF chatMessageSend, Serving, Served
<1>2. UNCHANGED <<coreVars, answer, toGui, guiVars, waiting>>
  BY DEF chatMessageSend, Serving
<1> QED
  BY <1>1, <1>2, NothingSaid DEF ServeStep, SameChats, GuiStill, guiVars, coreVars,
                                 rosterVars, TypeInv, TypeOK, CoreOK

LEMMA rosterContactRemoveKind ==
  ASSUME TypeInv, rosterContactRemove
  PROVE  ServeStep /\ CoreOK'
<1> DEFINE c == Head(toCore).contact
<1>1. Served(PlainCall)
  BY ServedCall DEF rosterContactRemove, Serving, Served
<1>2. UNCHANGED <<addr, nextContact, nextEntry, chats, nextChat, reused, answer, guiVars,
                 waiting>>
  BY DEF rosterContactRemove, Serving
<1>3. CASE UNCHANGED <<contacts, owner, toGui>>
  BY <1>1, <1>2, <1>3, NothingSaid
     DEF ServeStep, SameChats, GuiStill, guiVars, TypeInv, TypeOK, CoreOK
<1>4. CASE c \in contacts
  <2>1. /\ contacts' = contacts \ {c}
        /\ owner' = [e \in EntryId |-> IF owner[e] = c THEN None ELSE owner[e]]
        /\ toGui' = toGui \o RemovalOf(c)
    BY <1>4 DEF rosterContactRemove, Notify
  <2>2. Said
    BY <1>4, <2>1, RemovalType, RosterSaid DEF TypeInv, TypeOK, CoreOK
  <2> QED
    BY <1>1, <1>2, <2>1, <2>2 
       DEF ServeStep, SameChats, GuiStill, guiVars, TypeInv, TypeOK, CoreOK
<1> QED
  BY <1>3, <1>4 DEF rosterContactRemove

LEMMA rosterEntryChangeContactKind ==
  ASSUME TypeInv, rosterEntryChangeContact
  PROVE  ServeStep /\ CoreOK'
<1> DEFINE m == Head(toCore)
<1>1. Served(PlainCall) /\ m \in PlainCall /\ m.call = "rosterEntryChangeContact"
  BY ServedCall DEF rosterEntryChangeContact, Serving, Served
<1>2. /\ UNCHANGED <<contacts, addr, nextContact, nextEntry, chats, nextChat, answer>>
      /\ UNCHANGED <<guiVars, waiting, reused>>
  BY DEF rosterEntryChangeContact, Serving
<1>3. m.entry \in EntryId /\ m.old \in ContactId /\ m.new \in ContactId
  BY <1>1 DEF PlainCall
<1>4. CASE UNCHANGED <<owner, toGui>>
  BY <1>1, <1>2, <1>4, NothingSaid
     DEF ServeStep, SameChats, GuiStill, guiVars, TypeInv, TypeOK, CoreOK
<1>5. CASE /\ owner' = [owner EXCEPT ![m.entry] = m.new]
           /\ toGui' = toGui \o <<EntryContactChanged(m.entry, m.old, m.new)>>
  <2>1. EntryContactChanged(m.entry, m.old, m.new) \in RosterNote
    BY <1>3 DEF EntryContactChanged, RosterNote
  <2>2. Said
    BY <1>5, <2>1, One, RosterSaid
  <2> QED
    BY <1>1, <1>2, <1>3, <1>5, <2>2
       DEF ServeStep, SameChats, GuiStill, guiVars, TypeInv, TypeOK, CoreOK
<1> QED
  BY <1>4, <1>5 DEF rosterEntryChangeContact, Notify
----------------------------------------------------------------------------
(* The user's steps, and the notifications that the main thread serves. *)

\* Chats that turn to another entry stay the chats that they are.
LEMMA TurnType ==
  ASSUME GuiOK, UNCHANGED windows, open' = [k \in ChatId |-> open'[k]],
         \A k \in ChatId :
            \/ open'[k] = open[k]
            \/ open[k] # None /\ \E x \in Chosen : open'[k] = [open[k] EXCEPT !.entry = x]
  PROVE  SameOpen /\ open' \in [ChatId -> Open \cup {None}]
<1>1. None \notin Open
  BY ChatsAssumption
<1>2. ASSUME NEW k \in ChatId
      PROVE  /\ open'[k] \in Open \cup {None}
             /\ open'[k] = None <=> open[k] = None
             /\ open[k] # None => open'[k].contact = open[k].contact
  <2>1. open[k] \in Open \cup {None}
    BY DEF GuiOK
  <2>2. CASE open'[k] = open[k]
    BY <2>1, <2>2
  <2>3. CASE open[k] # None /\ \E x \in Chosen : open'[k] = [open[k] EXCEPT !.entry = x]
    <3>1. PICK x \in Chosen : open'[k] = [open[k] EXCEPT !.entry = x]
      BY <2>3
    <3>2. open[k] \in Open
      BY <2>1, <2>3
    <3>3. open'[k] \in Open /\ open'[k].contact = open[k].contact
      BY <3>1, <3>2 DEF Open, Chosen
    <3> QED
      BY <1>1, <2>3, <3>3
  <2> QED
    BY <2>2, <2>3
<1>3. SameOpen
  BY <1>2 DEF SameOpen
<1>4. open' \in [ChatId -> Open \cup {None}]
  BY <1>2
<1> QED
  BY <1>3, <1>4

LEMMA SetActiveType ==
  ASSUME GuiOK, NEW ks \in SUBSET {k \in ChatId : open[k] # None}, NEW e \in Chosen,
         UNCHANGED windows, open' = SetActive(ks, e)
  PROVE  SameOpen /\ open' \in [ChatId -> Open \cup {None}]
<1>1. open' = [k \in ChatId |-> open'[k]]
  BY DEF SetActive
<1>2. ASSUME NEW k \in ChatId
      PROVE  \/ open'[k] = open[k]
             \/ open[k] # None /\ \E x \in Chosen : open'[k] = [open[k] EXCEPT !.entry = x]
  BY DEF SetActive
<1> QED
  BY <1>1, <1>2, TurnType

LEMMA LostType ==
  ASSUME NEW c, NEW list
  PROVE  Lost(c, list) \in SUBSET {k \in ChatId : open[k] # None}
  BY DEF Lost

LEMMA LeftEmptyType ==
  ASSUME NEW c \in ContactId \cup {None}, NEW list
  PROVE  LeftEmpty(c, list) \in Seq(PlainCall)
<1>1. ContactRemove(c) \in PlainCall
  BY DEF ContactRemove, PlainCall
<1> QED
  BY <1>1, One, EmptySeq DEF LeftEmpty

\* The notification that is served, by its name.
LEMMA ServedNote ==
  ASSUME TypeInv, toGui # <<>>
  PROVE  LET m == Head(toGui) IN
         /\ m \in NoteMsg /\ m = toGui[1] /\ 1 \in 1..Len(toGui)
         /\ m.note \in {"rosterContactAdded", "rosterContactRemoved"} => m.contact \in ContactId
         /\ m.note = "rosterEntryAdded" => m.contact \in ContactId /\ m.entry \in EntryId
         /\ m.note = "rosterEntryRemoved" => m.entry \in EntryId
         /\ m.note = "rosterEntryContactChanged" =>
               m.entry \in EntryId /\ m.old \in ContactId /\ m.new \in ContactId
         /\ m.note = "chatIncoming" =>
               m.chat \in ChatId /\ m.contact \in ContactId /\ m.entry \in EntryId
         /\ m.note = "chatEntryChanged" => m.chat \in ChatId /\ m.entry \in Chosen
<1>1. Head(toGui) \in NoteMsg /\ Head(toGui) = toGui[1] /\ Len(toGui) \in Nat \ {0}
  BY Shrinks DEF TypeInv, QueuesOK
<1> QED
  BY <1>1 DEF NoteMsg, RosterNote, ChatNote

LEMMA NothingCalled ==
  ASSUME TypeInv, UNCHANGED toCore
  PROVE  Called
<1>1. toCore' = toCore \o <<>> /\ <<>> \in Seq(PlainCall)
  BY ConcatEmptySeq, EmptySeq DEF TypeInv, QueuesOK
<1> QED
  BY <1>1 DEF Called

LEMMA OneCalled ==
  ASSUME NEW m \in PlainCall, Call(<<m>>)
  PROVE  Called
  BY One DEF Call, Called

LEMMA PickEntryKind ==
  ASSUME TypeInv, NEW k \in ChatId, NEW e \in EntryId, PickEntry(k, e)
  PROVE  UserStep /\ GuiOK'
<1>1. ChatChangeEntry(k, e) \in PlainCall
  BY DEF ChatChangeEntry, PlainCall, Chosen
<1>2. Called
  BY <1>1, OneCalled DEF PickEntry
<1>3. {k} \in SUBSET {j \in ChatId : open[j] # None} /\ e \in Chosen
  BY DEF PickEntry, Chosen
<1>4. SameOpen /\ open' \in [ChatId -> Open \cup {None}]
  BY <1>3, SetActiveType DEF PickEntry, TypeInv, TypeOK
<1> QED
  BY <1>2, <1>4 DEF PickEntry, Free, GuiIdle, coreVars, UserStep, TypeInv, TypeOK, GuiOK

\* What sends one call and changes nothing else.
LEMMA CallOnly ==
  ASSUME TypeInv, Called, waiting = None, UNCHANGED <<guiVars, waiting>>, GuiIdle
  PROVE  UserStep /\ GuiOK'
  BY DEF GuiIdle, coreVars, guiVars, UserStep, SameOpen, TypeInv, TypeOK, GuiOK

LEMMA SendKind ==
  ASSUME TypeInv, NEW c \in ContactId, Send(c)
  PROVE  UserStep /\ GuiOK'
<1>1. ChatMessageSend(windows[c]) \in PlainCall
  BY DEF Send, ChatMessageSend, PlainCall, TypeInv, TypeOK, GuiOK
<1>2. Called
  BY <1>1, OneCalled DEF Send
<1> QED
  BY <1>2, CallOnly DEF Send, Free

LEMMA RemoveContactKind ==
  ASSUME TypeInv, NEW c \in ContactId, RemoveContact(c)
  PROVE  UserStep /\ GuiOK'
<1>1. ContactRemove(c) \in PlainCall
  BY DEF ContactRemove, PlainCall
<1>2. Called
  BY <1>1, OneCalled DEF RemoveContact
<1> QED
  BY <1>2, CallOnly DEF RemoveContact, Free

LEMMA MoveEntryKind ==
  ASSUME TypeInv, NEW e \in EntryId, NEW d \in ContactId, MoveEntry(e, d)
  PROVE  UserStep /\ GuiOK'
<1>1. EntryChangeContact(e, gowner[e], d) \in PlainCall
  BY DEF MoveEntry, EntryChangeContact, PlainCall, TypeInv, TypeOK, GuiOK
<1>2. Called
  BY <1>1, OneCalled DEF MoveEntry
<1> QED
  BY <1>2, CallOnly DEF MoveEntry, Free

\* A notification that the roster or a chat takes, and no chat is opened.
LEMMA Noticed ==
  ASSUME NEW name, Noticing(name), name # "chatIncoming", Called, SameOpen
  PROVE  NoticeStep
  BY DEF Noticing, coreVars, NoticeStep

LEMMA SameOpenStill ==
  ASSUME UNCHANGED <<open, windows>>
  PROVE  SameOpen
  BY DEF SameOpen

LEMMA rosterContactKind ==
  ASSUME TypeInv, rosterContactAdded \/ rosterContactRemoved \/ chatMessageReceived
  PROVE  NoticeStep /\ GuiOK'
<1>1. UNCHANGED <<toCore, gowner, open, windows>>
  BY DEF rosterContactAdded, rosterContactRemoved, chatMessageReceived, guiVars
<1>2. Called /\ SameOpen
  BY <1>1, NothingCalled, SameOpenStill
<1>3. NoticeStep
  BY <1>2, Noticed DEF rosterContactAdded, rosterContactRemoved, chatMessageReceived
<1>4. gcontacts' \subseteq ContactId
  BY ServedNote DEF rosterContactAdded, rosterContactRemoved, chatMessageReceived, guiVars,
                    Noticing, TypeInv, TypeOK, GuiOK
<1> QED
  BY <1>1, <1>3, <1>4 DEF TypeInv, TypeOK, GuiOK

LEMMA rosterEntryAddedKind ==
  ASSUME TypeInv, rosterEntryAdded
  PROVE  NoticeStep /\ GuiOK'
<1> DEFINE m == Head(toGui)
           list == Listed(m.contact) \cup {m.entry}
           lost == Lost(m.contact, list)
<1>1. Noticing("rosterEntryAdded") /\ UNCHANGED <<gcontacts, windows>>
  BY DEF rosterEntryAdded
<1>2. m.contact \in ContactId /\ m.entry \in EntryId
  BY <1>1, ServedNote DEF Noticing
<1>3. list \subseteq Chosen
  BY <1>2 DEF Listed, Chosen
<1>4. CASE UNCHANGED <<toCore, gowner, open>>
  <2>1. Called /\ SameOpen
    BY <1>1, <1>4, NothingCalled, SameOpenStill
  <2> QED
    BY <1>1, <1>4, <2>1, Noticed DEF TypeInv, TypeOK, GuiOK
<1>5. CASE \E main \in list :
             /\ gowner' = [gowner EXCEPT ![m.entry] = m.contact]
             /\ open' = SetActive(lost, main) /\ Call(Changes(lost, main))
  <2>1. PICK main \in Chosen :
             /\ gowner' = [gowner EXCEPT ![m.entry] = m.contact]
             /\ open' = SetActive(lost, main) /\ Call(Changes(lost, main))
    BY <1>3, <1>5
  <2>2. lost \in SUBSET {k \in ChatId : open[k] # None}
    BY LostType
  <2> HIDE DEF lost
  <2>3. SameOpen /\ open' \in [ChatId -> Open \cup {None}]
    BY <1>1, <2>1, <2>2, SetActiveType DEF TypeInv, TypeOK
  <2>4. Called
    BY <2>1, <2>2, ChangesType DEF Call, Called
  <2> QED
    BY <1>1, <1>2, <2>1, <2>3, <2>4, Noticed DEF TypeInv, TypeOK, GuiOK
<1> QED
  BY <1>4, <1>5 DEF rosterEntryAdded

LEMMA rosterEntryRemovedKind ==
  ASSUME TypeInv, rosterEntryRemoved
  PROVE  NoticeStep /\ GuiOK'
<1> DEFINE e == Head(toGui).entry
           c == gowner[e]
           list == Listed(c) \ {e}
           lost == Lost(c, list)
<1>1. /\ Noticing("rosterEntryRemoved") /\ UNCHANGED <<gcontacts, windows>>
      /\ gowner' = [gowner EXCEPT ![e] = None]
  BY DEF rosterEntryRemoved
<1>2. e \in EntryId /\ c \in ContactId \cup {None}
  BY <1>1, ServedNote DEF Noticing, TypeInv, TypeOK, GuiOK
<1>3. MainEntry(list) \subseteq Chosen
  BY DEF Listed, Chosen, MainEntry
<1>4. PICK main \in Chosen :
          /\ open' = SetActive(lost, main)
          /\ Call(Changes(lost, main) \o LeftEmpty(c, list))
  BY <1>3 DEF rosterEntryRemoved
<1>5. lost \in SUBSET {k \in ChatId : open[k] # None}
  BY LostType
<1> HIDE DEF lost, list
<1>6. SameOpen /\ open' \in [ChatId -> Open \cup {None}]
  BY <1>1, <1>4, <1>5, SetActiveType DEF TypeInv, TypeOK
<1>7. Changes(lost, main) \o LeftEmpty(c, list) \in Seq(PlainCall)
  BY <1>2, <1>5, ChangesType, LeftEmptyType, Grows
<1>8. Called
  BY <1>4, <1>7 DEF Call, Called
<1> QED
  BY <1>1, <1>2, <1>6, <1>8, Noticed DEF TypeInv, TypeOK, GuiOK

LEMMA rosterEntryContactChangedKind ==
  ASSUME TypeInv, rosterEntryContactChanged
  PROVE  NoticeStep /\ GuiOK'
<1> DEFINE m == Head(toGui)
           list == Listed(m.old) \ {m.entry}
           lost == Lost(m.old, list)
           joined == Listed(m.new) \cup {m.entry}
           joining == Lost(m.new, joined)
<1>1. /\ Noticing("rosterEntryContactChanged") /\ UNCHANGED <<gcontacts, windows>>
      /\ gowner' = [gowner EXCEPT ![m.entry] = m.new]
  BY DEF rosterEntryContactChanged
<1>2. m.entry \in EntryId /\ m.old \in ContactId /\ m.new \in ContactId
  BY <1>1, ServedNote DEF Noticing
<1>3. MainEntry(list) \subseteq Chosen /\ joined \subseteq Chosen
  BY <1>2 DEF Listed, Chosen, MainEntry
<1>4. PICK main \in Chosen, new \in Chosen :
          /\ open' = [k \in ChatId |-> IF k \in joining THEN [open[k] EXCEPT !.entry = new]
                                       ELSE SetActive(lost, main)[k]]
          /\ Call(Changes(lost, main) \o LeftEmpty(m.old, list) \o Changes(joining, new))
  BY <1>3 DEF rosterEntryContactChanged
<1>5. /\ lost \in SUBSET {k \in ChatId : open[k] # None}
      /\ joining \in SUBSET {k \in ChatId : open[k] # None}
  BY LostType
<1> HIDE DEF lost, list, joining, joined
<1>6. SameOpen /\ open' \in [ChatId -> Open \cup {None}]
  <2>1. open' = [k \in ChatId |-> open'[k]]
    BY <1>4
  <2>2. ASSUME NEW k \in ChatId
        PROVE  \/ open'[k] = open[k]
               \/ open[k] # None /\ \E x \in Chosen : open'[k] = [open[k] EXCEPT !.entry = x]
    BY <1>4, <1>5 DEF SetActive
  <2> QED
    BY <1>1, <2>1, <2>2, TurnType DEF TypeInv, TypeOK
<1>7. /\ Changes(lost, main) \in Seq(PlainCall)
      /\ LeftEmpty(m.old, list) \in Seq(PlainCall)
      /\ Changes(joining, new) \in Seq(PlainCall)
  BY <1>2, <1>5, ChangesType, LeftEmptyType
<1>8. Called
  BY <1>4, <1>7, Grows DEF Call, Called
<1> QED
  BY <1>1, <1>2, <1>6, <1>8, Noticed DEF TypeInv, TypeOK, GuiOK

LEMMA chatEntryChangedKind ==
  ASSUME TypeInv, chatEntryChanged
  PROVE  NoticeStep /\ GuiOK'
<1> DEFINE m == Head(toGui)
           ks == {k \in {m.chat} : open[k] # None}
<1>1. Noticing("chatEntryChanged") /\ UNCHANGED <<toCore, gcontacts, gowner, windows>>
  BY DEF chatEntryChanged
<1>2. m.chat \in ChatId /\ m.entry \in Chosen
  BY <1>1, ServedNote DEF Noticing
<1>3. open' = IF open[m.chat] = None THEN open ELSE [open EXCEPT ![m.chat].entry = m.entry]
  BY DEF chatEntryChanged
<1>4. open' = SetActive(ks, m.entry)
  BY <1>2, <1>3 DEF SetActive, TypeInv, TypeOK, GuiOK
<1>5. ks \in SUBSET {k \in ChatId : open[k] # None}
  BY <1>2
<1> HIDE DEF ks
<1>6. SameOpen /\ open' \in [ChatId -> Open \cup {None}]
  BY <1>1, <1>2, <1>4, <1>5, SetActiveType DEF TypeInv, TypeOK
<1>7. Called
  BY <1>1, NothingCalled
<1> QED
  BY <1>1, <1>6, <1>7, Noticed DEF TypeInv, TypeOK, GuiOK
LEMMA StartChatType ==
  ASSUME TypeInv, NEW c \in ContactId, NEW e \in Chosen, StartChat(c, e)
  PROVE  GuiOK' /\ waiting' \in Open
  BY DEF StartChat, guiVars, TypeInv, TypeOK, GuiOK, Open, Chosen

LEMMA ChatStartedType ==
  ASSUME TypeInv, ChatStarted
  PROVE  GuiOK' /\ waiting \in Open /\ answer \in ChatId
<1>1. answer \in ChatId /\ waiting \in Open
  BY DEF ChatStarted, TypeInv, TypeOK, BridgeOK, StartInv
<1>2. waiting.contact \in ContactId
  BY <1>1 DEF Open
<1> QED
  BY <1>1, <1>2 DEF ChatStarted, TypeInv, TypeOK, GuiOK

LEMMA EndChatType ==
  ASSUME TypeInv, NEW c \in ContactId, EndChat(c)
  PROVE  GuiOK' /\ windows[c] \in ChatId
  BY DEF EndChat, TypeInv, TypeOK, GuiOK

LEMMA chatIncomingType ==
  ASSUME TypeInv, chatIncoming
  PROVE  GuiOK'
<1> DEFINE m == Head(toGui)
           new == [contact |-> m.contact, entry |-> m.entry]
<1>1. m.chat \in ChatId /\ m.contact \in ContactId /\ m.entry \in EntryId
  BY ServedNote DEF chatIncoming, Noticing
<1>2. new \in Open
  BY <1>1 DEF Open
<1> QED
  BY <1>1, <1>2 DEF chatIncoming, TypeInv, TypeOK, GuiOK

\* Every step is one of the kinds, and keeps every variable in its type.
LEMMA ServerKind ==
  ASSUME TypeInv, Server
  PROVE  StepKind /\ TypeOK'
<1>1. /\ UNCHANGED <<answer, guiVars, waiting>> /\ stopped' \in {"no", "core", "gui"}
  BY DEF Server, ItemAdded, ItemUpdated, ItemRemoved, MessageReceived, TypingReceived,
         CoreIdle, TypeInv, TypeOK, BridgeOK
<1>2. GuiOK' /\ BridgeOK'
  BY <1>1 DEF guiVars, TypeInv, TypeOK, GuiOK, BridgeOK
<1>3. (SayStep \/ NewChatStep) /\ CoreOK'
  BY ItemAddedKind, ItemUpdatedKind, ItemRemovedKind, MessageReceivedKind, TypingReceivedKind
     DEF Server
<1> QED
  BY <1>2, <1>3 DEF StepKind, TypeOK

LEMMA CoreServesKind ==
  ASSUME TypeInv, CoreServes
  PROVE  StepKind /\ TypeOK'
<1>1. (ServeStep \/ StartStep \/ EndStep) /\ CoreOK' /\ answer' \in ChatId \cup {None}
  BY chatStartKind, chatChangeEntryKind, chatEndKind, chatMessageSendKind,
     rosterContactRemoveKind, rosterEntryChangeContactKind
     DEF CoreServes, ServeStep, EndStep, TypeInv, TypeOK, BridgeOK
<1>2. UNCHANGED <<guiVars, waiting>> /\ stopped' \in {"no", "core", "gui"}
  BY DEF CoreServes, chatStart, chatChangeEntry, chatEnd, chatMessageSend,
         rosterContactRemove, rosterEntryChangeContact, Serving, TypeInv, TypeOK, BridgeOK
<1> QED
  BY <1>1, <1>2 DEF guiVars, StepKind, TypeInv, TypeOK, GuiOK, BridgeOK

LEMMA UserKind ==
  ASSUME TypeInv, User
  PROVE  StepKind /\ TypeOK'
<1>1. UNCHANGED <<coreVars, answer, stopped>>
  BY DEF User, StartChat, PickEntry, EndChat, Send, RemoveContact, MoveEntry, GuiIdle
<1>2. CoreOK'
  BY <1>1 DEF coreVars, rosterVars, TypeInv, TypeOK, CoreOK
<1>3. CASE \E c \in ContactId, e \in Chosen : StartChat(c, e)
  BY <1>1, <1>2, <1>3, StartChatType DEF StepKind, TypeInv, TypeOK, BridgeOK
<1>4. CASE \E c \in ContactId : EndChat(c)
  <2>1. UNCHANGED waiting
    BY <1>4 DEF EndChat
  <2> QED
    BY <1>1, <1>2, <1>4, <2>1, EndChatType DEF StepKind, TypeInv, TypeOK, BridgeOK
<1>5. CASE UserStep /\ GuiOK'
  BY <1>1, <1>2, <1>5 DEF UserStep, StepKind, TypeInv, TypeOK, BridgeOK
<1>6. \/ \E c \in ContactId, e \in Chosen : StartChat(c, e)
      \/ \E c \in ContactId : EndChat(c)
      \/ UserStep /\ GuiOK'
  BY PickEntryKind, SendKind, RemoveContactKind, MoveEntryKind DEF User, Chosen
<1> QED
  BY <1>3, <1>4, <1>5, <1>6

LEMMA GuiServesKind ==
  ASSUME TypeInv, GuiServes \/ ChatStarted
  PROVE  StepKind /\ TypeOK'
<1>1. UNCHANGED coreVars /\ stopped' \in {"no", "core", "gui"}
  BY DEF GuiServes, rosterContactAdded, rosterContactRemoved, rosterEntryAdded,
         rosterEntryRemoved, rosterEntryContactChanged, chatIncoming, chatEntryChanged,
         chatMessageReceived, Noticing, ChatStarted, TypeInv, TypeOK, BridgeOK
<1>2. CoreOK'
  BY <1>1 DEF coreVars, rosterVars, TypeInv, TypeOK, CoreOK
<1>3. CASE ChatStarted
  BY <1>1, <1>2, <1>3, ChatStartedType
     DEF StepKind, ChatStarted, TypeInv, TypeOK, BridgeOK
<1>4. CASE GuiServes
  <2>1. UNCHANGED <<answer, waiting>>
    BY <1>4 DEF GuiServes, rosterContactAdded, rosterContactRemoved, rosterEntryAdded,
         rosterEntryRemoved, rosterEntryContactChanged, chatIncoming, chatEntryChanged,
         chatMessageReceived, Noticing
  <2>2. (NoticeStep \/ chatIncoming) /\ GuiOK'
    BY <1>4, rosterContactKind, rosterEntryAddedKind, rosterEntryRemovedKind,
       rosterEntryContactChangedKind, chatEntryChangedKind, chatIncomingType DEF GuiServes
  <2> QED
    BY <1>1, <1>2, <2>1, <2>2 DEF StepKind, TypeInv, TypeOK, BridgeOK
<1> QED
  BY <1>3, <1>4

LEMMA StepsKind ==
  ASSUME TypeInv, Next
  PROVE  StepKind /\ TypeOK'
  BY ServerKind, CoreServesKind, UserKind, GuiServesKind DEF Next

----------------------------------------------------------------------------
(* The queues, and the chatStart that the main thread waits for. *)

\* What is said grows the queue by notifications of the right type.
LEMMA SaidType ==
  ASSUME TypeInv, NEW q \in Seq(Saying)
  PROVE  q \in Seq(NoteMsg) /\ toGui \o q \in Seq(NoteMsg)
<1>1. q \in Seq(NoteMsg)
  BY SeqMonotonic DEF Saying, NoteMsg
<1> QED
  BY <1>1, Grows DEF TypeInv, QueuesOK

LEMMA CalledType ==
  ASSUME TypeInv, NEW r \in Seq(PlainCall)
  PROVE  r \in Seq(CallMsg) /\ toCore \o r \in Seq(CallMsg)
<1>1. r \in Seq(CallMsg)
  BY SeqMonotonic DEF CallMsg
<1> QED
  BY <1>1, Grows DEF TypeInv, QueuesOK

LEMMA AnnouncingType ==
  ASSUME NEW c \in ContactId, NEW e \in EntryId, NEW k \in ChatId, NEW r \in Seq(RosterNote)
  PROVE  /\ <<ChatIncoming(k, c, e), ChatMessageReceived(k)>> \in Seq(ChatNote)
         /\ r \in Seq(NoteMsg)
         /\ r \o <<ChatIncoming(k, c, e), ChatMessageReceived(k)>> \in Seq(NoteMsg)
<1>1. ChatIncoming(k, c, e) \in ChatNote /\ ChatMessageReceived(k) \in ChatNote
  BY DEF ChatIncoming, ChatMessageReceived, ChatNote
<1>2. <<ChatIncoming(k, c, e), ChatMessageReceived(k)>> \in Seq(ChatNote)
  BY <1>1
<1>3. r \in Seq(NoteMsg)
  BY SeqMonotonic DEF NoteMsg
<1>4. <<ChatIncoming(k, c, e), ChatMessageReceived(k)>> \in Seq(NoteMsg)
  BY <1>2, SeqMonotonic DEF NoteMsg
<1> QED
  BY <1>2, <1>3, <1>4, Grows

LEMMA EndingType ==
  ASSUME NEW k \in ChatId, NEW typed \in {<<>>, <<ChatMessageSend(k)>>}
  PROVE  typed \in Seq(PlainCall) /\ typed \o <<ChatEnd(k)>> \in Seq(CallMsg \ StartCall)
<1>1. ChatMessageSend(k) \in PlainCall /\ ChatEnd(k) \in EndCall
  BY DEF ChatMessageSend, ChatEnd, PlainCall, EndCall
<1>2. PlainCall \subseteq CallMsg \ StartCall /\ EndCall \subseteq CallMsg \ StartCall
  BY DEF PlainCall, EndCall, StartCall, CallMsg
<1>3. typed \in Seq(PlainCall)
  BY <1>1, One, EmptySeq
<1>4. typed \in Seq(CallMsg \ StartCall) /\ <<ChatEnd(k)>> \in Seq(CallMsg \ StartCall)
  BY <1>1, <1>2, <1>3, SeqMonotonic, One
<1> QED
  BY <1>3, <1>4, Grows

LEMMA QueuesStep ==
  ASSUME TypeInv, StepKind
  PROVE  QueuesOK'
<1>1. toCore \in Seq(CallMsg) /\ toGui \in Seq(NoteMsg)
  BY DEF TypeInv, QueuesOK
<1>2. ASSUME Said PROVE toGui' \in Seq(NoteMsg)
  BY <1>2, SaidType DEF Said
<1>3. ASSUME Called PROVE toCore' \in Seq(CallMsg)
  BY <1>3, CalledType DEF Called
<1>4. ASSUME toCore # <<>>, toCore' = Tail(toCore) PROVE toCore' \in Seq(CallMsg)
  BY <1>1, <1>4, Shrinks
<1>5. ASSUME toGui # <<>>, toGui' = Tail(toGui) PROVE toGui' \in Seq(NoteMsg)
  BY <1>1, <1>5, Shrinks
<1>6. CASE SayStep
  BY <1>1, <1>2, <1>6 DEF SayStep, QueuesOK
<1>7. CASE NewChatStep
  <2>1. PICK r \in Seq(RosterNote), c \in ContactId, e \in EntryId :
          toGui' = toGui \o (r \o <<ChatIncoming(nextChat, c, e), ChatMessageReceived(nextChat)>>)
    BY <1>7 DEF NewChatStep
  <2>2. nextChat \in ChatId /\ UNCHANGED toCore
    BY <1>7 DEF NewChatStep, ChatMade
  <2> QED
    BY <1>1, <2>1, <2>2, AnnouncingType, Grows DEF QueuesOK
<1>8. CASE ServeStep
  BY <1>2, <1>4, <1>8 DEF ServeStep, Served, QueuesOK
<1>9. CASE StartStep
  BY <1>1, <1>4, <1>9 DEF StartStep, Served, QueuesOK
<1>10. CASE EndStep
  BY <1>1, <1>4, <1>10 DEF EndStep, Served, QueuesOK
<1>11. CASE UserStep
  BY <1>1, <1>3, <1>11 DEF UserStep, QueuesOK
<1>12. CASE NoticeStep
  BY <1>3, <1>5, <1>12 DEF NoticeStep, QueuesOK
<1>13. CASE chatIncoming
  BY <1>1, <1>5, <1>13 DEF chatIncoming, Noticing, QueuesOK
<1>14. CASE ChatStarted
  BY <1>1, <1>14 DEF ChatStarted, QueuesOK
<1>15. ASSUME NEW c \in ContactId, NEW e \in Chosen, StartChat(c, e)
       PROVE  QueuesOK'
  <2>1. ChatStart(c, e) \in CallMsg
    BY DEF ChatStart, StartCall, CallMsg
  <2>2. toCore' \in Seq(CallMsg) /\ UNCHANGED toGui
    BY <1>1, <1>15, <2>1, One, Grows DEF StartChat, Call, GuiIdle
  <2> QED
    BY <1>1, <2>2 DEF QueuesOK
<1>16. ASSUME NEW c \in ContactId, EndChat(c)
       PROVE  QueuesOK'
  <2>1. PICK typed \in {<<>>, <<ChatMessageSend(windows[c])>>} :
            toCore' = toCore \o (typed \o <<ChatEnd(windows[c])>>)
    BY <1>16 DEF EndChat, Call
  <2>2. typed \o <<ChatEnd(windows[c])>> \in Seq(CallMsg \ StartCall)
    BY <1>16, EndChatType, EndingType
  <2>3. typed \o <<ChatEnd(windows[c])>> \in Seq(CallMsg)
    BY <2>2, SeqMonotonic
  <2> QED
    BY <1>1, <1>16, <2>1, <2>3, Grows DEF EndChat, GuiIdle, QueuesOK
<1> QED
  BY <1>6, <1>7, <1>8, <1>9, <1>10, <1>11, <1>12, <1>13, <1>14, <1>15, <1>16 DEF StepKind
\* The calls that are made by the kinds of steps are not chatStart, but for StartChat.
LEMMA StartStays ==
  ASSUME TypeInv, waiting = None, NEW r \in Seq(CallMsg \ StartCall), toCore' = toCore \o r,
         UNCHANGED <<waiting, answer, nextChat>>
  PROVE  StartInv'
<1>1. toCore \in Seq(CallMsg) /\ r \in Seq(CallMsg)
  BY SeqMonotonic DEF TypeInv, QueuesOK
<1>2. \A i \in 1..Len(toCore) : toCore[i] \notin StartCall
  BY DEF TypeInv, StartInv
<1>3. \A i \in 1..Len(r) : r[i] \notin StartCall
  BY ElementOfSeq
<1>4. \A i \in 1..Len(toCore') : toCore'[i] \notin StartCall
  BY <1>1, <1>2, <1>3, Grows
<1> QED
  BY <1>4 DEF TypeInv, StartInv

LEMMA PlainStays ==
  ASSUME TypeInv, waiting = None, Called, UNCHANGED <<waiting, answer, nextChat>>
  PROVE  StartInv'
<1>1. PICK r \in Seq(PlainCall) : toCore' = toCore \o r
  BY DEF Called
<1>2. PlainCall \subseteq CallMsg \ StartCall
  BY DEF PlainCall, StartCall, CallMsg
<1>3. r \in Seq(CallMsg \ StartCall)
  BY <1>2, SeqMonotonic
<1> QED
  BY <1>1, <1>3, StartStays

LEMMA StartServed ==
  ASSUME TypeInv, NEW calls, Served(calls), calls \cap StartCall = {},
         UNCHANGED <<waiting, answer, nextChat>>
  PROVE  StartInv'
<1>1. /\ Len(toCore) \in Nat \ {0} /\ Len(Tail(toCore)) = Len(toCore) - 1
      /\ \A i \in 1..Len(Tail(toCore)) : Tail(toCore)[i] = toCore[i + 1] /\ i + 1 \in 1..Len(toCore)
  BY Shrinks DEF TypeInv, QueuesOK, Served
<1>2. ASSUME NEW i \in 1..Len(toCore'), toCore'[i] \in StartCall
      PROVE  i = Len(toCore') /\ waiting # None /\ answer = None
  <2>1. i \in 1..Len(Tail(toCore)) /\ toCore[i + 1] \in StartCall /\ i + 1 \in 1..Len(toCore)
    BY <1>1, <1>2 DEF Served
  <2>2. i + 1 = Len(toCore) /\ waiting # None /\ answer = None
    BY <2>1 DEF TypeInv, StartInv
  <2> QED
    <3>1. Len(toCore') = Len(toCore) - 1
      BY <1>1 DEF Served
    <3>2. i \in Int
      BY <2>1
    <3>3. Len(toCore) \in Int
      BY <1>1
    <3>4. i = Len(toCore) - 1
      BY <3>2, <3>3, <2>2
    <3> QED
      BY <2>2, <3>1, <3>4
<1> QED
  BY <1>2 DEF TypeInv, StartInv

LEMMA StartInvStep ==
  ASSUME TypeInv, StepKind
  PROVE  StartInv'
<1>1. CASE SayStep
  BY <1>1 DEF SayStep, SameChats, GuiStill, TypeInv, StartInv
<1>2. CASE NewChatStep
  <2>1. waiting # None /\ answer = None => nextChat + 1 < MaxChats
    BY <1>2, ChatsAssumption DEF NewChatStep, ChatsLeft, ChatMade, ChatId
  <2> QED
    BY <1>2, <2>1 DEF NewChatStep, ChatMade, GuiStill, TypeInv, StartInv
<1>3. CASE ServeStep
  <2>1. PlainCall \cap StartCall = {}
    BY DEF PlainCall, StartCall
  <2> QED
    BY <1>3, <2>1, StartServed DEF ServeStep, SameChats, GuiStill
<1>4. CASE StartStep
  <2>1. Head(toCore) \in StartCall /\ Head(toCore) = toCore[1] /\ 1 \in 1..Len(toCore)
        /\ toCore' = Tail(toCore) /\ toCore # <<>>
    BY <1>4, ServedCall DEF StartStep, Served
  <2>2. Len(toCore) = 1 /\ waiting # None
    BY <2>1 DEF TypeInv, StartInv
  <2>3. Len(toCore') = 0
    BY <2>1, <2>2, Shrinks DEF TypeInv, QueuesOK
  <2>4. answer' # None /\ UNCHANGED waiting
    BY <1>4, NoneIds, ChatsAssumption DEF StartStep, ChatMade, ChatId, GuiStill
  <2> QED
    BY <2>2, <2>3, <2>4 DEF StartInv
<1>5. CASE EndStep
  <2>1. EndCall \cap StartCall = {}
    BY DEF EndCall, StartCall
  <2> QED
    BY <1>5, <2>1, StartServed DEF EndStep, GuiStill
<1>6. CASE UserStep
  BY <1>6, PlainStays DEF UserStep
<1>7. CASE NoticeStep
  BY <1>7, PlainStays DEF NoticeStep
<1>8. CASE chatIncoming
  BY <1>8 DEF chatIncoming, Noticing, coreVars, TypeInv, StartInv
<1>9. CASE ChatStarted
  BY <1>9 DEF ChatStarted, coreVars, TypeInv, StartInv
<1>10. ASSUME NEW c \in ContactId, NEW e \in Chosen, StartChat(c, e)
       PROVE  StartInv'
  <2>1. waiting = None /\ answer = None /\ answer' = None /\ nextChat' < MaxChats
    BY <1>10, ChatsAssumption
       DEF StartChat, Free, ChatsLeft, GuiIdle, coreVars, TypeInv, TypeOK, CoreOK, StartInv
  <2>2. waiting' # None
    BY <1>10, StartChatType, ChatsAssumption
  <2>3. toCore' = toCore \o <<ChatStart(c, e)>> /\ ChatStart(c, e) \in CallMsg
    BY <1>10 DEF StartChat, Call, ChatStart, StartCall, CallMsg
  <2>4. \A i \in 1..Len(toCore) : toCore[i] \notin StartCall
    BY <2>1 DEF TypeInv, StartInv
  <2>5. \A i \in 1..Len(toCore') : toCore'[i] \in StartCall => i = Len(toCore')
    BY <2>3, <2>4, One, Grows DEF TypeInv, QueuesOK
  <2> QED
    BY <2>1, <2>2, <2>5 DEF StartInv
<1>11. ASSUME NEW c \in ContactId, EndChat(c)
       PROVE  StartInv'
  <2>1. PICK typed \in {<<>>, <<ChatMessageSend(windows[c])>>} :
            toCore' = toCore \o (typed \o <<ChatEnd(windows[c])>>)
    BY <1>11 DEF EndChat, Call
  <2>2. typed \o <<ChatEnd(windows[c])>> \in Seq(CallMsg \ StartCall)
    BY <1>11, EndChatType, EndingType
  <2> QED
    BY <1>11, <2>1, <2>2, StartStays DEF EndChat, Free, GuiIdle, coreVars
<1> QED
  BY <1>1, <1>2, <1>3, <1>4, <1>5, <1>6, <1>7, <1>8, <1>9, <1>10, <1>11 DEF StepKind

LEMMA TypeInvInit ==
  ASSUME Init
  PROVE  TypeInv
<1>1. nextChat \in 0..MaxChats
  BY ChatsAssumption DEF Init
<1>2. QueuesOK /\ StartInv
  BY EmptySeq DEF Init, QueuesOK, StartInv
<1>3. CoreOK /\ GuiOK /\ BridgeOK
  BY <1>1 DEF Init, CoreOK, GuiOK, BridgeOK
<1> QED
  BY <1>2, <1>3 DEF TypeInv, TypeOK

LEMMA TypeInvStep ==
  ASSUME TypeInv, [Next]_vars
  PROVE  TypeInv'
<1>1. CASE Next
  BY <1>1, StepsKind, QueuesStep, StartInvStep DEF TypeInv
<1>2. CASE UNCHANGED vars
  BY <1>2 DEF vars, coreVars, rosterVars, guiVars, TypeInv, TypeOK, CoreOK, GuiOK, BridgeOK,
              QueuesOK, StartInv
<1> QED
  BY <1>1, <1>2

\* Every variable keeps its type, whatever the bounds: no chatStart finds the table of
\* chats full, and chatStart's answer is always an ID (lfp_api chatStart).
THEOREM TypeCorrect == Spec => []TypeOK
<1>1. Init => TypeInv
  BY TypeInvInit
<1>2. TypeInv /\ [Next]_vars => TypeInv'
  BY TypeInvStep
<1>3. TypeInv => TypeOK
  BY DEF TypeInv
<1> QED
  BY <1>1, <1>2, <1>3, PTL DEF Spec
----------------------------------------------------------------------------
(* What the queues say of chats. *)

Ending == {toCore[i].chat : i \in Calls("chatEnd")}
Awaited == {toGui[i].chat : i \in Notes("chatIncoming")}
Names(i, k) == toGui[i].note \in ChatNotes /\ toGui[i].chat = k
Named == {k \in ChatId : \E i \in 1..Len(toGui) : Names(i, k)}
\* The first that is said of the chat is that it is there.
First(k) == \E i \in Notes("chatIncoming") :
                toGui[i].chat = k /\ \A j \in 1..(i - 1) : ~Names(j, k)
Once == \A i, j \in Notes("chatIncoming") : toGui[i].chat = toGui[j].chat => i = j

\* Calls that end no chat add nothing to the chats that end.
LEMMA EndingCalled ==
  ASSUME TypeInv, Called
  PROVE  Ending' = Ending
<1>1. PICK r \in Seq(PlainCall) : toCore' = toCore \o r
  BY DEF Called
<1>2. \A i \in 1..Len(r) : r[i].call # "chatEnd"
  BY <1>1, ElementOfSeq DEF PlainCall
<1>3. r \in Seq(CallMsg) /\ toCore \in Seq(CallMsg)
  BY <1>1, CalledType DEF TypeInv, QueuesOK
<1>4. /\ Len(toCore') = Len(toCore) + Len(r) /\ Len(toCore) \in Nat /\ Len(r) \in Nat
      /\ \A i \in 1..Len(toCore) : toCore'[i] = toCore[i]
      /\ \A i \in 1..Len(r) : toCore'[Len(toCore) + i] = r[i]
      /\ \A i \in 1..Len(toCore') : i \in 1..Len(toCore) \/ i - Len(toCore) \in 1..Len(r)
  BY <1>1, <1>3, Grows
<1>5. ASSUME NEW i \in 1..Len(toCore'), toCore'[i].call = "chatEnd"
      PROVE  i \in 1..Len(toCore)
  <2>1. CASE i - Len(toCore) \in 1..Len(r)
    <3>1. i = Len(toCore) + (i - Len(toCore))
      BY <1>4
    <3>2. toCore'[i] = r[i - Len(toCore)]
      BY <1>4, <2>1, <3>1
    <3> QED
      BY <1>2, <1>5, <2>1, <3>2
  <2> QED
    BY <1>4, <2>1
<1>6. Calls("chatEnd")' = Calls("chatEnd")
  BY <1>4, <1>5 DEF Calls
<1> QED
  BY <1>4, <1>6 DEF Ending, Calls

LEMMA EndingServed ==
  ASSUME TypeInv, NEW calls, Served(calls)
  PROVE  /\ Ending' \subseteq Ending
         /\ Head(toCore).call # "chatEnd" => Ending' = Ending
         /\ Head(toCore).call = "chatEnd" =>
               Head(toCore).chat \in Ending /\ Ending \subseteq Ending' \cup {Head(toCore).chat}
<1>1. /\ Len(toCore) \in Nat \ {0} /\ Head(toCore) = toCore[1]
      /\ Len(toCore') = Len(toCore) - 1
      /\ \A i \in 1..Len(toCore') : toCore'[i] = toCore[i + 1] /\ i + 1 \in 1..Len(toCore)
  <2>1. toCore \in Seq(CallMsg) /\ toCore # <<>> /\ toCore' = Tail(toCore)
    BY DEF TypeInv, QueuesOK, Served
  <2> QED
    BY <2>1, Shrinks
<1>2. ASSUME NEW k \in Ending'
      PROVE  k \in Ending
  <2>1. PICK i \in 1..Len(toCore') : toCore'[i].call = "chatEnd" /\ toCore'[i].chat = k
    BY <1>2 DEF Ending, Calls
  <2>2. i + 1 \in 1..Len(toCore) /\ toCore'[i] = toCore[i + 1]
    BY <1>1, <2>1
  <2> QED
    BY <2>1, <2>2 DEF Ending, Calls
<1>3. ASSUME NEW k \in Ending
      PROVE  k \in Ending' \/ (Head(toCore).call = "chatEnd" /\ Head(toCore).chat = k)
  <2>1. PICK i \in 1..Len(toCore) : toCore[i].call = "chatEnd" /\ toCore[i].chat = k
    BY <1>3 DEF Ending, Calls
  <2>2. CASE i = 1
    BY <1>1, <2>1, <2>2
  <2>3. CASE i # 1
    <3>1. i - 1 \in 1..Len(toCore') /\ (i - 1) + 1 = i
      BY <1>1, <2>1, <2>3
    <3>2. toCore'[i - 1] = toCore[i]
      BY <1>1, <3>1
    <3> QED
      BY <2>1, <3>1, <3>2 DEF Ending, Calls
  <2> QED
    BY <2>2, <2>3
<1>4. Head(toCore).call = "chatEnd" => Head(toCore).chat \in Ending
  <2>1. 1 \in 1..Len(toCore)
    BY <1>1
  <2> QED
    BY <1>1, <2>1 DEF Ending, Calls
<1> QED
  BY <1>2, <1>3, <1>4

\* What is said of chats that are there makes no chat awaited, and comes after what is
\* already in the queue.
LEMMA SaidChats ==
  ASSUME TypeInv, Said
  PROVE  /\ Awaited' = Awaited /\ Named' \subseteq Named \cup Existing
         /\ Once => Once' /\ \A k : First(k) => First(k)'
<1>1. PICK q \in Seq(Saying) : toGui' = toGui \o q
  BY DEF Said
<1>2. \A i \in 1..Len(q) : q[i] \in Saying
  BY <1>1, ElementOfSeq
<1>3. q \in Seq(NoteMsg) /\ toGui \in Seq(NoteMsg)
  BY <1>1, SaidType DEF TypeInv, QueuesOK
<1>4. /\ Len(toGui') = Len(toGui) + Len(q) /\ Len(toGui) \in Nat /\ Len(q) \in Nat
      /\ \A i \in 1..Len(toGui) : toGui'[i] = toGui[i]
      /\ \A i \in 1..Len(q) : toGui'[Len(toGui) + i] = q[i]
      /\ \A i \in 1..Len(toGui') : i \in 1..Len(toGui) \/ i - Len(toGui) \in 1..Len(q)
  BY <1>1, <1>3, Grows
<1>5. ASSUME NEW i \in 1..Len(toGui'), i \notin 1..Len(toGui)
      PROVE  /\ toGui'[i].note # "chatIncoming"
             /\ \A k : Names(i, k)' => k \in Existing
  <2>1. i - Len(toGui) \in 1..Len(q) /\ i = Len(toGui) + (i - Len(toGui))
    BY <1>4, <1>5
  <2>2. toGui'[i] \in Saying
    BY <1>2, <1>4, <2>1
  <2> QED
    BY <2>2 DEF Saying, RosterNote, ChatNote, Names, ChatNotes, Existing
<1>6. Notes("chatIncoming")' = Notes("chatIncoming")
  BY <1>4, <1>5 DEF Notes
<1>7. \A i \in 1..Len(toGui) : \A k : Names(i, k)' <=> Names(i, k)
  BY <1>4 DEF Names
<1>8. \A i \in Notes("chatIncoming") : toGui'[i] = toGui[i] /\ i \in 1..Len(toGui)
  BY <1>4 DEF Notes
<1>9. Awaited' = Awaited
  BY <1>6, <1>8 DEF Awaited
<1>10. Named' \subseteq Named \cup Existing
  BY <1>5, <1>7 DEF Named
<1>11. Once => Once'
  BY <1>6, <1>8 DEF Once
<1>12. ASSUME NEW k, First(k) PROVE First(k)'
  <2>1. PICK i \in Notes("chatIncoming") :
            toGui[i].chat = k /\ \A j \in 1..(i - 1) : ~Names(j, k)
    BY <1>12 DEF First
  <2>2. \A j \in 1..(i - 1) : j \in 1..Len(toGui)
    BY <1>4, <1>8, <2>1
  <2>3. \A j \in 1..(i - 1) : ~Names(j, k)'
    BY <1>7, <2>1, <2>2
  <2> QED
    BY <1>6, <1>8, <2>1, <2>3 DEF First
<1> QED
  BY <1>9, <1>10, <1>11, <1>12

\* A chat that is made is announced, and then its first message.
LEMMA NewChatSaid ==
  ASSUME TypeInv, NewChatStep, nextChat \notin Named
  PROVE  /\ Awaited' = Awaited \cup {nextChat} /\ Named' \subseteq Named \cup {nextChat}
         /\ Once => Once' /\ \A k : First(k) \/ k = nextChat => First(k)'
<1>0. PICK n : n = nextChat
  OBVIOUS
<1>1. PICK r \in Seq(RosterNote), c \in ContactId, e \in EntryId :
          toGui' = toGui \o (r \o <<ChatIncoming(n, c, e), ChatMessageReceived(n)>>)
  BY <1>0 DEF NewChatStep
<1> DEFINE two == <<ChatIncoming(n, c, e), ChatMessageReceived(n)>>
           q == r \o two
           at == Len(toGui) + Len(r) + 1
<1>2. n \in ChatId
  BY <1>0 DEF NewChatStep, ChatMade
<1>3. /\ two \in Seq(NoteMsg) /\ r \in Seq(NoteMsg) /\ q \in Seq(NoteMsg)
      /\ toGui \in Seq(NoteMsg)
  <2>1. two \in Seq(ChatNote)
    BY <1>2, AnnouncingType
  <2>2. two \in Seq(NoteMsg)
    BY <2>1, SeqMonotonic DEF NoteMsg
  <2> QED
    BY <1>2, <2>2, AnnouncingType DEF TypeInv, QueuesOK
<1>4. Len(two) = 2 /\ two[1] = ChatIncoming(n, c, e) /\ two[2] = ChatMessageReceived(n)
  OBVIOUS
<1> HIDE DEF two
<1>5. /\ Len(q) = Len(r) + 2 /\ Len(r) \in Nat
      /\ \A i \in 1..Len(r) : q[i] = r[i] /\ r[i] \in RosterNote
      /\ q[Len(r) + 1] = two[1] /\ q[Len(r) + 2] = two[2]
  <2>1. /\ Len(q) = Len(r) + Len(two) /\ Len(r) \in Nat
        /\ \A i \in 1..Len(r) : q[i] = r[i]
        /\ \A i \in 1..Len(two) : q[Len(r) + i] = two[i]
    BY <1>3, Grows
  <2>2. \A i \in 1..Len(r) : r[i] \in RosterNote
    BY <1>1, ElementOfSeq
  <2> QED
    BY <1>4, <2>1, <2>2
<1>6. toGui' = toGui \o q
  BY <1>1 DEF two
<1> HIDE DEF q
<1>7. /\ Len(toGui') = Len(toGui) + Len(q) /\ Len(toGui) \in Nat
      /\ \A i \in 1..Len(toGui) : toGui'[i] = toGui[i]
      /\ \A i \in 1..Len(q) : toGui'[Len(toGui) + i] = q[i]
  BY <1>3, <1>6, Grows
<1>8. /\ at \in 1..Len(toGui') /\ at + 1 \in 1..Len(toGui')
      /\ toGui'[at] = ChatIncoming(n, c, e) /\ toGui'[at + 1] = ChatMessageReceived(n)
  <2>1. Len(r) + 1 \in 1..Len(q) /\ Len(r) + 2 \in 1..Len(q)
    BY <1>5
  <2>2. /\ toGui'[Len(toGui) + (Len(r) + 1)] = q[Len(r) + 1]
        /\ toGui'[Len(toGui) + (Len(r) + 2)] = q[Len(r) + 2]
    BY <1>7, <2>1
  <2>3. Len(toGui) + (Len(r) + 1) = at /\ Len(toGui) + (Len(r) + 2) = at + 1
    BY <1>5, <1>7
  <2> QED
    BY <1>4, <1>5, <1>7, <2>2, <2>3
<1>9. ASSUME NEW i \in 1..Len(toGui'), i \notin 1..Len(toGui), i # at, i # at + 1
      PROVE  toGui'[i] \in RosterNote
  <2>1. i - Len(toGui) \in 1..Len(r) /\ i = Len(toGui) + (i - Len(toGui))
    <3>1. /\ i \in Int /\ i <= Len(toGui) + Len(r) + 2 /\ i > Len(toGui)
          /\ i # Len(toGui) + Len(r) + 1 /\ i # Len(toGui) + Len(r) + 2
      BY <1>5, <1>7, <1>9
    <3> QED
      BY <1>5, <1>7, <3>1
  <2>2. i - Len(toGui) \in 1..Len(q)
    BY <1>5, <2>1
  <2>3. toGui'[i] = q[i - Len(toGui)]
    BY <1>7, <2>1, <2>2
  <2> QED
    BY <1>5, <2>1, <2>3
<1>10. at \notin 1..Len(toGui) /\ at + 1 \notin 1..Len(toGui)
  BY <1>5, <1>7
<1>11. \A i \in 1..Len(toGui) : \A k : Names(i, k)' <=> Names(i, k)
  BY <1>7 DEF Names
<1>12. \A i \in 1..Len(toGui') : i \notin 1..Len(toGui) =>
          /\ toGui'[i].note = "chatIncoming" <=> i = at
          /\ \A k : Names(i, k)' => k = n /\ (i = at \/ i = at + 1)
  BY <1>8, <1>9 DEF RosterNote, ChatIncoming, ChatMessageReceived, Names, ChatNotes
<1>13. Notes("chatIncoming")' = Notes("chatIncoming") \cup {at}
  BY <1>7, <1>8, <1>10, <1>12 DEF Notes
<1>14. \A i \in Notes("chatIncoming") : toGui'[i] = toGui[i] /\ i \in 1..Len(toGui)
  BY <1>7 DEF Notes
<1>15. toGui'[at].chat = n
  BY <1>8 DEF ChatIncoming
<1> HIDE DEF at
<1>16. Awaited' = Awaited \cup {n}
  BY <1>13, <1>14, <1>15 DEF Awaited
<1>17. Named' \subseteq Named \cup {n}
  BY <1>11, <1>12 DEF Named
<1>18. \A i \in 1..Len(toGui) : ~Names(i, n)
  BY <1>0, <1>2 DEF Named
<1>19. \A i \in Notes("chatIncoming") : toGui[i].chat # n
  BY <1>14, <1>18 DEF Names, Notes, ChatNotes
<1>20. Once => Once'
  BY <1>13, <1>14, <1>15, <1>19 DEF Once
<1>21. First(n)'
  <2>1. ASSUME NEW j \in 1..(at - 1)
        PROVE  ~Names(j, n)'
    <3>1. j \in 1..Len(toGui') /\ j # at /\ j # at + 1
      BY <1>8
    <3> QED
      BY <1>11, <1>12, <1>18, <3>1
  <2> QED
    BY <1>13, <1>15, <2>1 DEF First
<1>22. ASSUME NEW k, First(k) PROVE First(k)'
  <2>1. PICK i \in Notes("chatIncoming") :
            toGui[i].chat = k /\ \A j \in 1..(i - 1) : ~Names(j, k)
    BY <1>22 DEF First
  <2>2. \A j \in 1..(i - 1) : j \in 1..Len(toGui)
    BY <1>7, <1>14, <2>1
  <2>3. \A j \in 1..(i - 1) : ~Names(j, k)'
    BY <1>11, <2>1, <2>2
  <2> QED
    BY <1>13, <1>14, <2>1, <2>3 DEF First
<1> QED
  BY <1>0, <1>16, <1>17, <1>20, <1>21, <1>22

\* A notification that is served takes with it the chat that it announces.
LEMMA TailSaid ==
  ASSUME TypeInv, toGui # <<>>, toGui' = Tail(toGui)
  PROVE  LET m == Head(toGui) IN
         /\ Named' \subseteq Named /\ Awaited' \subseteq Awaited /\ (Once => Once')
         /\ \A k : First(k) => First(k)' \/ (m.note = "chatIncoming" /\ m.chat = k)
         /\ m.note = "chatIncoming" => m.chat \in Awaited /\ (Once => m.chat \notin Awaited')
<1>1. /\ Len(toGui) \in Nat \ {0} /\ Head(toGui) = toGui[1]
      /\ Len(toGui') = Len(toGui) - 1
      /\ \A i \in 1..Len(toGui') : toGui'[i] = toGui[i + 1] /\ i + 1 \in 1..Len(toGui)
  BY Shrinks DEF TypeInv, QueuesOK
<1>2. \A i \in 1..Len(toGui') : \A k : Names(i, k)' => Names(i + 1, k)
  BY <1>1 DEF Names
<1>3. Named' \subseteq Named
  BY <1>1, <1>2 DEF Named
<1>4. \A i \in Notes("chatIncoming")' :
          i \in Int /\ i + 1 \in Notes("chatIncoming") /\ toGui[i + 1] = toGui'[i] /\ i + 1 # 1
  BY <1>1 DEF Notes
<1>5. Awaited' \subseteq Awaited
  BY <1>4 DEF Awaited
<1>6. ASSUME Once PROVE Once'
  <2>1. ASSUME NEW i \in Notes("chatIncoming")', NEW j \in Notes("chatIncoming")',
               toGui'[i].chat = toGui'[j].chat
        PROVE  i = j
    <3>1. /\ i + 1 \in Notes("chatIncoming") /\ j + 1 \in Notes("chatIncoming")
          /\ toGui[i + 1].chat = toGui[j + 1].chat
      BY <1>4, <2>1
    <3>2. i + 1 = j + 1
      BY <1>6, <3>1 DEF Once
    <3> QED
      BY <1>4, <2>1, <3>2
  <2> QED
    BY <2>1 DEF Once
<1>7. ASSUME Head(toGui).note = "chatIncoming"
      PROVE  Head(toGui).chat \in Awaited /\ (Once => Head(toGui).chat \notin Awaited')
  <2>1. 1 \in Notes("chatIncoming")
    BY <1>1, <1>7 DEF Notes
  <2>2. Once => \A i \in Notes("chatIncoming")' : toGui'[i].chat # toGui[1].chat
    BY <1>4, <2>1 DEF Once
  <2> QED
    BY <1>1, <2>1, <2>2 DEF Awaited
<1>8. ASSUME NEW k, First(k), ~(Head(toGui).note = "chatIncoming" /\ Head(toGui).chat = k)
      PROVE  First(k)'
  <2>1. PICK i \in Notes("chatIncoming") :
            toGui[i].chat = k /\ \A j \in 1..(i - 1) : ~Names(j, k)
    BY <1>8 DEF First
  <2>2. i \in 1..Len(toGui) /\ toGui[i].note = "chatIncoming"
    BY <2>1 DEF Notes
  <2>3. i # 1
    BY <1>1, <1>8, <2>1, <2>2
  <2>4. i - 1 \in 1..Len(toGui') /\ toGui'[i - 1] = toGui[i]
    <3>1. i - 1 \in 1..Len(toGui') /\ (i - 1) + 1 = i
      BY <1>1, <2>2, <2>3
    <3> QED
      BY <1>1, <3>1
  <2>5. i - 1 \in Notes("chatIncoming")'
    BY <2>2, <2>4 DEF Notes
  <2>6. ASSUME NEW j \in 1..((i - 1) - 1)
        PROVE  ~Names(j, k)'
    <3>1. j \in 1..Len(toGui') /\ j + 1 \in 1..(i - 1)
      BY <1>1, <2>2, <2>4
    <3> QED
      BY <1>2, <2>1, <3>1
  <2> QED
    BY <2>1, <2>4, <2>5, <2>6 DEF First
<1> QED
  BY <1>3, <1>5, <1>6, <1>7, <1>8
----------------------------------------------------------------------------
(* The life of a chat: what is said of it, on which side it is, and in what order. *)

\* The window of a contact shows a chat with that contact.
WindowInv == \A c \in ContactId :
    windows[c] # None => open[windows[c]] # None /\ open[windows[c]].contact = c
\* IDs are given in order, and nothing speaks of one that was not given.  ID 0 is also
\* what is read from the empty map, even before it is given.
IdInv == /\ \A k \in ChatId : chats[k] # None => k < nextChat
         /\ \A k \in Named : k < nextChat
         /\ \A k \in Ending : k # 0 => k < nextChat
\* A chat that the user interface ends is not awaited and not opened again, and one that
\* is awaited is not open yet.
LifeInv == \A k \in ChatId \ {0} :
    /\ k \in Ending => open[k] = None /\ answer # k /\ k \notin Awaited
    /\ k \in Awaited => open[k] = None /\ chats[k] # None /\ answer # k
    /\ answer = k => chats[k] # None
    /\ open[k] # None => chats[k] # None
KnownInv == \A k \in Existing : open[k] # None \/ answer = k \/ k \in Ending \/ First(k)

ChatInv == WindowInv /\ IdInv /\ LifeInv /\ KnownInv /\ Once

\* Steps after which no chat is made, opened or ended, and none is announced or answered.
LEMMA ChatsStill ==
  ASSUME TypeInv, ChatInv, UNCHANGED <<nextChat, answer>>, SameOpen,
         \A k \in ChatId : chats'[k] = None <=> chats[k] = None,
         Ending' = Ending, Awaited' \subseteq Awaited, Named' \subseteq Named \cup Existing,
         Once', \A k : First(k) => First(k)'
  PROVE  ChatInv'
<1>0. /\ \A k \in ChatId : open'[k] = None <=> open[k] = None
      /\ \A k \in ChatId : open[k] # None => open'[k].contact = open[k].contact
      /\ UNCHANGED windows /\ UNCHANGED answer
  BY DEF SameOpen
<1>1. WindowInv'
  <2>1. \A c \in ContactId : windows[c] # None => windows[c] \in ChatId
    BY DEF TypeInv, TypeOK, GuiOK
  <2> QED
    BY <1>0, <2>1 DEF ChatInv, WindowInv
<1>2. IdInv'
  BY DEF ChatInv, IdInv, Existing
<1>3. LifeInv'
  BY <1>0 DEF ChatInv, LifeInv
<1>4. KnownInv'
  BY <1>0 DEF ChatInv, KnownInv, Existing
<1> QED
  BY <1>1, <1>2, <1>3, <1>4 DEF ChatInv

LEMMA StillOpen ==
  ASSUME GuiStill
  PROVE  SameOpen
  BY DEF GuiStill, SameOpen

LEMMA SaySafe ==
  ASSUME TypeInv, ChatInv, SayStep
  PROVE  ChatInv'
<1>1. Ending' = Ending
  BY DEF SayStep, Ending, Calls
<1> QED
  BY <1>1, SaidChats, StillOpen, ChatsStill DEF SayStep, SameChats, ChatInv

LEMMA ServeSafe ==
  ASSUME TypeInv, ChatInv, ServeStep
  PROVE  ChatInv'
<1>1. Head(toCore).call # "chatEnd"
  BY DEF ServeStep, Served, PlainCall
<1>2. Ending' = Ending
  BY <1>1, EndingServed DEF ServeStep
<1> QED
  BY <1>2, SaidChats, StillOpen, ChatsStill DEF ServeStep, SameChats, ChatInv

LEMMA UserSafe ==
  ASSUME TypeInv, ChatInv, UserStep
  PROVE  ChatInv'
<1>1. Ending' = Ending
  BY EndingCalled DEF UserStep
<1>2. /\ Awaited' = Awaited /\ Named' = Named /\ Once'
      /\ \A k : First(k) => First(k)'
  BY DEF UserStep, Awaited, Named, Names, Notes, Once, First, ChatInv
<1> QED
  BY <1>1, <1>2, ChatsStill DEF UserStep

LEMMA NoticeSafe ==
  ASSUME TypeInv, ChatInv, NoticeStep
  PROVE  ChatInv'
<1>1. Ending' = Ending
  BY EndingCalled DEF NoticeStep
<1>2. /\ Awaited' \subseteq Awaited /\ Named' \subseteq Named /\ Once'
      /\ \A k : First(k) => First(k)'
  BY TailSaid DEF NoticeStep, ChatInv
<1> QED
  BY <1>1, <1>2, ChatsStill DEF NoticeStep

\* Steps that leave one queue alone.
LEMMA GuiQueueStill ==
  ASSUME UNCHANGED toGui
  PROVE  /\ Awaited' = Awaited /\ Named' = Named /\ (Once <=> Once')
         /\ \A k : First(k) <=> First(k)'
  BY DEF Awaited, Named, Names, Notes, Once, First

LEMMA CoreQueueStill ==
  ASSUME UNCHANGED toCore
  PROVE  Ending' = Ending
  BY DEF Ending, Calls

LEMMA ChatIdNat == ChatId \subseteq Nat
  BY ChatsAssumption DEF ChatId

LEMMA EndingIds ==
  ASSUME TypeInv
  PROVE  Ending \subseteq ChatId
<1>1. \A i \in 1..Len(toCore) : toCore[i] \in CallMsg
  BY ElementOfSeq DEF TypeInv, QueuesOK
<1>2. \A m \in CallMsg : m.call = "chatEnd" => m.chat \in ChatId
  BY DEF CallMsg, StartCall, EndCall, PlainCall
<1> QED
  BY <1>1, <1>2 DEF Ending, Calls

LEMMA NewChatSafe ==
  ASSUME TypeInv, ChatInv, NewChatStep
  PROVE  ChatInv'
<1>1. PICK n \in ChatId : n = nextChat
  BY DEF NewChatStep, ChatMade
<1>2. /\ nextChat' = n + 1 /\ n \in Nat
      /\ \A k \in ChatId : chats'[k] = None <=> chats[k] = None /\ k # n
      /\ UNCHANGED <<open, windows, answer, toCore>>
  BY <1>1, ChatIdNat DEF NewChatStep, ChatMade, GuiStill
<1>3. n \notin Named /\ chats[n] = None /\ (n # 0 => n \notin Ending)
  BY <1>1, <1>2 DEF ChatInv, IdInv
<1>4. /\ Awaited' = Awaited \cup {n} /\ Named' \subseteq Named \cup {n} /\ Once'
      /\ \A k : First(k) \/ k = n => First(k)'
  BY <1>1, <1>3, NewChatSaid DEF ChatInv
<1>5. Ending' = Ending
  BY <1>2, CoreQueueStill
<1>6. n # 0 => open[n] = None /\ answer # n
  BY <1>3 DEF ChatInv, LifeInv
<1>7. WindowInv'
  BY <1>2 DEF ChatInv, WindowInv
<1>8. IdInv'
  <2>1. \A k \in ChatId : chats'[k] # None => k < n + 1
    BY <1>1, <1>2, ChatIdNat DEF ChatInv, IdInv
  <2>2. \A k \in Named' : k < n + 1
    <3>1. Named \subseteq Nat
      BY ChatIdNat DEF Named
    <3> QED
      BY <1>1, <1>2, <1>4, <3>1 DEF ChatInv, IdInv
  <2>3. \A k \in Ending' : k # 0 => k < n + 1
    <3>1. Ending \subseteq Nat
      BY ChatIdNat, EndingIds
    <3> QED
      BY <1>1, <1>2, <1>5, <3>1 DEF ChatInv, IdInv
  <2> QED
    BY <1>2, <2>1, <2>2, <2>3 DEF IdInv
<1>9. LifeInv'
  BY <1>2, <1>3, <1>4, <1>5, <1>6 DEF ChatInv, LifeInv
<1>10. KnownInv'
  BY <1>2, <1>4, <1>5 DEF ChatInv, KnownInv, Existing
<1> QED
  BY <1>4, <1>7, <1>8, <1>9, <1>10 DEF ChatInv

LEMMA StartSafe ==
  ASSUME TypeInv, ChatInv, StartStep
  PROVE  ChatInv'
<1>1. Head(toCore) \in StartCall /\ Head(toCore).call # "chatEnd"
  BY DEF StartStep, Served, StartCall
<1>2. Ending' = Ending
  BY <1>1, EndingServed DEF StartStep
<1>3. /\ Awaited' = Awaited /\ Named' = Named /\ Once'
      /\ \A k : First(k) => First(k)'
  BY GuiQueueStill DEF StartStep, ChatInv
<1>4. UNCHANGED <<open, windows>>
  BY DEF StartStep, GuiStill
<1>5. answer = None
  BY <1>1, ServedCall DEF StartStep, Served, TypeInv, StartInv
<1>6. WindowInv'
  BY <1>4 DEF ChatInv, WindowInv
<1>7. CASE answer' = 0 /\ SameChats
  <2>1. IdInv'
    BY <1>2, <1>3, <1>7 DEF SameChats, ChatInv, IdInv
  <2>2. LifeInv'
    BY <1>2, <1>3, <1>4, <1>7 DEF SameChats, ChatInv, LifeInv
  <2>3. KnownInv'
    <3>1. \A k \in Existing : answer # k
      BY <1>5, NoneIds, ChatIdNat DEF Existing
    <3> QED
      BY <1>2, <1>3, <1>4, <1>7, <3>1 DEF SameChats, ChatInv, KnownInv, Existing
  <2> QED
    BY <1>3, <1>6, <2>1, <2>2, <2>3 DEF ChatInv
<1>8. CASE answer' = nextChat /\ ChatMade
  <2>1. PICK n \in ChatId : n = nextChat
    BY <1>8 DEF ChatMade
  <2>2. /\ nextChat' = n + 1 /\ n \in Nat /\ answer' = n
        /\ \A k \in ChatId : chats'[k] = None <=> chats[k] = None /\ k # n
    BY <1>8, <2>1, ChatIdNat DEF ChatMade
  <2>3. n \notin Named /\ chats[n] = None /\ (n # 0 => n \notin Ending)
    BY <2>1, <2>2 DEF ChatInv, IdInv
  <2>4. n \notin Awaited
    <3>1. Awaited \cap ChatId \subseteq Named
      BY DEF Awaited, Named, Notes, Names, ChatNotes
    <3> QED
      BY <2>3, <3>1
  <2>5. n # 0 => open[n] = None
    BY <2>3 DEF ChatInv, LifeInv
  <2>6. IdInv'
    <3>1. \A k \in ChatId : chats'[k] # None => k < n + 1
      BY <2>1, <2>2, ChatIdNat DEF ChatInv, IdInv
    <3>2. \A k \in Named' : k < n + 1
      <4>1. Named \subseteq Nat
        BY ChatIdNat DEF Named
      <4> QED
        BY <2>1, <2>2, <1>3, <4>1 DEF ChatInv, IdInv
    <3>3. \A k \in Ending' : k # 0 => k < n + 1
      <4>1. Ending \subseteq Nat
        BY ChatIdNat, EndingIds
      <4> QED
        BY <1>2, <2>1, <2>2, <4>1 DEF ChatInv, IdInv
    <3> QED
      BY <2>2, <3>1, <3>2, <3>3 DEF IdInv
  <2>7. LifeInv'
    BY <1>2, <1>3, <1>4, <2>2, <2>3, <2>4, <2>5 DEF ChatInv, LifeInv
  <2>8. KnownInv'
    <3>1. \A k \in Existing : answer # k
      BY <1>5, NoneIds, ChatIdNat DEF Existing
    <3> QED
      BY <1>2, <1>3, <1>4, <2>2, <3>1 DEF ChatInv, KnownInv, Existing
  <2> QED
    BY <1>3, <1>6, <2>6, <2>7, <2>8 DEF ChatInv
<1> QED
  BY <1>7, <1>8 DEF StartStep

LEMMA EndSafe ==
  ASSUME TypeInv, ChatInv, EndStep
  PROVE  ChatInv'
<1>1. PICK h \in ChatId : h = Head(toCore).chat
  BY DEF EndStep, Served, EndCall
<1>2. Head(toCore).call = "chatEnd"
  BY DEF EndStep, Served, EndCall
<1>3. Ending' \subseteq Ending /\ h \in Ending /\ Ending \subseteq Ending' \cup {h}
  BY <1>1, <1>2, EndingServed DEF EndStep
<1>4. /\ Awaited' = Awaited /\ Named' = Named /\ Once'
      /\ \A k : First(k) => First(k)'
  BY GuiQueueStill DEF EndStep, ChatInv
<1>5. /\ UNCHANGED <<open, windows, answer, nextChat>>
      /\ \A k \in ChatId : chats'[k] = None <=> chats[k] = None \/ k = h
  BY <1>1 DEF EndStep, GuiStill
<1>6. WindowInv'
  BY <1>5 DEF ChatInv, WindowInv
<1>7. IdInv'
  BY <1>3, <1>4, <1>5 DEF ChatInv, IdInv
<1>8. LifeInv'
  BY <1>3, <1>4, <1>5 DEF ChatInv, LifeInv
<1>9. KnownInv'
  BY <1>3, <1>4, <1>5 DEF ChatInv, KnownInv, Existing
<1> QED
  BY <1>4, <1>6, <1>7, <1>8, <1>9 DEF ChatInv

LEMMA IncomingSafe ==
  ASSUME TypeInv, ChatInv, chatIncoming
  PROVE  ChatInv'
<1> DEFINE m == Head(toGui)
           new == [contact |-> m.contact, entry |-> m.entry]
<1>1. /\ toGui # <<>> /\ toGui' = Tail(toGui) /\ m.note = "chatIncoming"
      /\ UNCHANGED <<chats, nextChat, answer, toCore>>
  BY DEF chatIncoming, Noticing, coreVars
<1>2. m.chat \in ChatId /\ m.contact \in ContactId /\ new # None /\ new.contact = m.contact
  <2>1. m.chat \in ChatId /\ m.contact \in ContactId /\ m.entry \in EntryId
    BY <1>1, ServedNote
  <2>2. new \in Open
    BY <2>1 DEF Open
  <2> QED
    BY <2>1, <2>2, ChatsAssumption
<1>3. \/ open[m.chat] # None /\ UNCHANGED <<open, windows>>
      \/ /\ open[m.chat] = None /\ open' = [open EXCEPT ![m.chat] = new]
         /\ windows' = windows \/ windows' = [windows EXCEPT ![m.contact] = m.chat]
  BY DEF chatIncoming
<1> HIDE DEF new
<1>4. PICK k0 \in ChatId : k0 = m.chat
  BY <1>2
<1>5. /\ Named' \subseteq Named /\ Awaited' \subseteq Awaited /\ Once'
      /\ \A k : First(k) => First(k)' \/ k0 = k
      /\ k0 \in Awaited /\ k0 \notin Awaited'
  BY <1>1, <1>4, TailSaid DEF ChatInv
<1>6. Ending' = Ending
  BY <1>1, CoreQueueStill
<1>7. /\ open'[k0] # None
      /\ \A k \in ChatId : k # k0 => open'[k] = open[k]
  BY <1>2, <1>3, <1>4 DEF TypeInv, TypeOK, GuiOK
<1>8. WindowInv'
  <2>1. \A c \in ContactId : windows[c] \in ChatId \cup {None}
    BY DEF TypeInv, TypeOK, GuiOK
  <2> QED
    BY <1>2, <1>3, <2>1 DEF ChatInv, WindowInv, TypeInv, TypeOK, GuiOK
<1>9. IdInv'
  BY <1>1, <1>5, <1>6 DEF ChatInv, IdInv
<1>10. LifeInv'
  BY <1>1, <1>5, <1>6, <1>7 DEF ChatInv, LifeInv
<1>11. KnownInv'
  BY <1>1, <1>5, <1>6, <1>7 DEF ChatInv, KnownInv, Existing
<1> QED
  BY <1>5, <1>8, <1>9, <1>10, <1>11 DEF ChatInv

LEMMA StartedSafe ==
  ASSUME TypeInv, ChatInv, ChatStarted
  PROVE  ChatInv'
<1>1. /\ UNCHANGED <<chats, nextChat, toCore, toGui>> /\ answer' = None
  BY DEF ChatStarted, coreVars
<1>2. answer \in ChatId /\ waiting \in Open /\ waiting # None
  BY ChatStartedType, ChatsAssumption
<1>3. PICK a \in ChatId : a = answer
  BY <1>2
<1>4. \/ open[a] # None /\ UNCHANGED <<open, windows>>
      \/ /\ open[a] = None /\ open' = [open EXCEPT ![a] = waiting]
         /\ windows' = [windows EXCEPT ![waiting.contact] = a]
  BY <1>3 DEF ChatStarted
<1>5. waiting.contact \in ContactId
  BY <1>2 DEF Open
<1>6. Ending' = Ending
  BY <1>1, CoreQueueStill
<1>7. /\ Awaited' = Awaited /\ Named' = Named /\ Once' /\ \A k : First(k) => First(k)'
  BY <1>1, GuiQueueStill DEF ChatInv
<1>8. /\ open'[a] # None
      /\ \A k \in ChatId : k # a => open'[k] = open[k]
  BY <1>2, <1>4 DEF TypeInv, TypeOK, GuiOK
<1>9. WindowInv'
  <2>1. \A c \in ContactId : windows[c] \in ChatId \cup {None}
    BY DEF TypeInv, TypeOK, GuiOK
  <2> QED
    BY <1>2, <1>4, <1>5, <2>1 DEF ChatInv, WindowInv, TypeInv, TypeOK, GuiOK
<1>10. IdInv'
  BY <1>1, <1>6, <1>7 DEF ChatInv, IdInv
<1>11. LifeInv'
  <2>1. \A k \in ChatId : None # k
    BY NoneIds, ChatIdNat
  <2> QED
    BY <1>1, <1>3, <1>6, <1>7, <1>8, <2>1 DEF ChatInv, LifeInv
<1>12. KnownInv'
  BY <1>1, <1>3, <1>6, <1>7, <1>8 DEF ChatInv, KnownInv, Existing
<1> QED
  BY <1>7, <1>9, <1>10, <1>11, <1>12 DEF ChatInv
LEMMA StartChatSafe ==
  ASSUME TypeInv, ChatInv, NEW c \in ContactId, NEW e \in Chosen, StartChat(c, e)
  PROVE  ChatInv'
<1>1. UNCHANGED <<chats, nextChat, answer, toGui, open, windows>>
  BY DEF StartChat, guiVars, GuiIdle, coreVars
<1>2. toCore' = toCore \o <<ChatStart(c, e)>> /\ ChatStart(c, e) \in CallMsg
  BY DEF StartChat, Call, ChatStart, StartCall, CallMsg
<1>3. /\ Len(toCore') = Len(toCore) + 1 /\ Len(toCore) \in Nat
      /\ \A i \in 1..Len(toCore) : toCore'[i] = toCore[i]
      /\ toCore'[Len(toCore) + 1].call # "chatEnd"
  <2>1. toCore \in Seq(CallMsg)
    BY DEF TypeInv, QueuesOK
  <2> QED
    BY <1>2, <2>1 DEF ChatStart
<1>4. Calls("chatEnd")' = Calls("chatEnd")
  BY <1>3 DEF Calls
<1>5. Ending' = Ending
  BY <1>3, <1>4 DEF Ending, Calls
<1>6. /\ Awaited' = Awaited /\ Named' = Named /\ Once' /\ \A k : First(k) => First(k)'
  BY <1>1, GuiQueueStill DEF ChatInv
<1>7. SameOpen
  BY <1>1 DEF SameOpen
<1> QED
  BY <1>1, <1>5, <1>6, <1>7, ChatsStill

\* endChat: the chat leaves both tables of the user interface, and chatEnd is queued.
LEMMA EndChatEnding ==
  ASSUME TypeInv, NEW c \in ContactId, EndChat(c)
  PROVE  Ending' = Ending \cup {windows[c]}
<1>1. PICK k \in ChatId : k = windows[c]
  BY EndChatType
<1>2. PICK typed \in {<<>>, <<ChatMessageSend(k)>>} :
          toCore' = toCore \o (typed \o <<ChatEnd(k)>>)
  BY <1>1 DEF EndChat, Call
<1>3. typed \in Seq(PlainCall) /\ typed \o <<ChatEnd(k)>> \in Seq(CallMsg)
  BY <1>2, EndingType, SeqMonotonic
<1> DEFINE q == typed \o <<ChatEnd(k)>>
<1>4. /\ Len(q) \in Nat \ {0} /\ q[Len(q)] = ChatEnd(k)
      /\ \A i \in 1..Len(q) : i # Len(q) => q[i] \in PlainCall
  <2>1. typed \in Seq(CallMsg) /\ <<ChatEnd(k)>> \in Seq(CallMsg)
    <3>1. ChatEnd(k) \in CallMsg /\ PlainCall \subseteq CallMsg
      BY DEF ChatEnd, EndCall, CallMsg
    <3> QED
      BY <1>3, <3>1, SeqMonotonic, One
  <2>2. Len(<<ChatEnd(k)>>) = 1 /\ <<ChatEnd(k)>>[1] = ChatEnd(k)
    OBVIOUS
  <2>3. /\ Len(q) = Len(typed) + 1 /\ Len(typed) \in Nat
        /\ q[Len(typed) + 1] = ChatEnd(k)
        /\ \A i \in 1..Len(typed) : q[i] = typed[i]
    BY <2>1, <2>2, Grows
  <2>4. \A i \in 1..Len(typed) : typed[i] \in PlainCall
    BY <1>3, ElementOfSeq
  <2> QED
    BY <2>3, <2>4
<1>5. toCore' = toCore \o q /\ q \in Seq(CallMsg) /\ toCore \in Seq(CallMsg)
  BY <1>2, <1>3 DEF TypeInv, QueuesOK
<1> HIDE DEF q
<1>6. /\ Len(toCore') = Len(toCore) + Len(q) /\ Len(toCore) \in Nat
      /\ \A i \in 1..Len(toCore) : toCore'[i] = toCore[i]
      /\ \A i \in 1..Len(q) : toCore'[Len(toCore) + i] = q[i]
      /\ \A i \in 1..Len(toCore') : i \in 1..Len(toCore) \/ i - Len(toCore) \in 1..Len(q)
  BY <1>5, Grows
<1>7. ASSUME NEW i \in 1..Len(toCore'), i \notin 1..Len(toCore), toCore'[i].call = "chatEnd"
      PROVE  i = Len(toCore')
  <2>1. i - Len(toCore) \in 1..Len(q) /\ Len(toCore) + (i - Len(toCore)) = i
    BY <1>6, <1>7
  <2>2. q[i - Len(toCore)].call = "chatEnd"
    BY <1>6, <1>7, <2>1
  <2>3. i - Len(toCore) = Len(q)
    BY <1>4, <2>1, <2>2 DEF PlainCall
  <2> QED
    BY <1>4, <1>6, <2>1, <2>3
<1>8. toCore'[Len(toCore')] = ChatEnd(k) /\ Len(toCore') \in 1..Len(toCore')
  <2>1. Len(q) \in 1..Len(q)
    BY <1>4
  <2>2. toCore'[Len(toCore) + Len(q)] = q[Len(q)]
    BY <1>6, <2>1
  <2> QED
    BY <1>4, <1>6, <2>2
<1>9. Calls("chatEnd")' = Calls("chatEnd") \cup {Len(toCore')}
  <2>1. Calls("chatEnd")' \subseteq Calls("chatEnd") \cup {Len(toCore')}
    BY <1>6, <1>7 DEF Calls
  <2>2. \A i \in 1..Len(toCore) : i \in 1..Len(toCore')
    BY <1>4, <1>6
  <2>3. Calls("chatEnd") \subseteq Calls("chatEnd")'
    BY <1>6, <2>2 DEF Calls
  <2>4. Len(toCore') \in Calls("chatEnd")'
    BY <1>8 DEF Calls, ChatEnd
  <2> QED
    BY <2>1, <2>3, <2>4
<1>10. \A i \in Calls("chatEnd") : toCore'[i] = toCore[i]
  BY <1>6 DEF Calls
<1>11. toCore'[Len(toCore')].chat = k
  BY <1>8 DEF ChatEnd
<1> QED
  BY <1>1, <1>9, <1>10, <1>11 DEF Ending

LEMMA EndChatSafe ==
  ASSUME TypeInv, ChatInv, NEW c \in ContactId, EndChat(c)
  PROVE  ChatInv'
<1>1. PICK k0 \in ChatId : k0 = windows[c]
  BY EndChatType
<1>2. /\ UNCHANGED <<chats, nextChat, answer, toGui>>
      /\ open' = [open EXCEPT ![k0] = None] /\ windows' = [windows EXCEPT ![c] = None]
      /\ windows[c] # None /\ waiting = None
  BY <1>1 DEF EndChat, Free, GuiIdle, coreVars
<1>3. open'[k0] = None /\ \A k \in ChatId : k # k0 => open'[k] = open[k]
  BY <1>2 DEF TypeInv, TypeOK, GuiOK
<1>4. Ending' = Ending \cup {k0}
  BY <1>1, EndChatEnding
<1>5. /\ Awaited' = Awaited /\ Named' = Named /\ Once' /\ \A k : First(k) => First(k)'
  BY <1>2, GuiQueueStill DEF ChatInv
<1>6. answer = None
  BY <1>2 DEF TypeInv, StartInv
<1>7. open[k0] # None /\ open[k0].contact = c
  BY <1>1, <1>2 DEF ChatInv, WindowInv
<1>8. WindowInv'
  <2>1. ASSUME NEW d \in ContactId, windows'[d] # None
        PROVE  open'[windows'[d]] # None /\ open'[windows'[d]].contact = d
    <3>1. d # c /\ windows'[d] = windows[d]
      BY <1>2, <2>1 DEF TypeInv, TypeOK, GuiOK
    <3>2. open[windows[d]] # None /\ open[windows[d]].contact = d /\ windows[d] \in ChatId
      BY <2>1, <3>1 DEF ChatInv, WindowInv, TypeInv, TypeOK, GuiOK
    <3>3. windows[d] # k0
      BY <1>7, <3>1, <3>2
    <3> QED
      BY <1>3, <3>1, <3>2, <3>3
  <2> QED
    BY <2>1 DEF WindowInv
<1>9. IdInv'
  <2>1. k0 # 0 => k0 < nextChat
    BY <1>7 DEF ChatInv, LifeInv, IdInv
  <2> QED
    BY <1>2, <1>4, <1>5, <2>1 DEF ChatInv, IdInv
<1>10. LifeInv'
  <2>1. k0 # 0 => k0 \notin Awaited
    BY <1>7 DEF ChatInv, LifeInv
  <2>2. \A k \in ChatId : answer # k
    BY <1>6, NoneIds, ChatIdNat
  <2> QED
    BY <1>2, <1>3, <1>4, <1>5, <2>1, <2>2 DEF ChatInv, LifeInv
<1>11. KnownInv'
  BY <1>2, <1>3, <1>4, <1>5 DEF ChatInv, KnownInv, Existing
<1> QED
  BY <1>5, <1>8, <1>9, <1>10, <1>11 DEF ChatInv

----------------------------------------------------------------------------
(* The theorems about chats. *)

LEMMA ChatInvInit ==
  ASSUME Init
  PROVE  ChatInv
<1>1. Calls("chatEnd") = {} /\ Notes("chatIncoming") = {} /\ 1..Len(toGui) = {}
  BY DEF Init, Calls, Notes
<1>2. Ending = {} /\ Awaited = {} /\ Named = {} /\ Once
  BY <1>1 DEF Ending, Awaited, Named, Once
<1>3. \A k \in ChatId : answer # k
  BY NoneIds, ChatIdNat DEF Init
<1>4. WindowInv
  BY DEF Init, WindowInv
<1>5. IdInv /\ LifeInv /\ KnownInv
  BY <1>2, <1>3 DEF Init, IdInv, LifeInv, KnownInv, Existing
<1> QED
  BY <1>2, <1>4, <1>5 DEF ChatInv

LEMMA ChatInvStep ==
  ASSUME TypeInv, ChatInv, [Next]_vars
  PROVE  ChatInv'
<1>1. CASE Next
  BY <1>1, StepsKind, SaySafe, NewChatSafe, ServeSafe, StartSafe, EndSafe, UserSafe, NoticeSafe,
     IncomingSafe, StartedSafe, StartChatSafe, EndChatSafe DEF StepKind
<1>2. CASE UNCHANGED vars
  <2>1. UNCHANGED <<chats, nextChat, answer, toCore, toGui, open, windows>>
    BY <1>2 DEF vars, coreVars, guiVars
  <2>2. Ending' = Ending
    BY <2>1, CoreQueueStill
  <2>3. /\ Awaited' = Awaited /\ Named' = Named /\ Once' /\ \A k : First(k) => First(k)'
    BY <2>1, GuiQueueStill DEF ChatInv
  <2>4. SameOpen
    BY <2>1 DEF SameOpen
  <2> QED
    BY <2>1, <2>2, <2>3, <2>4, ChatsStill
<1> QED
  BY <1>1, <1>2

\* The life of a chat goes as ChatInv says, in every behaviour: a chat is announced once
\* and before anything else is said of it, a chat whose end is on its way is neither open
\* nor awaited nor about to be opened, and what a window shows is open (chatStart, chatEnd,
\* getChatForJID; p_addChat:, p_removeChat:).
THEOREM ChatLife == Spec => [](TypeInv /\ ChatInv)
<1>1. Init => TypeInv /\ ChatInv
  BY TypeInvInit, ChatInvInit
<1>2. TypeInv /\ ChatInv /\ [Next]_vars => TypeInv' /\ ChatInv'
  BY TypeInvStep, ChatInvStep
<1> QED
  BY <1>1, <1>2, PTL DEF Spec

\* A chat of the core is known to the user interface, or announced before anything else
\* is said of it, or about to be ended, however many chats are made and however the two
\* queues are served.
THEOREM AnnouncedHolds == Spec => []Announced
<1>1. TypeInv /\ ChatInv => Announced
  <2> SUFFICES ASSUME TypeInv, ChatInv, NEW k \in Existing
               PROVE  \/ open[k] # None \/ answer = k
                      \/ \E i \in Calls("chatEnd") : toCore[i].chat = k
                      \/ \E i \in Notes("chatIncoming") : toGui[i].chat = k
                          /\ \A j \in 1..(i - 1) :
                                ~(toGui[j].note \in ChatNotes /\ toGui[j].chat = k)
    BY DEF Announced
  <2>1. k \in Ending => \E i \in Calls("chatEnd") : toCore[i].chat = k
    BY DEF Ending
  <2> QED
    BY <2>1 DEF ChatInv, KnownInv, First, Names
<1> QED
  BY <1>1, ChatLife, PTL

\* The user interface never has a chat that the core does not, but for ID 0, which it may
\* have read from the empty map.
THEOREM ChatExistsHolds == Spec => []ChatExists
<1>1. TypeInv /\ ChatInv => ChatExists
  BY DEF ChatInv, LifeInv, ChatExists
<1> QED
  BY <1>1, ChatLife, PTL

----------------------------------------------------------------------------
(* The last word of a queue. *)

\* No message of the queue is in A; or the last one that is, is in R too.
Silent(q, A) == \A i \in 1..Len(q) : q[i] \notin A
LastIn(q, A, R) == \E i \in 1..Len(q) : /\ q[i] \in A \cap R
                                        /\ \A j \in (i + 1)..Len(q) : q[j] \notin A

LEMMA NothingIn ==
  ASSUME NEW A
  PROVE  Silent(<<>>, A)
<1>1. Len(<<>>) = 0 /\ 1..0 = {}
  OBVIOUS
<1> QED
  BY <1>1 DEF Silent

LEMMA OneIn ==
  ASSUME NEW S, NEW m \in S, NEW A, NEW R
  PROVE  /\ m \notin A => Silent(<<m>>, A)
         /\ m \in A /\ m \in R => LastIn(<<m>>, A, R)
<1>1. Len(<<m>>) = 1 /\ <<m>>[1] = m /\ 1..1 = {1} /\ (1 + 1)..1 = {}
  OBVIOUS
<1> QED
  BY <1>1 DEF Silent, LastIn

LEMMA JoinIn ==
  ASSUME NEW S, NEW q \in Seq(S), NEW r \in Seq(S), NEW A, NEW R
  PROVE  /\ Silent(q, A) /\ Silent(r, A) => Silent(q \o r, A)
         /\ LastIn(q, A, R) /\ Silent(r, A) => LastIn(q \o r, A, R)
         /\ LastIn(r, A, R) => LastIn(q \o r, A, R)
<1>1. /\ q \o r \in Seq(S) /\ Len(q \o r) = Len(q) + Len(r)
      /\ Len(q) \in Nat /\ Len(r) \in Nat
      /\ \A i \in 1..Len(q) : (q \o r)[i] = q[i]
      /\ \A i \in 1..Len(r) : (q \o r)[Len(q) + i] = r[i]
      /\ \A i \in 1..Len(q \o r) : i \in 1..Len(q) \/ i - Len(q) \in 1..Len(r)
  BY Grows
<1>2. \A i \in 1..Len(q \o r) :
         \/ i \in 1..Len(q) /\ (q \o r)[i] = q[i]
         \/ i - Len(q) \in 1..Len(r) /\ (q \o r)[i] = r[i - Len(q)]
  <2> SUFFICES ASSUME NEW i \in 1..Len(q \o r)
               PROVE  \/ i \in 1..Len(q) /\ (q \o r)[i] = q[i]
                      \/ i - Len(q) \in 1..Len(r) /\ (q \o r)[i] = r[i - Len(q)]
    OBVIOUS
  <2>1. i = Len(q) + (i - Len(q))
    BY <1>1
  <2> QED
    BY <1>1, <2>1
<1>3. Silent(q, A) /\ Silent(r, A) => Silent(q \o r, A)
  BY <1>2 DEF Silent
<1>4. ASSUME LastIn(q, A, R), Silent(r, A) PROVE LastIn(q \o r, A, R)
  <2>1. PICK i \in 1..Len(q) : q[i] \in A \cap R /\ \A j \in (i + 1)..Len(q) : q[j] \notin A
    BY <1>4 DEF LastIn
  <2>2. i \in 1..Len(q \o r) /\ (q \o r)[i] \in A \cap R
    BY <1>1, <2>1
  <2>3. ASSUME NEW j \in (i + 1)..Len(q \o r) PROVE (q \o r)[j] \notin A
    <3>1. j \in 1..Len(q \o r)
      BY <1>1
    <3>2. CASE j \in 1..Len(q) /\ (q \o r)[j] = q[j]
      <4>1. j \in (i + 1)..Len(q)
        BY <1>1, <3>2
      <4> QED
        BY <2>1, <3>2, <4>1
    <3>3. CASE j - Len(q) \in 1..Len(r) /\ (q \o r)[j] = r[j - Len(q)]
      BY <1>4, <3>3 DEF Silent
    <3> QED
      BY <1>2, <3>1, <3>2, <3>3
  <2> QED
    BY <2>2, <2>3 DEF LastIn
<1>5. ASSUME LastIn(r, A, R) PROVE LastIn(q \o r, A, R)
  <2>1. PICK i \in 1..Len(r) : r[i] \in A \cap R /\ \A j \in (i + 1)..Len(r) : r[j] \notin A
    BY <1>5 DEF LastIn
  <2>2. Len(q) + i \in 1..Len(q \o r) /\ (q \o r)[Len(q) + i] \in A \cap R
    BY <1>1, <2>1
  <2>3. ASSUME NEW j \in (Len(q) + i + 1)..Len(q \o r) PROVE (q \o r)[j] \notin A
    <3>1. j \in 1..Len(q \o r) /\ j \notin 1..Len(q) /\ j - Len(q) \in (i + 1)..Len(r)
      BY <1>1
    <3> QED
      BY <1>2, <2>1, <3>1
  <2> QED
    BY <2>2, <2>3 DEF LastIn
<1> QED
  BY <1>3, <1>4, <1>5

\* What is left of the queue when its head is served.
LEMMA ServeIn ==
  ASSUME NEW S, NEW q \in Seq(S), q # <<>>, NEW A, NEW R
  PROVE  /\ Silent(q, A) => Silent(Tail(q), A) /\ Head(q) \notin A
         /\ LastIn(q, A, R) => \/ LastIn(Tail(q), A, R)
                               \/ Silent(Tail(q), A) /\ Head(q) \in A \cap R
<1>1. /\ Head(q) = q[1] /\ Len(q) \in Nat \ {0} /\ Len(Tail(q)) = Len(q) - 1
      /\ \A i \in 1..Len(Tail(q)) : Tail(q)[i] = q[i + 1] /\ i + 1 \in 1..Len(q)
  BY Shrinks
<1>2. Silent(q, A) => Silent(Tail(q), A) /\ Head(q) \notin A
  BY <1>1 DEF Silent
<1>3. ASSUME LastIn(q, A, R)
      PROVE  \/ LastIn(Tail(q), A, R)
             \/ Silent(Tail(q), A) /\ Head(q) \in A \cap R
  <2>1. PICK i \in 1..Len(q) : q[i] \in A \cap R /\ \A j \in (i + 1)..Len(q) : q[j] \notin A
    BY <1>3 DEF LastIn
  <2>2. CASE i = 1
    <3>1. \A j \in 1..Len(Tail(q)) : Tail(q)[j] \notin A
      <4> SUFFICES ASSUME NEW j \in 1..Len(Tail(q)) PROVE Tail(q)[j] \notin A
        OBVIOUS
      <4>1. j + 1 \in (i + 1)..Len(q)
        BY <1>1, <2>2
      <4> QED
        BY <1>1, <2>1, <4>1
    <3> QED
      BY <1>1, <2>1, <2>2, <3>1 DEF Silent
  <2>3. CASE i # 1
    <3>1. i - 1 \in 1..Len(Tail(q)) /\ Tail(q)[i - 1] = q[i]
      <4>1. i - 1 \in 1..Len(Tail(q)) /\ (i - 1) + 1 = i
        BY <1>1, <2>3
      <4> QED
        BY <1>1, <4>1
    <3>2. ASSUME NEW j \in ((i - 1) + 1)..Len(Tail(q)) PROVE Tail(q)[j] \notin A
      <4>1. j \in 1..Len(Tail(q)) /\ j + 1 \in (i + 1)..Len(q)
        BY <1>1, <2>3
      <4> QED
        BY <1>1, <2>1, <4>1
    <3> QED
      BY <2>1, <3>1, <3>2 DEF LastIn
  <2> QED
    BY <2>2, <2>3
<1> QED
  BY <1>2, <1>3

\* A queue whose only messages of A are in R.
LEMMA AllIn ==
  ASSUME NEW S, NEW q \in Seq(S), NEW A, NEW R, NEW n \in 1..Len(q), q[n] \in A,
         \A i \in 1..Len(q) : q[i] \in A => i = n /\ q[i] \in R
  PROVE  LastIn(q, A, R)
<1>1. Len(q) \in Nat
  BY LenProperties
<1>2. \A j \in (n + 1)..Len(q) : q[j] \notin A
  <2> SUFFICES ASSUME NEW j \in (n + 1)..Len(q), q[j] \in A PROVE FALSE
    OBVIOUS
  <2>1. j \in 1..Len(q) /\ j # n
    BY <1>1
  <2> QED
    BY <2>1
<1> QED
  BY <1>2 DEF LastIn

----------------------------------------------------------------------------
(* The roster on both sides. *)

AboutContact(c) == {ContactAdded(c), ContactRemoved(c)}
ContactNews(c) == IF c \in contacts THEN {ContactAdded(c)} ELSE {ContactRemoved(c)}
EntryNotes == {"rosterEntryAdded", "rosterEntryRemoved", "rosterEntryContactChanged"}
AboutEntry(e) == {m \in RosterNote : m.note \in EntryNotes /\ m.entry = e}
\* The contact that the entry has by what the notification says.
NewOwner(m) == IF m.note = "rosterEntryAdded" THEN m.contact
               ELSE IF m.note = "rosterEntryRemoved" THEN None ELSE m.new
EntryNews(e) == {m \in RosterNote : NewOwner(m) = owner[e]}

\* What the user interface has of a contact, or of an entry, is what the core has, or the
\* last notification about it that is still on its way says what the core has.
ContactMirrored(c) ==
    \/ LastIn(toGui, AboutContact(c), ContactNews(c))
    \/ Silent(toGui, AboutContact(c)) /\ (c \in gcontacts <=> c \in contacts)
EntryMirrored(e) ==
    \/ LastIn(toGui, AboutEntry(e), EntryNews(e))
    \/ Silent(toGui, AboutEntry(e)) /\ gowner[e] = owner[e]
Mirrored == /\ \A c \in ContactId : ContactMirrored(c)
            /\ \A e \in EntryId : EntryMirrored(e)
MirrorInv == stopped = "no" => Mirrored

\* Which notifications are about what.
LEMMA AboutContacts ==
  ASSUME NEW c \in ContactId, NEW d \in ContactId
  PROVE  /\ ContactAdded(d) \in AboutContact(c) <=> c = d
         /\ ContactRemoved(d) \in AboutContact(c) <=> c = d
         /\ \A e, x : EntryAdded(x, e) \notin AboutContact(c)
         /\ \A e : EntryRemoved(e) \notin AboutContact(c)
         /\ \A e, x, y : EntryContactChanged(e, x, y) \notin AboutContact(c)
  BY DEF AboutContact, ContactAdded, ContactRemoved, EntryAdded, EntryRemoved,
         EntryContactChanged

LEMMA AboutEntries ==
  ASSUME NEW e \in EntryId, NEW f \in EntryId
  PROVE  /\ \A x \in ContactId : EntryAdded(x, f) \in AboutEntry(e) <=> e = f
         /\ EntryRemoved(f) \in AboutEntry(e) <=> e = f
         /\ \A x, y \in ContactId : EntryContactChanged(f, x, y) \in AboutEntry(e) <=> e = f
         /\ \A c : ContactAdded(c) \notin AboutEntry(e)
         /\ \A c : ContactRemoved(c) \notin AboutEntry(e)
<1>1. /\ \A x \in ContactId : EntryAdded(x, f) \in RosterNote
      /\ EntryRemoved(f) \in RosterNote
      /\ \A x, y \in ContactId : EntryContactChanged(f, x, y) \in RosterNote
  BY DEF RosterNote, EntryAdded, EntryRemoved, EntryContactChanged
<1>2. /\ \A x : EntryAdded(x, f).note = "rosterEntryAdded" /\ EntryAdded(x, f).entry = f
      /\ EntryRemoved(f).note = "rosterEntryRemoved" /\ EntryRemoved(f).entry = f
      /\ \A x, y : /\ EntryContactChanged(f, x, y).note = "rosterEntryContactChanged"
                   /\ EntryContactChanged(f, x, y).entry = f
      /\ \A c : /\ ContactAdded(c).note = "rosterContactAdded"
                /\ ContactRemoved(c).note = "rosterContactRemoved"
  BY DEF EntryAdded, EntryRemoved, EntryContactChanged, ContactAdded, ContactRemoved
<1> QED
  BY <1>1, <1>2 DEF AboutEntry, EntryNotes

\* What is said of chats is about no contact and no entry.
LEMMA ChatsSilent ==
  ASSUME NEW r \in Seq(ChatNote)
  PROVE  /\ \A c : Silent(r, AboutContact(c))
         /\ \A e : Silent(r, AboutEntry(e))
<1>1. \A i \in 1..Len(r) : r[i].note \in ChatNotes
  BY ElementOfSeq DEF ChatNote, ChatNotes
<1>2. \A c : \A m \in AboutContact(c) : m.note \notin ChatNotes
  BY DEF AboutContact, ContactAdded, ContactRemoved, ChatNotes
<1>3. \A e : \A m \in AboutEntry(e) : m.note \notin ChatNotes
  BY DEF AboutEntry, EntryNotes, ChatNotes
<1> QED
  BY <1>1, <1>2, <1>3 DEF Silent

\* The core tells everything that it changes.
LEMMA CoreTells ==
  ASSUME TypeInv, Mirrored, NEW r \in Seq(NoteMsg), toGui' = toGui \o r,
         UNCHANGED <<gcontacts, gowner>>,
         \A c \in ContactId :
            \/ LastIn(r, AboutContact(c), ContactNews(c)')
            \/ Silent(r, AboutContact(c)) /\ (c \in contacts' <=> c \in contacts),
         \A e \in EntryId :
            \/ LastIn(r, AboutEntry(e), EntryNews(e)')
            \/ Silent(r, AboutEntry(e)) /\ owner'[e] = owner[e]
  PROVE  Mirrored'
<1>1. toGui \in Seq(NoteMsg)
  BY DEF TypeInv, QueuesOK
<1>2. ASSUME NEW c \in ContactId PROVE ContactMirrored(c)'
  <2>1. CASE LastIn(r, AboutContact(c), ContactNews(c)')
    <3>1. LastIn(toGui', AboutContact(c), ContactNews(c)')
      BY <1>1, <2>1, JoinIn
    <3> QED
      BY <3>1 DEF ContactMirrored, AboutContact
  <2>2. CASE Silent(r, AboutContact(c)) /\ (c \in contacts' <=> c \in contacts)
    <3>1. ContactNews(c)' = ContactNews(c)
      BY <2>2 DEF ContactNews
    <3>2. CASE LastIn(toGui, AboutContact(c), ContactNews(c))
      <4>1. LastIn(toGui', AboutContact(c), ContactNews(c)')
        BY <1>1, <2>2, <3>1, <3>2, JoinIn
      <4> QED
        BY <4>1 DEF ContactMirrored, AboutContact
    <3>3. CASE Silent(toGui, AboutContact(c)) /\ (c \in gcontacts <=> c \in contacts)
      <4>1. Silent(toGui', AboutContact(c))
        BY <1>1, <2>2, <3>3, JoinIn
      <4> QED
        BY <2>2, <3>3, <4>1 DEF ContactMirrored, AboutContact
    <3> QED
      BY <3>2, <3>3 DEF Mirrored, ContactMirrored
  <2> QED
    BY <2>1, <2>2
<1>3. ASSUME NEW e \in EntryId PROVE EntryMirrored(e)'
  <2>1. CASE LastIn(r, AboutEntry(e), EntryNews(e)')
    <3>1. LastIn(toGui', AboutEntry(e), EntryNews(e)')
      BY <1>1, <2>1, JoinIn
    <3> QED
      BY <3>1 DEF EntryMirrored, AboutEntry
  <2>2. CASE Silent(r, AboutEntry(e)) /\ owner'[e] = owner[e]
    <3>1. EntryNews(e)' = EntryNews(e)
      BY <2>2 DEF EntryNews
    <3>2. CASE LastIn(toGui, AboutEntry(e), EntryNews(e))
      <4>1. LastIn(toGui', AboutEntry(e), EntryNews(e)')
        BY <1>1, <2>2, <3>1, <3>2, JoinIn
      <4> QED
        BY <4>1 DEF EntryMirrored, AboutEntry
    <3>3. CASE Silent(toGui, AboutEntry(e)) /\ gowner[e] = owner[e]
      <4>1. Silent(toGui', AboutEntry(e))
        BY <1>1, <2>2, <3>3, JoinIn
      <4> QED
        BY <2>2, <3>3, <4>1 DEF EntryMirrored, AboutEntry
    <3> QED
      BY <3>2, <3>3 DEF Mirrored, EntryMirrored
  <2> QED
    BY <2>1, <2>2
<1> QED
  BY <1>2, <1>3 DEF Mirrored

\* What the core says of chats changes nothing here.
LEMMA CoreTellsChats ==
  ASSUME TypeInv, Mirrored, NEW r \in Seq(ChatNote), toGui' = toGui \o r,
         UNCHANGED <<contacts, owner, gcontacts, gowner>>
  PROVE  Mirrored'
<1>1. r \in Seq(NoteMsg)
  BY SeqMonotonic DEF NoteMsg
<1> QED
  BY <1>1, ChatsSilent, CoreTells

LEMMA MirrorStill ==
  ASSUME Mirrored, UNCHANGED <<toGui, contacts, owner, gcontacts, gowner>>
  PROVE  Mirrored'
<1>1. \A c \in ContactId : ContactMirrored(c)'
  BY DEF Mirrored, ContactMirrored, AboutContact, ContactNews
<1>2. \A e \in EntryId : EntryMirrored(e)'
  BY DEF Mirrored, EntryMirrored, AboutEntry, EntryNews
<1> QED
  BY <1>1, <1>2 DEF Mirrored

\* The user interface does what the head of its queue says.
LEMMA GuiHears ==
  ASSUME TypeInv, Mirrored, toGui # <<>>, toGui' = Tail(toGui), UNCHANGED <<contacts, owner>>,
         \A c \in ContactId :
            /\ Head(toGui) \notin AboutContact(c) => (c \in gcontacts' <=> c \in gcontacts)
            /\ Head(toGui) = ContactAdded(c) => c \in gcontacts'
            /\ Head(toGui) = ContactRemoved(c) => c \notin gcontacts',
         \A e \in EntryId :
            /\ Head(toGui) \notin AboutEntry(e) => gowner'[e] = gowner[e]
            /\ Head(toGui) \in AboutEntry(e) => gowner'[e] = NewOwner(Head(toGui))
  PROVE  Mirrored'
<1>1. toGui \in Seq(NoteMsg)
  BY DEF TypeInv, QueuesOK
<1>2. ASSUME NEW c \in ContactId PROVE ContactMirrored(c)'
  <2>1. ContactNews(c)' = ContactNews(c) /\ AboutContact(c)' = AboutContact(c)
    BY DEF ContactNews, AboutContact
  <2>2. CASE LastIn(toGui', AboutContact(c), ContactNews(c))
    BY <2>1, <2>2 DEF ContactMirrored
  <2>3. CASE /\ Silent(toGui', AboutContact(c))
             /\ Head(toGui) \in AboutContact(c) \cap ContactNews(c)
    <3>1. c \in gcontacts' <=> c \in contacts
      BY <2>3 DEF ContactNews
    <3> QED
      BY <2>1, <2>3, <3>1 DEF ContactMirrored
  <2>4. CASE /\ Silent(toGui', AboutContact(c)) /\ Head(toGui) \notin AboutContact(c)
             /\ c \in gcontacts <=> c \in contacts
    BY <2>1, <2>4 DEF ContactMirrored
  <2> QED
    BY <1>1, <2>2, <2>3, <2>4, ServeIn DEF Mirrored, ContactMirrored
<1>3. ASSUME NEW e \in EntryId PROVE EntryMirrored(e)'
  <2>1. EntryNews(e)' = EntryNews(e) /\ AboutEntry(e)' = AboutEntry(e)
    BY DEF EntryNews, AboutEntry
  <2>2. CASE LastIn(toGui', AboutEntry(e), EntryNews(e))
    BY <2>1, <2>2 DEF EntryMirrored
  <2>3. CASE Silent(toGui', AboutEntry(e)) /\ Head(toGui) \in AboutEntry(e) \cap EntryNews(e)
    <3>1. owner[e] \in ContactId \cup {None}
      BY DEF TypeInv, TypeOK, CoreOK
    <3>2. gowner'[e] = owner[e]
      BY <2>3, <3>1 DEF EntryNews
    <3> QED
      BY <2>1, <2>3, <3>2 DEF EntryMirrored
  <2>4. CASE /\ Silent(toGui', AboutEntry(e)) /\ Head(toGui) \notin AboutEntry(e)
             /\ gowner[e] = owner[e]
    BY <2>1, <2>4 DEF EntryMirrored
  <2> QED
    BY <1>1, <2>2, <2>3, <2>4, ServeIn DEF Mirrored, EntryMirrored
<1> QED
  BY <1>2, <1>3 DEF Mirrored

LEMMA NewOwners ==
  ASSUME NEW e \in EntryId, NEW c \in ContactId, NEW d \in ContactId
  PROVE  /\ EntryAdded(c, e) \in RosterNote /\ NewOwner(EntryAdded(c, e)) = c
         /\ EntryRemoved(e) \in RosterNote /\ NewOwner(EntryRemoved(e)) = None
         /\ EntryContactChanged(e, c, d) \in RosterNote
         /\ NewOwner(EntryContactChanged(e, c, d)) = d
         /\ ContactAdded(c) \in RosterNote /\ ContactRemoved(c) \in RosterNote
  BY DEF NewOwner, RosterNote, EntryAdded, EntryRemoved, EntryContactChanged,
         ContactAdded, ContactRemoved

\* A contact, which may be new, gets an entry.
LEMMA AddedTells ==
  ASSUME TypeInv, Mirrored, NEW c \in ContactId, NEW e \in EntryId,
         NEW r \in Seq(RosterNote), NEW s \in Seq(ChatNote), toGui' = toGui \o (r \o s),
         contacts' = contacts \cup {c}, owner' = [owner EXCEPT ![e] = c],
         \/ r = NoticeOf(c) \o <<EntryAdded(c, e)>>
         \/ r = <<ContactAdded(c), EntryAdded(c, e)>>,
         UNCHANGED <<gcontacts, gowner>>
  PROVE  Mirrored'
<1>1. owner'[e] = c /\ \A f \in EntryId \ {e} : owner'[f] = owner[f]
  BY DEF TypeInv, TypeOK, CoreOK
<1>2. r \in Seq(NoteMsg) /\ s \in Seq(NoteMsg) /\ r \o s \in Seq(NoteMsg)
  <2>1. r \in Seq(NoteMsg) /\ s \in Seq(NoteMsg)
    BY SeqMonotonic DEF NoteMsg
  <2> QED
    BY <2>1, Grows
<1>3. ASSUME NEW d \in ContactId
      PROVE  \/ LastIn(r, AboutContact(d), ContactNews(d)')
             \/ Silent(r, AboutContact(d)) /\ (d \in contacts' <=> d \in contacts)
  <2>1. ContactAdded(c) \in AboutContact(d) <=> c = d
    BY AboutContacts
  <2>2. EntryAdded(c, e) \notin AboutContact(d)
    BY AboutContacts
  <2>3. ContactAdded(c) \in ContactNews(c)'
    BY DEF ContactNews
  <2>4. CASE r = <<ContactAdded(c), EntryAdded(c, e)>>
    <3>1. Len(r) = 2 /\ r[1] = ContactAdded(c) /\ r[2] = EntryAdded(c, e)
      BY <2>4
    <3>2. c = d => LastIn(r, AboutContact(d), ContactNews(d)')
      <4> SUFFICES ASSUME c = d PROVE LastIn(r, AboutContact(d), ContactNews(d)')
        OBVIOUS
      <4>1. /\ 1 \in 1..Len(r) /\ r[1] \in AboutContact(d)
            /\ \A i \in 1..Len(r) : r[i] \in AboutContact(d)
                                       => i = 1 /\ r[i] \in ContactNews(d)'
        BY <2>1, <2>2, <2>3, <3>1
      <4> QED
        BY <4>1, AllIn
    <3>3. c # d => Silent(r, AboutContact(d))
      BY <2>1, <2>2, <3>1 DEF Silent
    <3> QED
      BY <3>2, <3>3
  <2>5. CASE r = NoticeOf(c) \o <<EntryAdded(c, e)>>
    <3>1. /\ NoticeOf(c) \in Seq(RosterNote) /\ <<EntryAdded(c, e)>> \in Seq(RosterNote)
          /\ Silent(<<EntryAdded(c, e)>>, AboutContact(d))
      BY <2>2, NoticeType, One, OneIn, NewOwners
    <3>2. CASE c \in contacts
      <4>1. Silent(NoticeOf(c), AboutContact(d))
        BY <3>2, NothingIn DEF NoticeOf
      <4> QED
        BY <2>5, <3>1, <3>2, <4>1, JoinIn
    <3>3. CASE c \notin contacts
      <4>1. NoticeOf(c) = <<ContactAdded(c)>>
        BY <3>3 DEF NoticeOf
      <4>2. c = d => LastIn(NoticeOf(c), AboutContact(d), ContactNews(d)')
        BY <2>1, <2>3, <4>1, OneIn
      <4>3. c # d => Silent(NoticeOf(c), AboutContact(d))
        BY <2>1, <4>1, OneIn
      <4> QED
        BY <2>5, <3>1, <4>2, <4>3, JoinIn
    <3> QED
      BY <3>2, <3>3
  <2> QED
    BY <2>4, <2>5
<1>4. ASSUME NEW f \in EntryId
      PROVE  \/ LastIn(r, AboutEntry(f), EntryNews(f)')
             \/ Silent(r, AboutEntry(f)) /\ owner'[f] = owner[f]
  <2>1. /\ EntryAdded(c, e) \in AboutEntry(f) <=> e = f
        /\ ContactAdded(c) \notin AboutEntry(f)
    BY AboutEntries
  <2>2. EntryAdded(c, e) \in EntryNews(e)'
    BY <1>1, NewOwners DEF EntryNews
  <2>3. CASE r = <<ContactAdded(c), EntryAdded(c, e)>>
    <3>1. Len(r) = 2 /\ r[1] = ContactAdded(c) /\ r[2] = EntryAdded(c, e)
      BY <2>3
    <3>2. e = f => LastIn(r, AboutEntry(f), EntryNews(f)')
      <4> SUFFICES ASSUME e = f PROVE LastIn(r, AboutEntry(f), EntryNews(f)')
        OBVIOUS
      <4>1. /\ 2 \in 1..Len(r) /\ r[2] \in AboutEntry(f)
            /\ \A i \in 1..Len(r) : r[i] \in AboutEntry(f)
                                       => i = 2 /\ r[i] \in EntryNews(f)'
        BY <2>1, <2>2, <3>1
      <4> QED
        BY <4>1, AllIn
    <3>3. e # f => Silent(r, AboutEntry(f))
      BY <2>1, <3>1 DEF Silent
    <3> QED
      BY <1>1, <3>2, <3>3
  <2>4. CASE r = NoticeOf(c) \o <<EntryAdded(c, e)>>
    <3>1. NoticeOf(c) \in Seq(RosterNote) /\ <<EntryAdded(c, e)>> \in Seq(RosterNote)
      BY NoticeType, One, NewOwners
    <3>2. Silent(NoticeOf(c), AboutEntry(f))
      BY <2>1, NothingIn, OneIn DEF NoticeOf
    <3>3. e = f => LastIn(<<EntryAdded(c, e)>>, AboutEntry(f), EntryNews(f)')
      BY <2>1, <2>2, OneIn
    <3>4. e # f => Silent(<<EntryAdded(c, e)>>, AboutEntry(f))
      BY <2>1, OneIn
    <3> QED
      BY <1>1, <2>4, <3>1, <3>2, <3>3, <3>4, JoinIn
  <2> QED
    BY <2>3, <2>4
<1>5. ASSUME NEW A, NEW R
      PROVE  /\ Silent(s, A) /\ LastIn(r, A, R) => LastIn(r \o s, A, R)
             /\ Silent(s, A) /\ Silent(r, A) => Silent(r \o s, A)
  BY <1>2, JoinIn
<1> QED
  BY <1>2, <1>3, <1>4, <1>5, ChatsSilent, CoreTells

LEMMA ItemAddedTells ==
  ASSUME TypeInv, Mirrored, NEW x \in Address, ItemAdded(x)
  PROVE  Mirrored'
<1>1. PICK e \in EntryToMake, c \in contacts \cup ContactToMake :
        /\ WithContact(c) /\ MakeEntry(e, c, x)
        /\ Notify(NoticeOf(c) \o <<EntryAdded(c, e)>>)
  BY DEF ItemAdded
<1>2. c \in ContactId /\ e \in EntryId
  BY DEF TypeInv, TypeOK, CoreOK, ContactToMake, EntryToMake
<1> DEFINE r == NoticeOf(c) \o <<EntryAdded(c, e)>>
<1>3. r \in Seq(RosterNote)
  BY <1>2, NoticeType, One, Grows, NewOwners
<1>4. <<>> \in Seq(ChatNote) /\ r \o <<>> = r
  BY <1>3, EmptySeq, ConcatEmptySeq
<1>5. UNCHANGED <<gcontacts, gowner>>
  BY DEF ItemAdded, CoreIdle, guiVars
<1>6. toGui' = toGui \o (r \o <<>>)
  BY <1>1, <1>4 DEF Notify
<1>7. contacts' = contacts \cup {c} /\ owner' = [owner EXCEPT ![e] = c]
  BY <1>1 DEF WithContact, MakeEntry
<1>8. r = NoticeOf(c) \o <<EntryAdded(c, e)>>
  OBVIOUS
<1> HIDE DEF r
<1> QED
  BY <1>2, <1>3, <1>4, <1>5, <1>6, <1>7, <1>8, AddedTells

LEMMA MessageReceivedTells ==
  ASSUME TypeInv, Mirrored, NEW x \in Address, MessageReceived(x)
  PROVE  Mirrored'
<1> DEFINE known == EntriesAt(x) # {}
<1>1. UNCHANGED <<gcontacts, gowner>>
  BY DEF MessageReceived, CoreIdle, guiVars
<1>2. PICK e \in IF known THEN EntriesAt(x) ELSE EntryToMake,
           c \in IF known THEN contacts ELSE ContactToMake,
           maybe \in SUBSET {k \in ChatId : Dangles(k)} :
       \E held \in IF known THEN {chats} ELSE Rebound(e) :
          LET chat == FoundChat(held, x, c, LiveEntries \cup {e}, maybe)
              met == IF known THEN <<>> ELSE <<ContactAdded(c), EntryAdded(c, e)>>
          IN
          /\ known => c = owner[e]
          /\ Reused(held)
          /\ IF known THEN UNCHANGED rosterVars ELSE WithContact(c) /\ MakeEntry(e, c, x)
          /\ IF chat = {}
             THEN /\ ChatsLeft /\ nextChat' = nextChat + 1
                  /\ chats' = [held EXCEPT ![nextChat] =
                                  [contact |-> c, entry |-> e, addr |-> x]]
                  /\ Notify(met \o <<ChatIncoming(nextChat, c, e),
                                     ChatMessageReceived(nextChat)>>)
             ELSE \E k \in chat :
                  /\ chats' = [held EXCEPT ![k].entry = e, ![k].addr = x]
                  /\ Notify(met \o (IF held[k].entry = e THEN <<>>
                                    ELSE <<ChatEntryChanged(k, e)>>)
                                \o <<ChatMessageReceived(k)>>)
                  /\ UNCHANGED nextChat
  BY DEF MessageReceived
<1>3. e \in EntryId /\ c \in ContactId
  BY DEF TypeInv, TypeOK, CoreOK, ContactToMake, EntryToMake, EntriesAt
<1> DEFINE met == IF known THEN <<>> ELSE <<ContactAdded(c), EntryAdded(c, e)>>
<1>4. met \in Seq(RosterNote)
  <2>1. <<ContactAdded(c), EntryAdded(c, e)>> \in Seq(RosterNote)
    BY <1>3, NewOwners
  <2> QED
    BY <2>1, EmptySeq
<1>5. IF known THEN UNCHANGED rosterVars ELSE WithContact(c) /\ MakeEntry(e, c, x)
  BY <1>2
<1>6. \E s \in Seq(ChatNote) : toGui' = toGui \o (met \o s)
  <2>1. PICK held \in IF known THEN {chats} ELSE Rebound(e) :
          LET chat == FoundChat(held, x, c, LiveEntries \cup {e}, maybe) IN
          IF chat = {}
          THEN /\ ChatsLeft
               /\ Notify(met \o <<ChatIncoming(nextChat, c, e),
                                  ChatMessageReceived(nextChat)>>)
          ELSE \E k \in chat :
                  Notify(met \o (IF held[k].entry = e THEN <<>>
                                    ELSE <<ChatEntryChanged(k, e)>>)
                                \o <<ChatMessageReceived(k)>>)
    BY <1>2
  <2> DEFINE chat == FoundChat(held, x, c, LiveEntries \cup {e}, maybe)
  <2> HIDE DEF met
  <2>2. CASE chat = {}
    <3>1. ChatsLeft /\ toGui' = toGui \o (met \o <<ChatIncoming(nextChat, c, e),
                                                   ChatMessageReceived(nextChat)>>)
      BY <2>1, <2>2 DEF Notify
    <3>2. nextChat \in ChatId
      BY <3>1, ChatsAssumption DEF TypeInv, TypeOK, CoreOK, ChatsLeft, ChatId
    <3>3. <<ChatIncoming(nextChat, c, e), ChatMessageReceived(nextChat)>> \in Seq(ChatNote)
      BY <1>3, <3>2, AnnouncingType, EmptySeq
    <3> QED
      BY <3>1, <3>3
  <2>3. CASE chat # {}
    <3>1. PICK k \in chat :
             toGui' = toGui \o (met \o (IF held[k].entry = e THEN <<>>
                                    ELSE <<ChatEntryChanged(k, e)>>)
                                \o <<ChatMessageReceived(k)>>)
      BY <2>1, <2>3 DEF Notify
    <3>2. k \in ChatId
      BY FoundType
    <3> DEFINE turn == IF held[k].entry = e THEN <<>> ELSE <<ChatEntryChanged(k, e)>>
    <3>3. turn \in Seq(ChatNote) /\ <<ChatMessageReceived(k)>> \in Seq(ChatNote)
      <4>1. ChatEntryChanged(k, e) \in ChatNote /\ ChatMessageReceived(k) \in ChatNote
        BY <1>3, <3>2 DEF ChatEntryChanged, ChatMessageReceived, ChatNote, Chosen
      <4> QED
        BY <4>1, One, EmptySeq
    <3> HIDE DEF turn
    <3>4. turn \o <<ChatMessageReceived(k)>> \in Seq(ChatNote)
      BY <3>3, Grows
    <3>5. met \in Seq(NoteMsg) /\ turn \in Seq(NoteMsg)
          /\ <<ChatMessageReceived(k)>> \in Seq(NoteMsg)
      BY <1>4, <3>3, SeqMonotonic DEF NoteMsg
    <3>6. met \o turn \o <<ChatMessageReceived(k)>> = met \o (turn \o <<ChatMessageReceived(k)>>)
      BY <3>5, ConcatAssociative
    <3> QED
      BY <3>1, <3>4, <3>6 DEF turn
  <2> QED
    BY <2>2, <2>3
<1>7. PICK s \in Seq(ChatNote) : toGui' = toGui \o (met \o s)
  BY <1>6
<1>8. CASE known
  <2>1. met \o s = s
    <3>1. met = <<>>
      BY <1>8
    <3>2. <<>> \o s = s
      BY ConcatEmptySeq
    <3> QED
      BY <3>1, <3>2
  <2>2. UNCHANGED <<contacts, owner>>
    BY <1>5, <1>8 DEF rosterVars
  <2> QED
    BY <1>1, <1>7, <2>1, <2>2, CoreTellsChats
<1>9. CASE ~known
  <2>1. met = <<ContactAdded(c), EntryAdded(c, e)>>
    BY <1>9
  <2>2. contacts' = contacts \cup {c} /\ owner' = [owner EXCEPT ![e] = c]
    BY <1>5, <1>9 DEF WithContact, MakeEntry
  <2> HIDE DEF met
  <2> QED
    BY <1>1, <1>3, <1>4, <1>7, <2>1, <2>2, AddedTells
<1> QED
  BY <1>8, <1>9

\* A contact of which an entry, or the last one, goes.
LEMMA ItemUpdatedTells ==
  ASSUME TypeInv, Mirrored, NEW e \in EntryId, ItemUpdated(e)
  PROVE  Mirrored'
<1> DEFINE c == owner[e]
           gone == IF EntriesIn(c) = {e} THEN {c} ELSE {}
           last == IF gone = {} THEN <<>> ELSE <<ContactRemoved(c)>>
<1>1. PICK d \in (contacts \cup ContactToMake) \ {owner[e]} :
        /\ contacts' = (contacts \cup {d}) \ gone
        /\ owner' = [owner EXCEPT ![e] = d]
        /\ Notify(NoticeOf(d) \o <<EntryContactChanged(e, c, d)>> \o last)
  BY DEF ItemUpdated
<1>2. c \in ContactId /\ d \in ContactId /\ c # d
  BY DEF TypeInv, TypeOK, CoreOK, ContactToMake, ItemUpdated, Live
<1>3. owner'[e] = d /\ \A f \in EntryId \ {e} : owner'[f] = owner[f]
  BY <1>1 DEF TypeInv, TypeOK, CoreOK
<1>4. UNCHANGED <<gcontacts, gowner>>
  BY DEF ItemUpdated, CoreIdle, guiVars
<1> DEFINE m == EntryContactChanged(e, c, d)
           two == NoticeOf(d) \o <<m>>
<1>5. /\ last \in Seq(RosterNote) /\ NoticeOf(d) \in Seq(RosterNote)
      /\ <<m>> \in Seq(RosterNote)
  BY <1>2, NoticeType, NewOwners, One
<1>6. two \in Seq(RosterNote) /\ two \o last \in Seq(RosterNote)
  <2> HIDE DEF last, m
  <2>1. two \in Seq(RosterNote)
    BY <1>5, Grows
  <2> HIDE DEF two
  <2> QED
    BY <1>5, <2>1, Grows
<1>7. two \o last \in Seq(NoteMsg)
  BY <1>6, SeqMonotonic DEF NoteMsg
<1>8. \/ last = <<>> /\ gone = {}
      \/ last = <<ContactRemoved(c)>> /\ gone = {c}
  <2>1. CASE EntriesIn(c) = {e}
    BY <2>1
  <2>2. CASE EntriesIn(c) # {e}
    BY <2>2
  <2> QED
    BY <2>1, <2>2
<1>9. toGui' = toGui \o (two \o last)
  BY <1>1 DEF Notify
<1> HIDE DEF last, gone
<1>10. ASSUME NEW x \in ContactId
       PROVE  \/ LastIn(two \o last, AboutContact(x), ContactNews(x)')
              \/ Silent(two \o last, AboutContact(x)) /\ (x \in contacts' <=> x \in contacts)
  <2>1. /\ ContactRemoved(c) \in AboutContact(x) <=> c = x
        /\ ContactAdded(d) \in AboutContact(x) <=> d = x
        /\ m \notin AboutContact(x)
    BY <1>2, AboutContacts
  <2>2. Silent(<<m>>, AboutContact(x))
    BY <2>1, OneIn
  <2>3. \/ d = x /\ d \notin contacts /\ LastIn(two, AboutContact(x), ContactNews(x)')
        \/ ~(d = x /\ d \notin contacts) /\ Silent(two, AboutContact(x))
    <3>1. CASE d = x /\ d \notin contacts
      <4>1. ContactAdded(d) \in ContactNews(x)'
        BY <1>1, <1>2, <1>8, <3>1 DEF ContactNews
      <4>2. LastIn(NoticeOf(d), AboutContact(x), ContactNews(x)')
        BY <2>1, <3>1, <4>1, OneIn DEF NoticeOf
      <4> QED
        BY <1>5, <2>2, <3>1, <4>2, JoinIn
    <3>2. CASE ~(d = x /\ d \notin contacts)
      <4>1. Silent(NoticeOf(d), AboutContact(x))
        BY <2>1, <3>2, OneIn, NothingIn DEF NoticeOf
      <4> QED
        BY <1>5, <2>2, <3>2, <4>1, JoinIn
    <3> QED
      BY <3>1, <3>2
  <2>4. CASE last = <<ContactRemoved(c)>> /\ gone = {c}
    <3>1. CASE c = x
      <4>1. ContactRemoved(c) \in ContactNews(x)'
        BY <1>1, <2>4, <3>1 DEF ContactNews
      <4>2. LastIn(last, AboutContact(x), ContactNews(x)')
        BY <2>1, <2>4, <3>1, <4>1, OneIn
      <4> QED
        BY <1>5, <1>6, <4>2, JoinIn
    <3>2. CASE c # x
      <4>1. Silent(last, AboutContact(x))
        BY <2>1, <2>4, <3>2, OneIn
      <4>2. ~(d = x /\ d \notin contacts) => (x \in contacts' <=> x \in contacts)
        BY <1>1, <2>4, <3>2
      <4> HIDE DEF two
      <4> QED
        BY <1>5, <1>6, <2>3, <4>1, <4>2, JoinIn
    <3> QED
      BY <3>1, <3>2
  <2>5. CASE last = <<>> /\ gone = {}
    <3>1. Silent(last, AboutContact(x))
      BY <2>5, NothingIn
    <3>2. ~(d = x /\ d \notin contacts) => (x \in contacts' <=> x \in contacts)
      BY <1>1, <2>5
    <3> HIDE DEF two
    <3> QED
      BY <1>5, <1>6, <2>3, <3>1, <3>2, JoinIn
  <2> QED
    BY <1>8, <2>4, <2>5
<1>11. ASSUME NEW f \in EntryId
       PROVE  \/ LastIn(two \o last, AboutEntry(f), EntryNews(f)')
              \/ Silent(two \o last, AboutEntry(f)) /\ owner'[f] = owner[f]
  <2>1. /\ m \in AboutEntry(f) <=> e = f
        /\ ContactAdded(d) \notin AboutEntry(f) /\ ContactRemoved(c) \notin AboutEntry(f)
    BY <1>2, AboutEntries
  <2>2. Silent(NoticeOf(d), AboutEntry(f)) /\ Silent(last, AboutEntry(f))
    BY <1>8, <2>1, OneIn, NothingIn DEF NoticeOf
  <2>3. m \in EntryNews(e)'
    BY <1>2, <1>3, NewOwners DEF EntryNews
  <2>4. e = f => LastIn(<<m>>, AboutEntry(f), EntryNews(f)')
    BY <2>1, <2>3, OneIn
  <2>5. e # f => Silent(<<m>>, AboutEntry(f)) /\ owner'[f] = owner[f]
    BY <1>3, <2>1, OneIn
  <2>6. \/ LastIn(two, AboutEntry(f), EntryNews(f)')
        \/ Silent(two, AboutEntry(f)) /\ owner'[f] = owner[f]
    BY <1>5, <2>2, <2>4, <2>5, JoinIn
  <2> HIDE DEF two
  <2> QED
    BY <1>5, <1>6, <2>2, <2>6, JoinIn
<1> HIDE DEF two
<1> QED
  BY <1>4, <1>7, <1>9, <1>10, <1>11, CoreTells

LEMMA ItemRemovedTells ==
  ASSUME TypeInv, Mirrored, NEW e \in EntryId, ItemRemoved(e)
  PROVE  Mirrored'
<1> DEFINE c == owner[e]
           gone == IF EntriesIn(c) = {e} THEN {c} ELSE {}
           last == IF gone = {} THEN <<>> ELSE <<ContactRemoved(c)>>
           one == <<EntryRemoved(e)>>
<1>1. /\ contacts' = contacts \ gone /\ owner' = [owner EXCEPT ![e] = None]
      /\ toGui' = toGui \o (one \o last)
  BY DEF ItemRemoved, Notify
<1>2. c \in ContactId
  BY DEF TypeInv, TypeOK, CoreOK, ItemRemoved, Live
<1>3. owner'[e] = None /\ \A f \in EntryId \ {e} : owner'[f] = owner[f]
  BY <1>1 DEF TypeInv, TypeOK, CoreOK
<1>4. UNCHANGED <<gcontacts, gowner>>
  BY DEF ItemRemoved, CoreIdle, guiVars
<1>5. last \in Seq(RosterNote) /\ one \in Seq(RosterNote)
  BY <1>2, NoticeType, NewOwners, One
<1>6. one \o last \in Seq(NoteMsg)
  <2>1. one \o last \in Seq(RosterNote)
    BY <1>5, Grows
  <2> QED
    BY <2>1, SeqMonotonic DEF NoteMsg
<1>7. \/ last = <<>> /\ gone = {}
      \/ last = <<ContactRemoved(c)>> /\ gone = {c}
  <2>1. CASE EntriesIn(c) = {e}
    BY <2>1
  <2>2. CASE EntriesIn(c) # {e}
    BY <2>2
  <2> QED
    BY <2>1, <2>2
<1> HIDE DEF last, gone
<1>8. ASSUME NEW x \in ContactId
      PROVE  \/ LastIn(one \o last, AboutContact(x), ContactNews(x)')
             \/ Silent(one \o last, AboutContact(x)) /\ (x \in contacts' <=> x \in contacts)
  <2>1. /\ ContactRemoved(c) \in AboutContact(x) <=> c = x
        /\ EntryRemoved(e) \notin AboutContact(x)
    BY <1>2, AboutContacts
  <2>2. Silent(one, AboutContact(x))
    BY <2>1, OneIn
  <2>3. CASE gone = {c} /\ c = x
    <3>1. ContactRemoved(c) \in ContactNews(x)'
      BY <1>1, <2>3 DEF ContactNews
    <3>2. LastIn(last, AboutContact(x), ContactNews(x)')
      BY <1>7, <2>1, <2>3, <3>1, OneIn
    <3> QED
      BY <1>5, <3>2, JoinIn
  <2>4. CASE ~(gone = {c} /\ c = x)
    <3>1. Silent(last, AboutContact(x))
      BY <1>7, <2>1, <2>4, OneIn, NothingIn
    <3> QED
      BY <1>1, <1>5, <1>7, <2>2, <2>4, <3>1, JoinIn
  <2> QED
    BY <2>3, <2>4
<1>9. ASSUME NEW f \in EntryId
      PROVE  \/ LastIn(one \o last, AboutEntry(f), EntryNews(f)')
             \/ Silent(one \o last, AboutEntry(f)) /\ owner'[f] = owner[f]
  <2>1. /\ EntryRemoved(e) \in AboutEntry(f) <=> e = f
        /\ ContactRemoved(c) \notin AboutEntry(f)
    BY <1>2, AboutEntries
  <2>2. Silent(last, AboutEntry(f))
    BY <1>7, <2>1, OneIn, NothingIn
  <2>3. EntryRemoved(e) \in EntryNews(e)'
    BY <1>2, <1>3, NewOwners DEF EntryNews
  <2>4. e = f => LastIn(one, AboutEntry(f), EntryNews(f)')
    BY <2>1, <2>3, OneIn
  <2>5. e # f => Silent(one, AboutEntry(f)) /\ owner'[f] = owner[f]
    BY <1>3, <2>1, OneIn
  <2> HIDE DEF one
  <2> QED
    BY <1>5, <2>2, <2>4, <2>5, JoinIn
<1> HIDE DEF one
<1> QED
  BY <1>1, <1>4, <1>6, <1>8, <1>9, CoreTells

\* SetToSeq leaves no element out.
LEMMA SetToSeqAll ==
  ASSUME NEW S, IsFiniteSet(S), NEW x \in S
  PROVE  \E i \in 1..Cardinality(S) : SetToSeq(S)[i] = x
                /\ \A j \in 1..Cardinality(S) : SetToSeq(S)[j] = x => j = i
<1> DEFINE D == 1..Cardinality(S)
<1>1. Cardinality(S) \in Nat /\ ExistsBijection(D, S)
  BY FS_CardinalityType
<1>2. \E f \in [D -> S] : IsInjective(f)
  BY <1>1 DEF ExistsBijection, Bijection, Injection
<1>3. SetToSeq(S) \in [D -> S] /\ IsInjective(SetToSeq(S))
  BY <1>2 DEF SetToSeq
<1>4. Cardinality(D) = Cardinality(S)
  BY <1>1, FS_Interval
<1> DEFINE f == SetToSeq(S)
<1> HIDE DEF f
<1>5. f \in Surjection(D, S)
  <2>1. f \in Injection(D, S)
    BY <1>3 DEF Injection, f
  <2> HIDE DEF D
  <2> QED
    BY <1>4, <2>1, FS_Injection
<1>6. PICK i \in D : f[i] = x
  BY <1>5 DEF Surjection
<1>7. \A j \in D : f[j] = x => j = i
  BY <1>3, <1>6 DEF IsInjective, f
<1> QED
  BY <1>6, <1>7 DEF f

\* A contact goes with its entries.
LEMMA ContactRemoveTells ==
  ASSUME TypeInv, Mirrored, rosterContactRemove
  PROVE  Mirrored'
<1> DEFINE c == Head(toCore).contact
           es == EntriesIn(c)
           removed == [i \in 1..Cardinality(es) |-> EntryRemoved(SetToSeq(es)[i])]
           last == <<ContactRemoved(c)>>
<1>1. UNCHANGED <<gcontacts, gowner>>
  BY DEF rosterContactRemove, Serving, guiVars
<1>2. CASE UNCHANGED <<contacts, owner, toGui>>
  BY <1>1, <1>2, MirrorStill
<1>3. CASE c \in contacts
  <2>1. /\ contacts' = contacts \ {c}
        /\ owner' = [e \in EntryId |-> IF owner[e] = c THEN None ELSE owner[e]]
        /\ toGui' = toGui \o (removed \o last)
    BY <1>3 DEF rosterContactRemove, Notify, RemovalOf
  <2>2. c \in ContactId
    BY <1>3 DEF TypeInv, TypeOK, CoreOK
  <2>3. es \subseteq EntryId /\ IsFiniteSet(es) /\ \A f \in EntryId : f \in es <=> owner[f] = c
    BY FiniteIds DEF EntriesIn
  <2> HIDE DEF es
  <2>4. /\ Cardinality(es) \in Nat
        /\ \A i \in 1..Cardinality(es) : SetToSeq(es)[i] \in es
    BY <2>3, SetToSeqType
  <2>5. /\ removed \in Seq(RosterNote) /\ Len(removed) = Cardinality(es)
        /\ \A i \in 1..Len(removed) : removed[i] = EntryRemoved(SetToSeq(es)[i])
    <3>1. removed \in [1..Cardinality(es) -> RosterNote]
      BY <2>3, <2>4 DEF EntryRemoved, RosterNote
    <3>2. removed \in Seq(RosterNote)
      BY <2>4, <3>1, SeqDef
    <3>3. DOMAIN removed = 1..Cardinality(es)
      BY <3>1
    <3>4. Len(removed) = Cardinality(es)
      BY <2>4, <3>2, <3>3, LenProperties
    <3> QED
      BY <3>2, <3>4
  <2> HIDE DEF removed
  <2>6. last \in Seq(RosterNote)
    <3>1. ContactRemoved(c) \in RosterNote
      BY <2>2 DEF ContactRemoved, RosterNote
    <3> QED
      BY <3>1, One
  <2>7. removed \o last \in Seq(NoteMsg)
    <3>1. removed \o last \in Seq(RosterNote)
      BY <2>5, <2>6, Grows
    <3> QED
      BY <3>1, SeqMonotonic DEF NoteMsg
  <2>8. ASSUME NEW x \in ContactId
        PROVE  \/ LastIn(removed \o last, AboutContact(x), ContactNews(x)')
               \/ /\ Silent(removed \o last, AboutContact(x))
                  /\ x \in contacts' <=> x \in contacts
    <3>1. /\ ContactRemoved(c) \in AboutContact(x) <=> c = x
          /\ \A e : EntryRemoved(e) \notin AboutContact(x)
      BY <2>2, AboutContacts
    <3>2. Silent(removed, AboutContact(x))
      BY <2>5, <3>1 DEF Silent
    <3>3. CASE c = x
      <4>1. ContactRemoved(c) \in ContactNews(x)'
        BY <2>1, <3>3 DEF ContactNews
      <4>2. LastIn(last, AboutContact(x), ContactNews(x)')
        BY <3>1, <3>3, <4>1, OneIn
      <4> QED
        BY <2>5, <2>6, <4>2, JoinIn
    <3>4. CASE c # x
      <4>1. Silent(last, AboutContact(x))
        BY <3>1, <3>4, OneIn
      <4>2. x \in contacts' <=> x \in contacts
        BY <2>1, <3>4
      <4> HIDE DEF last
      <4> QED
        BY <2>5, <2>6, <3>2, <4>1, <4>2, JoinIn
    <3> QED
      BY <3>3, <3>4
  <2>9. ASSUME NEW f \in EntryId
        PROVE  \/ LastIn(removed \o last, AboutEntry(f), EntryNews(f)')
               \/ Silent(removed \o last, AboutEntry(f)) /\ owner'[f] = owner[f]
    <3>1. /\ \A e \in EntryId : EntryRemoved(e) \in AboutEntry(f) <=> e = f
          /\ ContactRemoved(c) \notin AboutEntry(f)
      BY <2>2, AboutEntries
    <3>2. Silent(last, AboutEntry(f))
      BY <3>1, OneIn
    <3>3. CASE f \in es
      <4>1. PICK n \in 1..Cardinality(es) : SetToSeq(es)[n] = f
                /\ \A j \in 1..Cardinality(es) : SetToSeq(es)[j] = f => j = n
        BY <2>3, <3>3, SetToSeqAll
      <4>2. EntryRemoved(f) \in EntryNews(f)'
        <5>1. owner'[f] = None
          BY <2>1, <2>3, <3>3
        <5> QED
          BY <2>2, <5>1, NewOwners DEF EntryNews
      <4>3. /\ n \in 1..Len(removed) /\ removed[n] \in AboutEntry(f)
            /\ \A i \in 1..Len(removed) : removed[i] \in AboutEntry(f)
                                            => i = n /\ removed[i] \in EntryNews(f)'
        <5>1. n \in 1..Len(removed) /\ removed[n] = EntryRemoved(f)
          BY <2>5, <4>1
        <5>2. ASSUME NEW i \in 1..Len(removed), removed[i] \in AboutEntry(f) PROVE i = n
          <6>1. SetToSeq(es)[i] \in EntryId /\ removed[i] = EntryRemoved(SetToSeq(es)[i])
            BY <2>3, <2>4, <2>5
          <6>2. SetToSeq(es)[i] = f
            BY <3>1, <5>2, <6>1
          <6> QED
            BY <2>5, <4>1, <6>2
        <5> QED
          BY <3>1, <4>2, <5>1, <5>2
      <4>4. LastIn(removed, AboutEntry(f), EntryNews(f)')
        BY <2>5, <4>3, AllIn
      <4> QED
        BY <2>5, <2>6, <3>2, <4>4, JoinIn
    <3>4. CASE f \notin es
      <4>1. Silent(removed, AboutEntry(f))
        <5> SUFFICES ASSUME NEW i \in 1..Len(removed) PROVE removed[i] \notin AboutEntry(f)
          BY DEF Silent
        <5>1. SetToSeq(es)[i] \in es
          BY <2>4, <2>5
        <5> QED
          BY <2>3, <2>5, <3>1, <3>4, <5>1
      <4>2. owner'[f] = owner[f]
        BY <2>1, <2>3, <3>4
      <4> HIDE DEF last
      <4> QED
        BY <2>5, <2>6, <3>2, <4>1, <4>2, JoinIn
    <3> QED
      BY <3>3, <3>4
  <2> HIDE DEF last
  <2> QED
    BY <1>1, <2>1, <2>7, <2>8, <2>9, CoreTells
<1> QED
  BY <1>2, <1>3 DEF rosterContactRemove

LEMMA EntryChangeContactTells ==
  ASSUME TypeInv, Mirrored, rosterEntryChangeContact
  PROVE  Mirrored'
<1>1. Head(toCore) \in PlainCall /\ Head(toCore).call = "rosterEntryChangeContact"
  BY ServedCall DEF rosterEntryChangeContact, Serving
<1>2. UNCHANGED <<contacts, gcontacts, gowner>>
  BY DEF rosterEntryChangeContact, Serving, guiVars
<1>3. CASE UNCHANGED <<owner, toGui>>
  BY <1>2, <1>3, MirrorStill
<1>4. ASSUME NEW e \in EntryId, NEW c \in ContactId, NEW d \in ContactId,
             owner' = [owner EXCEPT ![e] = d],
             toGui' = toGui \o <<EntryContactChanged(e, c, d)>>
      PROVE  Mirrored'
  <2> DEFINE n == EntryContactChanged(e, c, d)
  <2>1. n \in RosterNote /\ NewOwner(n) = d
    BY NewOwners
  <2>2. <<n>> \in Seq(NoteMsg)
    BY <2>1, One DEF NoteMsg
  <2>3. owner'[e] = d /\ \A f \in EntryId \ {e} : owner'[f] = owner[f]
    BY <1>4 DEF TypeInv, TypeOK, CoreOK
  <2>4. \A x \in ContactId : n \notin AboutContact(x)
    BY AboutContacts
  <2>5. \A f \in EntryId : n \in AboutEntry(f) <=> e = f
    BY AboutEntries
  <2>6. n \in EntryNews(e)'
    BY <2>1, <2>3 DEF EntryNews
  <2>7. toGui' = toGui \o <<n>>
    BY <1>4
  <2> HIDE DEF n
  <2>8. \A x \in ContactId : Silent(<<n>>, AboutContact(x))
    BY <2>4, OneIn
  <2>9. ASSUME NEW f \in EntryId
        PROVE  \/ LastIn(<<n>>, AboutEntry(f), EntryNews(f)')
               \/ Silent(<<n>>, AboutEntry(f)) /\ owner'[f] = owner[f]
    <3>1. CASE f = e
      BY <2>5, <2>6, <3>1, OneIn
    <3>2. CASE f # e
      BY <2>3, <2>5, <3>2, OneIn
    <3> QED
      BY <3>1, <3>2
  <2> QED
    BY <1>2, <2>2, <2>7, <2>8, <2>9, CoreTells
<1>5. \/ UNCHANGED <<owner, toGui>>
      \/ \E e \in EntryId, c, d \in ContactId :
            /\ owner' = [owner EXCEPT ![e] = d]
            /\ toGui' = toGui \o <<EntryContactChanged(e, c, d)>>
  <2> DEFINE m == Head(toCore)
  <2>1. m.entry \in EntryId /\ m.old \in ContactId /\ m.new \in ContactId
    BY <1>1 DEF PlainCall
  <2>2. \/ UNCHANGED <<owner, toGui>>
        \/ /\ owner' = [owner EXCEPT ![m.entry] = m.new]
           /\ toGui' = toGui \o <<EntryContactChanged(m.entry, m.old, m.new)>>
    BY DEF rosterEntryChangeContact, Notify
  <2> HIDE DEF m
  <2> QED
    BY <2>1, <2>2
<1> QED
  BY <1>3, <1>4, <1>5

\* Steps that say of chats only, or nothing.
LEMMA TypingTells ==
  ASSUME TypeInv, Mirrored, NEW x \in Address, TypingReceived(x)
  PROVE  Mirrored'
<1>1. UNCHANGED <<contacts, owner, gcontacts, gowner>>
  BY DEF TypingReceived, coreVars, rosterVars, CoreIdle, guiVars
<1>2. PICK maybe :
          LET c == IF EntriesAt(x) = {} THEN None ELSE owner[CHOOSE e \in EntriesAt(x) : TRUE]
              chat == FoundChat(chats, x, c, LiveEntries, maybe)
          IN \/ UNCHANGED toGui
             \/ Notify(IF chat = {} THEN <<>>
                       ELSE <<ChatMessageReceived(CHOOSE k \in chat : TRUE)>>)
  BY DEF TypingReceived
<1> DEFINE c == IF EntriesAt(x) = {} THEN None ELSE owner[CHOOSE e \in EntriesAt(x) : TRUE]
           chat == FoundChat(chats, x, c, LiveEntries, maybe)
<1>3. \/ UNCHANGED toGui
      \/ toGui' = toGui \o (IF chat = {} THEN <<>>
                            ELSE <<ChatMessageReceived(CHOOSE k \in chat : TRUE)>>)
  BY <1>2 DEF Notify
<1>4. chat \subseteq ChatId
  BY FoundType
<1> HIDE DEF chat
<1>5. (IF chat = {} THEN <<>> ELSE <<ChatMessageReceived(CHOOSE k \in chat : TRUE)>>)
           \in Seq(ChatNote)
  <2>1. chat # {} => ChatMessageReceived(CHOOSE k \in chat : TRUE) \in ChatNote
    BY <1>4 DEF ChatMessageReceived, ChatNote
  <2> QED
    BY <2>1, One, EmptySeq
<1> QED
  BY <1>1, <1>3, <1>5, CoreTellsChats, MirrorStill

LEMMA ChangeEntryTells ==
  ASSUME TypeInv, Mirrored, chatChangeEntry
  PROVE  Mirrored'
<1> DEFINE m == Head(toCore)
           e == IF Live(m.entry) THEN m.entry ELSE None
<1>1. m \in PlainCall /\ m.call = "chatChangeEntry"
  BY ServedCall DEF chatChangeEntry, Serving
<1>2. UNCHANGED <<contacts, owner, gcontacts, gowner>>
  BY DEF chatChangeEntry, rosterVars, Serving, guiVars
<1>3. UNCHANGED toGui \/ toGui' = toGui \o <<ChatEntryChanged(m.chat, e)>>
  BY DEF chatChangeEntry, Notify
<1>4. ChatEntryChanged(m.chat, e) \in ChatNote
  BY <1>1 DEF PlainCall, ChatEntryChanged, ChatNote, Chosen
<1>5. <<ChatEntryChanged(m.chat, e)>> \in Seq(ChatNote)
  BY <1>4, One
<1> QED
  BY <1>2, <1>3, <1>5, CoreTellsChats, MirrorStill

\* The roster's notifications; the others change no roster.
LEMMA NoticesHear ==
  ASSUME TypeInv, Mirrored, GuiServes, stopped' # "gui"
  PROVE  Mirrored'
<1> DEFINE m == Head(toGui)
<1>1. /\ UNCHANGED <<contacts, owner>> /\ toGui # <<>> /\ toGui' = Tail(toGui)
  BY DEF GuiServes, rosterContactAdded, rosterContactRemoved, rosterEntryAdded,
         rosterEntryRemoved, rosterEntryContactChanged, chatIncoming, chatEntryChanged,
         chatMessageReceived, Noticing, coreVars, rosterVars
<1>2. m \in NoteMsg
  BY <1>1, ServedNote
<1>3. /\ gcontacts \subseteq ContactId /\ gowner \in [EntryId -> ContactId \cup {None}]
  BY DEF TypeInv, TypeOK, GuiOK
<1>4. /\ m.note = "rosterContactAdded" => \E c \in ContactId : m = ContactAdded(c)
      /\ m.note = "rosterContactRemoved" => \E c \in ContactId : m = ContactRemoved(c)
  BY <1>2 DEF NoteMsg, RosterNote, ChatNote, ContactAdded, ContactRemoved
<1>5. /\ \A c \in ContactId : /\ ContactAdded(c).note = "rosterContactAdded"
                              /\ ContactAdded(c).contact = c
                              /\ ContactRemoved(c).note = "rosterContactRemoved"
                              /\ ContactRemoved(c).contact = c
      /\ \A c \in ContactId : \A n \in AboutContact(c) :
            n.note \in {"rosterContactAdded", "rosterContactRemoved"}
      /\ \A e \in EntryId : \A n \in AboutEntry(e) : n.note \in EntryNotes /\ n.entry = e
  BY DEF ContactAdded, ContactRemoved, AboutContact, AboutEntry
<1>6. /\ m.note = "rosterEntryAdded" => m.contact \in ContactId /\ m.entry \in EntryId
      /\ m.note = "rosterEntryRemoved" => m.entry \in EntryId
      /\ m.note = "rosterEntryContactChanged" =>
             m.entry \in EntryId /\ m.old \in ContactId /\ m.new \in ContactId
  BY <1>1, ServedNote
<1>7. m.note \in EntryNotes => m \in AboutEntry(m.entry)
  BY <1>2 DEF NoteMsg, RosterNote, ChatNote, AboutEntry, EntryNotes
<1>8. CASE rosterContactAdded \/ rosterContactRemoved
  <2>1. gowner' = gowner /\ m.note \notin EntryNotes
    BY <1>8 DEF rosterContactAdded, rosterContactRemoved, Noticing, EntryNotes
  <2>2. ASSUME NEW c \in ContactId
        PROVE  /\ m \notin AboutContact(c) => (c \in gcontacts' <=> c \in gcontacts)
               /\ m = ContactAdded(c) => c \in gcontacts'
               /\ m = ContactRemoved(c) => c \notin gcontacts'
    <3>1. CASE rosterContactAdded
      <4>1. gcontacts' = gcontacts \cup {m.contact} /\ m.note = "rosterContactAdded"
        BY <3>1 DEF rosterContactAdded, Noticing
      <4>2. PICK d \in ContactId : m = ContactAdded(d)
        BY <1>4, <4>1
      <4>3. m.contact = d
        BY <1>5, <4>2
      <4> HIDE DEF m
      <4> QED
        BY <1>5, <4>1, <4>2, <4>3, AboutContacts
    <3>2. CASE rosterContactRemoved
      <4>1. gcontacts' = gcontacts \ {m.contact} /\ m.note = "rosterContactRemoved"
        BY <3>2 DEF rosterContactRemoved, Noticing
      <4>2. PICK d \in ContactId : m = ContactRemoved(d)
        BY <1>4, <4>1
      <4>3. m.contact = d
        BY <1>5, <4>2
      <4> HIDE DEF m
      <4> QED
        BY <1>5, <4>1, <4>2, <4>3, AboutContacts
    <3> QED
      BY <1>8, <3>1, <3>2
  <2> QED
    BY <1>1, <1>5, <2>1, <2>2, GuiHears
<1>9. CASE /\ m.note \in EntryNotes
           /\ gowner' = [gowner EXCEPT ![m.entry] = NewOwner(m)] /\ gcontacts' = gcontacts
  <2>1. m.entry \in EntryId
    BY <1>6, <1>9 DEF EntryNotes
  <2>2. /\ gowner'[m.entry] = NewOwner(m)
        /\ \A f \in EntryId \ {m.entry} : gowner'[f] = gowner[f]
    BY <1>3, <1>9, <2>1
  <2>3. \A c \in ContactId : /\ m \notin AboutContact(c) /\ m # ContactAdded(c)
                             /\ m # ContactRemoved(c)
    BY <1>5, <1>9 DEF EntryNotes
  <2>4. \A f \in EntryId : m \in AboutEntry(f) => f = m.entry
    BY <1>5
  <2>5. m \in AboutEntry(m.entry)
    BY <1>7, <1>9
  <2>6. ASSUME NEW f \in EntryId
        PROVE  /\ m \notin AboutEntry(f) => gowner'[f] = gowner[f]
               /\ m \in AboutEntry(f) => gowner'[f] = NewOwner(m)
    BY <2>2, <2>4, <2>5
  <2> QED
    BY <1>1, <1>9, <2>3, <2>6, GuiHears
<1>10. CASE m.note \in ChatNotes /\ UNCHANGED <<gcontacts, gowner>>
  <2>1. /\ \A c \in ContactId : /\ m \notin AboutContact(c) /\ m # ContactAdded(c)
                                /\ m # ContactRemoved(c)
        /\ \A e \in EntryId : m \notin AboutEntry(e)
    BY <1>5, <1>10 DEF ChatNotes, EntryNotes
  <2> QED
    BY <1>1, <1>10, <2>1, GuiHears
<1>11. CASE rosterEntryAdded
  <2>1. gowner' = [gowner EXCEPT ![m.entry] = m.contact] /\ gcontacts' = gcontacts
    BY <1>11 DEF rosterEntryAdded
  <2>2. m.note = "rosterEntryAdded"
    BY <1>11 DEF rosterEntryAdded, Noticing
  <2> QED
    BY <1>9, <2>1, <2>2 DEF NewOwner, EntryNotes
<1>12. CASE rosterEntryRemoved
  <2>1. gowner' = [gowner EXCEPT ![m.entry] = None] /\ gcontacts' = gcontacts
    BY <1>12 DEF rosterEntryRemoved
  <2>2. m.note = "rosterEntryRemoved"
    BY <1>12 DEF rosterEntryRemoved, Noticing
  <2> QED
    BY <1>9, <2>1, <2>2 DEF NewOwner, EntryNotes
<1>13. CASE rosterEntryContactChanged
  <2>1. gowner' = [gowner EXCEPT ![m.entry] = m.new] /\ gcontacts' = gcontacts
    BY <1>13 DEF rosterEntryContactChanged
  <2>2. m.note = "rosterEntryContactChanged"
    BY <1>13 DEF rosterEntryContactChanged, Noticing
  <2> QED
    BY <1>9, <2>1, <2>2 DEF NewOwner, EntryNotes
<1>14. CASE chatIncoming \/ chatEntryChanged \/ chatMessageReceived
  BY <1>10, <1>14 DEF chatIncoming, chatEntryChanged, chatMessageReceived, Noticing,
                      ChatNotes, guiVars
<1> QED
  BY <1>8, <1>11, <1>12, <1>13, <1>14 DEF GuiServes

LEMMA MirrorStep ==
  ASSUME TypeInv, MirrorInv, [Next]_vars
  PROVE  MirrorInv'
<1>1. CASE UNCHANGED vars
  <2>1. UNCHANGED <<toGui, contacts, owner, gcontacts, gowner, stopped>>
    BY <1>1 DEF vars, coreVars, rosterVars, guiVars
  <2> QED
    BY <2>1, MirrorStill DEF MirrorInv
<1> SUFFICES ASSUME Next, stopped' = "no" PROVE Mirrored'
  BY <1>1 DEF MirrorInv
<1>2. CASE Server
  <2>1. ASSUME Room PROVE Mirrored
    BY <2>1 DEF Room, MirrorInv
  <2>2. ASSUME NEW x \in Address, ItemAdded(x) PROVE Mirrored'
    BY <2>1, <2>2, ItemAddedTells DEF ItemAdded
  <2>3. ASSUME NEW x \in Address, MessageReceived(x) PROVE Mirrored'
    <3>1. Room
      BY <2>3, Zenon DEF MessageReceived
    <3> QED
      BY <2>1, <2>3, <3>1, MessageReceivedTells
  <2>4. ASSUME NEW x \in Address, TypingReceived(x) PROVE Mirrored'
    <3>1. Room
      BY <2>4, Zenon DEF TypingReceived
    <3> QED
      BY <2>1, <2>4, <3>1, TypingTells
  <2>5. ASSUME NEW e \in EntryId, ItemUpdated(e) PROVE Mirrored'
    BY <2>1, <2>5, ItemUpdatedTells DEF ItemUpdated
  <2>6. ASSUME NEW e \in EntryId, ItemRemoved(e) PROVE Mirrored'
    BY <2>1, <2>6, ItemRemovedTells DEF ItemRemoved
  <2> QED
    BY <1>2, <2>2, <2>3, <2>4, <2>5, <2>6 DEF Server
<1>3. CASE User
  <2>1. UNCHANGED <<toGui, contacts, owner, gcontacts, gowner>> /\ stopped = "no"
    BY <1>3 DEF User, StartChat, PickEntry, EndChat, Send, RemoveContact, MoveEntry, GuiIdle,
                coreVars, rosterVars, guiVars, Free, Room
  <2> QED
    BY <2>1, MirrorStill DEF MirrorInv
<1>4. CASE CoreServes
  <2>1. stopped = "no"
    BY <1>4 DEF CoreServes, chatStart, chatChangeEntry, chatEnd, chatMessageSend,
                rosterContactRemove, rosterEntryChangeContact, Serving
  <2>2. CASE chatStart \/ chatEnd \/ chatMessageSend
    <3>1. UNCHANGED <<toGui, contacts, owner, gcontacts, gowner>>
      BY <2>2 DEF chatStart, chatEnd, chatMessageSend, Serving, coreVars, rosterVars, guiVars
    <3> QED
      BY <2>1, <3>1, MirrorStill DEF MirrorInv
  <2> QED
    BY <1>4, <2>1, <2>2, ChangeEntryTells, ContactRemoveTells, EntryChangeContactTells
       DEF CoreServes, MirrorInv
<1>5. CASE ChatStarted
  <2>1. UNCHANGED <<toGui, contacts, owner, gcontacts, gowner>> /\ stopped = "no"
    BY <1>5 DEF ChatStarted, coreVars, rosterVars
  <2> QED
    BY <2>1, MirrorStill DEF MirrorInv
<1>6. CASE GuiServes
  <2>1. stopped = "no"
    BY <1>6 DEF GuiServes, rosterContactAdded, rosterContactRemoved, rosterEntryAdded,
         rosterEntryRemoved, rosterEntryContactChanged, chatIncoming, chatEntryChanged,
         chatMessageReceived, Noticing
  <2> QED
    BY <1>6, <2>1, NoticesHear DEF MirrorInv
<1> QED
  BY <1>2, <1>3, <1>4, <1>5, <1>6 DEF Next

LEMMA MirrorInit ==
  ASSUME Init
  PROVE  MirrorInv
<1>1. \A A : Silent(toGui, A)
  BY NothingIn DEF Init
<1> QED
  BY <1>1 DEF Init, MirrorInv, Mirrored, ContactMirrored, EntryMirrored

\* What the user interface shows of the roster is what the core has, but for what is still
\* on its way; at rest both are the same, whatever the server sent and the user asked for
\* meanwhile (rosterContactAdded ... rosterEntryContactChanged, LPRoster's handlers).
THEOREM RosterMirroredHolds == Spec => []RosterMirrored
<1>1. Init => TypeInv /\ MirrorInv
  BY TypeInvInit, MirrorInit
<1>2. TypeInv /\ MirrorInv /\ [Next]_vars => (TypeInv /\ MirrorInv)'
  BY TypeInvStep, MirrorStep
<1>3. TypeInv /\ MirrorInv => RosterMirrored
  <2> SUFFICES ASSUME TypeInv, MirrorInv, toGui = <<>>, stopped = "no"
               PROVE  gcontacts = contacts /\ gowner = owner
    BY DEF RosterMirrored, Quiet
  <2>1. \A A, R : ~LastIn(toGui, A, R)
    <3>1. Len(<<>>) = 0 /\ 1..0 = {}
      OBVIOUS
    <3> QED
      BY <3>1 DEF LastIn
  <2>2. /\ \A c \in ContactId : c \in gcontacts <=> c \in contacts
        /\ \A e \in EntryId : gowner[e] = owner[e]
    BY <2>1 DEF MirrorInv, Mirrored, ContactMirrored, EntryMirrored
  <2>3. /\ contacts \subseteq ContactId /\ gcontacts \subseteq ContactId
        /\ owner \in [EntryId -> ContactId \cup {None}]
        /\ gowner \in [EntryId -> ContactId \cup {None}]
    BY DEF TypeInv, TypeOK, CoreOK, GuiOK
  <2>4. gcontacts = contacts
    BY <2>2, <2>3
  <2>5. gowner = owner
    BY <2>2, <2>3
  <2> QED
    BY <2>4, <2>5
<1> QED
  BY <1>1, <1>2, <1>3, PTL DEF Spec
============================================================================
