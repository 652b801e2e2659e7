---------------------------------- MODULE Chats ----------------------------------
(* One-to-one chats, on both sides of the bridge.

   The core (LfpApi) keeps a list of chats, each with a contact, the entry that
   it talks to and that entry's address; the user interface (LPChatsManager,
   LPChat) keeps chats by ID and chats by contact.  Each side changes its own
   copy first and tells the other: the calls wait in one queue, which the core's
   event loop empties, and the notifications in another, which the main thread's
   run loop empties.  Only chatStart waits for its answer, and the answer passes
   the notifications that are still in the queue.

   Both sides keep the roster too: here only which contact has which entry, which
   is what decides a chat's entry.  IDs are counters of the core and are never
   given twice.  An address stands for an account and a bare JID.  Every entry is
   able to chat.  A bridge that was shut down is out of scope.

   NSAssert is compiled in: a handler whose assertion fails ends there and the run
   loop goes on with the next notification.  Only the assertion of
   setActiveContactEntry, which fails inside the roster's own update, stops the
   model, and so does a null or freed pointer in the core.  The memory of a deleted
   entry may be reused by the next one; that of a deleted contact is not.

   The definitions named ...Mutant are faulty variants of the definition that follows
   them, used to see that a property notices the fault.                            *)
EXTENDS Integers, Sequences, FiniteSets, SequencesExt

CONSTANTS Address,      \* the addresses that messages come from
          MaxContacts,  \* bound: contacts that are ever made
          MaxEntries,   \* bound: entries that are ever made
          MaxChats,     \* bound: chats that are ever made
          MaxQueue,     \* bound: nothing new happens while a queue is this long
          None

ContactId == 1..MaxContacts
EntryId == 1..MaxEntries
ChatId == 0..(MaxChats - 1)

\* What the core, and the user interface, keep of a chat.
Chat == [contact : ContactId, entry : EntryId \cup {None}, addr : Address \cup {None}]
Open == [contact : ContactId, entry : EntryId \cup {None}]

ASSUME ChatsAssumption ==
    /\ MaxContacts \in Nat /\ MaxEntries \in Nat /\ MaxChats \in Nat /\ MaxQueue \in Nat
    /\ None \notin Nat \cup Address \cup Chat \cup Open

VARIABLES contacts, owner, addr,   \* core: the roster
          nextContact, nextEntry,
          chats, nextChat,         \* core: the chats
          toCore, answer,          \* the bridge: calls, and chatStart's answer
          toGui,                   \* the bridge: notifications
          gcontacts, gowner,       \* user interface: the roster
          open, windows,           \* user interface: chats by ID, and by contact
          waiting,                 \* user interface: the chatStart in progress
          stopped,                 \* "no", or the side that an error stopped
          reused                   \* history: the chats whose entry was deleted and had its
                                   \* memory given to a new one; no action reads it

rosterVars == <<contacts, owner, addr, nextContact, nextEntry>>
coreVars == <<rosterVars, chats, nextChat, reused>>
guiVars == <<gcontacts, gowner, open, windows>>
vars == <<coreVars, toCore, answer, toGui, guiVars, waiting, stopped>>

Init == /\ contacts = {} /\ nextContact = 1
        /\ owner = [e \in EntryId |-> None] /\ addr = [e \in EntryId |-> None]
        /\ nextEntry = 1
        /\ chats = [k \in ChatId |-> None] /\ nextChat = 0
        /\ toCore = <<>> /\ answer = None /\ toGui = <<>>
        /\ gcontacts = {} /\ gowner = [e \in EntryId |-> None]
        /\ open = [k \in ChatId |-> None] /\ windows = [c \in ContactId |-> None]
        /\ waiting = None /\ stopped = "no" /\ reused = {}

(* ------------------------------ messages ------------------------------ *)

ChatStart(c, e) == [call |-> "chatStart", contact |-> c, entry |-> e]
ChatChangeEntry(k, e) == [call |-> "chatChangeEntry", chat |-> k, entry |-> e]
ChatEnd(k) == [call |-> "chatEnd", chat |-> k]
ChatMessageSend(k) == [call |-> "chatMessageSend", chat |-> k]
ContactRemove(c) == [call |-> "rosterContactRemove", contact |-> c]
EntryChangeContact(e, c, d) ==
    [call |-> "rosterEntryChangeContact", entry |-> e, old |-> c, new |-> d]

ContactAdded(c) == [note |-> "rosterContactAdded", contact |-> c]
ContactRemoved(c) == [note |-> "rosterContactRemoved", contact |-> c]
EntryAdded(c, e) == [note |-> "rosterEntryAdded", contact |-> c, entry |-> e]
EntryRemoved(e) == [note |-> "rosterEntryRemoved", entry |-> e]
EntryContactChanged(e, c, d) ==
    [note |-> "rosterEntryContactChanged", entry |-> e, old |-> c, new |-> d]
ChatIncoming(k, c, e) == [note |-> "chatIncoming", chat |-> k, contact |-> c, entry |-> e]
ChatEntryChanged(k, e) == [note |-> "chatEntryChanged", chat |-> k, entry |-> e]
\* Messages, audibles, errors and typing all name the chat and no more.
ChatMessageReceived(k) == [note |-> "chatMessageReceived", chat |-> k]

ChatNotes == {"chatIncoming", "chatEntryChanged", "chatMessageReceived"}

Call(calls) == toCore' = toCore \o calls
Notify(notes) == toGui' = toGui \o notes

\* The environment waits while a queue is full, and while no chat is left.
Room == stopped = "no" /\ Len(toGui) < MaxQueue /\ Len(toCore) < MaxQueue
ChatsLeft == nextChat + (IF waiting # None /\ answer = None THEN 1 ELSE 0) < MaxChats

(* ------------------------------ the core ------------------------------ *)

Live(e) == e # None /\ owner[e] # None
EntriesIn(c) == {e \in EntryId : owner[e] = c}
EntriesAt(x) == {e \in EntryId : owner[e] # None /\ addr[e] = x}
Existing == {k \in ChatId : chats[k] # None}

\* A chat keeps the pointer of an entry that was deleted.
Dangles(k) == chats[k] # None /\ chats[k].entry # None /\ owner[chats[k].entry] = None

\* A new entry may get the memory of one that was deleted: the chats that point
\* there have the new entry then.
Rebound(e) ==
    {chats} \cup {[k \in ChatId |-> IF chats[k] # None /\ chats[k].entry = chats[d].entry
                                    THEN [chats[k] EXCEPT !.entry = e] ELSE chats[k]]
                  : d \in {k \in ChatId : Dangles(k)}}
Reused(held) == reused' = reused \cup {k \in ChatId : held[k] # chats[k]}

ContactToMake == {nextContact} \cap ContactId
EntryToMake == {nextEntry} \cap EntryId
WithContact(c) == /\ contacts' = contacts \cup {c}
                  /\ nextContact' = IF c = nextContact THEN c + 1 ELSE nextContact
NoticeOf(c) == IF c \in contacts THEN <<>> ELSE <<ContactAdded(c)>>
MakeEntry(e, c, x) == /\ owner' = [owner EXCEPT ![e] = c]
                      /\ addr' = [addr EXCEPT ![e] = x]
                      /\ nextEntry' = e + 1

\* rosterContactRemove, of a contact whose entries are gone from 'own' or go now.
RemovalOfMutant(c) == <<ContactRemoved(c)>>
RemovalOf(c) == [i \in 1..Cardinality(EntriesIn(c)) |-> EntryRemoved(SetToSeq(EntriesIn(c))[i])]
                    \o <<ContactRemoved(c)>>

CoreIdle == UNCHANGED <<toCore, answer, guiVars, waiting>>

\* client_rosterItemAdded, for an address that has no entry.
ItemAdded(x) ==
    /\ Room /\ EntriesAt(x) = {}
    /\ \E e \in EntryToMake, c \in contacts \cup ContactToMake :
          /\ WithContact(c) /\ MakeEntry(e, c, x)
          /\ chats' \in Rebound(e) /\ Reused(chats')
          /\ Notify(NoticeOf(c) \o <<EntryAdded(c, e)>>)
    /\ UNCHANGED <<nextChat, stopped>> /\ CoreIdle

\* client_rosterItemUpdated, when the entry changes contacts with its group.
ItemUpdated(e) ==
    /\ Room /\ Live(e)
    /\ \E d \in (contacts \cup ContactToMake) \ {owner[e]} :
          LET c == owner[e]
              gone == IF EntriesIn(c) = {e} THEN {c} ELSE {}
          IN
          /\ contacts' = (contacts \cup {d}) \ gone
          /\ nextContact' = IF d = nextContact THEN d + 1 ELSE nextContact
          /\ owner' = [owner EXCEPT ![e] = d]
          /\ Notify(NoticeOf(d) \o <<EntryContactChanged(e, c, d)>>
                        \o (IF gone = {} THEN <<>> ELSE <<ContactRemoved(c)>>))
    /\ UNCHANGED <<addr, nextEntry, chats, nextChat, reused, stopped>> /\ CoreIdle

\* client_rosterItemRemoved.  No chat is told.
ItemRemoved(e) ==
    /\ Room /\ Live(e)
    /\ LET c == owner[e]
           gone == IF EntriesIn(c) = {e} THEN {c} ELSE {}
       IN
       /\ contacts' = contacts \ gone
       /\ owner' = [owner EXCEPT ![e] = None]
       /\ Notify(<<EntryRemoved(e)>> \o (IF gone = {} THEN <<>> ELSE <<ContactRemoved(c)>>))
    /\ UNCHANGED <<addr, nextContact, nextEntry, chats, nextChat, reused, stopped>>
    /\ CoreIdle

\* findChat by address, in the chats 'held', then by contact.  The account of a
\* deleted entry is read from freed memory: the comparison may go either way.
FoundChat(held, x, c, live, maybe) ==
    LET at == {k \in ChatId : held[k] # None /\ held[k].addr = x}
        sure == {k \in at : held[k].entry \in live}
        by == sure \cup (maybe \cap at)
        all == IF by # {} THEN by ELSE {k \in ChatId : held[k] # None /\ held[k].contact = c}
    IN {k \in all : \A j \in all : k <= j}

LiveEntries == {e \in EntryId : owner[e] # None}

\* client_messageReceived with getChatForJID: somebody unknown gets a contact and
\* an entry, and the message a chat.
MessageReceived(x) ==
    LET known == EntriesAt(x) # {} IN
    /\ Room
    /\ \E e \in IF known THEN EntriesAt(x) ELSE EntryToMake,
          c \in IF known THEN contacts ELSE ContactToMake,
          maybe \in SUBSET {k \in ChatId : Dangles(k)} :
       \E held \in IF known THEN {chats} ELSE Rebound(e) :
          LET chat == FoundChat(held, x, c, LiveEntries \cup {e}, maybe)
              met == IF known THEN <<>> ELSE <<ContactAdded(c), EntryAdded(c, e)>>
          IN
          /\ known => c = owner[e]
          /\ Reused(held)
          /\ IF known THEN UNCHANGED rosterVars ELSE WithContact(c) /\ MakeEntry(e, c, x)
          /\ IF chat = {}
             THEN /\ ChatsLeft /\ nextChat' = nextChat + 1
                  /\ chats' = [held EXCEPT ![nextChat] =
                                  [contact |-> c, entry |-> e, addr |-> x]]
                  /\ Notify(met \o <<ChatIncoming(nextChat, c, e),
                                     ChatMessageReceived(nextChat)>>)
             ELSE \E k \in chat :
                  /\ chats' = [held EXCEPT ![k].entry = e, ![k].addr = x]
                  /\ Notify(met \o (IF held[k].entry = e THEN <<>>
                                    ELSE <<ChatEntryChanged(k, e)>>)
                                \o <<ChatMessageReceived(k)>>)
                  /\ UNCHANGED nextChat
    /\ UNCHANGED stopped /\ CoreIdle

\* client_messageReceived, a message that says only that its sender is typing:
\* the contact of an entry that was not found is read through a null pointer.
TypingReceived(x) ==
    /\ Room
    /\ \E maybe \in SUBSET {k \in ChatId : Dangles(k)} :
          LET c == IF EntriesAt(x) = {} THEN None ELSE owner[CHOOSE e \in EntriesAt(x) : TRUE]
              chat == FoundChat(chats, x, c, LiveEntries, maybe)
          IN IF c = None /\ chat = {} THEN stopped' = "core" /\ UNCHANGED toGui
             ELSE /\ Notify(IF chat = {} THEN <<>>
                            ELSE <<ChatMessageReceived(CHOOSE k \in chat : TRUE)>>)
                  /\ UNCHANGED stopped
    /\ UNCHANGED coreVars /\ CoreIdle

(* ------------------------ calls that the core serves ------------------------ *)

Serving(name) == /\ stopped = "no" /\ toCore # <<>> /\ Head(toCore).call = name
                 /\ toCore' = Tail(toCore)
                 /\ UNCHANGED <<guiVars, waiting, reused>>

chatStartMutantId ==
    LET m == Head(toCore) IN
    /\ Serving("chatStart")
    /\ answer' = nextChat + 1 /\ nextChat' = nextChat + 1
    /\ chats' = [chats EXCEPT ![nextChat] =
                    [contact |-> m.contact, entry |-> m.entry, addr |-> None]]
    /\ UNCHANGED <<rosterVars, toGui, stopped>>

chatStartMutantSilent ==
    LET m == Head(toCore) IN
    /\ Serving("chatStart")
    /\ IF m.contact \notin contacts THEN UNCHANGED <<chats, nextChat, answer>>
       ELSE /\ chats' = [chats EXCEPT ![nextChat] =
                           [contact |-> m.contact, entry |-> None, addr |-> None]]
            /\ answer' = nextChat /\ nextChat' = nextChat + 1
    /\ UNCHANGED <<rosterVars, toGui, stopped>>

\* The map that is returned for an unknown contact is empty; the user interface
\* reads its chat ID as 0.
chatStart ==
    LET m == Head(toCore) IN
    /\ Serving("chatStart")
    /\ IF m.contact \notin contacts
       THEN answer' = 0 /\ UNCHANGED <<chats, nextChat>>
       ELSE LET e == IF Live(m.entry) THEN m.entry ELSE None IN
            /\ chats' = [chats EXCEPT ![nextChat] =
                           [contact |-> m.contact, entry |-> e,
                            addr |-> IF e = None THEN None ELSE addr[e]]]
            /\ answer' = nextChat /\ nextChat' = nextChat + 1
    /\ UNCHANGED <<rosterVars, toGui, stopped>>

chatChangeEntryMutant ==
    LET m == Head(toCore)
        e == IF Live(m.entry) THEN m.entry ELSE None
    IN
    /\ Serving("chatChangeEntry")
    /\ chats' = IF chats[m.chat] = None \/ (e # None /\ owner[e] # chats[m.chat].contact)
                THEN chats
                ELSE [chats EXCEPT ![m.chat].entry = e,
                          ![m.chat].addr = IF e = None THEN None ELSE addr[e]]
    /\ UNCHANGED <<rosterVars, nextChat, answer, toGui, stopped>>

chatChangeEntry ==
    LET m == Head(toCore)
        e == IF Live(m.entry) THEN m.entry ELSE None
    IN
    /\ Serving("chatChangeEntry")
    /\ IF \/ chats[m.chat] = None
          \/ e # None /\ owner[e] # chats[m.chat].contact
          \/ e = chats[m.chat].entry
       THEN UNCHANGED <<chats, toGui>>
       ELSE /\ chats' = [chats EXCEPT ![m.chat].entry = e,
                            ![m.chat].addr = IF e = None THEN None ELSE addr[e]]
            /\ Notify(<<ChatEntryChanged(m.chat, e)>>)
    /\ UNCHANGED <<rosterVars, nextChat, answer, stopped>>

chatEnd ==
    /\ Serving("chatEnd")
    /\ chats' = [chats EXCEPT ![Head(toCore).chat] = None]
    /\ UNCHANGED <<rosterVars, nextChat, answer, toGui, stopped>>

\* chatMessageSend, chatUserTyping and chatSendInvalidAudibleError read the account
\* of the chat's entry, which may be null, or deleted.
chatMessageSend ==
    LET k == Head(toCore).chat IN
    /\ Serving("chatMessageSend")
    /\ \/ chats[k] # None /\ (chats[k].entry = None \/ Dangles(k)) /\ stopped' = "core"
       \/ chats[k] # None /\ chats[k].entry # None /\ UNCHANGED stopped
       \/ chats[k] = None /\ UNCHANGED stopped
    /\ UNCHANGED <<coreVars, answer, toGui>>

rosterContactRemove ==
    LET c == Head(toCore).contact IN
    /\ Serving("rosterContactRemove")
    /\ IF c \notin contacts THEN UNCHANGED <<contacts, owner, toGui>>
       ELSE /\ contacts' = contacts \ {c}
            /\ owner' = [e \in EntryId |-> IF owner[e] = c THEN None ELSE owner[e]]
            /\ Notify(RemovalOf(c))
    /\ UNCHANGED <<addr, nextContact, nextEntry, chats, nextChat, answer, stopped>>

\* The old contact stays, even without entries.
rosterEntryChangeContact ==
    LET m == Head(toCore) IN
    /\ Serving("rosterEntryChangeContact")
    /\ IF owner[m.entry] # m.old \/ m.old = m.new \/ m.new \notin contacts
       THEN UNCHANGED <<owner, toGui>>
       ELSE /\ owner' = [owner EXCEPT ![m.entry] = m.new]
            /\ Notify(<<EntryContactChanged(m.entry, m.old, m.new)>>)
    /\ UNCHANGED <<contacts, addr, nextContact, nextEntry, chats, nextChat, answer, stopped>>

CoreServes == \/ chatStart \/ chatChangeEntry \/ chatEnd \/ chatMessageSend
              \/ rosterContactRemove \/ rosterEntryChangeContact

(* -------------------------- the user interface -------------------------- *)

Listed(c) == {e \in EntryId : gowner[e] = c}
Free == Room /\ waiting = None
GuiIdle == UNCHANGED <<coreVars, answer, toGui, stopped>>

LostMutant(c, list) == {k \in ChatId : open[k] # None /\ open[k].contact = c
                                        /\ open[k].entry \notin list /\ list # {}}

\* LPChat's observer of its contact's entries: the chats whose entry is not in the
\* list get the main entry, or none when the list is empty.
Lost(c, list) == {k \in ChatId : open[k] # None /\ open[k].contact = c
                                  /\ open[k].entry \notin list
                                  /\ ~(list = {} /\ open[k].entry = None)}
MainEntry(list) == IF list = {} THEN {None} ELSE list
Changes(ks, e) == [i \in 1..Cardinality(ks) |-> ChatChangeEntry(SetToSeq(ks)[i], e)]
SetActive(ks, e) == [k \in ChatId |-> IF k \in ks THEN [open[k] EXCEPT !.entry = e] ELSE open[k]]

\* startChatWithContactEntry:ofContact: up to its synchronous call.
StartChat(c, e) ==
    /\ Free /\ ChatsLeft /\ c \in gcontacts /\ windows[c] = None
    /\ e \in MainEntry(Listed(c))
    /\ waiting' = [contact |-> c, entry |-> e]
    /\ Call(<<ChatStart(c, e)>>)
    /\ UNCHANGED guiVars /\ GuiIdle

\* ... and after it: p_addChat refuses an ID that it has already.
ChatStarted ==
    /\ stopped = "no" /\ answer # None
    /\ IF open[answer] # None THEN UNCHANGED <<open, windows>>
       ELSE /\ open' = [open EXCEPT ![answer] = waiting]
            /\ windows' = [windows EXCEPT ![waiting.contact] = answer]
    /\ waiting' = None /\ answer' = None
    /\ UNCHANGED <<coreVars, toCore, toGui, gcontacts, gowner, stopped>>

EndChatMutant(c) ==
    /\ Free /\ windows[c] # None
    /\ Call(<<ChatEnd(windows[c])>>)
    /\ windows' = [windows EXCEPT ![c] = None]
    /\ UNCHANGED <<open, gcontacts, gowner, waiting>> /\ GuiIdle

\* endChat, when the window closes: nothing waits for the core.  Text that was never
\* sent is taken back first (setUserIsTyping:), even if the field for it is hidden.
EndChat(c) ==
    /\ Free /\ windows[c] # None
    /\ \E typed \in {<<>>, <<ChatMessageSend(windows[c])>>} :
          Call(typed \o <<ChatEnd(windows[c])>>)
    /\ open' = [open EXCEPT ![windows[c]] = None]
    /\ windows' = [windows EXCEPT ![c] = None]
    /\ UNCHANGED <<gcontacts, gowner, waiting>> /\ GuiIdle

\* setActiveContactEntry, from the pop-up or because of somebody's presence.
PickEntry(k, e) ==
    /\ Free /\ open[k] # None /\ e \in Listed(open[k].contact) /\ open[k].entry # e
    /\ Call(<<ChatChangeEntry(k, e)>>)
    /\ open' = SetActive({k}, e)
    /\ UNCHANGED <<gcontacts, gowner, windows, waiting>> /\ GuiIdle

\* The field to write in is hidden when the chat has no entry.
Send(c) ==
    /\ Free /\ windows[c] # None /\ open[windows[c]].entry # None
    /\ Call(<<ChatMessageSend(windows[c])>>)
    /\ UNCHANGED <<guiVars, waiting>> /\ GuiIdle

\* LPRoster removeContact: and a contact moved by the user.
RemoveContact(c) ==
    /\ Free /\ c \in gcontacts
    /\ Call(<<ContactRemove(c)>>)
    /\ UNCHANGED <<guiVars, waiting>> /\ GuiIdle

MoveEntry(e, d) ==
    /\ Free /\ gowner[e] # None /\ d \in gcontacts \ {gowner[e]}
    /\ Call(<<EntryChangeContact(e, gowner[e], d)>>)
    /\ UNCHANGED <<guiVars, waiting>> /\ GuiIdle

(* ------------------ notifications that the main thread serves ------------------ *)

Noticing(name) == /\ stopped = "no" /\ waiting = None
                  /\ toGui # <<>> /\ Head(toGui).note = name
                  /\ toGui' = Tail(toGui)
                  /\ UNCHANGED <<coreVars, answer, waiting>>

rosterContactAdded ==
    /\ Noticing("rosterContactAdded")
    /\ gcontacts' = gcontacts \cup {Head(toGui).contact}
    /\ UNCHANGED <<toCore, gowner, open, windows, stopped>>

rosterContactRemoved ==
    /\ Noticing("rosterContactRemoved")
    /\ gcontacts' = gcontacts \ {Head(toGui).contact}
    /\ UNCHANGED <<toCore, gowner, open, windows, stopped>>

\* The contact has the entry before the entry has the contact: a chat that turns to
\* the new entry at once fails the assertion of setActiveContactEntry.
rosterEntryAdded ==
    LET m == Head(toGui)
        list == Listed(m.contact) \cup {m.entry}
        lost == Lost(m.contact, list)
    IN
    /\ Noticing("rosterEntryAdded")
    /\ \E main \in list :
          IF lost # {} /\ main = m.entry
          THEN stopped' = "gui" /\ UNCHANGED <<toCore, gowner, open>>
          ELSE /\ gowner' = [gowner EXCEPT ![m.entry] = m.contact]
               /\ open' = SetActive(lost, main) /\ Call(Changes(lost, main))
               /\ UNCHANGED stopped
    /\ UNCHANGED <<gcontacts, windows>>

\* handleRemovalOfEntry: a contact that is left without entries is removed.
LeftEmpty(c, list) == IF list = {} THEN <<ContactRemove(c)>> ELSE <<>>

rosterEntryRemoved ==
    LET e == Head(toGui).entry
        c == gowner[e]
        list == Listed(c) \ {e}
        lost == Lost(c, list)
    IN
    /\ Noticing("rosterEntryRemoved")
    /\ \E main \in MainEntry(list) :
          /\ open' = SetActive(lost, main)
          /\ Call(Changes(lost, main) \o LeftEmpty(c, list))
    /\ gowner' = [gowner EXCEPT ![e] = None]
    /\ UNCHANGED <<gcontacts, windows, stopped>>

rosterEntryContactChanged ==
    LET m == Head(toGui)
        list == Listed(m.old) \ {m.entry}
        lost == Lost(m.old, list)
        joined == Listed(m.new) \cup {m.entry}
        joining == Lost(m.new, joined)
    IN
    /\ Noticing("rosterEntryContactChanged")
    /\ \E main \in MainEntry(list), new \in joined :
          /\ open' = [k \in ChatId |-> IF k \in joining THEN [open[k] EXCEPT !.entry = new]
                                       ELSE SetActive(lost, main)[k]]
          /\ Call(Changes(lost, main) \o LeftEmpty(m.old, list) \o Changes(joining, new))
    /\ gowner' = [gowner EXCEPT ![m.entry] = m.new]
    /\ UNCHANGED <<gcontacts, windows, stopped>>

chatIncomingMutant ==
    LET m == Head(toGui) IN
    /\ Noticing("chatIncoming")
    /\ IF windows[m.contact] # None \/ open[m.chat] # None THEN UNCHANGED <<open, windows>>
       ELSE /\ open' = [open EXCEPT ![m.chat] = [contact |-> m.contact, entry |-> m.entry]]
            /\ windows' = [windows EXCEPT ![m.contact] = m.chat]
    /\ UNCHANGED <<toCore, gcontacts, gowner, stopped>>

\* p_addChat again: a chat for a contact that has one is kept by ID only, without a
\* window, and one whose ID is there is not kept at all.
chatIncoming ==
    LET m == Head(toGui) IN
    /\ Noticing("chatIncoming")
    /\ IF open[m.chat] # None THEN UNCHANGED <<open, windows>>
       ELSE /\ open' = [open EXCEPT ![m.chat] = [contact |-> m.contact, entry |-> m.entry]]
            /\ windows' = IF windows[m.contact] # None THEN windows
                          ELSE [windows EXCEPT ![m.contact] = m.chat]
    /\ UNCHANGED <<toCore, gcontacts, gowner, stopped>>

\* handleActiveContactEntryChanged.  chatForID raises when the chat is not there.
chatEntryChanged ==
    LET m == Head(toGui) IN
    /\ Noticing("chatEntryChanged")
    /\ open' = IF open[m.chat] = None THEN open ELSE [open EXCEPT ![m.chat].entry = m.entry]
    /\ UNCHANGED <<toCore, gcontacts, gowner, windows, stopped>>

chatMessageReceived ==
    /\ Noticing("chatMessageReceived")
    /\ UNCHANGED <<toCore, guiVars, stopped>>

GuiServes == \/ rosterContactAdded \/ rosterContactRemoved \/ rosterEntryAdded
             \/ rosterEntryRemoved \/ rosterEntryContactChanged
             \/ chatIncoming \/ chatEntryChanged \/ chatMessageReceived

(* ------------------------------ specification ------------------------------ *)

Server == \/ \E x \in Address : ItemAdded(x) \/ MessageReceived(x) \/ TypingReceived(x)
          \/ \E e \in EntryId : ItemUpdated(e) \/ ItemRemoved(e)

User == \/ \E c \in ContactId, e \in EntryId \cup {None} : StartChat(c, e)
        \/ \E k \in ChatId, e \in EntryId : PickEntry(k, e)
        \/ \E c \in ContactId : EndChat(c) \/ Send(c) \/ RemoveContact(c)
        \/ \E e \in EntryId, d \in ContactId : MoveEntry(e, d)

Next == Server \/ User \/ CoreServes \/ ChatStarted \/ GuiServes

\* Both event loops go on; the server and the user need not do anything.
Fairness == WF_vars(CoreServes) /\ WF_vars(ChatStarted) /\ WF_vars(GuiServes)
Spec == Init /\ [][Next]_vars /\ Fairness

(* ------------------------------ properties ------------------------------ *)

CoreOK ==
    /\ contacts \subseteq ContactId /\ nextContact \in Nat /\ nextEntry \in Nat
    /\ owner \in [EntryId -> ContactId \cup {None}]
    /\ addr \in [EntryId -> Address \cup {None}]
    /\ chats \in [ChatId -> Chat \cup {None}] /\ nextChat \in 0..MaxChats
    /\ reused \subseteq ChatId
GuiOK ==
    /\ gcontacts \subseteq ContactId /\ gowner \in [EntryId -> ContactId \cup {None}]
    /\ open \in [ChatId -> Open \cup {None}]
    /\ windows \in [ContactId -> ChatId \cup {None}]
BridgeOK ==
    /\ answer \in ChatId \cup {None} /\ waiting \in Open \cup {None}
    /\ stopped \in {"no", "core", "gui"}

\* Every variable has its type; chatStart never runs out of IDs that were set aside.
TypeOK == CoreOK /\ GuiOK /\ BridgeOK

Notes(name) == {i \in 1..Len(toGui) : toGui[i].note = name}
Calls(name) == {i \in 1..Len(toCore) : toCore[i].call = name}
Quiet == toCore = <<>> /\ toGui = <<>> /\ waiting = None /\ stopped = "no"

\* The chat that the user interface has by this ID is the core's chat (an ID that was
\* read from the empty map may name another one).
Shared(k) == chats[k] # None /\ open[k] # None /\ chats[k].contact = open[k].contact

\* When nothing is on its way, both sides have the same roster.
RosterMirrored == Quiet => gcontacts = contacts /\ gowner = owner

\* When nothing is on its way, both sides agree on the entry that a chat talks to,
\* however the user's choices, the messages and the roster's changes crossed, and
\* that entry is one of the contact's, with the address that messages go to.  (A chat
\* whose entry's memory was reused keeps an address that is not its entry's, and what
\* comes from there turns it to whoever has that address since.)
EntryAgreed ==
    Quiet => \A k \in ChatId \ reused : Shared(k) =>
        LET e == chats[k].entry IN
        /\ open[k].entry = e
        /\ e # None => owner[e] = chats[k].contact /\ chats[k].addr = addr[e]

\* A chat of the core is known to the user interface, or announced before anything
\* else is said of it, or about to be ended.
Announced ==
    stopped = "no" => \A k \in Existing :
        \/ open[k] # None \/ answer = k
        \/ \E i \in Calls("chatEnd") : toCore[i].chat = k
        \/ \E i \in Notes("chatIncoming") : toGui[i].chat = k
            /\ \A j \in 1..(i - 1) : ~(toGui[j].note \in ChatNotes /\ toGui[j].chat = k)

\* The user interface never has a chat that the core does not.
ChatExists == \A k \in ChatId : open[k] # None /\ k # 0 => chats[k] # None

\* A chat keeps a deleted entry only as long as the user interface has still to hear
\* that an entry has left the contact or joined it, or while its choice of another
\* entry is on its way.
DanglingIsBrief ==
    stopped = "no" => \A k \in ChatId \ reused : Shared(k) /\ Dangles(k) =>
        \/ \E i \in Notes("rosterEntryRemoved") \cup Notes("rosterEntryContactChanged") :
              gowner[toGui[i].entry] = open[k].contact
        \/ \E i \in Notes("rosterEntryAdded") : toGui[i].contact = open[k].contact
        \/ \E i \in Notes("rosterEntryContactChanged") : toGui[i].new = open[k].contact
        \/ \E i \in Calls("chatChangeEntry") : toCore[i].chat = k

\* The call that blocks the main thread comes back.
StartReturns == waiting # None ~> waiting = None \/ stopped # "no"

\* "There is already a registered chat for this contact" (LPChatsManager.m:95): a chat
\* that a message made in the core never meets one that the user has just started.
OneChatPerContact ==
    toGui # <<>> /\ waiting = None /\ Head(toGui).note = "chatIncoming"
        => windows[Head(toGui).contact] = None

\* "No LPChat having ID == %d exists" (LPChatsManager.m:215): what is said of a chat
\* reaches a chat that the user interface still has.
ChatKnown ==
    toGui # <<>> /\ waiting = None /\ Head(toGui).note \in ChatNotes \ {"chatIncoming"}
        => open[Head(toGui).chat] # None

\* "Contacts for the entries don't match!" (LPChat.m:170): a chat turns to an entry
\* only when that entry already says that it belongs to the chat's contact.
EntriesMatch == stopped # "gui"
=================================================================================
