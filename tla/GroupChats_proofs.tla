--------------------------- MODULE GroupChats_proofs ---------------------------
(* What holds of a room for any nicknames, any number of chats and streams and any
   length of the queues: the types, that a room which Iris joins has a chat, and what the
   core and the window agree on once nothing is on its way.

   The first two are proved together: what a presence changes is typed only where there
   is a chat, and the chat is there because every way to lose it closes the room first.
   What an open sheet does is typed only where there is a window.  The agreement is about
   the queue in between: AgreeInv says what the window will list when it has heard all,
   and that what ends an active room is not the last thing that it hears of a joined one. *)
EXTENDS GroupChats, SequenceTheorems, FiniteSetTheorems, TLAPS

\* The sheets are those of the window: closing it closes them.
SheetsHaveWindow == sheets # {} => window # None

IInv == TypeOK /\ JoinedHasChat /\ SheetsHaveWindow

(* ------------------------------- operators -------------------------------- *)

\* Bags of nicknames stay bags.
LEMMA BagsStay ==
  ASSUME NEW bag \in Bag, NEW n \in Nick
  PROVE  Less(bag, n) \in Bag /\ More(bag, n) \in Bag
<1>1. Less(bag, n) \in Bag  BY DEF Less, Bag
<1>2. More(bag, n) \in Bag  BY DEF More, Bag
<1> QED  BY <1>1, <1>2

LEMMA NobodyIsBag == Nobody \in Bag
BY DEF Nobody, Bag

\* What is told of a chat is a notification.
NoteType == {"joined", "left", "contactJoined", "contactLeft", "contactRenamed", "error"}

LEMMA NotesAreNotes ==
  ASSUME NEW type \in NoteType, NEW id \in Nat, NEW n \in Nick, NEW m \in Nick
  PROVE  NoteOf(type, id, n, m) \in Note
BY DEF NoteOf, Note, NoteType

\* Notifications keep the queue one of notifications.
LEMMA ToldAreNotes ==
  ASSUME toGui \in Seq(Note), NEW notes \in Seq(Note), Tell(notes)
  PROVE  toGui' \in Seq(Note)
BY ConcatProperties DEF Tell

\* What is sent to the room, and what the room sends.
LEMMA SentAreStanzas ==
  ASSUME toServer \in Seq(Stanza), NEW type \in {"join", "nick", "leave"}, NEW n \in Nick,
         Send(type, n)
  PROVE  toServer' \in Seq(Stanza)
<1>1. [type |-> type, nick |-> n] \in Stanza  BY DEF Stanza
<1> QED  BY <1>1 DEF Send

LEMMA PushedArePresences ==
  ASSUME fromServer \in Seq(Presence), NEW presences \in Seq(Presence), Push(presences)
  PROVE  fromServer' \in Seq(Presence)
BY ConcatProperties DEF Push

LEMMA HeardArePresences ==
  ASSUME fromServer \in Seq(Presence), NEW presences \in Seq(Presence), Hears(presences)
  PROVE  fromServer' \in Seq(Presence)
<1>1. CASE Flowing /\ seat # None  BY <1>1, PushedArePresences DEF Hears
<1>2. CASE ~(Flowing /\ seat # None)  BY <1>2 DEF Hears
<1> QED  BY <1>1, <1>2

LEMMA PresencesArePresences ==
  ASSUME NEW type \in {"available", "left", "kicked", "destroyed", "error"}, NEW n \in Nick
  PROVE  PresenceOf(type, n) \in Presence
BY DEF PresenceOf, Presence

\* Who enters is sent the presences of everyone there.
LEMMA WelcomesArePresences ==
  ASSUME GroupChatsAssumption, others \in SUBSET Nick, NEW n \in Nick,
         NEW presences \in Welcomes(n)
  PROVE  presences \in Seq(Presence)
<1> DEFINE k == Cardinality(others)
<1>1. IsFiniteSet(others) /\ k \in Nat
  BY FS_Subset, FS_CardinalityType DEF GroupChatsAssumption
<1>2. PICK s \in Orders(others) :
        presences = [i \in 1..k + 1 |-> PresenceOf("available", IF i > k THEN n ELSE s[i])]
  BY DEF Welcomes
<1>3. s \in [1..k -> others]  BY DEF Orders
<1> HIDE DEF k
<1>4. ASSUME NEW i \in 1..k + 1
      PROVE  PresenceOf("available", IF i > k THEN n ELSE s[i]) \in Presence
  <2>1. CASE i > k  BY <2>1, PresencesArePresences
  <2>2. CASE ~(i > k)
    <3>1. s[i] \in Nick  BY <1>1, <1>3, <2>2
    <3> QED  BY <2>2, <3>1, PresencesArePresences
  <2> QED  BY <2>1, <2>2
<1>5. presences \in [1..k + 1 -> Presence]  BY <1>2, <1>4
<1>6. k + 1 \in Nat  BY <1>1
<1> QED  BY <1>5, <1>6, SeqDef

\* A new chat is one.
LEMMA NewChatIsChat ==
  ASSUME nextId \in Nat, NEW n \in Nick
  PROVE  NewChat(n) \in Chat
BY NobodyIsBag DEF NewChat, Chat

\* Joining and leaving keep the types; what joins is connecting, what leaves is closing.
LEMMA JoinIsTyped ==
  ASSUME room \in Room \cup {None}, toServer \in Seq(Stanza), NEW n \in Nick,
         groupChatJoinIris(n)
  PROVE  room' \in Room \cup {None} /\ toServer' \in Seq(Stanza)
<1>1. CASE Joins
  <2>1. room' = [nick |-> n, status |-> "Connecting"] /\ Send("join", n)
    BY <1>1 DEF groupChatJoinIris
  <2>2. toServer' \in Seq(Stanza)  BY <2>1, SentAreStanzas
  <2> QED  BY <2>1, <2>2 DEF Room
<1>2. CASE ~Joins  BY <1>2 DEF groupChatJoinIris
<1> QED  BY <1>1, <1>2

LEMMA LeaveIsTyped ==
  ASSUME room \in Room \cup {None}, toServer \in Seq(Stanza), groupChatLeaveIris
  PROVE  /\ room' \in Room \cup {None} /\ toServer' \in Seq(Stanza)
         /\ room' # None => room'.status = "Closing"
<1>1. CASE room = None  BY <1>1 DEF groupChatLeaveIris
<1>2. CASE room # None
  <2>1. room \in Room /\ room' = [room EXCEPT !.status = "Closing"] /\ Send("leave", room.nick)
    BY <1>2 DEF groupChatLeaveIris
  <2>2. room.nick \in Nick  BY <2>1 DEF Room
  <2>3. toServer' \in Seq(Stanza)  BY <2>1, <2>2, SentAreStanzas
  <2> QED  BY <2>1, <2>3 DEF Room
<1> QED  BY <1>1, <1>2

\* There is no chat that is None, and no window.
LEMMA ChatIsSome == None \notin Chat /\ None \notin Window
BY GroupChatsAssumption DEF GroupChatsAssumption

(* ------------------------------- presences -------------------------------- *)

\* A presence changes the chat that it is given to a chat, and tells notifications.
LEMMA PresenceIsTyped ==
  ASSUME TypeOK, room # None, NEW gc \in Chat, NEW before \in Seq(Note),
         NEW p \in Presence, p.type # "error", NEW status \in {"Connecting", "Connected"},
         client_groupChatPresence(gc, before, p, status)
  PROVE  /\ room' \in Room /\ chat' \in Chat /\ toServer' \in Seq(Stanza)
         /\ toGui' \in Seq(Note) /\ doubled' \in BOOLEAN
<1>1. room \in Room /\ toServer \in Seq(Stanza) /\ toGui \in Seq(Note)  BY DEF TypeOK
<1>2. p.nick \in Nick /\ p.new \in Nick  BY DEF Presence
<1>3. gc.id \in Nat /\ gc.nick \in Nick /\ gc.participants \in Bag  BY DEF Chat
<1>4. room' \in Room  BY <1>1 DEF client_groupChatPresence, Room
<1>5. CASE p.type = "available"
  <2>1. ContactAvailable(gc, before, p.nick)  BY <1>5 DEF client_groupChatPresence
  <2> DEFINE note == NoteOf("contactJoined", gc.id, p.nick, p.nick)
  <2>2. note \in Note  BY <1>2, <1>3, NotesAreNotes DEF NoteType
  <2> HIDE DEF note
  <2>3. <<note>> \in Seq(Note)  BY <2>2
  <2>4. before \o <<note>> \in Seq(Note)  BY <2>3, ConcatProperties
  <2>5. More(gc.participants, p.nick) \in Bag  BY <1>2, <1>3, BagsStay
  <2>6. toServer' = toServer  BY <2>1 DEF ContactAvailable
  <2>7. CASE gc.participants[p.nick] = 0
    <3>1. /\ chat' = [gc EXCEPT !.participants = More(@, p.nick)]
          /\ Tell(before \o <<note>>)  BY <2>1, <2>7 DEF ContactAvailable, note
    <3>2. chat' \in Chat  BY <3>1, <2>5 DEF Chat
    <3>3. toGui' \in Seq(Note)  BY <3>1, <1>1, <2>4, ToldAreNotes
    <3> QED  BY <1>1, <1>4, <2>6, <3>2, <3>3 DEF client_groupChatPresence
  <2>8. CASE gc.participants[p.nick] # 0
    <3>1. chat' = gc /\ Tell(before)  BY <2>1, <2>8 DEF ContactAvailable
    <3>2. toGui' \in Seq(Note)  BY <3>1, <1>1, ToldAreNotes
    <3> QED  BY <1>1, <1>4, <2>6, <3>1, <3>2 DEF client_groupChatPresence
  <2> QED  BY <2>7, <2>8
<1>6. CASE p.type # "available"
  <2>1. ContactUnavailable(gc, before, p)  BY <1>6 DEF client_groupChatPresence
  <2> DEFINE leftNote == NoteOf("left", gc.id, p.nick, p.nick)
             left == IF p.type = "destroyed" \/ (p.type = "kicked" /\ p.nick = gc.nick)
                     THEN <<leftNote>> ELSE <<>>
             contact == IF p.type = "renamed" THEN NoteOf("contactRenamed", gc.id, p.nick, p.new)
                        ELSE NoteOf("contactLeft", gc.id, p.nick, p.nick)
  <2>2. leftNote \in Note  BY <1>2, <1>3, NotesAreNotes DEF NoteType
  <2>3. contact \in Note
    <3>1. NoteOf("contactRenamed", gc.id, p.nick, p.new) \in Note
      BY <1>2, <1>3, NotesAreNotes DEF NoteType
    <3>2. NoteOf("contactLeft", gc.id, p.nick, p.nick) \in Note
      BY <1>2, <1>3, NotesAreNotes DEF NoteType
    <3> QED  BY <3>1, <3>2
  <2> HIDE DEF leftNote
  <2>4. left \in Seq(Note)  BY <2>2
  <2>5. chat' = [gc EXCEPT !.nick = IF p.type = "renamed" /\ p.nick = gc.nick THEN p.new ELSE @,
                           !.participants = Less(Renamed(gc, p), p.nick)]
    BY <2>1 DEF ContactUnavailable
  <2>6. Tell(before \o IF p.type = "destroyed" THEN left \o <<contact>> ELSE <<contact>> \o left)
    BY <2>1 DEF ContactUnavailable, leftNote
  <2>7. toServer' \in Seq(Stanza)
    <3>1. CASE toServer' = toServer  BY <3>1, <1>1
    <3>2. CASE toServer' # toServer
      <4>1. Send("leave", room.nick)  BY <2>1, <3>2 DEF ContactUnavailable
      <4>2. room.nick \in Nick  BY <1>1 DEF Room
      <4> QED  BY <4>1, <4>2, <1>1, SentAreStanzas
    <3> QED  BY <3>1, <3>2
  <2> HIDE DEF left, contact
  <2>8. <<contact>> \in Seq(Note)  BY <2>3
  <2>9. left \o <<contact>> \in Seq(Note) /\ <<contact>> \o left \in Seq(Note)
    BY <2>4, <2>8, ConcatProperties
  <2>10. toGui' \in Seq(Note)
    <3> DEFINE rest == IF p.type = "destroyed" THEN left \o <<contact>> ELSE <<contact>> \o left
    <3>1. rest \in Seq(Note)  BY <2>9
    <3>2. Tell(before \o rest)  BY <2>6
    <3> HIDE DEF rest
    <3>3. before \o rest \in Seq(Note)  BY <3>1, ConcatProperties
    <3> QED  BY <3>2, <3>3, <1>1, ToldAreNotes
  <2>11. Renamed(gc, p) \in Bag
    <3>1. Less(gc.participants, p.nick) \in Bag  BY <1>2, <1>3, BagsStay
    <3>2. More(Less(gc.participants, p.nick), p.new) \in Bag  BY <1>2, <3>1, BagsStay
    <3> QED  BY <1>3, <3>2 DEF Renamed
  <2>12. Less(Renamed(gc, p), p.nick) \in Bag  BY <1>2, <2>11, BagsStay
  <2>13. chat' \in Chat  BY <1>2, <1>3, <2>5, <2>12 DEF Chat
  <2> QED  BY <1>4, <2>7, <2>10, <2>13 DEF client_groupChatPresence
<1> QED  BY <1>5, <1>6

\* An error is told to the chat, if there is one.
LEMMA ErrorIsTyped ==
  ASSUME TypeOK, NEW n \in Nick, client_groupChatError(n)
  PROVE  toGui' \in Seq(Note)
<1> DEFINE notes == IF chat = None THEN <<>> ELSE <<NoteOf("error", chat.id, n, n)>>
<1>1. notes \in Seq(Note)
  <2>1. CASE chat = None  BY <2>1
  <2>2. CASE chat # None
    <3>1. chat.id \in Nat  BY <2>2 DEF TypeOK, Chat
    <3>2. NoteOf("error", chat.id, n, n) \in Note  BY <3>1, NotesAreNotes DEF NoteType
    <3> QED  BY <2>2, <3>2
  <2> QED  BY <2>1, <2>2
<1>2. Tell(notes)  BY DEF client_groupChatError
<1>3. toGui \in Seq(Note)  BY DEF TypeOK
<1> HIDE DEF notes
<1> QED  BY <1>1, <1>2, <1>3, ToldAreNotes

(* -------------------------------- the steps ------------------------------- *)

\* No room, no chat and empty queues.
LEMMA InitInv == Init => IInv
<1> SUFFICES ASSUME Init PROVE IInv
  OBVIOUS
<1>1. /\ link \in {"down", "starting", "up", "closing", "dead"}
      /\ streams \in Nat /\ nextId \in Nat
      /\ seat \in Nick \cup {None} /\ others \in SUBSET Nick
      /\ sheets \subseteq {"nickname", "prompt"}
  BY DEF Init
<1>2. online \in BOOLEAN /\ doubled \in BOOLEAN /\ asserted \in BOOLEAN
  BY DEF Init
<1>3. /\ toServer \in Seq(Stanza) /\ fromServer \in Seq(Presence)
      /\ toCore \in Seq(Call) /\ toGui \in Seq(Note)
  BY DEF Init
<1>4. room = None /\ chat = None /\ window = None /\ sheets = {}
  BY DEF Init
<1> QED  BY <1>1, <1>2, <1>3, <1>4 DEF IInv, TypeOK, JoinedHasChat, SheetsHaveWindow

LEMMA ppPresenceInv == IInv /\ ppPresence => IInv'
<1> SUFFICES ASSUME IInv, ppPresence PROVE IInv'
  OBVIOUS
<1> USE DEF IInv
<1> DEFINE p == Head(fromServer)
<1>1. /\ p \in Presence /\ fromServer' \in Seq(Presence)
      /\ UNCHANGED <<account, server, toCore, gui>>
  BY DEF TypeOK, ppPresence
<1>2. p.nick \in Nick  BY <1>1 DEF Presence
<1> HIDE DEF p
<1>3. /\ room' \in Room \cup {None} /\ chat' \in Chat \cup {None} /\ nextId' \in Nat
      /\ toServer' \in Seq(Stanza) /\ toGui' \in Seq(Note) /\ doubled' \in BOOLEAN
      /\ room' # None /\ room'.status # "Closing" => chat' # None
  <2>1. CASE UNCHANGED <<core, toServer, toGui, doubled>>
    BY <2>1 DEF core, TypeOK, JoinedHasChat, SheetsHaveWindow
  <2>2. CASE room # None /\ room.status = "Connecting" /\ PresenceConnecting(p, p.nick = room.nick)
    <3>1. chat # None /\ room # None  BY <2>2 DEF JoinedHasChat
    <3>2. CASE p.type = "error"
      <4>1. client_groupChatError(p.nick) /\ UNCHANGED <<chat, nextId, toServer, doubled>>
            /\ room' \in {room, None}
        BY <2>2, <3>2 DEF PresenceConnecting
      <4>2. toGui' \in Seq(Note)  BY <4>1, <1>2, ErrorIsTyped
      <4> QED  BY <4>1, <4>2, <3>1 DEF TypeOK
    <3>3. CASE p.type # "error"
      <4> DEFINE notes == <<NoteOf("joined", chat.id, chat.nick, chat.nick)>>
      <4>1. client_groupChatPresence(chat, notes, p, "Connected") /\ nextId' = nextId
        BY <2>2, <3>1, <3>3 DEF PresenceConnecting
      <4>2. chat \in Chat  BY <3>1 DEF TypeOK
      <4>3. NoteOf("joined", chat.id, chat.nick, chat.nick) \in Note
        BY <4>2, NotesAreNotes DEF Chat, NoteType
      <4>4. notes \in Seq(Note)  BY <4>3
      <4> HIDE DEF notes
      <4>5. /\ room' \in Room /\ chat' \in Chat /\ toServer' \in Seq(Stanza)
            /\ toGui' \in Seq(Note) /\ doubled' \in BOOLEAN
        BY <1>1, <3>1, <3>3, <4>1, <4>2, <4>4, PresenceIsTyped
      <4> QED  BY <4>1, <4>5, ChatIsSome DEF TypeOK
    <3> QED  BY <3>2, <3>3
  <2>3. CASE room # None /\ room.status = "Connected" /\ PresenceConnected(p)
    <3>1. chat # None  BY <2>3 DEF JoinedHasChat
    <3>2. CASE p.type = "error"
      <4>1. client_groupChatError(p.nick) /\ UNCHANGED <<room, chat, nextId, toServer, doubled>>
        BY <2>3, <3>2 DEF PresenceConnected
      <4>2. toGui' \in Seq(Note)  BY <4>1, <1>2, ErrorIsTyped
      <4> QED  BY <4>1, <4>2, <3>1 DEF TypeOK
    <3>3. CASE p.type # "error"
      <4>1. client_groupChatPresence(chat, <<>>, p, "Connected") /\ nextId' = nextId
        BY <2>3, <3>1, <3>3 DEF PresenceConnected
      <4>2. chat \in Chat /\ <<>> \in Seq(Note)  BY <3>1 DEF TypeOK
      <4>3. /\ room' \in Room /\ chat' \in Chat /\ toServer' \in Seq(Stanza)
            /\ toGui' \in Seq(Note) /\ doubled' \in BOOLEAN
        BY <1>1, <2>3, <3>3, <4>1, <4>2, PresenceIsTyped
      <4> QED  BY <4>1, <4>3, ChatIsSome DEF TypeOK
    <3> QED  BY <3>2, <3>3
  <2>4. CASE room # None /\ room.status = "Closing" /\ PresenceClosing(p, p.nick = room.nick)
    <3>1. UNCHANGED <<nextId, toServer, doubled>>  BY <2>4 DEF PresenceClosing
    <3>2. CASE UNCHANGED <<room, chat, toGui>>  BY <2>4, <3>1, <3>2 DEF TypeOK
    <3>3. CASE ~UNCHANGED <<room, chat, toGui>>
      <4> DEFINE notes == IF chat = None THEN <<>>
                          ELSE <<NoteOf("left", chat.id, p.nick, p.nick)>>
      <4>1. room' = None /\ chat' = None /\ Tell(notes)  BY <2>4, <3>3 DEF PresenceClosing
      <4>2. notes \in Seq(Note)
        <5>1. CASE chat = None  BY <5>1
        <5>2. CASE chat # None
          <6>1. chat.id \in Nat  BY <5>2 DEF TypeOK, Chat
          <6>2. NoteOf("left", chat.id, p.nick, p.nick) \in Note
            BY <1>2, <6>1, NotesAreNotes DEF NoteType
          <6> QED  BY <5>2, <6>2
        <5> QED  BY <5>1, <5>2
      <4>3. toGui \in Seq(Note)  BY DEF TypeOK
      <4> HIDE DEF notes
      <4>4. toGui' \in Seq(Note)  BY <4>1, <4>2, <4>3, ToldAreNotes
      <4> QED  BY <3>1, <4>1, <4>4 DEF TypeOK
    <3> QED  BY <3>2, <3>3
  <2> QED
    <3>1. room # None => room.status \in {"Connecting", "Connected", "Closing"}
      BY DEF TypeOK, Room
    <3> QED  BY <2>1, <2>2, <2>3, <2>4, <3>1 DEF ppPresence, p
<1> QED  BY <1>1, <1>3 DEF TypeOK, JoinedHasChat, SheetsHaveWindow, account, server, gui

\* What the core takes from its queue.
LEMMA ServedIsCall ==
  ASSUME TypeOK, NEW type \in {"join", "retry", "nick", "end"}, Served(type)
  PROVE  /\ Head(toCore).id \in Nat /\ Head(toCore).nick \in Nick
         /\ toCore' \in Seq(Call)
<1>1. toCore \in Seq(Call) /\ toCore # <<>> /\ toCore' = Tail(toCore)
  BY DEF TypeOK, Served
<1>2. Head(toCore) \in Call /\ Tail(toCore) \in Seq(Call)  BY <1>1
<1> QED  BY <1>1, <1>2 DEF Call

LEMMA groupChatJoinInv == IInv /\ groupChatJoin => IInv'
<1> SUFFICES ASSUME IInv, groupChatJoin PROVE IInv'
  OBVIOUS
<1> USE DEF IInv
<1> DEFINE n == Head(toCore).nick
<1>1. Served("join") /\ UNCHANGED toGui  BY DEF groupChatJoin
<1>2. n \in Nick /\ toCore' \in Seq(Call)  BY <1>1, ServedIsCall
<1>3. UNCHANGED <<link, streams, fromServer, seat, others, doubled>>
  BY <1>1 DEF Served, account, server
<1>4. CASE UNCHANGED <<core, toServer, gui>>
  BY <1>1, <1>2, <1>3, <1>4 DEF TypeOK, JoinedHasChat, SheetsHaveWindow, core, gui
<1>5. CASE groupChatJoinIris(n) /\ UNCHANGED <<chat, nextId, gui>> /\ ~Joins
  BY <1>1, <1>2, <1>3, <1>5 DEF TypeOK, JoinedHasChat, SheetsHaveWindow, groupChatJoinIris, gui
<1>6. CASE /\ groupChatJoinIris(n) /\ chat' = NewChat(n) /\ nextId' = nextId + 1
           /\ UNCHANGED <<online, sheets>>
           /\ \/ asserted' = TRUE /\ UNCHANGED window
              \/ /\ window' = [id |-> nextId, nick |-> n, lastSet |-> n, active |-> FALSE,
                               participants |-> Nobody, byNick |-> {}]
                 /\ UNCHANGED asserted
  <2>1. room' \in Room \cup {None} /\ toServer' \in Seq(Stanza)
    BY <1>2, <1>6, JoinIsTyped DEF TypeOK
  <2>2. chat' \in Chat /\ nextId' \in Nat  BY <1>2, <1>6, NewChatIsChat DEF TypeOK
  <2>3. /\ window' \in Window \cup {None} /\ asserted' \in BOOLEAN
        /\ window # None => window' # None
    <3>1. nextId \in Nat /\ window \in Window \cup {None} /\ asserted \in BOOLEAN
      BY DEF TypeOK
    <3>2. [id |-> nextId, nick |-> n, lastSet |-> n, active |-> FALSE,
           participants |-> Nobody, byNick |-> {}] \in Window
      BY <1>2, <3>1, NobodyIsBag DEF Window
    <3> QED  BY <1>6, <3>1, <3>2, ChatIsSome
  <2> QED  BY <1>1, <1>2, <1>3, <1>6, <2>1, <2>2, <2>3, ChatIsSome DEF TypeOK, JoinedHasChat, SheetsHaveWindow
<1> QED  BY <1>4, <1>5, <1>6 DEF groupChatJoin

LEMMA groupChatRetryJoinInv == IInv /\ groupChatRetryJoin => IInv'
<1> SUFFICES ASSUME IInv, groupChatRetryJoin PROVE IInv'
  OBVIOUS
<1> USE DEF IInv
<1> DEFINE c == Head(toCore)
<1>1. Served("retry") /\ UNCHANGED <<toGui, gui>>  BY DEF groupChatRetryJoin
<1>2. c.nick \in Nick /\ toCore' \in Seq(Call)  BY <1>1, ServedIsCall
<1>3. UNCHANGED <<link, streams, fromServer, seat, others, doubled>>
  BY <1>1 DEF Served, account, server
<1>4. CASE UNCHANGED <<core, toServer>>
  BY <1>1, <1>2, <1>3, <1>4 DEF TypeOK, JoinedHasChat, SheetsHaveWindow, core, gui
<1>5. CASE /\ chat # None /\ chat' = [chat EXCEPT !.nick = c.nick]
           /\ groupChatJoinIris(c.nick) /\ UNCHANGED nextId
  <2>1. room' \in Room \cup {None} /\ toServer' \in Seq(Stanza)
    BY <1>2, <1>5, JoinIsTyped DEF TypeOK
  <2>2. chat' \in Chat
    <3>1. chat \in Chat  BY <1>5 DEF TypeOK
    <3> QED  BY <1>2, <1>5, <3>1 DEF Chat
  <2> QED  BY <1>1, <1>2, <1>3, <1>5, <2>1, <2>2, ChatIsSome DEF TypeOK, JoinedHasChat, SheetsHaveWindow, gui
<1> QED  BY <1>4, <1>5 DEF groupChatRetryJoin

LEMMA groupChatChangeNickInv == IInv /\ groupChatChangeNick => IInv'
<1> SUFFICES ASSUME IInv, groupChatChangeNick PROVE IInv'
  OBVIOUS
<1> USE DEF IInv
<1> DEFINE c == Head(toCore)
<1>1. Served("nick") /\ UNCHANGED <<chat, nextId, toGui, gui>>  BY DEF groupChatChangeNick
<1>2. c.nick \in Nick /\ toCore' \in Seq(Call)  BY <1>1, ServedIsCall
<1>3. UNCHANGED <<link, streams, fromServer, seat, others, doubled>>
  BY <1>1 DEF Served, account, server
<1>4. CASE UNCHANGED <<room, toServer>>
  BY <1>1, <1>2, <1>3, <1>4 DEF TypeOK, JoinedHasChat, SheetsHaveWindow, gui
<1>5. CASE chat # None /\ room # None /\ room' = [room EXCEPT !.nick = c.nick] /\ Send("nick", c.nick)
  <2>1. room' \in Room
    <3>1. room \in Room  BY <1>5 DEF TypeOK
    <3> QED  BY <1>2, <1>5, <3>1 DEF Room
  <2>2. toServer' \in Seq(Stanza)  BY <1>2, <1>5, SentAreStanzas DEF TypeOK
  <2> QED  BY <1>1, <1>2, <1>3, <1>5, <2>1, <2>2 DEF TypeOK, JoinedHasChat, SheetsHaveWindow, gui
<1> QED  BY <1>4, <1>5 DEF groupChatChangeNick

LEMMA groupChatEndInv == IInv /\ groupChatEnd => IInv'
<1> SUFFICES ASSUME IInv, groupChatEnd PROVE IInv'
  OBVIOUS
<1> USE DEF IInv
<1> DEFINE c == Head(toCore)
<1>1. Served("end") /\ UNCHANGED <<nextId, gui>>  BY DEF groupChatEnd
<1>2. c.id \in Nat /\ c.nick \in Nick /\ toCore' \in Seq(Call)  BY <1>1, ServedIsCall
<1>3. UNCHANGED <<link, streams, fromServer, seat, others, doubled>>
  BY <1>1 DEF Served, account, server
<1>4. CASE UNCHANGED <<room, chat, toServer, toGui>>
  BY <1>1, <1>2, <1>3, <1>4 DEF TypeOK, JoinedHasChat, SheetsHaveWindow, gui
<1>5. CASE groupChatLeaveIris /\ chat' = None /\ Tell(<<NoteOf("left", c.id, c.nick, c.nick)>>)
  <2>1. /\ room' \in Room \cup {None} /\ toServer' \in Seq(Stanza)
        /\ room' # None => room'.status = "Closing"
    BY <1>5, LeaveIsTyped DEF TypeOK
  <2>2. toGui' \in Seq(Note)
    <3>1. NoteOf("left", c.id, c.nick, c.nick) \in Note
      BY <1>2, NotesAreNotes DEF NoteType
    <3>2. <<NoteOf("left", c.id, c.nick, c.nick)>> \in Seq(Note)  BY <3>1
    <3> QED  BY <1>5, <3>2, ToldAreNotes DEF TypeOK
  <2> QED  BY <1>1, <1>2, <1>3, <1>5, <2>1, <2>2 DEF TypeOK, JoinedHasChat, SheetsHaveWindow, gui
<1> QED  BY <1>4, <1>5 DEF groupChatEnd

\* The account's status is told; the end of a stream forgets the room, never the chat.
LEMMA AccountInv == IInv /\ Account => IInv'
<1> SUFFICES ASSUME IInv, Account PROVE IInv'
  OBVIOUS
<1> USE DEF IInv
<1>1. ASSUME NEW type \in {"online", "offline"}, TellLink(type)
      PROVE  toGui' \in Seq(Note)
  <2>1. NoteOf(type, 0, None, None) \in Note  BY DEF NoteOf, Note
  <2>2. <<NoteOf(type, 0, None, None)>> \in Seq(Note)  BY <2>1
  <2> QED  BY <1>1, <2>2, ToldAreNotes DEF TypeOK, TellLink
<1>2. CASE GoesOffline
  <2>1. toGui' \in Seq(Note)  BY <1>1, <1>2 DEF GoesOffline
  <2> QED  BY <1>2, <2>1 DEF GoesOffline, TypeOK, JoinedHasChat, SheetsHaveWindow, core, server, gui
<1>3. CASE StreamEnds
  <2>1. toGui' \in Seq(Note)  BY <1>1, <1>3 DEF StreamEnds
  <2> QED  BY <1>3, <2>1 DEF StreamEnds, StreamGone, TypeOK, JoinedHasChat, SheetsHaveWindow, core, gui
<1>4. CASE cleanup
  BY <1>4 DEF cleanup, StreamGone, TypeOK, JoinedHasChat, SheetsHaveWindow, gui
<1>5. CASE Starts
  BY <1>5 DEF Starts, TypeOK, JoinedHasChat, SheetsHaveWindow, core, server, gui
<1>6. CASE LogsIn
  <2>1. toGui' \in Seq(Note)  BY <1>1, <1>6 DEF LogsIn
  <2> QED  BY <1>6, <2>1 DEF LogsIn, TypeOK, JoinedHasChat, SheetsHaveWindow, core, server, gui
<1> QED  BY <1>2, <1>3, <1>4, <1>5, <1>6 DEF Account

\* The server changes who is in the room, and sends presences.
LEMMA ServerAnswersInv == IInv /\ ServerAnswers => IInv'
<1> SUFFICES ASSUME IInv, ServerAnswers PROVE IInv'
  OBVIOUS
<1> USE DEF IInv
<1> DEFINE s == Head(toServer)
<1>1. s \in Stanza /\ toServer' \in Seq(Stanza)  BY DEF TypeOK, ServerAnswers
<1>2. UNCHANGED <<account, core, others, toCore, toGui, gui, doubled>>  BY DEF ServerAnswers
<1>3. s.nick \in Nick /\ fromServer \in Seq(Presence) /\ others \in SUBSET Nick
      /\ seat \in Nick \cup {None}
  BY <1>1 DEF Stanza, TypeOK
<1>4. s.type \in {"join", "nick", "leave"}  BY <1>1 DEF Stanza
<1> HIDE DEF s
<1>5. seat' \in Nick \cup {None} /\ fromServer' \in Seq(Presence)
  <2>1. ASSUME NEW type \in {"available", "left", "error"}, NEW n \in Nick
        PROVE  <<PresenceOf(type, n)>> \in Seq(Presence)
    <3>1. PresenceOf(type, n) \in Presence  BY PresencesArePresences
    <3> QED  BY <3>1
  <2>2. CASE s.type = "leave"
    <3>1. /\ seat' = None
          /\ Push(IF seat = None THEN <<>> ELSE <<PresenceOf("left", seat)>>)
      BY <2>2 DEF ServerAnswers, s
    <3>2. (IF seat = None THEN <<>> ELSE <<PresenceOf("left", seat)>>) \in Seq(Presence)
      BY <1>3, <2>1
    <3> QED  BY <1>3, <3>1, <3>2, PushedArePresences
  <2>3. CASE s.type # "leave" /\ seat = None
    <3>1. Enters(s.nick)  BY <1>4, <2>3 DEF ServerAnswers, s
    <3>2. CASE Push(<<PresenceOf("error", s.nick)>>) /\ UNCHANGED seat
      BY <1>3, <2>1, <3>2, PushedArePresences
    <3>3. ASSUME seat' = s.nick, NEW presences \in Welcomes(s.nick), Push(presences)
          PROVE  seat' \in Nick \cup {None} /\ fromServer' \in Seq(Presence)
      <4>1. presences \in Seq(Presence)
        BY <1>3, GroupChatsAssumption, WelcomesArePresences
      <4> QED  BY <1>3, <3>3, <4>1, PushedArePresences
    <3> QED  BY <3>1, <3>2, <3>3 DEF Enters
  <2>4. CASE s.type # "leave" /\ seat # None
    <3>1. RenamesUs(s.nick)  BY <1>4, <2>4 DEF ServerAnswers, s
    <3>2. CASE s.nick \in others
      <4>1. Push(<<PresenceOf("error", s.nick)>>) /\ UNCHANGED seat
        BY <3>1, <3>2 DEF RenamesUs
      <4> QED  BY <1>3, <2>1, <4>1, PushedArePresences
    <3>3. CASE s.nick \notin others
      <4> DEFINE renamed == [type |-> "renamed", nick |-> seat, new |-> s.nick]
                 first == IF s.nick = seat THEN <<>> ELSE <<renamed>>
                 second == <<PresenceOf("available", s.nick)>>
      <4>1. seat' = s.nick /\ Push(first \o second)  BY <3>1, <3>3 DEF RenamesUs
      <4>2. renamed \in Presence  BY <1>3, <2>4 DEF Presence
      <4>3. first \in Seq(Presence)  BY <4>2
      <4>4. second \in Seq(Presence)  BY <1>3, <2>1
      <4> HIDE DEF first, second
      <4>5. first \o second \in Seq(Presence)  BY <4>3, <4>4, ConcatProperties
      <4> QED  BY <1>3, <4>1, <4>5, PushedArePresences
    <3> QED  BY <3>2, <3>3
  <2> QED  BY <2>2, <2>3, <2>4
<1> QED  BY <1>1, <1>2, <1>3, <1>5 DEF TypeOK, JoinedHasChat, SheetsHaveWindow, account, core, gui

LEMMA RoomChangesInv == IInv /\ RoomChanges => IInv'
<1> SUFFICES ASSUME IInv, RoomChanges PROVE IInv'
  OBVIOUS
<1> USE DEF IInv
<1>1. UNCHANGED <<account, core, toServer, toCore, toGui, gui, doubled>>  BY DEF RoomChanges
<1>2. fromServer \in Seq(Presence) /\ others \in SUBSET Nick /\ seat \in Nick \cup {None}
  BY DEF TypeOK
<1>3. ASSUME NEW type \in {"available", "left", "kicked", "destroyed"}, NEW n \in Nick,
             Hears(<<PresenceOf(type, n)>>)
      PROVE  fromServer' \in Seq(Presence)
  <2>1. PresenceOf(type, n) \in Presence  BY PresencesArePresences
  <2>2. <<PresenceOf(type, n)>> \in Seq(Presence)  BY <2>1
  <2> QED  BY <1>2, <1>3, <2>2, HeardArePresences
<1>4. /\ seat' \in Nick \cup {None} /\ others' \in SUBSET Nick
      /\ fromServer' \in Seq(Presence)
  <2>1. ASSUME NEW n \in Nick, OtherEnters(n)
        PROVE  UNCHANGED seat /\ others' \in SUBSET Nick /\ fromServer' \in Seq(Presence)
    <3>1. fromServer' \in Seq(Presence)  BY <1>3, <2>1 DEF OtherEnters
    <3> QED  BY <1>2, <2>1, <3>1 DEF OtherEnters
  <2>2. ASSUME NEW n \in Nick, OtherGoes(n)
        PROVE  UNCHANGED seat /\ others' \in SUBSET Nick /\ fromServer' \in Seq(Presence)
    <3>1. fromServer' \in Seq(Presence)  BY <1>3, <2>2 DEF OtherGoes
    <3> QED  BY <1>2, <2>2, <3>1 DEF OtherGoes
  <2>3. ASSUME NEW n \in Nick, NEW m \in Nick, OtherRenames(n, m)
        PROVE  UNCHANGED seat /\ others' \in SUBSET Nick /\ fromServer' \in Seq(Presence)
    <3> DEFINE two == <<[type |-> "renamed", nick |-> n, new |-> m], PresenceOf("available", m)>>
    <3>1. [type |-> "renamed", nick |-> n, new |-> m] \in Presence  BY DEF Presence
    <3>2. PresenceOf("available", m) \in Presence  BY PresencesArePresences
    <3>3. two \in Seq(Presence)  BY <3>1, <3>2
    <3>4. Hears(two)  BY <2>3 DEF OtherRenames
    <3> HIDE DEF two
    <3>5. fromServer' \in Seq(Presence)  BY <1>2, <3>3, <3>4, HeardArePresences
    <3> QED  BY <1>2, <2>3, <3>5 DEF OtherRenames
  <2>4. CASE WeAreRemoved
    <3>1. seat \in Nick /\ seat' = None  BY <1>2, <2>4 DEF WeAreRemoved
    <3>2. CASE UNCHANGED others /\ \E type \in {"left", "kicked"} : Hears(<<PresenceOf(type, seat)>>)
      BY <1>2, <1>3, <3>1, <3>2
    <3>3. CASE others' = {} /\ Hears(<<PresenceOf("destroyed", seat)>>)
      BY <1>3, <3>1, <3>3
    <3> QED  BY <2>4, <3>2, <3>3 DEF WeAreRemoved
  <2> QED  BY <1>2, <2>1, <2>2, <2>3, <2>4 DEF RoomChanges
<1> QED  BY <1>1, <1>4 DEF TypeOK, JoinedHasChat, SheetsHaveWindow, account, core, gui

(* ------------------- the user interface changes its own only --------------- *)

\* What the user interface and the user may change, and what it takes to keep IInv then.
LEMMA WindowStays ==
  ASSUME IInv, UNCHANGED <<account, core, toServer, fromServer, server, asserted, doubled>>,
         sheets' # {} => window' # None,
         toCore' \in Seq(Call), toGui' \in Seq(Note), online' \in BOOLEAN,
         window' \in Window \cup {None}, sheets' \subseteq {"nickname", "prompt"}
  PROVE  IInv'
BY DEF IInv, TypeOK, JoinedHasChat, SheetsHaveWindow, account, core, server

\* What the user interface asks of the core is a call.
LEMMA AskedIsCall ==
  ASSUME toCore \in Seq(Call), NEW type \in {"join", "retry", "nick", "end"}, NEW id \in Nat,
         NEW n \in Nick, Asks(type, id, n)
  PROVE  toCore' \in Seq(Call)
<1>1. [type |-> type, id |-> id, nick |-> n] \in Call  BY DEF Call
<1> QED  BY <1>1 DEF Asks

LEMMA RetryIsTyped ==
  ASSUME TypeOK, window # None, NEW n \in Nick, RetryJoin(n)
  PROVE  window' \in Window /\ toCore' \in Seq(Call)
<1>1. window \in Window /\ toCore \in Seq(Call)  BY DEF TypeOK
<1>2. CASE window.active  BY <1>1, <1>2 DEF RetryJoin
<1>3. CASE ~window.active
  <2>1. window' = [window EXCEPT !.nick = n, !.lastSet = n] /\ Asks("retry", window.id, n)
    BY <1>3 DEF RetryJoin
  <2>2. window.id \in Nat  BY <1>1 DEF Window
  <2>3. toCore' \in Seq(Call)  BY <1>1, <2>1, <2>2, AskedIsCall
  <2>4. window' \in Window  BY <1>1, <2>1 DEF Window
  <2> QED  BY <2>3, <2>4
<1> QED  BY <1>2, <1>3

LEMMA SetNicknameIsTyped ==
  ASSUME TypeOK, window # None, NEW n \in Nick, SetNickname(n)
  PROVE  window' \in Window /\ toCore' \in Seq(Call)
<1>1. window \in Window /\ toCore \in Seq(Call)  BY DEF TypeOK
<1>2. window' = [window EXCEPT !.lastSet = n] /\ Asks("nick", window.id, n)
  BY DEF SetNickname
<1>3. window.id \in Nat  BY <1>1 DEF Window
<1>4. toCore' \in Seq(Call)  BY <1>1, <1>2, <1>3, AskedIsCall
<1>5. window' \in Window  BY <1>1, <1>2 DEF Window
<1> QED  BY <1>4, <1>5

\* Notifications of a chat change what the window lists, its nickname and its activity.
LEMMA GuiHandlesInv == IInv /\ GuiHandlesNext => IInv'
<1> SUFFICES ASSUME IInv, GuiHandlesNext PROVE IInv'
  OBVIOUS
<1> USE DEF IInv
<1> DEFINE e == Head(toGui)
<1>1. toGui # <<>> /\ toGui' = Tail(toGui)
      /\ UNCHANGED <<account, core, toServer, fromServer, server, asserted, doubled>>
  BY DEF GuiHandlesNext, GuiHandles, groupChatJoined, groupChatLeft, groupChatContactJoined,
         groupChatContactLeft, groupChatContactNicknameChanged, groupChatError,
         accountOffline, accountOnline
<1>2. /\ e \in Note /\ toGui' \in Seq(Note) /\ toCore \in Seq(Call) /\ online \in BOOLEAN
      /\ window \in Window \cup {None} /\ sheets \subseteq {"nickname", "prompt"}
  BY <1>1 DEF TypeOK
<1>3. e.type \in NoteType => e.id \in Nat /\ e.nick \in Nick /\ e.new \in Nick
  BY <1>2 DEF Note, NoteType
<1>4. ASSUME window # None
      PROVE  window \in Window /\ window.participants \in Bag /\ window.byNick \in SUBSET Nick
             /\ window.nick \in Nick /\ window.lastSet \in Nick
  BY <1>2, <1>4 DEF Window
<1> HIDE DEF e
<1>5. ASSUME window' \in Window \cup {None}, window # None => window' # None,
             UNCHANGED <<toCore, sheets>>, online' \in BOOLEAN
      PROVE  IInv'
  BY <1>1, <1>2, <1>5, WindowStays DEF SheetsHaveWindow
<1>6. CASE groupChatJoined
  <2>1. e.type = "joined" /\ UNCHANGED <<toCore, online, sheets>>
        /\ window' = IF ForWindow(e) THEN [window EXCEPT !.active = TRUE, !.nick = e.nick]
                     ELSE window
    BY <1>6 DEF groupChatJoined, GuiHandles, e
  <2>2. e.nick \in Nick  BY <1>3, <2>1 DEF NoteType
  <2>3. ForWindow(e) => window' \in Window  BY <1>4, <2>1, <2>2 DEF ForWindow, Window
  <2> QED  BY <1>2, <1>5, <2>1, <2>3, ChatIsSome
<1>7. CASE groupChatLeft
  <2>1. UNCHANGED <<toCore, online, sheets>>
        /\ window' = IF ForWindow(e) THEN [window EXCEPT !.active = FALSE] ELSE window
    BY <1>7 DEF groupChatLeft, e
  <2>2. ForWindow(e) => window' \in Window  BY <1>4, <2>1 DEF ForWindow, Window
  <2> QED  BY <1>2, <1>5, <2>1, <2>2, ChatIsSome
<1>8. CASE groupChatContactJoined
  <2>1. e.type = "contactJoined" /\ UNCHANGED <<toCore, online, sheets>>
        /\ window' = IF ForWindow(e) THEN [window EXCEPT !.participants = More(@, e.nick),
                                                        !.byNick = @ \cup {e.nick}]
                     ELSE window
    BY <1>8 DEF groupChatContactJoined, GuiHandles, e
  <2>2. e.nick \in Nick  BY <1>3, <2>1 DEF NoteType
  <2>3. ForWindow(e) => More(window.participants, e.nick) \in Bag
    BY <1>4, <2>2, BagsStay DEF ForWindow
  <2>4. ForWindow(e) => window' \in Window  BY <1>4, <2>1, <2>2, <2>3 DEF ForWindow, Window
  <2> QED  BY <1>2, <1>5, <2>1, <2>4, ChatIsSome
<1>9. CASE groupChatContactLeft
  <2>1. e.type = "contactLeft" /\ UNCHANGED <<toCore, online, sheets>>
        /\ window' = IF ForWindow(e) /\ e.nick \in window.byNick
                     THEN [window EXCEPT !.participants = Less(@, e.nick),
                                         !.byNick = @ \ {e.nick}]
                     ELSE window
    BY <1>9 DEF groupChatContactLeft, GuiHandles, e
  <2>2. e.nick \in Nick  BY <1>3, <2>1 DEF NoteType
  <2>3. ForWindow(e) => Less(window.participants, e.nick) \in Bag
    BY <1>4, <2>2, BagsStay DEF ForWindow
  <2>4. ForWindow(e) => window' \in Window  BY <1>4, <2>1, <2>2, <2>3 DEF ForWindow, Window
  <2> QED  BY <1>2, <1>5, <2>1, <2>4, ChatIsSome DEF ForWindow
<1>10. CASE groupChatContactNicknameChanged
  <2>1. e.type = "contactRenamed" /\ UNCHANGED <<toCore, online, sheets>>
        /\ window' = IF ForWindow(e) /\ e.nick \in window.byNick
                     THEN [window EXCEPT !.participants = More(Less(@, e.nick), e.new),
                                         !.byNick = (@ \ {e.nick}) \cup {e.new},
                                         !.nick = IF @ = e.nick THEN e.new ELSE @]
                     ELSE window
    BY <1>10 DEF groupChatContactNicknameChanged, GuiHandles, e
  <2>2. e.nick \in Nick /\ e.new \in Nick  BY <1>3, <2>1 DEF NoteType
  <2>3. ForWindow(e) => More(Less(window.participants, e.nick), e.new) \in Bag
    <3>1. ForWindow(e) => Less(window.participants, e.nick) \in Bag
      BY <1>4, <2>2, BagsStay DEF ForWindow
    <3> QED  BY <2>2, <3>1, BagsStay
  <2>4. ForWindow(e) => window' \in Window  BY <1>4, <2>1, <2>2, <2>3 DEF ForWindow, Window
  <2> QED  BY <1>2, <1>5, <2>1, <2>4, ChatIsSome DEF ForWindow
<1>11. CASE groupChatError
  <2>1. UNCHANGED <<toCore, online, window>>
        /\ \/ window # None /\ sheets' = sheets \cup {"prompt"}
           \/ UNCHANGED sheets
    BY <1>11 DEF groupChatError, ForWindow
  <2>2. sheets' # {} => window' # None  BY <2>1 DEF SheetsHaveWindow
  <2>3. sheets' \subseteq {"nickname", "prompt"}  BY <1>2, <2>1
  <2> QED  BY <1>1, <1>2, <2>1, <2>2, <2>3, WindowStays
<1>12. CASE accountOffline
  <2>1. UNCHANGED <<toCore, sheets>> /\ online' = FALSE
        /\ window' = IF online /\ window # None THEN [window EXCEPT !.active = FALSE] ELSE window
    BY <1>12 DEF accountOffline
  <2>2. window # None => window' \in Window  BY <1>4, <2>1 DEF Window
  <2> QED  BY <1>2, <1>5, <2>1, <2>2, ChatIsSome
<1>13. CASE accountOnline
  <2>1. UNCHANGED sheets /\ online' = TRUE
        /\ IF online \/ window = None THEN UNCHANGED <<window, toCore>>
                                     ELSE RetryJoin(window.lastSet)
    BY <1>13 DEF accountOnline
  <2>2. CASE UNCHANGED <<window, toCore>>  BY <1>2, <1>5, <2>1, <2>2
  <2>3. CASE window # None /\ RetryJoin(window.lastSet)
    <3>1. window' \in Window /\ toCore' \in Seq(Call)  BY <1>4, <2>3, RetryIsTyped
    <3>2. window' # None  BY <3>1, ChatIsSome
    <3> QED  BY <1>1, <1>2, <2>1, <3>1, <3>2, WindowStays
  <2> QED  BY <2>1, <2>2, <2>3
<1> QED  BY <1>6, <1>7, <1>8, <1>9, <1>10, <1>11, <1>12, <1>13 DEF GuiHandlesNext

\* What the user does from the roster and in the window.
LEMMA UserInv == IInv /\ User => IInv'
<1> SUFFICES ASSUME IInv, User PROVE IInv'
  OBVIOUS
<1> USE DEF IInv
<1>1. /\ toCore \in Seq(Call) /\ toGui \in Seq(Note) /\ online \in BOOLEAN
      /\ window \in Window \cup {None} /\ sheets \subseteq {"nickname", "prompt"}
  BY DEF TypeOK
<1>2. UNCHANGED <<account, core, toServer, fromServer, server, toGui, online, asserted, doubled>>
  BY DEF User, UserActs, StartGroupChat, changeNicknameOKClicked, alternateNicknameOKClicked,
         rejoinChatRoom, changeNickname, passwordPromptOKClicked, endGroupChat
<1>3. ASSUME window # None
      PROVE  window \in Window /\ window.id \in Nat /\ window.nick \in Nick
             /\ window.lastSet \in Nick
  BY <1>1, <1>3 DEF Window
<1>4. ASSUME window # None, NEW n \in Nick, RetryJoin(n) \/ SetNickname(n), sheets' \subseteq sheets
      PROVE  IInv'
  <2>1. window' \in Window /\ toCore' \in Seq(Call)
    BY <1>4, RetryIsTyped, SetNicknameIsTyped
  <2>2. window' # None  BY <2>1, ChatIsSome
  <2>3. sheets' \subseteq {"nickname", "prompt"}  BY <1>1, <1>4
  <2> QED  BY <1>1, <1>2, <2>1, <2>2, <2>3, WindowStays
<1>5. ASSUME NEW n \in Nick, StartGroupChat(n) PROVE IInv'
  <2>1. Asks("join", 0, n) /\ UNCHANGED <<window, sheets>>  BY <1>5 DEF StartGroupChat
  <2>2. toCore' \in Seq(Call)  BY <1>1, <2>1, AskedIsCall
  <2> QED  BY <1>1, <1>2, <2>1, <2>2, WindowStays DEF SheetsHaveWindow
<1>6. ASSUME NEW n \in Nick, changeNicknameOKClicked(n) PROVE IInv'
  <2>1. window # None  BY <1>6 DEF changeNicknameOKClicked, SheetsHaveWindow
  <2>2. SetNickname(n) /\ sheets' \subseteq sheets  BY <1>6 DEF changeNicknameOKClicked
  <2> QED  BY <1>4, <2>1, <2>2
<1>7. ASSUME NEW n \in Nick, alternateNicknameOKClicked(n) PROVE IInv'
  <2>1. window # None  BY <1>7 DEF alternateNicknameOKClicked, SheetsHaveWindow
  <2>2. (RetryJoin(n) \/ SetNickname(n)) /\ sheets' \subseteq sheets
    BY <1>7 DEF alternateNicknameOKClicked
  <2> QED  BY <1>4, <2>1, <2>2
<1>8. CASE rejoinChatRoom
  <2>1. window # None /\ RetryJoin(window.lastSet) /\ sheets' \subseteq sheets
    BY <1>8 DEF rejoinChatRoom
  <2> QED  BY <1>3, <1>4, <2>1
<1>9. CASE changeNickname
  <2>1. window # None /\ UNCHANGED <<window, toCore>> /\ sheets' = sheets \cup {"nickname"}
    BY <1>9 DEF changeNickname
  <2> QED  BY <1>1, <1>2, <2>1, WindowStays
<1>10. CASE passwordPromptOKClicked
  <2>1. window # None  BY <1>10 DEF passwordPromptOKClicked, SheetsHaveWindow
  <2>2. RetryJoin(window.nick) /\ sheets' \subseteq sheets  BY <1>10 DEF passwordPromptOKClicked
  <2> QED  BY <1>3, <1>4, <2>1, <2>2
<1>11. CASE endGroupChat
  <2>1. window # None /\ Asks("end", window.id, window.nick) /\ window' = None /\ sheets' = {}
    BY <1>11 DEF endGroupChat
  <2>2. toCore' \in Seq(Call)  BY <1>1, <1>3, <2>1, AskedIsCall
  <2> QED  BY <1>1, <1>2, <2>1, <2>2, WindowStays
<1> QED  BY <1>5, <1>6, <1>7, <1>8, <1>9, <1>10, <1>11 DEF User

(* ------------------------------- the theorems ------------------------------ *)

LEMMA NextInv == IInv /\ [Next]_vars => IInv'
<1> SUFFICES ASSUME IInv, [Next]_vars PROVE IInv'
  OBVIOUS
<1>1. CASE ppPresence  BY <1>1, ppPresenceInv
<1>2. CASE CoreServes
  BY <1>2, groupChatJoinInv, groupChatRetryJoinInv, groupChatChangeNickInv, groupChatEndInv
     DEF CoreServes
<1>3. CASE Account  BY <1>3, AccountInv
<1>4. CASE ServerAnswers  BY <1>4, ServerAnswersInv
<1>5. CASE RoomChanges  BY <1>5, RoomChangesInv
<1>6. CASE GuiHandlesNext  BY <1>6, GuiHandlesInv
<1>7. CASE User  BY <1>7, UserInv
<1>8. CASE UNCHANGED vars
  BY <1>8 DEF IInv, TypeOK, JoinedHasChat, SheetsHaveWindow, vars, account, core, server, gui
<1> QED  BY <1>1, <1>2, <1>3, <1>4, <1>5, <1>6, <1>7, <1>8 DEF Next

\* The types, the chat of a room that Iris joins, and the window of the sheets, in every
\* state of every behaviour.
THEOREM Invariance == Spec => []IInv
<1>1. Init => IInv  BY InitInv
<1>2. IInv /\ [Next]_vars => IInv'  BY NextInv
<1> QED  BY <1>1, <1>2, PTL DEF Spec

\* The members of groupChatList, the GroupChat, the LPGroupChat and the stanzas on their
\* way keep the values that their classes allow.
THEOREM TypeCorrect == Spec => []TypeOK
<1>1. IInv => TypeOK  BY DEF IInv
<1> QED  BY <1>1, Invariance, PTL

\* Whatever is ended, started again, kicked and answered in between, a room that Iris
\* joins or has joined has its chat in the core: client_groupChatJoined never makes one.
THEOREM JoinedHasChatHolds == Spec => []JoinedHasChat
<1>1. IInv => JoinedHasChat  BY DEF IInv
<1> QED  BY <1>1, Invariance, PTL

(* ------------- what the window will list when it has heard all ------------- *)

\* What the window lists of a chat, and how a notification changes it.
List == [participants : Bag, byNick : SUBSET Nick]
Hear(id, s, e) ==
    IF e.id # id THEN s
    ELSE IF e.type = "contactJoined"
    THEN [participants |-> More(s.participants, e.nick), byNick |-> s.byNick \cup {e.nick}]
    ELSE IF e.type = "contactLeft" /\ e.nick \in s.byNick
    THEN [participants |-> Less(s.participants, e.nick), byNick |-> s.byNick \ {e.nick}]
    ELSE IF e.type = "contactRenamed" /\ e.nick \in s.byNick
    THEN [participants |-> More(Less(s.participants, e.nick), e.new),
          byNick |-> (s.byNick \ {e.nick}) \cup {e.new}]
    ELSE s

\* Whoever lists s and hears the notifications q about the chat lists t then: v is what is
\* listed after each of them.
Replays(id, s, q, t) ==
    \E v \in [0..Len(q) -> List] :
        /\ v[0] = s /\ v[Len(q)] = t
        /\ \A i \in 1..Len(q) : v[i] = Hear(id, v[i - 1], q[i])

LEMMA HearIsList ==
  ASSUME NEW id, NEW s \in List, NEW e \in Note
  PROVE  Hear(id, s, e) \in List
<1>1. s.participants \in Bag /\ s.byNick \in SUBSET Nick  BY DEF List
<1>2. e.type \in NoteType => e.nick \in Nick /\ e.new \in Nick  BY DEF Note, NoteType
<1>3. CASE e.type = "contactJoined"
  <2>1. More(s.participants, e.nick) \in Bag  BY <1>1, <1>2, <1>3, BagsStay DEF NoteType
  <2> QED  BY <1>1, <1>2, <1>3, <2>1 DEF Hear, List, NoteType
<1>4. CASE e.type = "contactLeft"
  <2>1. Less(s.participants, e.nick) \in Bag  BY <1>1, <1>2, <1>4, BagsStay DEF NoteType
  <2> QED  BY <1>1, <1>2, <1>4, <2>1 DEF Hear, List, NoteType
<1>5. CASE e.type = "contactRenamed"
  <2>1. Less(s.participants, e.nick) \in Bag  BY <1>1, <1>2, <1>5, BagsStay DEF NoteType
  <2>2. More(Less(s.participants, e.nick), e.new) \in Bag
    BY <1>1, <1>2, <1>5, <2>1, BagsStay DEF NoteType
  <2> QED  BY <1>1, <1>2, <1>5, <2>2 DEF Hear, List, NoteType
<1> QED  BY <1>3, <1>4, <1>5 DEF Hear

\* Nothing is heard, or one notification.
LEMMA ReplayNone ==
  ASSUME NEW id, NEW s \in List
  PROVE  Replays(id, s, <<>>, s)
<1> DEFINE v == [i \in 0..Len(<<>>) |-> s]
<1>1. v \in [0..Len(<<>>) -> List] /\ v[0] = s /\ v[Len(<<>>)] = s  OBVIOUS
<1>2. 1..Len(<<>>) = {}  OBVIOUS
<1> HIDE DEF v
<1> QED  BY <1>1, <1>2 DEF Replays

LEMMA ReplayOne ==
  ASSUME NEW id, NEW s \in List, NEW e \in Note
  PROVE  Replays(id, s, <<e>>, Hear(id, s, e))
<1> DEFINE t == Hear(id, s, e)
           v == [i \in 0..1 |-> IF i = 0 THEN s ELSE t]
<1>1. t \in List  BY HearIsList
<1> HIDE DEF t
<1>2. v \in [0..1 -> List] /\ v[0] = s /\ v[1] = t  BY <1>1
<1> HIDE DEF v
<1>3. Len(<<e>>) = 1 /\ <<e>>[1] = e  OBVIOUS
<1>4. \A i \in 1..Len(<<e>>) : v[i] = Hear(id, v[i - 1], <<e>>[i])  BY <1>2, <1>3 DEF t
<1>5. v \in [0..Len(<<e>>) -> List] /\ v[Len(<<e>>)] = t  BY <1>2, <1>3
<1> QED  BY <1>2, <1>4, <1>5 DEF Replays, t

\* More is said: what was listed after q hears the rest.
LEMMA ReplayConcat ==
  ASSUME NEW id, NEW s, NEW t, NEW u, NEW q \in Seq(Note), NEW notes \in Seq(Note),
         Replays(id, s, q, t), Replays(id, t, notes, u)
  PROVE  Replays(id, s, q \o notes, u)
<1> DEFINE k == Len(q)  n == Len(notes)
<1>1. PICK v \in [0..k -> List] :
         v[0] = s /\ v[k] = t /\ \A i \in 1..k : v[i] = Hear(id, v[i - 1], q[i])
  BY DEF Replays
<1>2. PICK w \in [0..n -> List] :
         w[0] = t /\ w[n] = u /\ \A i \in 1..n : w[i] = Hear(id, w[i - 1], notes[i])
  BY DEF Replays
<1>3. /\ k \in Nat /\ n \in Nat /\ Len(q \o notes) = k + n
      /\ \A i \in 1..k + n : (q \o notes)[i] = IF i <= k THEN q[i] ELSE notes[i - k]
  BY ConcatProperties, LenProperties
<1> HIDE DEF k, n
<1> DEFINE x == [i \in 0..k + n |-> IF i <= k THEN v[i] ELSE w[i - k]]
<1>4. x \in [0..k + n -> List] /\ x[0] = s /\ x[k + n] = u
  BY <1>1, <1>2, <1>3
<1>5. /\ \A i \in 0..k : x[i] = v[i]
      /\ \A i \in 0..n : x[k + i] = w[i]
  <2>1. \A i \in 0..k : i \in 0..k + n /\ x[i] = v[i]  BY <1>3
  <2>2. ASSUME NEW i \in 0..n PROVE x[k + i] = w[i]
    <3>1. k + i \in 0..k + n /\ (k + i) - k = i  BY <1>3
    <3>2. CASE i = 0  BY <1>1, <1>2, <1>3, <2>1, <3>2
    <3>3. CASE i # 0
      <4>1. ~(k + i <= k)  BY <1>3, <3>3
      <4> QED  BY <3>1, <4>1
    <3> QED  BY <3>2, <3>3
  <2> QED  BY <2>1, <2>2
<1> HIDE DEF x
<1>6. ASSUME NEW i \in 1..k + n PROVE x[i] = Hear(id, x[i - 1], (q \o notes)[i])
  <2>1. CASE i <= k
    <3>1. i \in 1..k /\ i \in 0..k /\ i - 1 \in 0..k  BY <1>3, <2>1
    <3> QED  BY <1>1, <1>3, <1>5, <2>1, <3>1
  <2>2. CASE i > k
    <3> DEFINE j == i - k
    <3>1. j \in 1..n /\ j - 1 \in 0..n /\ i = k + j /\ i - 1 = k + (j - 1)
      BY <1>3, <2>2
    <3> HIDE DEF j
    <3>2. x[i] = w[j] /\ x[i - 1] = w[j - 1]  BY <1>5, <3>1
    <3>3. (q \o notes)[i] = notes[j]  BY <1>3, <2>2, <3>1
    <3>4. w[j] = Hear(id, w[j - 1], notes[j])  BY <1>2, <3>1
    <3> QED  BY <3>2, <3>3, <3>4
  <2> QED  BY <1>3, <2>1, <2>2
<1> QED  BY <1>3, <1>4, <1>6 DEF Replays

\* The first notification is heard.
LEMMA ReplayTail ==
  ASSUME NEW id, NEW s, NEW t, NEW q \in Seq(Note), q # <<>>, Replays(id, s, q, t)
  PROVE  Replays(id, Hear(id, s, Head(q)), Tail(q), t)
<1> DEFINE k == Len(q)
<1>1. PICK v \in [0..k -> List] :
         v[0] = s /\ v[k] = t /\ \A i \in 1..k : v[i] = Hear(id, v[i - 1], q[i])
  BY DEF Replays
<1>2. /\ k \in Nat \ {0} /\ Len(Tail(q)) = k - 1 /\ Head(q) = q[1]
      /\ \A i \in 1..k - 1 : Tail(q)[i] = q[i + 1]
  BY HeadTailProperties, EmptySeq
<1> HIDE DEF k
<1> DEFINE x == [i \in 0..k - 1 |-> v[i + 1]]
<1>3. x \in [0..k - 1 -> List]  BY <1>1, <1>2
<1>4. x[0] = Hear(id, s, Head(q)) /\ x[k - 1] = t  BY <1>1, <1>2
<1>5. ASSUME NEW i \in 1..k - 1 PROVE x[i] = Hear(id, x[i - 1], Tail(q)[i])
  <2>1. x[i] = v[i + 1] /\ x[i - 1] = v[(i + 1) - 1]  BY <1>2
  <2>2. v[i + 1] = Hear(id, v[(i + 1) - 1], q[i + 1])  BY <1>1, <1>2
  <2> QED  BY <1>2, <2>1, <2>2
<1> HIDE DEF x
<1> QED  BY <1>2, <1>3, <1>4, <1>5 DEF Replays

\* Nothing is said of the chat.
LEMMA ReplayOthers ==
  ASSUME NEW id, NEW s \in List, NEW q \in Seq(Note),
         \A i \in 1..Len(q) : q[i].id # id \/ q[i].type \notin NoteType
  PROVE  Replays(id, s, q, s)
<1> DEFINE v == [i \in 0..Len(q) |-> s]
<1>1. Len(q) \in Nat  OBVIOUS
<1>2. ASSUME NEW i \in 1..Len(q) PROVE Hear(id, s, q[i]) = s
  BY DEF Hear, NoteType
<1>3. v \in [0..Len(q) -> List] /\ v[0] = s /\ v[Len(q)] = s  BY <1>1
<1>4. \A i \in 1..Len(q) : v[i] = Hear(id, v[i - 1], q[i])  BY <1>1, <1>2
<1> HIDE DEF v
<1> QED  BY <1>3, <1>4 DEF Replays

\* An empty queue: what is listed is what will be.
LEMMA ReplayQuiet ==
  ASSUME NEW id, NEW s, NEW t, Replays(id, s, <<>>, t)
  PROVE  s = t
BY DEF Replays

(* ---------------- what both sides will agree on: the invariant -------------- *)

\* Who is listed under a bag, and what the core lists of a chat.
Has(bag) == {n \in Nick : bag[n] > 0}
ListOf(gc) == [participants |-> gc.participants, byNick |-> Has(gc.participants)]
Shown(win) == [participants |-> win.participants, byNick |-> win.byNick]

\* A room shows as active when all is heard: it does now and nothing ends that, or it
\* will be said to be joined and nothing ends that.
Ends(id, e) == e.type = "offline" \/ (e.type = "left" /\ e.id = id)
Begins(id, e) == e.type = "joined" /\ e.id = id
WillBeActive(active, id, q) ==
    \/ active /\ \A i \in 1..Len(q) : ~Ends(id, q[i])
    \/ \E i \in 1..Len(q) : /\ Begins(id, q[i])
                            /\ \A j \in (i + 1)..Len(q) : ~Ends(id, q[j])

\* IDs are given once, by nextId.
IdsInv == /\ chat # None => chat.id < nextId
          /\ window # None => window.id < nextId
          /\ \A i \in 1..Len(toGui) : toGui[i].type \in NoteType => toGui[i].id < nextId

\* Nobody takes the nickname that he has.
RenamesDiffer ==
    \A i \in 1..Len(fromServer) :
        fromServer[i].type = "renamed" => fromServer[i].nick # fromServer[i].new

\* What "doubled" remembers.
SinglesInv == chat # None /\ ~doubled => \A n \in Nick : chat.participants[n] <= 1

\* When the window has heard all that is on its way, it lists what the core lists.
ListsInv == SameChat /\ ~doubled => Replays(window.id, Shown(window), toGui, ListOf(chat))

\* Without a stream no room is joined; and one that is joined while there is a stream will
\* show as active.
ActiveInv ==
    /\ link = "down" /\ room # None => room.status # "Connected"
    /\ link \in {"starting", "up"} /\ SameChat /\ room # None /\ room.status = "Connected"
          => WillBeActive(window.active, window.id, toGui)

AgreeInv == IdsInv /\ RenamesDiffer /\ SinglesInv /\ ListsInv /\ ActiveInv

LEMMA ListsPrimed ==
  ListsInv' <=> (SameChat' /\ ~doubled' =>
                   Replays(window'.id, Shown(window'), toGui', ListOf(chat')))
BY DEF ListsInv

LEMMA ActivePrimed ==
  ActiveInv' <=>
    /\ link' = "down" /\ room' # None => room'.status # "Connected"
    /\ link' \in {"starting", "up"} /\ SameChat' /\ room' # None /\ room'.status = "Connected"
          => WillBeActive(window'.active, window'.id, toGui')
BY DEF ActiveInv

\* A window that will be active still will be when more is said that does not end it, or
\* that begins it, and when it hears the first notification.
LEMMA ActiveTold ==
  ASSUME NEW active \in BOOLEAN, NEW id, NEW q \in Seq(Note), NEW notes \in Seq(Note),
         WillBeActive(active, id, q), \A i \in 1..Len(notes) : ~Ends(id, notes[i])
  PROVE  WillBeActive(active, id, q \o notes)
<1> DEFINE k == Len(q)  n == Len(notes)  r == q \o notes
<1>1. /\ k \in Nat /\ n \in Nat /\ Len(r) = k + n
      /\ \A i \in 1..k + n : r[i] = IF i <= k THEN q[i] ELSE notes[i - k]
  BY ConcatProperties, LenProperties
<1>2. /\ \A i \in 1..n : ~Ends(id, notes[i])
      /\ \/ active /\ \A i \in 1..k : ~Ends(id, q[i])
         \/ \E i \in 1..k : Begins(id, q[i]) /\ \A j \in (i + 1)..k : ~Ends(id, q[j])
  BY DEF WillBeActive
<1> HIDE DEF k, n, r
<1>3. ASSUME NEW i \in 1..k + n, i > k PROVE ~Ends(id, r[i])
  <2>1. i - k \in 1..n  BY <1>1, <1>3
  <2>2. r[i] = notes[i - k]  BY <1>1, <1>3
  <2> QED  BY <1>2, <2>1, <2>2
<1>4. ASSUME NEW i \in 1..k PROVE i \in 1..k + n /\ r[i] = q[i]
  BY <1>1
<1>5. CASE active /\ \A i \in 1..k : ~Ends(id, q[i])
  <2>1. \A i \in 1..k + n : ~Ends(id, r[i])  BY <1>1, <1>3, <1>4, <1>5
  <2> QED  BY <1>1, <1>5, <2>1 DEF WillBeActive, r
<1>6. ASSUME NEW i \in 1..k, Begins(id, q[i]), \A j \in (i + 1)..k : ~Ends(id, q[j])
      PROVE  WillBeActive(active, id, r)
  <2>1. i \in 1..k + n /\ Begins(id, r[i])  BY <1>4, <1>6
  <2>2. ASSUME NEW j \in (i + 1)..k + n PROVE ~Ends(id, r[j])
    <3>1. j \in 1..k + n  BY <1>1
    <3>2. CASE j > k  BY <1>3, <3>1, <3>2
    <3>3. CASE ~(j > k)
      <4>1. j \in 1..k /\ j \in (i + 1)..k  BY <1>1, <3>3
      <4> QED  BY <1>4, <1>6, <4>1
    <3> QED  BY <3>2, <3>3
  <2> QED  BY <1>1, <2>1, <2>2 DEF WillBeActive
<1> QED  BY <1>2, <1>5, <1>6 DEF r

LEMMA ActiveBegins ==
  ASSUME NEW active \in BOOLEAN, NEW id, NEW q \in Seq(Note), NEW e \in Note, Begins(id, e),
         NEW notes \in Seq(Note), \A i \in 1..Len(notes) : ~Ends(id, notes[i])
  PROVE  WillBeActive(active, id, q \o (<<e>> \o notes))
<1> DEFINE k == Len(q)  n == Len(notes)  rest == <<e>> \o notes  r == q \o rest
<1>1. <<e>> \in Seq(Note) /\ Len(<<e>>) = 1 /\ <<e>>[1] = e  OBVIOUS
<1>2. /\ rest \in Seq(Note) /\ k \in Nat /\ n \in Nat /\ Len(rest) = n + 1
      /\ \A i \in 1..n + 1 : rest[i] = IF i <= 1 THEN <<e>>[i] ELSE notes[i - 1]
  BY <1>1, ConcatProperties, LenProperties
<1> HIDE DEF rest
<1>3. /\ Len(r) = k + (n + 1)
      /\ \A i \in 1..k + (n + 1) : r[i] = IF i <= k THEN q[i] ELSE rest[i - k]
  <2>1. /\ Len(q \o rest) = Len(q) + Len(rest)
        /\ \A i \in 1..Len(q) + Len(rest) :
              (q \o rest)[i] = IF i <= Len(q) THEN q[i] ELSE rest[i - Len(q)]
    BY <1>2, ConcatProperties
  <2> QED  BY <1>2, <2>1
<1> HIDE DEF k, n, r
<1>4. r[k + 1] = e
  <2>1. k + 1 \in 1..k + (n + 1) /\ ~(k + 1 <= k) /\ (k + 1) - k = 1 /\ 1 \in 1..n + 1
    BY <1>2
  <2> QED  BY <1>1, <1>2, <1>3, <2>1
<1>5. ASSUME NEW j \in (k + 2)..k + (n + 1) PROVE ~Ends(id, r[j])
  <2>1. j \in 1..k + (n + 1) /\ ~(j <= k) /\ j - k \in 1..n + 1 /\ ~(j - k <= 1)
        /\ (j - k) - 1 \in 1..n
    BY <1>2
  <2>2. r[j] = notes[(j - k) - 1]  BY <1>2, <1>3, <2>1
  <2> QED  BY <2>1, <2>2 DEF n
<1>6. /\ k + 1 \in 1..Len(r) /\ Begins(id, r[k + 1])
      /\ \A j \in ((k + 1) + 1)..Len(r) : ~Ends(id, r[j])
  BY <1>2, <1>3, <1>4, <1>5
<1>7. WillBeActive(active, id, r)  BY <1>6 DEF WillBeActive
<1> QED  BY <1>7 DEF r, rest

LEMMA ActiveHeard ==
  ASSUME NEW active \in BOOLEAN, NEW after \in BOOLEAN, NEW id, NEW q \in Seq(Note), q # <<>>,
         WillBeActive(active, id, q),
         Begins(id, Head(q)) => after, ~Ends(id, Head(q)) /\ active => after
  PROVE  WillBeActive(after, id, Tail(q))
<1> DEFINE k == Len(q)  r == Tail(q)
<1>1. /\ k \in Nat \ {0} /\ Len(r) = k - 1 /\ Head(q) = q[1]
      /\ \A i \in 1..k - 1 : r[i] = q[i + 1]
  BY HeadTailProperties, EmptySeq
<1>2. \/ active /\ \A i \in 1..k : ~Ends(id, q[i])
      \/ \E i \in 1..k : Begins(id, q[i]) /\ \A j \in (i + 1)..k : ~Ends(id, q[j])
  BY DEF WillBeActive
<1> HIDE DEF k, r
<1>3. CASE active /\ \A i \in 1..k : ~Ends(id, q[i])
  <2>1. after  BY <1>1, <1>3
  <2>2. ASSUME NEW i \in 1..k - 1 PROVE ~Ends(id, r[i])
    <3>1. i + 1 \in 1..k  BY <1>1
    <3> QED  BY <1>1, <1>3, <3>1
  <2> QED  BY <1>1, <2>1, <2>2 DEF WillBeActive, r
<1>4. ASSUME NEW i \in 1..k, Begins(id, q[i]), \A j \in (i + 1)..k : ~Ends(id, q[j])
      PROVE  WillBeActive(after, id, r)
  <2>1. ASSUME NEW j \in i..k - 1 PROVE ~Ends(id, r[j])
    <3>1. j \in 1..k - 1 /\ j + 1 \in (i + 1)..k  BY <1>1
    <3> QED  BY <1>1, <1>4, <3>1
  <2>2. CASE i = 1
    <3>1. after  BY <1>1, <1>4, <2>2
    <3>2. \A j \in 1..k - 1 : ~Ends(id, r[j])  BY <2>1, <2>2
    <3> QED  BY <1>1, <3>1, <3>2 DEF WillBeActive
  <2>3. CASE i # 1
    <3>1. i - 1 \in 1..k - 1 /\ (i - 1) + 1 = i  BY <1>1, <2>3
    <3>2. Begins(id, r[i - 1])  BY <1>1, <1>4, <3>1
    <3>3. \A j \in ((i - 1) + 1)..k - 1 : ~Ends(id, r[j])  BY <2>1, <3>1
    <3> QED  BY <1>1, <3>1, <3>2, <3>3 DEF WillBeActive
  <2> QED  BY <2>2, <2>3
<1> QED  BY <1>2, <1>3, <1>4 DEF r

(* ---------------------------------- lists ---------------------------------- *)

LEMMA ListOfIsList ==
  ASSUME NEW gc \in Chat
  PROVE  ListOf(gc) \in List
BY DEF ListOf, List, Chat, Has

\* A nickname that nobody had, and one that at most one had.
LEMMA HasMore ==
  ASSUME NEW bag \in Bag, NEW n \in Nick
  PROVE  Has(More(bag, n)) = Has(bag) \cup {n}
BY DEF Has, More, Bag

LEMMA HasLess ==
  ASSUME NEW bag \in Bag, NEW n \in Nick, bag[n] <= 1
  PROVE  Has(Less(bag, n)) = Has(bag) \ {n}
BY DEF Has, Less, Bag

LEMMA LessNobody ==
  ASSUME NEW bag \in Bag, NEW n \in Nick, n \notin Has(bag)
  PROVE  Less(bag, n) = bag
BY DEF Has, Less, Bag

\* A presence tells the window what it changes in the core's list.
LEMMA PresenceTells ==
  ASSUME TypeOK, room # None, NEW gc \in Chat, NEW before \in Seq(Note),
         NEW p \in Presence, p.type # "error", p.type = "renamed" => p.nick # p.new,
         ~doubled => \A n \in Nick : gc.participants[n] <= 1,
         client_groupChatPresence(gc, before, p, "Connected")
  PROVE  /\ chat'.id = gc.id
         /\ ~doubled' => ~doubled /\ \A n \in Nick : chat'.participants[n] <= 1
         /\ \E notes \in Seq(Note) :
              /\ toGui' = toGui \o (before \o notes)
              /\ \A i \in 1..Len(notes) : notes[i].id = gc.id /\ notes[i].type \in NoteType
              /\ room'.status = "Connected" => \A i \in 1..Len(notes) : ~Ends(gc.id, notes[i])
              /\ ~doubled' => Replays(gc.id, ListOf(gc), notes, ListOf(chat'))
<1> DEFINE n == p.nick  m == p.new  bag == gc.participants
<1>1. n \in Nick /\ m \in Nick  BY DEF Presence
<1>2. gc.id \in Nat /\ gc.nick \in Nick /\ bag \in Bag  BY DEF Chat
<1>3. ListOf(gc) \in List  BY ListOfIsList
<1>4. doubled' = (doubled \/ \E x \in Nick : chat'.participants[x] > 1)
  BY DEF client_groupChatPresence
<1>5. chat' \in Chat /\ room \in Room /\ room' \in Room
  BY PresenceIsTyped DEF TypeOK
<1>6. ~doubled' => ~doubled /\ \A x \in Nick : chat'.participants[x] <= 1
  <2>1. chat'.participants \in Bag  BY <1>5 DEF Chat
  <2>2. \A x \in Nick : chat'.participants[x] \in Nat  BY <2>1 DEF Bag
  <2> HIDE DEF bag, n, m
  <2>3. ASSUME ~doubled' PROVE ~doubled /\ \A x \in Nick : ~(chat'.participants[x] > 1)
    BY <1>4, <2>3
  <2>4. ASSUME ~doubled', NEW x \in Nick PROVE chat'.participants[x] <= 1
    BY <2>2, <2>3, <2>4
  <2> QED  BY <2>3, <2>4
<1>7. CASE p.type = "available" /\ bag[n] = 0
  <2> DEFINE e == NoteOf("contactJoined", gc.id, n, n)
  <2>1. chat' = [gc EXCEPT !.participants = More(bag, n)] /\ toGui' = toGui \o (before \o <<e>>)
    BY <1>7 DEF client_groupChatPresence, ContactAvailable, Tell
  <2>2. e \in Note  BY <1>1, <1>2, NotesAreNotes DEF NoteType
  <2>3. e.id = gc.id /\ e.type = "contactJoined" /\ e.nick = n  BY DEF NoteOf
  <2> HIDE DEF e
  <2>4. chat'.id = gc.id /\ chat'.participants = More(bag, n)  BY <2>1 DEF Chat
  <2>5. Hear(gc.id, ListOf(gc), e) = ListOf(chat')
    BY <1>1, <1>2, <2>3, <2>4, HasMore DEF Hear, ListOf
  <2>6. Replays(gc.id, ListOf(gc), <<e>>, ListOf(chat'))  BY <1>3, <2>2, <2>5, ReplayOne
  <2>7. <<e>> \in Seq(Note) /\ Len(<<e>>) = 1 /\ <<e>>[1] = e  BY <2>2
  <2>8. ~Ends(gc.id, e)  BY <2>3 DEF Ends
  <2>9. \A i \in 1..Len(<<e>>) : /\ <<e>>[i].id = gc.id /\ <<e>>[i].type \in NoteType
                                 /\ ~Ends(gc.id, <<e>>[i])
    BY <2>3, <2>7, <2>8 DEF NoteType
  <2> QED  BY <1>6, <2>1, <2>4, <2>6, <2>7, <2>9
<1>8. CASE p.type = "available" /\ bag[n] # 0
  <2>1. chat' = gc /\ toGui' = toGui \o before
    BY <1>8 DEF client_groupChatPresence, ContactAvailable, Tell
  <2>2. before \o <<>> = before  BY ConcatEmptySeq
  <2>3. Replays(gc.id, ListOf(gc), <<>>, ListOf(chat'))  BY <1>3, <2>1, ReplayNone
  <2>4. <<>> \in Seq(Note) /\ 1..Len(<<>>) = {}  OBVIOUS
  <2>5. \A i \in 1..Len(<<>>) : /\ <<>>[i].id = gc.id /\ <<>>[i].type \in NoteType
                                /\ ~Ends(gc.id, <<>>[i])
    BY <2>4
  <2>6. toGui' = toGui \o (before \o <<>>)  BY <2>1, <2>2
  <2> QED  BY <1>6, <2>1, <2>3, <2>4, <2>5, <2>6
<1>9. CASE p.type # "available"
  <2> DEFINE away == p.type = "destroyed" \/ (p.type = "kicked" /\ n = gc.nick)
             l == NoteOf("left", gc.id, n, n)
             left == IF away THEN <<l>> ELSE <<>>
             e == IF p.type = "renamed" THEN NoteOf("contactRenamed", gc.id, n, m)
                  ELSE NoteOf("contactLeft", gc.id, n, n)
             notes == IF p.type = "destroyed" THEN left \o <<e>> ELSE <<e>> \o left
  <2>1. /\ chat'.id = gc.id /\ chat'.participants = Less(Renamed(gc, p), n)
        /\ toGui' = toGui \o (before \o notes)
    BY <1>9 DEF client_groupChatPresence, ContactUnavailable, Tell, Chat
  <2>2. room'.status = "Connected" => ~away
    BY <1>5 DEF client_groupChatPresence, Room
  <2>3. l \in Note /\ e \in Note
    <3>1. NoteOf("contactRenamed", gc.id, n, m) \in Note
      BY <1>1, <1>2, NotesAreNotes DEF NoteType
    <3>2. NoteOf("contactLeft", gc.id, n, n) \in Note /\ l \in Note
      BY <1>1, <1>2, NotesAreNotes DEF NoteType
    <3> QED  BY <3>1, <3>2
  <2>4. l.id = gc.id /\ l.type = "left" /\ e.id = gc.id /\ e.nick = n
        /\ IF p.type = "renamed" THEN e.type = "contactRenamed" /\ e.new = m
                                 ELSE e.type = "contactLeft"
    BY DEF NoteOf
  <2> HIDE DEF l, e
  <2>5. left \in Seq(Note) /\ <<e>> \in Seq(Note)  BY <2>3
  <2>6. /\ \A i \in 1..Len(left) : left[i] = l /\ away
        /\ Len(<<e>>) = 1 /\ <<e>>[1] = e
    OBVIOUS
  <2>7. ASSUME NEW s \in List PROVE Replays(gc.id, s, left, s)
    <3>1. Hear(gc.id, s, l) = s  BY <2>4 DEF Hear
    <3> QED  BY <2>3, <3>1, ReplayNone, ReplayOne
  <2>8. ~doubled' => Hear(gc.id, ListOf(gc), e) = ListOf(chat')
    <3> SUFFICES ASSUME ~doubled' PROVE Hear(gc.id, ListOf(gc), e) = ListOf(chat')
      OBVIOUS
    <3>1. \A x \in Nick : bag[x] <= 1  BY <1>6
    <3>2. Has(Less(bag, n)) = Has(bag) \ {n}  BY <1>1, <1>2, <3>1, HasLess
    <3>3. Less(bag, n) \in Bag  BY <1>1, <1>2, BagsStay
    <3>4. CASE p.type # "renamed"
      <4>1. chat'.participants = Less(bag, n)  BY <2>1, <3>4 DEF Renamed
      <4>2. CASE n \in Has(bag)
        BY <2>4, <3>2, <3>4, <4>1, <4>2 DEF Hear, ListOf
      <4>3. CASE n \notin Has(bag)
        <5>1. Less(bag, n) = bag  BY <1>1, <1>2, <4>3, LessNobody
        <5> QED  BY <2>4, <3>4, <4>1, <4>3, <5>1 DEF Hear, ListOf
      <4> QED  BY <4>2, <4>3
    <3>5. CASE p.type = "renamed" /\ n \in Has(bag)
      <4> DEFINE more == More(Less(bag, n), m)
      <4>1. more \in Bag /\ Has(more) = (Has(bag) \ {n}) \cup {m}
        BY <1>1, <3>2, <3>3, BagsStay, HasMore
      <4>2. n \notin Has(more)  BY <3>5, <4>1
      <4>3. Renamed(gc, p) = more  BY <1>1, <3>5 DEF Renamed, Has
      <4>4. Less(more, n) = more  BY <1>1, <4>1, <4>2, LessNobody
      <4>5. chat'.participants = more  BY <2>1, <4>3, <4>4
      <4> HIDE DEF more
      <4>6. ListOf(chat') = [participants |-> more, byNick |-> (Has(bag) \ {n}) \cup {m}]
        BY <4>1, <4>5 DEF ListOf
      <4> QED  BY <2>4, <3>5, <4>6 DEF Hear, ListOf, more
    <3>6. CASE p.type = "renamed" /\ n \notin Has(bag)
      <4>1. Renamed(gc, p) = bag  BY <1>1, <1>2, <3>6 DEF Renamed, Has, Bag
      <4>2. Less(bag, n) = bag  BY <1>1, <1>2, <3>6, LessNobody
      <4>3. chat'.participants = bag  BY <2>1, <4>1, <4>2
      <4> QED  BY <2>4, <3>6, <4>3 DEF Hear, ListOf
    <3> QED  BY <3>4, <3>5, <3>6
  <2> HIDE DEF left
  <2>9. /\ left \o <<e>> \in Seq(Note) /\ Len(left \o <<e>>) = Len(left) + 1
        /\ \A i \in 1..Len(left) + 1 :
              (left \o <<e>>)[i] = IF i <= Len(left) THEN left[i] ELSE <<e>>[i - Len(left)]
        /\ <<e>> \o left \in Seq(Note) /\ Len(<<e>> \o left) = 1 + Len(left)
        /\ \A i \in 1..1 + Len(left) :
              (<<e>> \o left)[i] = IF i <= 1 THEN <<e>>[i] ELSE left[i - 1]
    BY <2>5, <2>6, ConcatProperties
  <2>10. notes \in Seq(Note) /\ \A i \in 1..Len(notes) : notes[i] = e \/ (notes[i] = l /\ away)
    <3>1. Len(left) \in Nat  BY <2>5, LenProperties
    <3>2. ASSUME NEW i \in 1..Len(left) + 1
          PROVE  (left \o <<e>>)[i] = e \/ ((left \o <<e>>)[i] = l /\ away)
      BY <2>6, <2>9, <3>1
    <3>3. ASSUME NEW i \in 1..1 + Len(left)
          PROVE  (<<e>> \o left)[i] = e \/ ((<<e>> \o left)[i] = l /\ away)
      BY <2>6, <2>9, <3>1
    <3> QED  BY <2>9, <3>2, <3>3
  <2>11. ~doubled' => Replays(gc.id, ListOf(gc), notes, ListOf(chat'))
    <3> SUFFICES ASSUME ~doubled' PROVE Replays(gc.id, ListOf(gc), notes, ListOf(chat'))
      OBVIOUS
    <3>1. Replays(gc.id, ListOf(gc), <<e>>, ListOf(chat'))  BY <1>3, <2>3, <2>8, ReplayOne
    <3>2. ListOf(chat') \in List  BY <1>5, ListOfIsList
    <3>3. /\ Replays(gc.id, ListOf(gc), left, ListOf(gc))
          /\ Replays(gc.id, ListOf(chat'), left, ListOf(chat'))
      BY <1>3, <2>7, <3>2
    <3> QED  BY <2>5, <3>1, <3>3, ReplayConcat
  <2> HIDE DEF notes
  <2>12. ~Ends(gc.id, e)  BY <2>4 DEF Ends
  <2> QED  BY <1>6, <2>1, <2>2, <2>4, <2>10, <2>11, <2>12 DEF NoteType
<1> QED  BY <1>7, <1>8, <1>9

(* ------------------------- steps and the agreement ------------------------- *)

\* Nothing is told and nothing heard: the lists stay, or a side goes, and no room becomes
\* joined.
LEMMA AgreeStays ==
  ASSUME AgreeInv, RenamesDiffer', UNCHANGED <<toGui, nextId, doubled>>,
         chat' # None => /\ chat # None /\ chat'.id = chat.id
                         /\ chat'.participants = chat.participants,
         window' # None => /\ window # None /\ window'.id = window.id
                           /\ window'.active = window.active
                           /\ Shown(window') = Shown(window),
         room' # None /\ room'.status = "Connected"
            => room # None /\ room.status = "Connected" /\ link' = link
  PROVE  AgreeInv'
<1>1. IdsInv' /\ SinglesInv'  BY DEF AgreeInv, IdsInv, SinglesInv
<1>2. SameChat' => SameChat /\ ListOf(chat') = ListOf(chat)  BY DEF SameChat, ListOf
<1>3. ListsInv'  BY <1>2, ListsPrimed DEF AgreeInv, ListsInv, SameChat
<1>4. ActiveInv'  BY <1>2, ActivePrimed DEF AgreeInv, ActiveInv, SameChat
<1> QED  BY <1>1, <1>3, <1>4 DEF AgreeInv

\* The core tells the window what it has changed.
LEMMA ListsTold ==
  ASSUME IInv, AgreeInv, UNCHANGED <<window, nextId>>, NEW notes \in Seq(Note),
         toGui' = toGui \o notes,
         \A i \in 1..Len(notes) : notes[i].type \in NoteType => notes[i].id < nextId,
         chat' # None =>
            /\ chat # None /\ chat'.id = chat.id
            /\ ~doubled' => /\ ~doubled /\ \A n \in Nick : chat'.participants[n] <= 1
                            /\ Replays(chat.id, ListOf(chat), notes, ListOf(chat'))
  PROVE  IdsInv' /\ SinglesInv' /\ ListsInv'
<1>1. toGui \in Seq(Note)  BY DEF IInv, TypeOK
<1>2. /\ Len(toGui') = Len(toGui) + Len(notes) /\ Len(toGui) \in Nat /\ Len(notes) \in Nat
      /\ \A i \in 1..Len(toGui) + Len(notes) :
            toGui'[i] = IF i <= Len(toGui) THEN toGui[i] ELSE notes[i - Len(toGui)]
  BY <1>1, ConcatProperties, LenProperties
<1>3. ASSUME NEW i \in 1..Len(toGui'), toGui'[i].type \in NoteType
      PROVE  toGui'[i].id < nextId
  <2>1. CASE i <= Len(toGui)
    <3>1. i \in 1..Len(toGui) /\ toGui'[i] = toGui[i]  BY <1>2, <2>1
    <3> QED  BY <1>3, <3>1 DEF AgreeInv, IdsInv
  <2>2. CASE ~(i <= Len(toGui))
    <3>1. i - Len(toGui) \in 1..Len(notes) /\ toGui'[i] = notes[i - Len(toGui)]
      BY <1>2, <2>2
    <3> QED  BY <1>3, <3>1
  <2> QED  BY <2>1, <2>2
<1>4. IdsInv'  BY <1>3 DEF AgreeInv, IdsInv
<1>5. SinglesInv'  BY DEF SinglesInv
<1>6. ASSUME SameChat', ~doubled'
      PROVE  Replays(window'.id, Shown(window'), toGui', ListOf(chat'))
  <2>1. SameChat /\ ~doubled /\ Replays(chat.id, ListOf(chat), notes, ListOf(chat'))
    BY <1>6 DEF SameChat
  <2>2. Replays(window.id, Shown(window), toGui, ListOf(chat)) /\ window.id = chat.id
    BY <2>1 DEF AgreeInv, ListsInv, SameChat
  <2>3. Replays(window.id, Shown(window), toGui \o notes, ListOf(chat'))
    BY <1>1, <2>1, <2>2, ReplayConcat
  <2> QED  BY <2>3
<1>7. ListsInv'  BY <1>6, ListsPrimed
<1> QED  BY <1>4, <1>5, <1>7

\* The window hears a notification.
LEMMA AgreeHeard ==
  ASSUME IInv, IInv', AgreeInv, toGui # <<>>, toGui' = Tail(toGui),
         UNCHANGED <<account, core, fromServer, doubled>>,
         window' # None =>
            /\ window # None /\ window'.id = window.id
            /\ Shown(window') = Hear(window.id, Shown(window), Head(toGui))
            /\ Begins(window.id, Head(toGui)) => window'.active
            /\ ~Ends(window.id, Head(toGui)) /\ window.active => window'.active
  PROVE  AgreeInv'
<1>1. toGui \in Seq(Note) /\ toGui' \in Seq(Note)  BY DEF IInv, TypeOK
<1>2. Len(toGui) \in Nat \ {0} /\ Len(toGui') = Len(toGui) - 1
      /\ \A i \in 1..Len(toGui') : toGui'[i] = toGui[i + 1]
  BY <1>1, HeadTailProperties, EmptySeq
<1>3. IdsInv'
  <2>1. ASSUME NEW i \in 1..Len(toGui'), toGui'[i].type \in NoteType
        PROVE  toGui'[i].id < nextId
    <3>1. i + 1 \in 1..Len(toGui) /\ toGui'[i] = toGui[i + 1]  BY <1>2
    <3> QED  BY <2>1, <3>1 DEF AgreeInv, IdsInv
  <2> QED  BY <2>1 DEF AgreeInv, IdsInv, core
<1>4. RenamesDiffer' /\ SinglesInv'
  BY DEF AgreeInv, RenamesDiffer, SinglesInv, core
<1>5. SameChat' => SameChat  BY DEF SameChat, core
<1>6. ListsInv'
  <2>1. ASSUME SameChat', ~doubled'
        PROVE  Replays(window'.id, Shown(window'), toGui', ListOf(chat'))
    <3>1. Replays(window.id, Shown(window), toGui, ListOf(chat))
      BY <1>5, <2>1 DEF AgreeInv, ListsInv
    <3>2. Replays(window.id, Hear(window.id, Shown(window), Head(toGui)), Tail(toGui), ListOf(chat))
      BY <1>1, <3>1, ReplayTail
    <3> QED  BY <2>1, <3>2 DEF SameChat, core
  <2> QED  BY <2>1, ListsPrimed
<1>7. ActiveInv'
  <2>1. ASSUME link' \in {"starting", "up"}, SameChat', room' # None, room'.status = "Connected"
        PROVE  WillBeActive(window'.active, window'.id, toGui')
    <3>1. WillBeActive(window.active, window.id, toGui)
      BY <1>5, <2>1 DEF AgreeInv, ActiveInv, core, account
    <3>2. window # None /\ window' # None  BY <1>5, <2>1 DEF SameChat
    <3>3. window.active \in BOOLEAN /\ window'.active \in BOOLEAN
      BY <3>2 DEF IInv, TypeOK, Window
    <3>4. WillBeActive(window'.active, window.id, Tail(toGui))
      BY <1>1, <3>1, <3>2, <3>3, ActiveHeard
    <3> QED  BY <3>2, <3>4
  <2>2. link' = "down" /\ room' # None => room'.status # "Connected"
    BY DEF AgreeInv, ActiveInv, core, account
  <2> QED  BY <2>1, <2>2, ActivePrimed
<1> QED  BY <1>3, <1>4, <1>6, <1>7 DEF AgreeInv

\* The room sends renames that change a nickname, and other presences.
LEMMA RenamesPushed ==
  ASSUME RenamesDiffer, fromServer \in Seq(Presence), NEW presences \in Seq(Presence),
         Push(presences),
         \A i \in 1..Len(presences) :
            presences[i].type = "renamed" => presences[i].nick # presences[i].new
  PROVE  RenamesDiffer'
<1> DEFINE k == Len(fromServer)
<1>1. /\ k \in Nat /\ Len(presences) \in Nat /\ Len(fromServer') = k + Len(presences)
      /\ \A i \in 1..k + Len(presences) :
            fromServer'[i] = IF i <= k THEN fromServer[i] ELSE presences[i - k]
  BY ConcatProperties, LenProperties DEF Push
<1>2. \A i \in 1..k : fromServer[i].type = "renamed" => fromServer[i].nick # fromServer[i].new
  BY DEF RenamesDiffer
<1> HIDE DEF k
<1>3. ASSUME NEW i \in 1..k + Len(presences), fromServer'[i].type = "renamed"
      PROVE  fromServer'[i].nick # fromServer'[i].new
  <2>1. CASE i <= k
    <3>1. i \in 1..k /\ fromServer'[i] = fromServer[i]  BY <1>1, <2>1
    <3> QED  BY <1>2, <1>3, <3>1
  <2>2. CASE ~(i <= k)
    <3>1. i - k \in 1..Len(presences) /\ fromServer'[i] = presences[i - k]  BY <1>1, <2>2
    <3> QED  BY <1>3, <3>1
  <2> QED  BY <2>1, <2>2
<1> QED  BY <1>1, <1>3 DEF RenamesDiffer

LEMMA RenamesPopped ==
  ASSUME RenamesDiffer, fromServer \in Seq(Presence), fromServer # <<>>,
         fromServer' = Tail(fromServer)
  PROVE  RenamesDiffer' /\ (Head(fromServer).type = "renamed"
                              => Head(fromServer).nick # Head(fromServer).new)
<1>1. /\ Len(fromServer) \in Nat \ {0} /\ Len(fromServer') = Len(fromServer) - 1
      /\ Head(fromServer) = fromServer[1]
      /\ \A i \in 1..Len(fromServer') : fromServer'[i] = fromServer[i + 1]
  BY HeadTailProperties, EmptySeq
<1>2. ASSUME NEW i \in 1..Len(fromServer') PROVE i + 1 \in 1..Len(fromServer)
  BY <1>1
<1> QED  BY <1>1, <1>2 DEF RenamesDiffer

\* A presence of a room that is connected, or that connects with it.
LEMMA ppPresenceAgrees == IInv /\ IInv' /\ AgreeInv /\ ppPresence => AgreeInv'
<1> SUFFICES ASSUME IInv, IInv', AgreeInv, ppPresence PROVE AgreeInv'
  OBVIOUS
<1> DEFINE p == Head(fromServer)
<1>1. /\ fromServer # <<>> /\ fromServer' = Tail(fromServer)
      /\ UNCHANGED <<account, server, toCore, gui>>
  BY DEF ppPresence
<1>2. TypeOK /\ fromServer \in Seq(Presence) /\ toGui \in Seq(Note) /\ p \in Presence
  BY <1>1 DEF IInv, TypeOK
<1>3. RenamesDiffer' /\ (p.type = "renamed" => p.nick # p.new)
  BY <1>1, <1>2, RenamesPopped DEF AgreeInv
<1>4. p.nick \in Nick  BY <1>2 DEF Presence
<1>5. /\ chat # None => chat \in Chat /\ chat.id \in Nat /\ chat.id < nextId
      /\ room # None => room.status \in {"Connecting", "Connected", "Closing"}
  BY <1>2 DEF TypeOK, Chat, Room, AgreeInv, IdsInv
<1>6. UNCHANGED <<link, window>>  BY <1>1 DEF account, gui
<1> HIDE DEF p
<1>7. CASE UNCHANGED <<core, toServer, toGui, doubled>>
  BY <1>3, <1>6, <1>7, AgreeStays DEF core
<1>8. ASSUME room # None, chat # None, p.type = "error", client_groupChatError(p.nick),
             UNCHANGED <<chat, nextId, doubled>>, room' \in {room, None},
             room.status \in {"Connecting", "Connected"}
      PROVE  AgreeInv'
  <2> DEFINE e == NoteOf("error", chat.id, p.nick, p.nick)
  <2>1. toGui' = toGui \o <<e>>  BY <1>8 DEF client_groupChatError, Tell
  <2>2. e \in Note  BY <1>4, <1>5, <1>8, NotesAreNotes DEF NoteType
  <2>3. e.id = chat.id /\ e.type = "error"  BY DEF NoteOf
  <2> HIDE DEF e
  <2>4. <<e>> \in Seq(Note) /\ Len(<<e>>) = 1 /\ <<e>>[1] = e  BY <2>2
  <2>5. ListOf(chat) \in List  BY <1>5, <1>8, ListOfIsList
  <2>6. Hear(chat.id, ListOf(chat), e) = ListOf(chat)  BY <2>3 DEF Hear
  <2>7. Replays(chat.id, ListOf(chat), <<e>>, ListOf(chat))  BY <2>2, <2>5, <2>6, ReplayOne
  <2>8. \A i \in 1..Len(<<e>>) : <<e>>[i].type \in NoteType => <<e>>[i].id < nextId
    BY <1>5, <1>8, <2>3, <2>4
  <2>9. ~doubled => \A n \in Nick : chat.participants[n] <= 1
    BY <1>8 DEF AgreeInv, SinglesInv
  <2>10. IdsInv' /\ SinglesInv' /\ ListsInv'
    BY <1>6, <1>8, <2>1, <2>4, <2>7, <2>8, <2>9, ListsTold
  <2>11. ASSUME link' \in {"starting", "up"}, SameChat', room' # None, room'.status = "Connected"
         PROVE  WillBeActive(window'.active, window'.id, toGui')
    <3>1. SameChat /\ room.status = "Connected"  BY <1>6, <1>8, <2>11 DEF SameChat
    <3>2. WillBeActive(window.active, window.id, toGui)
      BY <1>6, <1>8, <2>11, <3>1 DEF AgreeInv, ActiveInv
    <3>3. window.active \in BOOLEAN  BY <1>2, <3>1 DEF TypeOK, Window, SameChat
    <3>4. \A i \in 1..Len(<<e>>) : ~Ends(window.id, <<e>>[i])  BY <2>3, <2>4 DEF Ends
    <3> HIDE DEF e
    <3>5. WillBeActive(window.active, window.id, toGui \o <<e>>)
      BY <1>2, <2>4, <3>2, <3>3, <3>4, ActiveTold
    <3> QED  BY <1>6, <2>1, <3>5
  <2>12. link' = "down" /\ room' # None => room'.status # "Connected"
    BY <1>6, <1>8 DEF AgreeInv, ActiveInv
  <2> QED  BY <1>3, <2>10, <2>11, <2>12, ActivePrimed DEF AgreeInv
<1>9. ASSUME room # None, chat # None, p.type # "error", nextId' = nextId,
             NEW before \in Seq(Note), client_groupChatPresence(chat, before, p, "Connected"),
             \/ room.status = "Connected" /\ before = <<>>
             \/ /\ room.status = "Connecting"
                /\ before = <<NoteOf("joined", chat.id, chat.nick, chat.nick)>>
      PROVE  AgreeInv'
  <2>1. ~doubled => \A n \in Nick : chat.participants[n] <= 1
    BY <1>9 DEF AgreeInv, SinglesInv
  <2>2. PICK notes \in Seq(Note) :
          /\ toGui' = toGui \o (before \o notes)
          /\ \A i \in 1..Len(notes) : notes[i].id = chat.id /\ notes[i].type \in NoteType
          /\ room'.status = "Connected" => \A i \in 1..Len(notes) : ~Ends(chat.id, notes[i])
          /\ ~doubled' => Replays(chat.id, ListOf(chat), notes, ListOf(chat'))
    BY <1>2, <1>3, <1>5, <1>9, <2>1, PresenceTells
  <2>3. chat'.id = chat.id /\ (~doubled' => ~doubled /\ \A n \in Nick : chat'.participants[n] <= 1)
    BY <1>2, <1>3, <1>5, <1>9, <2>1, PresenceTells
  <2> DEFINE e == NoteOf("joined", chat.id, chat.nick, chat.nick)
  <2>4. e \in Note /\ e.id = chat.id /\ e.type = "joined"
    BY <1>5, <1>9, NotesAreNotes DEF NoteType, NoteOf, Chat
  <2> HIDE DEF e
  <2>5. <<e>> \in Seq(Note) /\ Len(<<e>>) = 1 /\ <<e>>[1] = e  BY <2>4
  <2>6. before = <<>> \/ before = <<e>>  BY <1>9 DEF e
  <2>7. Replays(chat.id, ListOf(chat), before, ListOf(chat))
    <3>1. ListOf(chat) \in List  BY <1>5, <1>9, ListOfIsList
    <3>2. Hear(chat.id, ListOf(chat), e) = ListOf(chat)  BY <2>4 DEF Hear
    <3>3. Replays(chat.id, ListOf(chat), <<e>>, ListOf(chat))
      BY <2>4, <3>1, <3>2, ReplayOne
    <3> QED  BY <2>6, <3>1, <3>3, ReplayNone
  <2>8. ~doubled' => Replays(chat.id, ListOf(chat), before \o notes, ListOf(chat'))
    BY <2>2, <2>7, ReplayConcat
  <2>9. /\ before \o notes \in Seq(Note)
        /\ \A i \in 1..Len(before \o notes) : (before \o notes)[i].id = chat.id
    <3>1. /\ before \o notes \in Seq(Note) /\ Len(before) \in Nat /\ Len(notes) \in Nat
          /\ Len(before \o notes) = Len(before) + Len(notes)
          /\ \A i \in 1..Len(before) + Len(notes) :
                (before \o notes)[i] = IF i <= Len(before) THEN before[i]
                                       ELSE notes[i - Len(before)]
      BY ConcatProperties, LenProperties
    <3>2. \A i \in 1..Len(before) : before[i].id = chat.id
      BY <2>4, <2>5, <2>6
    <3>3. ASSUME NEW i \in 1..Len(before) + Len(notes)
          PROVE  (before \o notes)[i].id = chat.id
      <4>1. CASE i <= Len(before)
        <5>1. i \in 1..Len(before)  BY <3>1, <4>1
        <5> QED  BY <3>1, <3>2, <4>1, <5>1
      <4>2. CASE ~(i <= Len(before))
        <5>1. i - Len(before) \in 1..Len(notes)  BY <3>1, <4>2
        <5> QED  BY <2>2, <3>1, <4>2, <5>1
      <4> QED  BY <4>1, <4>2
    <3> QED  BY <3>1, <3>3
  <2> DEFINE all == before \o notes
  <2>10. all \in Seq(Note) /\ toGui' = toGui \o all
         /\ \A i \in 1..Len(all) : all[i].type \in NoteType => all[i].id < nextId
    BY <1>5, <1>9, <2>2, <2>9
  <2>11. ~doubled' => Replays(chat.id, ListOf(chat), all, ListOf(chat'))  BY <2>8
  <2> HIDE DEF all
  <2>12. IdsInv' /\ SinglesInv' /\ ListsInv'
    BY <1>6, <1>9, <2>3, <2>10, <2>11, ListsTold
  <2>13. ASSUME link' \in {"starting", "up"}, SameChat', room' # None, room'.status = "Connected"
         PROVE  WillBeActive(window'.active, window'.id, toGui')
    <3>1. SameChat /\ window.id = chat.id  BY <1>6, <1>9, <2>3, <2>13 DEF SameChat
    <3>2. window.active \in BOOLEAN  BY <1>2, <3>1 DEF TypeOK, Window, SameChat
    <3>3. \A i \in 1..Len(notes) : ~Ends(window.id, notes[i])  BY <2>2, <2>13, <3>1
    <3>4. CASE room.status = "Connected"
      <4>1. WillBeActive(window.active, window.id, toGui)
        BY <1>6, <1>9, <2>13, <3>1, <3>4 DEF AgreeInv, ActiveInv
      <4>2. before \o notes = notes  BY <1>9, <3>4, ConcatEmptySeq
      <4>3. WillBeActive(window.active, window.id, toGui \o notes)
        BY <1>2, <3>2, <3>3, <4>1, ActiveTold
      <4> QED  BY <1>6, <2>2, <4>2, <4>3
    <3>5. CASE room.status = "Connecting"
      <4>1. before = <<e>> /\ Begins(window.id, e)  BY <1>9, <2>4, <3>1, <3>5 DEF Begins, e
      <4>2. WillBeActive(window.active, window.id, toGui \o (<<e>> \o notes))
        BY <1>2, <2>4, <3>2, <3>3, <4>1, ActiveBegins
      <4> QED  BY <1>6, <2>2, <4>1, <4>2
    <3> QED  BY <1>9, <3>4, <3>5
  <2>14. link' # "down"  BY <1>6 DEF ppPresence, Flowing
  <2> QED  BY <1>3, <2>12, <2>13, <2>14, ActivePrimed DEF AgreeInv
<1>10. ASSUME room' = None, chat' = None, UNCHANGED <<nextId, doubled>>,
              Tell(IF chat = None THEN <<>> ELSE <<NoteOf("left", chat.id, p.nick, p.nick)>>)
       PROVE  AgreeInv'
  <2> DEFINE notes == IF chat = None THEN <<>> ELSE <<NoteOf("left", chat.id, p.nick, p.nick)>>
  <2>1. /\ notes \in Seq(Note)
        /\ \A i \in 1..Len(notes) : notes[i].type \in NoteType => notes[i].id < nextId
    <3>1. CASE chat = None
      <4>1. notes = <<>> /\ 1..Len(<<>>) = {}  BY <3>1
      <4> HIDE DEF notes
      <4> QED  BY <4>1
    <3>2. CASE chat # None
      <4> DEFINE e == NoteOf("left", chat.id, p.nick, p.nick)
      <4>1. e \in Note  BY <1>4, <1>5, <3>2, NotesAreNotes DEF NoteType
      <4>2. e.id < nextId /\ notes = <<e>>  BY <1>5, <3>2 DEF NoteOf
      <4> HIDE DEF notes, e
      <4> QED  BY <4>1, <4>2
    <3> QED  BY <3>1, <3>2
  <2>2. toGui' = toGui \o notes  BY <1>10 DEF Tell
  <2> HIDE DEF notes
  <2>3. IdsInv' /\ SinglesInv' /\ ListsInv'  BY <1>6, <1>10, <2>1, <2>2, ListsTold
  <2>4. ActiveInv'  BY <1>10, ActivePrimed
  <2> QED  BY <1>3, <2>3, <2>4 DEF AgreeInv
<1>11. CASE room # None /\ room.status = "Connecting" /\ PresenceConnecting(p, p.nick = room.nick)
  <2>1. chat # None  BY <1>11 DEF IInv, JoinedHasChat
  <2>2. CASE p.type = "error"
    BY <1>8, <1>11, <2>1, <2>2 DEF PresenceConnecting
  <2>3. CASE p.type # "error"
    <3> DEFINE before == <<NoteOf("joined", chat.id, chat.nick, chat.nick)>>
    <3>1. client_groupChatPresence(chat, before, p, "Connected") /\ nextId' = nextId
      BY <1>11, <2>1, <2>3 DEF PresenceConnecting
    <3>2. NoteOf("joined", chat.id, chat.nick, chat.nick) \in Note
      BY <1>5, <2>1, NotesAreNotes DEF Chat, NoteType
    <3>3. before \in Seq(Note)  BY <3>2
    <3>4. before = <<NoteOf("joined", chat.id, chat.nick, chat.nick)>>  OBVIOUS
    <3> HIDE DEF before
    <3> QED  BY <1>9, <1>11, <2>1, <2>3, <3>1, <3>3, <3>4
  <2> QED  BY <2>2, <2>3
<1>12. CASE room # None /\ room.status = "Connected" /\ PresenceConnected(p)
  <2>1. chat # None  BY <1>12 DEF IInv, JoinedHasChat
  <2>2. CASE p.type = "error"
    BY <1>8, <1>12, <2>1, <2>2 DEF PresenceConnected
  <2>3. CASE p.type # "error"
    <3>1. client_groupChatPresence(chat, <<>>, p, "Connected") /\ nextId' = nextId
      BY <1>12, <2>1, <2>3 DEF PresenceConnected
    <3> DEFINE before == <<>>
    <3>2. before \in Seq(Note) /\ before = <<>>  OBVIOUS
    <3>3. client_groupChatPresence(chat, before, p, "Connected")  BY <3>1
    <3> HIDE DEF before
    <3> QED  BY <1>9, <1>12, <2>1, <2>3, <3>1, <3>2, <3>3
  <2> QED  BY <2>2, <2>3
<1>13. CASE room # None /\ room.status = "Closing" /\ PresenceClosing(p, p.nick = room.nick)
  <2>1. CASE UNCHANGED <<room, chat, toGui>>
    BY <1>7, <1>13, <2>1 DEF PresenceClosing, core
  <2>2. CASE ~UNCHANGED <<room, chat, toGui>>
    BY <1>10, <1>13, <2>2 DEF PresenceClosing
  <2> QED  BY <2>1, <2>2
<1> QED  BY <1>5, <1>7, <1>11, <1>12, <1>13 DEF ppPresence, p

\* The core serves a call: a chat is new with its window, or it keeps its list, or goes.
LEMMA CoreServesAgrees == IInv /\ IInv' /\ AgreeInv /\ CoreServes => AgreeInv'
<1> SUFFICES ASSUME IInv, IInv', AgreeInv, CoreServes PROVE AgreeInv'
  OBVIOUS
<1>1. UNCHANGED <<account, fromServer, doubled>> /\ toGui \in Seq(Note)
      /\ UNCHANGED link /\ RenamesDiffer'
  BY DEF CoreServes, groupChatJoin, groupChatRetryJoin, groupChatChangeNick, groupChatEnd,
         Served, account, AgreeInv, RenamesDiffer, IInv, TypeOK
<1>2. CASE groupChatJoin
  <2> DEFINE n == Head(toCore).nick
  <2>1. n \in Nick  BY <1>2, ServedIsCall DEF groupChatJoin, IInv
  <2>2. toGui' = toGui  BY <1>2 DEF groupChatJoin
  <2>3. CASE chat # None \/ ~Joins
    <3>1. UNCHANGED <<core, gui>>
      BY <1>2, <2>3 DEF groupChatJoin, groupChatJoinIris, core
    <3> QED  BY <1>1, <2>2, <3>1, AgreeStays DEF core, gui
  <2>4. CASE chat = None /\ Joins
    <3>1. /\ chat' = NewChat(n) /\ nextId' = nextId + 1
          /\ room' = [nick |-> n, status |-> "Connecting"]
          /\ IF window # None THEN window' = window
             ELSE window' = [id |-> nextId, nick |-> n, lastSet |-> n, active |-> FALSE,
                             participants |-> Nobody, byNick |-> {}]
      BY <1>2, <2>4 DEF groupChatJoin, groupChatJoinIris
    <3>2. nextId \in Nat /\ chat' \in Chat /\ chat'.id = nextId /\ chat'.participants = Nobody
      BY <2>1, <3>1, NewChatIsChat DEF IInv, TypeOK, NewChat
    <3>3. \A i \in 1..Len(toGui) : toGui[i].type \in NoteType =>
                                      toGui[i].id \in Nat /\ toGui[i].id < nextId
      <4>1. ASSUME NEW i \in 1..Len(toGui), toGui[i].type \in NoteType
            PROVE  toGui[i].id \in Nat
        <5>1. toGui[i] \in Note  BY <1>1
        <5> QED  BY <4>1, <5>1 DEF Note, NoteType
      <4> QED  BY <4>1 DEF AgreeInv, IdsInv
    <3>4. IdsInv'
      <4>1. \A i \in 1..Len(toGui') : toGui'[i].type \in NoteType => toGui'[i].id < nextId'
        BY <2>2, <3>1, <3>2, <3>3
      <4>2. window' # None => window'.id \in Nat
        BY DEF IInv, TypeOK, Window
      <4>3. window' # None => window'.id < nextId'
        BY <3>1, <3>2, <4>2 DEF AgreeInv, IdsInv
      <4> QED  BY <3>1, <3>2, <4>1, <4>3 DEF IdsInv
    <3>5. SinglesInv'  BY <3>2 DEF SinglesInv, Nobody
    <3>6. SameChat' => window'.id = nextId /\ Shown(window') = ListOf(chat')
      <4>1. CASE window = None
        <5>1. Has(Nobody) = {}  BY DEF Has, Nobody
        <5> QED  BY <3>1, <3>2, <4>1, <5>1 DEF Shown, ListOf
      <4>2. CASE window # None
        <5>1. window.id \in Nat /\ window.id < nextId /\ window' = window
          BY <3>1, <4>2 DEF IInv, TypeOK, Window, AgreeInv, IdsInv
        <5>2. chat'.id # window'.id  BY <3>2, <5>1
        <5> QED  BY <5>2 DEF SameChat
      <4> QED  BY <4>1, <4>2
    <3>7. ListsInv'
      <4>1. ListOf(chat') \in List  BY <3>2, ListOfIsList
      <4>2. \A i \in 1..Len(toGui) : toGui[i].id # nextId \/ toGui[i].type \notin NoteType
        BY <3>2, <3>3
      <4>3. Replays(nextId, ListOf(chat'), toGui, ListOf(chat'))
        BY <1>1, <4>1, <4>2, ReplayOthers
      <4> QED  BY <2>2, <3>6, <4>3, ListsPrimed
    <3>8. ActiveInv'  BY <3>1, ActivePrimed
    <3> QED  BY <1>1, <3>4, <3>5, <3>7, <3>8 DEF AgreeInv
  <2> QED  BY <2>3, <2>4
<1>3. CASE groupChatRetryJoin
  <2>1. UNCHANGED <<toGui, gui, nextId>>
    BY <1>3 DEF groupChatRetryJoin, core
  <2>2. chat' # None => chat # None /\ chat'.id = chat.id
                        /\ chat'.participants = chat.participants
    <3>1. chat # None => chat \in Chat  BY DEF IInv, TypeOK
    <3> QED  BY <1>3, <3>1 DEF groupChatRetryJoin, Chat, core
  <2>3. room' # None /\ room'.status = "Connected" => room' = room
    BY <1>3 DEF groupChatRetryJoin, groupChatJoinIris, core
  <2> QED  BY <1>1, <2>1, <2>2, <2>3, AgreeStays DEF gui
<1>4. CASE groupChatChangeNick
  <2>1. UNCHANGED <<chat, toGui, gui, nextId>>
    BY <1>4 DEF groupChatChangeNick
  <2>2. room' # None /\ room'.status = "Connected" => room # None /\ room.status = "Connected"
    <3>1. room # None => room \in Room  BY DEF IInv, TypeOK
    <3> QED  BY <1>4, <3>1 DEF groupChatChangeNick, Room
  <2> QED  BY <1>1, <2>1, <2>2, AgreeStays DEF gui
<1>5. CASE groupChatEnd
  <2> DEFINE c == Head(toCore)
  <2>1. c.id \in Nat /\ c.nick \in Nick  BY <1>5, ServedIsCall DEF groupChatEnd, IInv
  <2>2. UNCHANGED <<nextId, gui>>  BY <1>5 DEF groupChatEnd
  <2>3. CASE chat = None \/ chat.id # c.id
    <3>1. UNCHANGED <<room, chat, toGui>>  BY <1>5, <2>3 DEF groupChatEnd
    <3> QED  BY <1>1, <2>2, <3>1, AgreeStays DEF gui
  <2>4. CASE chat # None /\ chat.id = c.id
    <3> DEFINE e == NoteOf("left", c.id, c.nick, c.nick)
    <3>1. groupChatLeaveIris /\ chat' = None /\ toGui' = toGui \o <<e>>
      BY <1>5, <2>4 DEF groupChatEnd, Tell
    <3>2. e \in Note /\ e.id = c.id  BY <2>1, NotesAreNotes DEF NoteType, NoteOf
    <3>3. c.id < nextId  BY <2>4 DEF AgreeInv, IdsInv
    <3> HIDE DEF e, c
    <3>4. <<e>> \in Seq(Note) /\ \A i \in 1..Len(<<e>>) : <<e>>[i].type \in NoteType => <<e>>[i].id < nextId
      BY <3>2, <3>3
    <3>5. IdsInv' /\ SinglesInv' /\ ListsInv'
      BY <2>2, <3>1, <3>4, ListsTold DEF gui
    <3>6. room' # None => room'.status = "Closing"
      BY <3>1, LeaveIsTyped DEF IInv, TypeOK
    <3>7. ActiveInv'  BY <3>1, <3>6, ActivePrimed DEF SameChat
    <3> QED  BY <1>1, <3>5, <3>7 DEF AgreeInv
  <2> QED  BY <2>3, <2>4
<1> QED  BY <1>2, <1>3, <1>4, <1>5 DEF CoreServes

\* The account tells of its link; what it tells is of no chat.
LEMMA AccountAgrees == IInv /\ IInv' /\ AgreeInv /\ Account => AgreeInv'
<1> SUFFICES ASSUME IInv, IInv', AgreeInv, Account PROVE AgreeInv'
  OBVIOUS
<1>1. ASSUME NEW type \in {"online", "offline"}, TellLink(type),
             UNCHANGED <<chat, nextId, gui, doubled>>
      PROVE  /\ IdsInv' /\ SinglesInv' /\ ListsInv'
             /\ link' \in {"starting", "up"} /\ link \in {"starting", "up"} /\ type = "online"
                /\ room' = room => ActiveInv'
  <2> DEFINE e == NoteOf(type, 0, None, None)
  <2>1. toGui' = toGui \o <<e>>  BY <1>1 DEF TellLink, Tell
  <2>2. e \in Note /\ e.type = type  BY DEF Note, NoteOf
  <2> HIDE DEF e
  <2>3. <<e>> \in Seq(Note) /\ Len(<<e>>) = 1 /\ <<e>>[1] = e  BY <2>2
  <2>4. \A i \in 1..Len(<<e>>) : <<e>>[i].type \notin NoteType
    BY <2>2, <2>3 DEF NoteType
  <2>5. chat # None => Replays(chat.id, ListOf(chat), <<e>>, ListOf(chat))
    <3>1. chat # None => ListOf(chat) \in List  BY ListOfIsList DEF IInv, TypeOK
    <3> QED  BY <2>3, <2>4, <3>1, ReplayOthers
  <2>6. chat # None /\ ~doubled => \A n \in Nick : chat.participants[n] <= 1
    BY DEF AgreeInv, SinglesInv
  <2>7. UNCHANGED <<chat, nextId, window>>  BY <1>1 DEF gui
  <2>8. IdsInv' /\ SinglesInv' /\ ListsInv'
    BY <1>1, <2>1, <2>3, <2>4, <2>5, <2>6, <2>7, ListsTold
  <2>9. ASSUME link' \in {"starting", "up"}, link \in {"starting", "up"}, type = "online",
               room' = room, SameChat', room' # None, room'.status = "Connected"
        PROVE  WillBeActive(window'.active, window'.id, toGui')
    <3>1. SameChat  BY <2>7, <2>9 DEF SameChat
    <3>2. WillBeActive(window.active, window.id, toGui) /\ window.active \in BOOLEAN
      BY <2>7, <2>9, <3>1 DEF AgreeInv, ActiveInv, SameChat, IInv, TypeOK, Window
    <3>3. \A i \in 1..Len(<<e>>) : ~Ends(window.id, <<e>>[i])
      BY <2>2, <2>3, <2>9 DEF Ends
    <3>4. toGui \in Seq(Note)  BY DEF IInv, TypeOK
    <3> QED  BY <2>1, <2>3, <2>7, <3>2, <3>3, <3>4, ActiveTold
  <2> QED  BY <2>8, <2>9, ActivePrimed
<1>2. CASE GoesOffline
  <2>1. /\ TellLink("offline") /\ UNCHANGED <<core, gui, doubled, fromServer>>
        /\ link' = "closing"
    BY <1>2 DEF GoesOffline
  <2>2. ActiveInv'  BY <2>1, ActivePrimed
  <2>3. RenamesDiffer'  BY <2>1 DEF AgreeInv, RenamesDiffer
  <2> QED  BY <1>1, <2>1, <2>2, <2>3 DEF AgreeInv, core
<1>3. CASE StreamEnds
  <2>1. /\ TellLink("offline") /\ UNCHANGED <<chat, nextId, gui, doubled>>
        /\ link' = "dead" /\ fromServer' = <<>>
    BY <1>3 DEF StreamEnds, StreamGone
  <2>2. ActiveInv'  BY <2>1, ActivePrimed
  <2>3. RenamesDiffer'  BY <2>1 DEF RenamesDiffer
  <2> QED  BY <1>1, <2>1, <2>2, <2>3 DEF AgreeInv
<1>4. CASE cleanup
  <2>1. /\ UNCHANGED <<chat, nextId, toGui, gui, doubled>> /\ room' = None
        /\ fromServer' = <<>>
    BY <1>4 DEF cleanup, StreamGone
  <2>2. RenamesDiffer'  BY <2>1 DEF RenamesDiffer
  <2> QED  BY <2>1, <2>2, AgreeStays DEF gui
<1>5. CASE Starts
  <2>1. UNCHANGED <<core, toGui, gui, doubled, fromServer>> /\ link = "down"
    BY <1>5 DEF Starts
  <2>2. room # None => room.status # "Connected"  BY <2>1 DEF AgreeInv, ActiveInv
  <2>3. RenamesDiffer'  BY <2>1 DEF AgreeInv, RenamesDiffer
  <2> QED  BY <2>1, <2>2, <2>3, AgreeStays DEF core, gui
<1>6. CASE LogsIn
  <2>1. /\ TellLink("online") /\ UNCHANGED <<core, gui, doubled, fromServer>>
        /\ link = "starting" /\ link' = "up"
    BY <1>6 DEF LogsIn
  <2>2. RenamesDiffer'  BY <2>1 DEF AgreeInv, RenamesDiffer
  <2> QED  BY <1>1, <2>1, <2>2 DEF AgreeInv, core
<1> QED  BY <1>2, <1>3, <1>4, <1>5, <1>6 DEF Account

\* What the room sends renames only what changes.
LEMMA ServerAgrees ==
  ASSUME GroupChatsAssumption, IInv, AgreeInv, ServerAnswers \/ RoomChanges
  PROVE  AgreeInv'
<1>1. UNCHANGED <<account, core, toGui, gui, doubled>>
  BY DEF ServerAnswers, RoomChanges
<1> SUFFICES RenamesDiffer'
  BY <1>1, AgreeStays DEF account, core, gui
<1>2. /\ RenamesDiffer /\ fromServer \in Seq(Presence) /\ others \in SUBSET Nick
      /\ toServer \in Seq(Stanza) /\ seat \in Nick \cup {None}
  BY DEF IInv, TypeOK, AgreeInv
<1>3. ASSUME NEW p \in Presence, p.type = "renamed" => p.nick # p.new, Push(<<p>>)
      PROVE  RenamesDiffer'
  <2>1. <<p>> \in Seq(Presence) /\ Len(<<p>>) = 1 /\ <<p>>[1] = p  BY <1>3
  <2>2. \A i \in 1..Len(<<p>>) : <<p>>[i].type = "renamed" => <<p>>[i].nick # <<p>>[i].new
    BY <1>3, <2>1
  <2> QED  BY <1>2, <1>3, <2>1, <2>2, RenamesPushed
<1>4. ASSUME NEW type \in {"available", "left", "kicked", "destroyed", "error"}, NEW n \in Nick,
             Push(<<PresenceOf(type, n)>>)
      PROVE  RenamesDiffer'
  <2>1. PresenceOf(type, n) \in Presence /\ PresenceOf(type, n).type = type
    BY PresencesArePresences DEF PresenceOf
  <2> QED  BY <1>3, <1>4, <2>1
<1>5. ASSUME NEW n \in Nick, NEW m \in Nick, n # m,
             NEW presences \in Seq(Presence), Push(presences), Len(presences) = 2,
             presences[1] = [type |-> "renamed", nick |-> n, new |-> m],
             presences[2] = PresenceOf("available", m)
      PROVE  RenamesDiffer'
  <2>1. \A i \in 1..Len(presences) :
          presences[i].type = "renamed" => presences[i].nick # presences[i].new
    BY <1>5 DEF PresenceOf
  <2> QED  BY <1>2, <1>5, <2>1, RenamesPushed
<1>6. ASSUME fromServer' = fromServer PROVE RenamesDiffer'
  BY <1>2, <1>6 DEF RenamesDiffer
<1>7. CASE ServerAnswers
  <2> DEFINE s == Head(toServer)
  <2>1. s \in Stanza /\ s.nick \in Nick
    <3>1. s \in Stanza  BY <1>2, <1>7 DEF ServerAnswers
    <3> QED  BY <3>1 DEF Stanza
  <2>2. CASE s.type = "leave"
    <3>1. Push(IF seat = None THEN <<>> ELSE <<PresenceOf("left", seat)>>)
      BY <1>7, <2>2 DEF ServerAnswers
    <3>2. CASE seat = None
      <4>1. fromServer' = fromServer  BY <1>2, <3>1, <3>2, ConcatEmptySeq DEF Push
      <4> QED  BY <1>6, <4>1
    <3>3. CASE seat # None  BY <1>2, <1>4, <3>1, <3>3
    <3> QED  BY <3>2, <3>3
  <2>3. CASE s.type # "leave" /\ seat = None
    <3>1. Enters(s.nick)  BY <1>7, <2>3 DEF ServerAnswers
    <3>2. CASE Push(<<PresenceOf("error", s.nick)>>)  BY <1>4, <2>1, <3>2
    <3>3. ASSUME NEW presences \in Welcomes(s.nick), Push(presences) PROVE RenamesDiffer'
      <4>1. presences \in Seq(Presence)  BY <1>2, <2>1, WelcomesArePresences
      <4>2. PICK o \in Orders(others) :
              presences = [i \in 1..Cardinality(others) + 1 |->
                  PresenceOf("available", IF i > Cardinality(others) THEN s.nick ELSE o[i])]
        BY <3>3 DEF Welcomes
      <4>3. \A i \in 1..Len(presences) : presences[i].type # "renamed"
        <5>1. Cardinality(others) + 1 \in Nat
          BY <1>2, FS_Subset, FS_CardinalityType DEF GroupChatsAssumption
        <5>2. Len(presences) = Cardinality(others) + 1  BY <4>2, <5>1
        <5>3. \A i \in 1..Cardinality(others) + 1 : presences[i].type = "available"
          BY <4>2 DEF PresenceOf
        <5> QED  BY <5>2, <5>3
      <4> QED  BY <1>2, <3>3, <4>1, <4>3, RenamesPushed
    <3> QED  BY <3>1, <3>2, <3>3 DEF Enters
  <2>4. CASE s.type # "leave" /\ seat # None
    <3>1. RenamesUs(s.nick)  BY <1>7, <2>4 DEF ServerAnswers
    <3>2. CASE s.nick \in others  BY <1>4, <2>1, <3>1, <3>2 DEF RenamesUs
    <3>3. CASE s.nick \notin others /\ s.nick = seat
      <4>1. Push(<<>> \o <<PresenceOf("available", s.nick)>>)  BY <3>1, <3>3 DEF RenamesUs
      <4>2. <<>> \o <<PresenceOf("available", s.nick)>> = <<PresenceOf("available", s.nick)>>
        OBVIOUS
      <4>3. Push(<<PresenceOf("available", s.nick)>>)  BY <4>1, <4>2
      <4> QED  BY <1>4, <2>1, <4>3
    <3>4. CASE s.nick \notin others /\ s.nick # seat
      <4> DEFINE p == [type |-> "renamed", nick |-> seat, new |-> s.nick]
                 q == PresenceOf("available", s.nick)
                 first == IF s.nick = seat THEN <<>> ELSE <<p>>
      <4>1. Push(first \o <<q>>)  BY <3>1, <3>4 DEF RenamesUs
      <4>2. first = <<p>>  BY <3>4
      <4>3. p \in Presence /\ q \in Presence
        BY <1>2, <2>1, <2>4, PresencesArePresences DEF Presence
      <4> HIDE DEF first, p, q
      <4>4. /\ <<p>> \in Seq(Presence) /\ <<q>> \in Seq(Presence)
            /\ Len(<<p>>) = 1 /\ <<p>>[1] = p /\ Len(<<q>>) = 1 /\ <<q>>[1] = q
        BY <4>3
      <4>5. /\ <<p>> \o <<q>> \in Seq(Presence) /\ Len(<<p>> \o <<q>>) = 2
            /\ (<<p>> \o <<q>>)[1] = p /\ (<<p>> \o <<q>>)[2] = q
        BY <4>4, ConcatProperties
      <4>6. Push(<<p>> \o <<q>>)  BY <4>1, <4>2
      <4> QED  BY <1>2, <1>5, <2>1, <2>4, <3>4, <4>5, <4>6 DEF p, q
    <3> QED  BY <3>2, <3>3, <3>4
  <2> QED  BY <2>2, <2>3, <2>4
<1>8. CASE RoomChanges
  <2>1. ASSUME NEW n \in Nick, OtherEnters(n) PROVE RenamesDiffer'
    <3>1. Hears(<<PresenceOf("available", n)>>)  BY <2>1 DEF OtherEnters
    <3> QED  BY <1>4, <1>6, <3>1 DEF Hears
  <2>2. ASSUME NEW n \in Nick, OtherGoes(n) PROVE RenamesDiffer'
    <3>1. PICK type \in {"left", "kicked"} : Hears(<<PresenceOf(type, n)>>)
      BY <2>2 DEF OtherGoes
    <3> QED  BY <1>4, <1>6, <3>1 DEF Hears
  <2>3. ASSUME NEW n \in Nick, NEW m \in Nick, OtherRenames(n, m) PROVE RenamesDiffer'
    <3> DEFINE p == [type |-> "renamed", nick |-> n, new |-> m]
               q == PresenceOf("available", m)
    <3>1. n # m /\ Hears(<<p, q>>)  BY <2>3 DEF OtherRenames
    <3>2. p \in Presence /\ q \in Presence  BY PresencesArePresences DEF Presence
    <3> HIDE DEF p, q
    <3>3. <<p, q>> \in Seq(Presence) /\ Len(<<p, q>>) = 2 /\ <<p, q>>[1] = p /\ <<p, q>>[2] = q
      BY <3>2
    <3> QED  BY <1>5, <1>6, <3>1, <3>3 DEF Hears, p, q
  <2>4. ASSUME WeAreRemoved PROVE RenamesDiffer'
    <3>1. /\ seat \in Nick
          /\ \E type \in {"left", "kicked", "destroyed"} : Hears(<<PresenceOf(type, seat)>>)
      BY <1>2, <2>4 DEF WeAreRemoved
    <3> QED  BY <1>4, <1>6, <3>1 DEF Hears
  <2> QED  BY <1>8, <2>1, <2>2, <2>3, <2>4 DEF RoomChanges
<1> QED  BY <1>7, <1>8

\* The user's acts change a nickname of the window, or close it.
LEMMA UserAgrees == IInv /\ AgreeInv /\ User => AgreeInv'
<1> SUFFICES ASSUME IInv, AgreeInv, User PROVE AgreeInv'
  OBVIOUS
<1>1. UNCHANGED <<account, core, fromServer, toGui, doubled>>
  BY DEF User, StartGroupChat, changeNicknameOKClicked, alternateNicknameOKClicked,
         rejoinChatRoom, changeNickname, passwordPromptOKClicked, endGroupChat, UserActs
<1>2. RenamesDiffer'  BY <1>1 DEF AgreeInv, RenamesDiffer
<1>3. window # None => window \in Window  BY DEF IInv, TypeOK
<1>4. window' # None => window # None /\ window'.id = window.id
                        /\ window'.active = window.active /\ Shown(window') = Shown(window)
  <2>1. SheetsHaveWindow /\ ("nickname" \in sheets \/ "prompt" \in sheets => window # None)
    BY DEF IInv, SheetsHaveWindow
  <2>2. ASSUME NEW n, RetryJoin(n), window # None
        PROVE  window'.id = window.id /\ window'.active = window.active
               /\ Shown(window') = Shown(window)
    BY <1>3, <2>2 DEF RetryJoin, Window, Shown
  <2>3. ASSUME NEW n, SetNickname(n), window # None
        PROVE  window'.id = window.id /\ window'.active = window.active
               /\ Shown(window') = Shown(window)
    BY <1>3, <2>3 DEF SetNickname, Window, Shown
  <2>4. ASSUME NEW n \in Nick, StartGroupChat(n) PROVE window' = window
    BY <2>4 DEF StartGroupChat
  <2>5. CASE changeNickname \/ endGroupChat
    BY <2>5 DEF changeNickname, endGroupChat
  <2>6. ASSUME NEW n \in Nick, changeNicknameOKClicked(n)
        PROVE  window # None /\ SetNickname(n)
    BY <2>1, <2>6 DEF changeNicknameOKClicked
  <2>7. ASSUME NEW n \in Nick, alternateNicknameOKClicked(n)
        PROVE  window # None /\ (SetNickname(n) \/ RetryJoin(n))
    BY <2>1, <2>7 DEF alternateNicknameOKClicked
  <2>8. CASE rejoinChatRoom  BY <2>2, <2>8 DEF rejoinChatRoom
  <2>9. CASE passwordPromptOKClicked  BY <2>1, <2>2, <2>9 DEF passwordPromptOKClicked
  <2> QED  BY <2>2, <2>3, <2>4, <2>5, <2>6, <2>7, <2>8, <2>9 DEF User
<1> QED  BY <1>1, <1>2, <1>4, AgreeStays DEF account, core

\* The window hears: its list changes as a notification says, and it is active from the
\* notification that it is joined to one that it is left or offline.
LEMMA GuiAgrees == IInv /\ IInv' /\ AgreeInv /\ GuiHandlesNext => AgreeInv'
<1> SUFFICES ASSUME IInv, IInv', AgreeInv, GuiHandlesNext PROVE AgreeInv'
  OBVIOUS
<1> DEFINE e == Head(toGui)
<1>1. toGui # <<>> /\ toGui' = Tail(toGui) /\ UNCHANGED <<account, core, fromServer, doubled>>
  BY DEF GuiHandlesNext, groupChatJoined, groupChatLeft, groupChatContactJoined,
         groupChatContactLeft, groupChatContactNicknameChanged, groupChatError,
         accountOffline, accountOnline, GuiHandles
<1>2. window # None => window \in Window  BY DEF IInv, TypeOK
<1>3. e \in Note /\ (e.type \notin NoteType => e.id = 0)
  <2>1. e \in Note  BY <1>1 DEF IInv, TypeOK
  <2> QED  BY <2>1 DEF Note, NoteType
<1> SUFFICES ASSUME window' # None
             PROVE  /\ window # None /\ window'.id = window.id
                    /\ Shown(window') = Hear(window.id, Shown(window), e)
                    /\ Begins(window.id, e) => window'.active
                    /\ ~Ends(window.id, e) /\ window.active => window'.active
  BY <1>1, AgreeHeard
<1> USE DEF Hear, Begins, Ends, Shown, GuiHandles, ForWindow, Window
<1>4. CASE groupChatJoined
  <2>1. e.type = "joined" /\ window' = IF window # None /\ window.id = e.id
          THEN [window EXCEPT !.active = TRUE, !.nick = e.nick] ELSE window
    BY <1>4 DEF groupChatJoined
  <2> HIDE DEF e
  <2> QED  BY <1>2, <2>1
<1>5. CASE groupChatLeft
  <2>1. e.type = "left" /\ window' = IF window # None /\ window.id = e.id
          THEN [window EXCEPT !.active = FALSE] ELSE window
    BY <1>5 DEF groupChatLeft
  <2> HIDE DEF e
  <2> QED  BY <1>2, <2>1
<1>6. CASE groupChatContactJoined
  <2>1. e.type = "contactJoined" /\ window' = IF window # None /\ window.id = e.id
          THEN [window EXCEPT !.participants = More(@, e.nick), !.byNick = @ \cup {e.nick}]
          ELSE window
    BY <1>6 DEF groupChatContactJoined
  <2> HIDE DEF e
  <2> QED  BY <1>2, <2>1
<1>7. CASE groupChatContactLeft
  <2>1. e.type = "contactLeft"
        /\ window' = IF window # None /\ window.id = e.id /\ e.nick \in window.byNick
          THEN [window EXCEPT !.participants = Less(@, e.nick), !.byNick = @ \ {e.nick}]
          ELSE window
    BY <1>7 DEF groupChatContactLeft
  <2> HIDE DEF e
  <2> QED  BY <1>2, <2>1
<1>8. CASE groupChatContactNicknameChanged
  <2>1. e.type = "contactRenamed"
        /\ window' = IF window # None /\ window.id = e.id /\ e.nick \in window.byNick
          THEN [window EXCEPT !.participants = More(Less(@, e.nick), e.new),
                              !.byNick = (@ \ {e.nick}) \cup {e.new},
                              !.nick = IF @ = e.nick THEN e.new ELSE @]
          ELSE window
    BY <1>8 DEF groupChatContactNicknameChanged
  <2> HIDE DEF e
  <2> QED  BY <1>2, <2>1
<1>9. CASE groupChatError
  <2>1. e.type = "error" /\ window' = window  BY <1>9 DEF groupChatError
  <2> HIDE DEF e
  <2> QED  BY <1>2, <2>1
<1>10. CASE accountOffline
  <2>1. e.type = "offline" /\ window' = IF online /\ window # None
          THEN [window EXCEPT !.active = FALSE] ELSE window
    BY <1>10 DEF accountOffline
  <2> HIDE DEF e
  <2> QED  BY <1>2, <2>1
<1>11. CASE accountOnline
  <2>1. e.type = "online"  BY <1>11 DEF accountOnline
  <2>2. \/ window' = window
        \/ window # None /\ \E n : window' = [window EXCEPT !.nick = n, !.lastSet = n]
    BY <1>11 DEF accountOnline, RetryJoin
  <2> HIDE DEF e
  <2> QED  BY <1>2, <2>1, <2>2
<1> QED  BY <1>4, <1>5, <1>6, <1>7, <1>8, <1>9, <1>10, <1>11 DEF GuiHandlesNext

LEMMA InitAgrees == Init => AgreeInv
<1> SUFFICES ASSUME Init PROVE AgreeInv
  OBVIOUS
<1>1. chat = None /\ window = None /\ room = None /\ toGui = <<>> /\ fromServer = <<>>
  BY DEF Init
<1>2. IdsInv /\ RenamesDiffer  BY <1>1 DEF IdsInv, RenamesDiffer
<1>3. SinglesInv /\ ListsInv /\ ActiveInv
  BY <1>1 DEF SinglesInv, ListsInv, ActiveInv, SameChat
<1> QED  BY <1>2, <1>3 DEF AgreeInv

LEMMA NextAgrees == IInv /\ IInv' /\ AgreeInv /\ [Next]_vars => AgreeInv'
<1> SUFFICES ASSUME IInv, IInv', AgreeInv, [Next]_vars PROVE AgreeInv'
  OBVIOUS
<1>1. CASE ppPresence  BY <1>1, ppPresenceAgrees
<1>2. CASE CoreServes  BY <1>2, CoreServesAgrees
<1>3. CASE Account  BY <1>3, AccountAgrees
<1>4. CASE ServerAnswers \/ RoomChanges  BY <1>4, ServerAgrees, GroupChatsAssumption
<1>5. CASE GuiHandlesNext  BY <1>5, GuiAgrees
<1>6. CASE User  BY <1>6, UserAgrees
<1>7. CASE UNCHANGED vars
  <2>1. UNCHANGED <<account, core, fromServer, toGui, window, doubled>>
    BY <1>7 DEF vars, gui
  <2>2. RenamesDiffer'  BY <2>1 DEF AgreeInv, RenamesDiffer
  <2> QED  BY <2>1, <2>2, AgreeStays DEF account, core
<1> QED  BY <1>1, <1>2, <1>3, <1>4, <1>5, <1>6, <1>7 DEF Next

\* What the window will list when it has heard all is what the core lists, and a room that
\* is joined will show as active.
THEOREM Agreement == Spec => [](IInv /\ AgreeInv)
<1>1. Init => IInv /\ AgreeInv  BY InitInv, InitAgrees
<1>2. IInv /\ AgreeInv /\ [Next]_vars => (IInv /\ AgreeInv)'
  BY NextInv, NextAgrees
<1> QED  BY <1>1, <1>2, PTL DEF Spec

\* With nothing on its way the window lists who is in the core's list (LPGroupChat.m and
\* the GroupChat of lfp_api.cpp), as long as no two have had one nickname.
THEOREM ListsAgreeHolds == Spec => []ListsAgree
<1>1. IInv /\ AgreeInv => ListsAgree
  <2> SUFFICES ASSUME AgreeInv, Quiet, SameChat, ~doubled
               PROVE  /\ window.participants = chat.participants
                      /\ window.byNick = {n \in Nick : chat.participants[n] > 0}
    BY DEF ListsAgree
  <2>1. Replays(window.id, Shown(window), <<>>, ListOf(chat))
    BY DEF AgreeInv, ListsInv, Quiet
  <2>2. Shown(window) = ListOf(chat)  BY <2>1, ReplayQuiet
  <2> QED  BY <2>2 DEF Shown, ListOf, Has
<1> QED  BY <1>1, Agreement, PTL

\* With nothing on its way, a room to which Iris is connected shows as active.
THEOREM ConnectedIsActiveHolds == Spec => []ConnectedIsActive
<1>1. IInv /\ AgreeInv => ConnectedIsActive
  <2> SUFFICES ASSUME AgreeInv, Quiet, SameChat, link = "up", room # None,
                      room.status = "Connected"
               PROVE  window.active
    BY DEF ConnectedIsActive
  <2>1. WillBeActive(window.active, window.id, <<>>)
    BY DEF AgreeInv, ActiveInv, Quiet
  <2>2. 1..Len(<<>>) = {}  OBVIOUS
  <2> QED  BY <2>1, <2>2 DEF WillBeActive
<1> QED  BY <1>1, Agreement, PTL
==============================================================================
