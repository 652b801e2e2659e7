------------------------------ MODULE GroupChats ------------------------------
(* One room of one account: what Iris's Client keeps of it (groupChatList), the
   core's GroupChat, the user interface's LPGroupChat, and the room on the server.

   Four parties change it and each hears of the others late: the presences to and from
   the room wait in two queues, the calls and notifications of the bridge in two more.
   groupChatJoin is the one call that blocks the main thread; since that thread does
   nothing until the answer, what it does with the answer (p_addGroupChat) is part of
   the call's action.  A participant is known by its nickname, but two objects may come
   to have one: the lists are bags, and byNick says which nicknames the dictionary has.

   Left out: roles, statuses and topics of participants, messages, invitations, the
   room's configuration; passwords, but that a room may refuse any join; errors of
   messages.  A behaviour is not followed once p_addGroupChat has failed its assertion.
   The definitions named ...Mutant are faulty variants of the definition that follows
   them, used to see that a property notices the fault.                              *)
EXTENDS Integers, Sequences, FiniteSets

CONSTANTS Nick,        \* nicknames
          None,
          MaxChats,    \* bound: IDs of group chats
          MaxStreams,  \* bound: streams of the account
          MaxBusy,     \* bound: nothing new happens while the queues hold this many
          MaxSame      \* bound: participants of one nickname

Bag == [Nick -> Nat]
Room == [nick : Nick, status : {"Connecting", "Connected", "Closing"}]
Chat == [id : Nat, nick : Nick, participants : Bag]
Window == [id : Nat, nick : Nick, lastSet : Nick, active : BOOLEAN,
           participants : Bag, byNick : SUBSET Nick]
Stanza == [type : {"join", "nick", "leave"}, nick : Nick]
Presence == [type : {"available", "left", "kicked", "destroyed", "renamed", "error"},
             nick : Nick, new : Nick]
Call == [type : {"join", "retry", "nick", "end"}, id : Nat, nick : Nick]
Note == [type : {"joined", "left", "contactJoined", "contactLeft", "contactRenamed",
                 "error"}, id : Nat, nick : Nick, new : Nick]
        \cup [type : {"online", "offline"}, id : {0}, nick : {None}, new : {None}]

ASSUME GroupChatsAssumption ==
    /\ IsFiniteSet(Nick)
    /\ None \notin Nick /\ None \notin Room /\ None \notin Chat /\ None \notin Window
    /\ MaxChats \in Nat /\ MaxStreams \in Nat /\ MaxBusy \in Nat /\ MaxSame \in Nat

VARIABLES link,        \* of the account: down (or not authenticated), starting (the session
                       \* has begun, the roster has not come), up, closing, dead
          streams,     \* streams begun so far
          room,        \* Iris: the room's member of groupChatList, or None
          chat,        \* core: the GroupChat, or None
          nextId,      \* core: id_groupChat
          toServer, fromServer,
          seat,        \* server: our nickname in the room, or None
          others,      \* server: the others' nicknames
          toCore, toGui,
          online,      \* user interface: the account's isOnline
          window,      \* user interface: the LPGroupChat, or None
          sheets,      \* user interface: the sheets that are open: the change of nickname,
                       \* the prompt after an error
          doubled,     \* history: two participants have had one nickname
          asserted     \* p_addGroupChat has failed its assertion

account == <<link, streams>>
core == <<room, chat, nextId>>
server == <<seat, others>>
gui == <<online, window, sheets, asserted>>
vars == <<account, core, toServer, fromServer, server, toCore, toGui, gui, doubled>>

\* The stream carries presences; it still does between the call that goes offline and
\* the cleanup.
Flowing == link \in {"starting", "up", "closing"}

\* The user, the room and the account do nothing new while too much is on its way.
Idle == Len(toServer) + Len(fromServer) + Len(toCore) + Len(toGui) < MaxBusy

Nobody == [n \in Nick |-> 0]

Init == /\ link = "up" /\ streams = 1 /\ online = TRUE
        /\ room = None /\ chat = None /\ nextId = 0
        /\ toServer = <<>> /\ fromServer = <<>> /\ toCore = <<>> /\ toGui = <<>>
        /\ seat = None /\ others \in SUBSET Nick
        /\ window = None /\ sheets = {} /\ doubled = FALSE /\ asserted = FALSE

LessMutant(bag, n) == [bag EXCEPT ![n] = @ - 1]

Less(bag, n) == [bag EXCEPT ![n] = IF @ > 0 THEN @ - 1 ELSE 0]
More(bag, n) == [bag EXCEPT ![n] = @ + 1]

NoteOf(type, id, n, new) == [type |-> type, id |-> id, nick |-> n, new |-> new]
Tell(notes) == toGui' = toGui \o notes
TellLink(type) == Tell(<<NoteOf(type, 0, None, None)>>)

(* ------------------------------ Iris: Client ------------------------------ *)

Send(type, n) ==
    toServer' = IF Flowing THEN Append(toServer, [type |-> type, nick |-> n]) ELSE toServer

\* A room that is closing makes way for the new member; any other one refuses it.
Joins == room = None \/ room.status = "Closing"

groupChatJoinIris(n) ==
    IF Joins THEN room' = [nick |-> n, status |-> "Connecting"] /\ Send("join", n)
             ELSE UNCHANGED <<room, toServer>>

groupChatLeaveIrisMutant ==
    IF room = None THEN UNCHANGED <<room, toServer>>
    ELSE room' = room /\ Send("leave", room.nick)

groupChatLeaveIris ==
    IF room = None THEN UNCHANGED <<room, toServer>>
    ELSE room' = [room EXCEPT !.status = "Closing"] /\ Send("leave", room.nick)

(* ------------------------------ core: LfpApi ------------------------------ *)

NewChat(n) == [id |-> nextId, nick |-> n, participants |-> Nobody]

\* A contact that the core has already, under that nickname, changes its status only.
ContactAvailable(gc, before, n) ==
    /\ IF gc.participants[n] = 0
       THEN /\ chat' = [gc EXCEPT !.participants = More(@, n)]
            /\ Tell(before \o <<NoteOf("contactJoined", gc.id, n, n)>>)
       ELSE chat' = gc /\ Tell(before)
    /\ UNCHANGED toServer

\* The contact is renamed, and then the contact of the old nickname deleted: that is
\* another one, if two have had the nickname.
Renamed(gc, p) ==
    IF p.type = "renamed" /\ gc.participants[p.nick] > 0
    THEN More(Less(gc.participants, p.nick), p.new) ELSE gc.participants

\* The room takes us away when it is destroyed, or when the one that it takes away has
\* our nickname.  Whoever leaves without having been taken away stays connected.
ContactUnavailable(gc, before, p) ==
    LET ours == p.nick = gc.nick
        away == p.type = "destroyed" \/ (p.type = "kicked" /\ ours)
        left == IF away THEN <<NoteOf("left", gc.id, p.nick, p.nick)>> ELSE <<>>
        contact == IF p.type = "renamed" THEN NoteOf("contactRenamed", gc.id, p.nick, p.new)
                   ELSE NoteOf("contactLeft", gc.id, p.nick, p.nick)
    IN /\ chat' = [gc EXCEPT !.nick = IF p.type = "renamed" /\ ours THEN p.new ELSE @,
                             !.participants = Less(Renamed(gc, p), p.nick)]
       /\ Tell(before \o IF p.type = "destroyed" THEN left \o <<contact>>
                         ELSE <<contact>> \o left)
       /\ IF away THEN Send("leave", room.nick) ELSE UNCHANGED toServer

client_groupChatError(n) ==
    Tell(IF chat = None THEN <<>> ELSE <<NoteOf("error", chat.id, n, n)>>)

\* status is what the member of groupChatList has become before the presence is handled.
client_groupChatPresence(gc, before, p, status) ==
    /\ IF p.type = "available" THEN ContactAvailable(gc, before, p.nick)
       ELSE ContactUnavailable(gc, before, p)
    /\ room' = [room EXCEPT !.status =
                  IF p.type = "destroyed" \/ (p.type = "kicked" /\ p.nick = gc.nick)
                  THEN "Closing" ELSE status]
    /\ doubled' = (doubled \/ \E n \in Nick : chat'.participants[n] > 1)

\* Client::ppPresence while the room waits for its first presence: any that is no error
\* means that we have joined.  client_groupChatJoined makes a chat where there is none.
PresenceConnecting(p, us) ==
    \/ /\ p.type = "error"
       /\ room' = IF us THEN None ELSE room
       /\ client_groupChatError(p.nick)
       /\ UNCHANGED <<chat, nextId, toServer, doubled>>
    \/ /\ p.type # "error"
       /\ LET gc == IF chat = None THEN NewChat(room.nick) ELSE chat
          IN /\ client_groupChatPresence(gc, <<NoteOf("joined", gc.id, gc.nick, gc.nick)>>, p, "Connected")
             /\ nextId' = IF chat = None THEN nextId + 1 ELSE nextId

PresenceConnected(p) ==
    \/ /\ p.type = "error" /\ client_groupChatError(p.nick)
       /\ UNCHANGED <<room, chat, nextId, toServer, doubled>>
    \/ /\ p.type # "error"
       /\ IF chat = None THEN UNCHANGED <<room, chat, toServer, toGui, doubled>>
          ELSE client_groupChatPresence(chat, <<>>, p, "Connected")
       /\ UNCHANGED nextId

\* The answer to our leave: the chat goes too, if there is still one.
PresenceClosing(p, us) ==
    /\ IF us /\ p.type \notin {"available", "error"}
       THEN /\ room' = None /\ chat' = None
            /\ Tell(IF chat = None THEN <<>> ELSE <<NoteOf("left", chat.id, p.nick, p.nick)>>)
       ELSE UNCHANGED <<room, chat, toGui>>
    /\ UNCHANGED <<nextId, toServer, doubled>>

ppPresence ==
    /\ fromServer # <<>> /\ Flowing
    /\ fromServer' = Tail(fromServer)
    /\ LET p == Head(fromServer)
       IN \/ room = None /\ UNCHANGED <<core, toServer, toGui, doubled>>
          \/ /\ room # None
             /\ CASE room.status = "Connecting" -> PresenceConnecting(p, p.nick = room.nick)
                  [] room.status = "Connected"  -> PresenceConnected(p)
                  [] room.status = "Closing"    -> PresenceClosing(p, p.nick = room.nick)
    /\ UNCHANGED <<account, server, toCore, gui>>

Served(type) == /\ toCore # <<>> /\ Head(toCore).type = type
                /\ toCore' = Tail(toCore)
                /\ UNCHANGED <<account, fromServer, server, doubled>>

\* LPChatsManager's p_addGroupChat asserts that it has no chat of the room.
groupChatJoin ==
    /\ Served("join")
    /\ LET n == Head(toCore).nick
       IN IF chat # None THEN UNCHANGED <<core, toServer, gui>>
          ELSE /\ groupChatJoinIris(n)
               /\ IF ~Joins THEN UNCHANGED <<chat, nextId, gui>>
                  ELSE /\ chat' = NewChat(n) /\ nextId' = nextId + 1
                       /\ IF window # None THEN asserted' = TRUE /\ UNCHANGED window
                          ELSE /\ window' = [id |-> nextId, nick |-> n, lastSet |-> n,
                                             active |-> FALSE, participants |-> Nobody,
                                             byNick |-> {}]
                               /\ UNCHANGED asserted
                       /\ UNCHANGED <<online, sheets>>
    /\ UNCHANGED toGui

\* The nickname changes also when Iris refuses to join again.
groupChatRetryJoin ==
    /\ Served("retry")
    /\ LET c == Head(toCore)
       IN IF chat = None \/ chat.id # c.id THEN UNCHANGED <<core, toServer>>
          ELSE /\ chat' = [chat EXCEPT !.nick = c.nick]
               /\ groupChatJoinIris(c.nick) /\ UNCHANGED nextId
    /\ UNCHANGED <<toGui, gui>>

groupChatChangeNick ==
    /\ Served("nick")
    /\ LET c == Head(toCore)
       IN IF chat = None \/ chat.id # c.id \/ room = None THEN UNCHANGED <<room, toServer>>
          ELSE room' = [room EXCEPT !.nick = c.nick] /\ Send("nick", c.nick)
    /\ UNCHANGED <<chat, nextId, toGui, gui>>

groupChatEnd ==
    /\ Served("end")
    /\ LET c == Head(toCore)
       IN IF chat = None \/ chat.id # c.id THEN UNCHANGED <<room, chat, toServer, toGui>>
          ELSE /\ groupChatLeaveIris /\ chat' = None
               /\ Tell(<<NoteOf("left", c.id, c.nick, c.nick)>>)
    /\ UNCHANGED <<nextId, gui>>

(* --------------------------- core: the account ---------------------------- *)

StreamGone == seat' = None /\ toServer' = <<>> /\ fromServer' = <<>>

\* The user goes offline (setStatus).
GoesOffline ==
    /\ link \in {"starting", "up"} /\ Idle
    /\ link' = "closing" /\ TellLink("offline")
    /\ UNCHANGED <<streams, core, toServer, fromServer, server, toCore, gui, doubled>>

\* cs_error or cs_connectionClosed: nothing more comes.  Client::streamError forgets the
\* rooms at once; the end of a stream that is just closed is not told to the Client.
StreamEnds ==
    /\ link \in {"starting", "up"} /\ Idle
    /\ link' = "dead" /\ StreamGone /\ TellLink("offline")
    /\ room' \in {room, None}
    /\ UNCHANGED <<streams, chat, nextId, others, toCore, gui, doubled>>

cleanupMutant ==
    /\ link \in {"closing", "dead"} /\ link' = "down"
    /\ StreamGone /\ room' = room
    /\ UNCHANGED <<streams, chat, nextId, others, toCore, toGui, gui, doubled>>

\* The timer of no delay of both: Client::close forgets the rooms.
cleanup ==
    /\ link \in {"closing", "dead"} /\ link' = "down"
    /\ StreamGone /\ room' = None
    /\ UNCHANGED <<streams, chat, nextId, others, toCore, toGui, gui, doubled>>

\* The session has started; before that the stream drops what is sent.
Starts ==
    /\ link = "down" /\ streams < MaxStreams
    /\ link' = "starting" /\ streams' = streams + 1
    /\ UNCHANGED <<core, toServer, fromServer, server, toCore, toGui, gui, doubled>>

\* The roster has come: the status is announced.
LogsIn ==
    /\ link = "starting" /\ link' = "up" /\ TellLink("online")
    /\ UNCHANGED <<streams, core, toServer, fromServer, server, toCore, gui, doubled>>

(* ---------------------------- the room's server --------------------------- *)

PresenceOf(type, n) == [type |-> type, nick |-> n, new |-> n]
Push(presences) == fromServer' = fromServer \o presences

\* The presences of everyone in the room, in any order; ours is the last one.
Orders(S) == {s \in [1..Cardinality(S) -> S] : \A n \in S : \E i \in DOMAIN s : s[i] = n}
Welcomes(n) == {[i \in 1..Cardinality(others) + 1 |->
                    PresenceOf("available", IF i > Cardinality(others) THEN n ELSE s[i])] :
                  s \in Orders(others)}

\* A room may refuse whoever joins, and it refuses a nickname that another one has.
Enters(n) == \/ Push(<<PresenceOf("error", n)>>) /\ UNCHANGED seat
             \/ /\ n \notin others /\ seat' = n
                /\ \E presences \in Welcomes(n) : Push(presences)

RenamesUs(n) ==
    IF n \in others THEN Push(<<PresenceOf("error", n)>>) /\ UNCHANGED seat
    ELSE /\ seat' = n
         /\ Push((IF n = seat THEN <<>> ELSE <<[type |-> "renamed", nick |-> seat, new |-> n]>>)
                 \o <<PresenceOf("available", n)>>)

\* A presence of someone who is not in the room is a join, and one of someone who is
\* there is a change of nickname.  A leave is ours under whichever nickname.
ServerAnswers ==
    /\ toServer # <<>> /\ Flowing
    /\ toServer' = Tail(toServer)
    /\ LET s == Head(toServer)
       IN CASE s.type = "leave" ->
                 /\ seat' = None
                 /\ Push(IF seat = None THEN <<>> ELSE <<PresenceOf("left", seat)>>)
            [] s.type # "leave" /\ seat = None -> Enters(s.nick)
            [] s.type # "leave" /\ seat # None -> RenamesUs(s.nick)
    /\ UNCHANGED <<account, core, others, toCore, toGui, gui, doubled>>

\* We hear of the room only while we are in it.
Hears(presences) == IF Flowing /\ seat # None THEN Push(presences) ELSE UNCHANGED fromServer

OtherEnters(n) == /\ n \notin others \cup {seat} /\ others' = others \cup {n} /\ UNCHANGED seat
                  /\ Hears(<<PresenceOf("available", n)>>)

OtherGoes(n) == /\ n \in others /\ others' = others \ {n} /\ UNCHANGED seat
                /\ \E type \in {"left", "kicked"} : Hears(<<PresenceOf(type, n)>>)

OtherRenames(n, m) ==
    /\ n \in others /\ m \notin others \cup {seat}
    /\ others' = (others \ {n}) \cup {m} /\ UNCHANGED seat
    /\ Hears(<<[type |-> "renamed", nick |-> n, new |-> m], PresenceOf("available", m)>>)

\* The room kicks or bans us, or its service goes down; or it is destroyed.
WeAreRemoved == /\ seat # None /\ seat' = None
                /\ \/ UNCHANGED others
                      /\ \E type \in {"left", "kicked"} : Hears(<<PresenceOf(type, seat)>>)
                   \/ others' = {} /\ Hears(<<PresenceOf("destroyed", seat)>>)

RoomChanges ==
    /\ Idle
    /\ \/ \E n \in Nick : OtherEnters(n) \/ OtherGoes(n) \/ \E m \in Nick : OtherRenames(n, m)
       \/ WeAreRemoved
    /\ UNCHANGED <<account, core, toServer, toCore, toGui, gui, doubled>>

(* ---------------------- user interface: LPGroupChat ----------------------- *)

\* The main thread is blocked in groupChatJoin.
Waiting == \E i \in 1..Len(toCore) : toCore[i].type = "join"

Asks(type, id, n) == toCore' = Append(toCore, [type |-> type, id |-> id, nick |-> n])

\* retryJoinWithNickname:password:, whose assertion wants a chat that is not active.
RetryJoin(n) ==
    IF window.active THEN UNCHANGED <<window, toCore>>
    ELSE /\ window' = [window EXCEPT !.nick = n, !.lastSet = n]
         /\ Asks("retry", window.id, n)

SetNickname(n) == /\ window' = [window EXCEPT !.lastSet = n]
                  /\ Asks("nick", window.id, n)

UserActs == /\ Idle /\ ~Waiting
            /\ UNCHANGED <<account, core, toServer, fromServer, server, toGui, online,
                           asserted, doubled>>

\* From the join window if there is no window yet, from a room in the roster in any case;
\* neither asks whether the account is online.
StartGroupChat(n) == /\ UserActs /\ nextId < MaxChats /\ Asks("join", 0, n)
                     /\ UNCHANGED <<window, sheets>>

rejoinChatRoom == /\ UserActs /\ window # None /\ ~window.active
                  /\ RetryJoin(window.lastSet) /\ UNCHANGED sheets

changeNickname == /\ UserActs /\ window # None /\ window.active
                  /\ sheets' = sheets \cup {"nickname"} /\ UNCHANGED <<window, toCore>>

changeNicknameOKClicked(n) == /\ UserActs /\ "nickname" \in sheets
                              /\ sheets' = sheets \ {"nickname"} /\ SetNickname(n)

\* The prompt is for a password or for another nickname, as the error was.
passwordPromptOKClicked == /\ UserActs /\ "prompt" \in sheets
                           /\ sheets' = sheets \ {"prompt"} /\ RetryJoin(window.nick)

alternateNicknameOKClicked(n) ==
    /\ UserActs /\ "prompt" \in sheets /\ sheets' = sheets \ {"prompt"}
    /\ IF window.active THEN SetNickname(n) ELSE RetryJoin(n)

\* The window closes.
endGroupChat == /\ UserActs /\ window # None
                /\ Asks("end", window.id, window.nick)
                /\ window' = None /\ sheets' = {}

GuiHandles(type) == /\ toGui # <<>> /\ Head(toGui).type = type /\ ~Waiting
                    /\ toGui' = Tail(toGui)
                    /\ UNCHANGED <<account, core, toServer, fromServer, server, asserted, doubled>>

\* A notification for any other chat than the window's changes nothing.
ForWindow(e) == window # None /\ window.id = e.id

groupChatJoined ==
    /\ GuiHandles("joined")
    /\ LET e == Head(toGui)
       IN window' = IF ForWindow(e) THEN [window EXCEPT !.active = TRUE, !.nick = e.nick]
                    ELSE window
    /\ UNCHANGED <<toCore, online, sheets>>

groupChatLeft ==
    /\ GuiHandles("left")
    /\ LET e == Head(toGui)
       IN window' = IF ForWindow(e) THEN [window EXCEPT !.active = FALSE] ELSE window
    /\ UNCHANGED <<toCore, online, sheets>>

groupChatContactJoinedMutant ==
    /\ GuiHandles("contactJoined")
    /\ LET e == Head(toGui)
       IN window' = IF ForWindow(e) /\ window.active
                    THEN [window EXCEPT !.participants = More(@, e.nick),
                                        !.byNick = @ \cup {e.nick}]
                    ELSE window
    /\ UNCHANGED <<toCore, online, sheets>>

groupChatContactJoined ==
    /\ GuiHandles("contactJoined")
    /\ LET e == Head(toGui)
       IN window' = IF ForWindow(e) THEN [window EXCEPT !.participants = More(@, e.nick),
                                                        !.byNick = @ \cup {e.nick}]
                    ELSE window
    /\ UNCHANGED <<toCore, online, sheets>>

\* Left, kicked, banned, removed.  Without an object of the nickname the handler ends in
\* an exception (a set of nil).
groupChatContactLeft ==
    /\ GuiHandles("contactLeft")
    /\ LET e == Head(toGui)
       IN window' = IF ForWindow(e) /\ e.nick \in window.byNick
                    THEN [window EXCEPT !.participants = Less(@, e.nick),
                                        !.byNick = @ \ {e.nick}]
                    ELSE window
    /\ UNCHANGED <<toCore, online, sheets>>

\* So does this one (nil for a key), before it looks at the window's own nickname.
groupChatContactNicknameChanged ==
    /\ GuiHandles("contactRenamed")
    /\ LET e == Head(toGui)
       IN window' = IF ForWindow(e) /\ e.nick \in window.byNick
                    THEN [window EXCEPT !.participants = More(Less(@, e.nick), e.new),
                                        !.byNick = (@ \ {e.nick}) \cup {e.new},
                                        !.nick = IF @ = e.nick THEN e.new ELSE @]
                    ELSE window
    /\ UNCHANGED <<toCore, online, sheets>>

\* Other errors than the two that prompt are only shown.
groupChatError ==
    /\ GuiHandles("error")
    /\ \/ ForWindow(Head(toGui)) /\ sheets' = sheets \cup {"prompt"}
       \/ UNCHANGED sheets
    /\ UNCHANGED <<toCore, online, window>>

\* The account's status: the window observes isOnline, and what does not change it changes
\* nothing.
accountOffline ==
    /\ GuiHandles("offline") /\ online' = FALSE
    /\ window' = IF online /\ window # None THEN [window EXCEPT !.active = FALSE] ELSE window
    /\ UNCHANGED <<toCore, sheets>>

accountOnline ==
    /\ GuiHandles("online") /\ online' = TRUE
    /\ IF online \/ window = None THEN UNCHANGED <<window, toCore>> ELSE RetryJoin(window.lastSet)
    /\ UNCHANGED sheets

CoreServes == groupChatJoin \/ groupChatRetryJoin \/ groupChatChangeNick \/ groupChatEnd

Account == GoesOffline \/ StreamEnds \/ cleanup \/ Starts \/ LogsIn

GuiHandlesNext == \/ groupChatJoined \/ groupChatLeft \/ groupChatContactJoined
                  \/ groupChatContactLeft \/ groupChatContactNicknameChanged
                  \/ groupChatError \/ accountOffline \/ accountOnline

User == \/ \E n \in Nick : StartGroupChat(n) \/ changeNicknameOKClicked(n)
                           \/ alternateNicknameOKClicked(n)
        \/ rejoinChatRoom \/ changeNickname \/ passwordPromptOKClicked \/ endGroupChat

\* Each end of a stream, and each kick, can leave one more object of a nickname behind.
Followed == /\ ~asserted
            /\ chat # None => \A n \in Nick : chat.participants[n] <= MaxSame
            /\ window # None => \A n \in Nick : window.participants[n] <= MaxSame

Next == Followed /\ (\/ ppPresence \/ CoreServes \/ Account
                      \/ ServerAnswers \/ RoomChanges \/ GuiHandlesNext \/ User)

Spec == Init /\ [][Next]_vars

----------------------------------------------------------------------------
(* Properties. *)

\* The values that the variables can have: GroupChat, LPGroupChat and the stanzas.
TypeOK ==
    /\ link \in {"down", "starting", "up", "closing", "dead"}
    /\ streams \in Nat /\ nextId \in Nat
    /\ room \in Room \cup {None} /\ chat \in Chat \cup {None}
    /\ toServer \in Seq(Stanza) /\ fromServer \in Seq(Presence)
    /\ seat \in Nick \cup {None} /\ others \in SUBSET Nick
    /\ toCore \in Seq(Call) /\ toGui \in Seq(Note)
    /\ online \in BOOLEAN /\ window \in Window \cup {None}
    /\ sheets \subseteq {"nickname", "prompt"}
    /\ doubled \in BOOLEAN /\ asserted \in BOOLEAN

\* A room that Iris joins, or has joined, has a chat in the core; so client_groupChatJoined
\* (lfp_api.cpp:2751) never makes one that no window knows, whatever was ended, started
\* again and answered in between.
JoinedHasChat == room # None /\ room.status # "Closing" => chat # None

Quiet == toCore = <<>> /\ toGui = <<>>
SameChat == chat # None /\ window # None /\ chat.id = window.id

\* With nothing on its way between core and user interface, and as long as no two
\* participants have had one nickname, the window lists who is in the core's list, and
\* finds each by nickname (m_participantsByNickname).
ListsAgree == Quiet /\ SameChat /\ ~doubled =>
    /\ window.participants = chat.participants
    /\ window.byNick = {n \in Nick : chat.participants[n] > 0}

\* With nothing on its way, a room to which Iris is connected shows as active, however
\* joins, kicks, ends of streams and the user's retries have crossed.
ConnectedIsActive == Quiet /\ SameChat /\ link = "up" /\ room # None
                     /\ room.status = "Connected" => window.active

\* The assertion of LPGroupChat.m:143: no join is tried again for an active room.
RetriesInactive == window # None /\ toGui # <<>> /\ Head(toGui).type = "online" /\ ~online
                   => ~window.active

\* The assertion of LPChatsManager.m:345: no second chat of one room is added.
OneChatOfRoom == ~asserted
=============================================================================
