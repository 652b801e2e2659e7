# TLA+ models of SAPO Messenger for Mac

SAPO Messenger is a Jabber/XMPP client in two parts that live in one process: a
core in C++ on Qt (`src/core`), which keeps accounts, roster and chats and speaks
to the server through Psi's Iris library, and a user interface in Objective-C on
Cocoa (`src/lilypad`). Each part has its thread and its event loop; they talk over
a bridge of serialised calls ("leapfrog"). This directory holds TLA+ modules of the
parts that hold state and interact, TLC configurations that check them on small
instances, and proofs for TLAPS.

## The system

| Component | State | Operations | Talks to |
|---|---|---|---|
| appmain (`core/tools/appmain`, `LPPlatform.m`) | mutexes `m` and `stoplock`, two wait conditions, `got_ready`, `req_quit`, `req_stop`, `in_start`, `instance` | `exec`, `quit`, `start`, `stop`, `platform_ready`, `main` in two modes | both threads; Cocoa |
| Core roster (`lfp_api.cpp`) | groups, contacts, entries, accounts; indexes by ID, address, tag | the bridge's `rosterGroup*`, `rosterContact*`, `rosterEntry*` calls; the handlers `client_rosterItem*`, `client_subscriptionReceived`, `metacontact...`, `removeAccount` | Account (signals), bridge |
| Core chats (`lfp_api.cpp`) | list of `Chat`: contact, entry, address | `chatStart`, `chatChangeEntry`, `chatEnd`, `chatMessageSend`, `chatUserTyping`, `getChatForJID`, `client_messageReceived` | roster, bridge |
| Bridge (`main.cpp`, `LFPlatformBridge.m`) | `callList`; queued notifications; one lock for a returned value | `frog_invokeMethod`/`doCalls`, `invokeMethodWithName:isOneway:`, dispatch to observers | both threads |
| GUI chats (`LPChatsManager.m`, `LPChat.m`) | chats by ID and by contact; active entry of a chat | `startChat...`, `endChat:`, `setActiveContactEntry:`, handlers `leapfrogBridge_chat*` | bridge, GUI roster (key-value observing) |
| GUI roster (`LPRoster.m`, `LPContact.m`, ...) | a copy of groups, contacts, entries | handlers `leapfrogBridge_roster*` | bridge |
| Account session (`account.cpp`, Iris's `client.cpp`) | `_avail`, `_logged_in`, `_req_show`, the stream and what waits for its tasks, pending cleanups | `setStatus`, handlers `cs_*`, `sessionStart_finished`, `client_rosterRequestFinished`, `cleanup` | server, bridge |
| GUI accounts and reconnection (`LPAccount.m`) | status, target status, last good and last attempted host; a reconnection context: mode, timer, observed addresses | `setTargetStatus:`, the timers, reachability, sleep, handlers of errors and statuses | bridge, network |
| Metacontacts directory (`metacontacts_directory.cpp`) | tags and orders by address, dirty addresses, save timer | `setTagForJID`, `setTagAndOrderForJID`, `saveToServer`, `finishedSaveToServer` | private storage on the server, roster |
| File transfers (`lfp_api.cpp`, `filetransferhandler.cpp`, `LPFileTransfer.m`) | in the core an info, a handler over Iris's `FileTransfer`, a progress timer; in the GUI a state | `fileStart`, `fileCreatePending`, `fileAccept`, `fileCancel`, the handler's slots; start, accept, cancel, packaging | peer, bridge |
| Group chats (`lfp_api.cpp`, Iris's `client.cpp`, `LPGroupChat.m`, `LPChatsManager.m`, `LPGroupChatController.m`) | in Iris the rooms and their state; in the core a `GroupChat` with its participants; in the GUI an `LPGroupChat`, active or not, its participants, the window's sheets | `groupChatJoin`, `groupChatRetryJoin`, `groupChatChangeNick`, `groupChatEnd`, the handlers of presences, the window's actions | server, account, bridge |
| SMS, transports, agents, audibles, liveupdate | a table each, or nothing | one request and its replies | server, GUI |

What is hard in it:

* **Two threads and wait conditions shared by three kinds of waiters** (appmain): a
  wake-up lost, or taken by the wrong thread; a mutex unlocked twice.
* **Relations kept by hand in both directions** (roster): `Group::contacts` and
  `Contact::groups`, `Contact::entries` and `ContactEntry::contact`, the tag index;
  a dozen calls and pushes each change several of them, with raw pointers.
* **Two copies that are changed first and told later** (chats, GUI roster): the
  user ends, starts or redirects a chat while messages and roster pushes for it are
  on their way; a synchronous call overtakes the queued notifications.
* **Ends that are only scheduled** (session): whatever ends a stream asks for a
  cleanup by a timer of no delay; calls, errors, a second cleanup and the late end of
  a task come before it or after the next stream has begun.
* **Timers against answers** (reconnection, saves, progress): a timeout races with the
  answer, the user and the network; a restarted timer with saves on their way.
* **Both sides may end it** (file transfers): the peer, the network, the core's timer,
  the packaging of a folder and the user's cancel.
* **Answers that do not say what they answer** (group chats): a presence from the room is
  read by the state that the room has now, whatever was asked before; a window is closed
  and opened again, and the account comes back, while old answers are on their way.

`PROJECT.json` lists these at their lines, with the properties that watch over them.

## The modules

| Module | Models | Proofs |
|---|---|---|
| `Appmain.tla` | the two threads of `main()`, all of `appmain.cpp`, and what `LPPlatform.m` does in `platform_start` and `platform_stop` | `Appmain_proofs.tla` |
| `Roster.tla`, `MCRoster.tla` | the roster of `lfp_api.cpp`: groups, contacts, entries, tags, accounts | `Roster_proofs.tla` |
| `Account.tla` | an account's session in the core and, in the GUI, its status, its errors and its reconnection, with the bridge between them | `Account_proofs.tla` |
| `WriteBehind.tla` | abstract: a cache whose lists reach a backing store late, whole and in order | |
| `Metacontacts.tla` | the metacontacts directory, its save timer, the saves on their way; implements `WriteBehind` | `Metacontacts_proofs.tla` |
| `FileTransfers.tla` | a file transfer on both sides: LfpApi, the handler, Iris's `FileTransfer`, `LPFileTransfer` and its row | `FileTransfers_proofs.tla` |
| `GroupChats.tla`, `MCGroupChats.tla` | a room in Iris, in the core, in the GUI and on the server, with the account's stream | `GroupChats_proofs.tla` |
| `Chats.tla` | one-to-one chats of the core and of the GUI with the bridge between them, and as much of both rosters as decides a chat's entry | `Chats_proofs.tla`, `ChatsAgree_proofs.tla` |

### Appmain

`pcHost` and `pcApp` are the program counters of the thread that runs
`Platform::exec` and the one that runs `appmain()`; `mode` says which of them is
`main()`'s. A `QWaitCondition` is the set of threads blocked on it, a `QMutex` its
owner. An action is what a thread does between two operations on a mutex or a
condition; between these nothing of it is visible to the other thread, except the
unprotected read of `instance` in `loadPlatform`, which is an action of its own
(`AppLoaded`, against `HostCheck` and the others). `exits` is chosen once: the
platform ends by `exit()`, as `NSApplicationMain` does, or by returning.

### Roster

A slot of the bridge or a handler of a signal runs to its end in the core's event
loop, so each is one action: `rosterContactAdd`, `rosterEntryChangeContact`,
`ItemUpdated` (`client_rosterItemUpdated`), `MetacontactChanged` and so on. What the
server pushes is any roster item, at any time. Objects are drawn from small sets
and may be reused after deletion. Lists are sets, except that `Contact::groups[0]`,
which the code reads everywhere, is a variable (`chead`). A null pointer that is
used sets `crashed`, which ends the behaviour; so does the first of no groups that
`lfp_api.cpp:1730` takes (`ItemListedEmpty`). Two groups may come to have one name, and a
lookup by name then finds either (`Namesakes`). Names of groups are not empty, and
`rosterEntryAdd` is called for known accounts. Positions, alternative names,
presence and notifications are left out.

### Chats

`toCore` is `callList`; `toGui` stands for the core's queued `notify_*` slots followed
by the main thread's queue of invocations, which keep their order; `answer` is the
value that `chatStart_ret` leaves for the blocked main thread, and passes `toGui`.
While `waiting` is set the main thread does nothing else. The core's handlers
(`chatStart`, `chatEnd`, ...) and the GUI's (`chatIncoming`, `rosterEntryAdded`, ...)
carry the names that they have in the code, the user's actions capital ones
(`StartChat`, `EndChat`). Messages, errors, audibles and typing notices are one kind
of notification: they name a chat. A deleted entry stays in a chat of the core
(`Dangles`); a new entry may get its memory (`Rebound`), and comparisons that read
the freed entry's account go either way (`FoundChat`). `reused` is a history variable, the
chats to whose entry that has happened. Such a chat may keep an address that is not its
entry's. Say that chat *k* talks to entry *d* at the address *x*, *d* is removed, and the
next entry *e* of the same contact gets its memory: the chat's pointer is then *e*'s and its
address still *x*. The user picks another entry, which has just moved away, so that the core
ignores the choice; then *e*, which the core ignores as the one that it has. What is typed
goes to *e*; a message from *x*, which may be somebody else's by now, finds the chat by its
address and turns it to them. So `EntryAgreed` and `DanglingIsBrief` speak of the other
chats, while the types, `Announced`, `ChatExists` and `StartReturns` are about all.

Abstractions: the memory of a deleted *contact* is not reused, an address has one account,
every entry can chat, and presence shows only in that `mainContactEntry` may be any entry of
the list.
`NSAssert` is compiled in (no target defines `NS_BLOCK_ASSERTIONS`): a notification
handler that fails one ends there and the run loop goes on.

### Account

`link` is the stage that the stream has reached, `ended` how it ended; `soon` holds the
core's timers of no delay: `cleanup`, and the end of a session task whose stream is
gone (`sessionLost`: `Task::onDisconnect` delays it, and `sessionStart_finished` cannot
tell which session it belongs to). The handlers of `account.cpp` keep their names.
In the GUI, `context` is the `LPAccountAutomaticReconnectionContext` or `None`; its two
timers are one variable, since arming one invalidates the other, and `last`, the status
that it restores, is set wherever the code sets `m_lastOnlineStatus`. `later` holds the
invocations delayed to the next turn of the run loop. `alert` is the modal alert
of an error: timers, reachability, the delayed calls and the notifications, all of the
default run-loop mode, wait for the user (`LFPlatformBridge.m:384`). Hosts are the addresses that the
account was connected to, or `Configured` for whatever the settings say. Calls and
notifications wait in a queue each, as in `Chats`.

### WriteBehind and Metacontacts

`WriteBehind` promises that the backing store has, at every time, a whole list that the
directory had at some time, and never goes back to an older one. `Metacontacts` has the
directory's list, the need to save (the timer runs exactly then), the dirty addresses,
the saves on their way and the answers. `rosterContactSetMetacontactOrder` is the call
that changes several addresses in one step; its ids are of entries of all accounts, and the
numbers that the other accounts' entries use are missing here, while ids that find no entry
(`Gone`) use none. `past`, all lists so far, and the number
that each save carries are what the refinement mapping needs: `at <- server.n`, `backing
<- server.list`. A stream that ends loses what is on its way; the tasks' failures
change nothing.

### FileTransfers

Transfers share nothing but the queues, so the module has one, of any `kind` and `size`.
`info` and `handler` are the `FileTransferInfo` and what its pointers point to; `ft` is
the handler's `FileTransfer` and its state; `due` its timer of no delay; `failing` says
that the `FileTransfer`'s error, a queued signal, is posted. `stop` is the stop button
of the row. Where the code uses a null pointer the behaviour ends with `crashed`:
`fileStartPending` after a cancel, `trySend` after the connection has gone in the same
turn, `fileGetProps` for a sender without entry. `cancelled` and `over` are history.

### GroupChats

One room of one account; `room` is its member of Iris's `groupChatList`, `chat` the core's
`GroupChat`, `window` the GUI's `LPGroupChat`, and `seat` and `others` who is in the room
on the server (the external part: XEP-0045 as far as the code reads it). Presences to and
from the room wait in `toServer` and `fromServer`, calls and notifications in `toCore` and
`toGui`. `ppPresence` is Iris's dispatch with all that the core's slots do with it; the
core's calls and the GUI's handlers keep their names. `groupChatJoin` blocks the main
thread (`Waiting`) and includes what that thread does with its answer. Participants are
found by nickname in both lists, but two objects can come to have one (a return to the
room forgets nothing): lists are bags, and `byNick` is the dictionary beside the GUI's.
`link` is the stream as far as rooms see it; between the call that goes offline and the
cleanup it still carries presences, as in `Account`.

## What the runs check

| Run | Shows | Bounds |
|---|---|---|
| `Appmain_ready` | no wake-up is lost (`HostAsleep`), the threads never share a condition (`OneWaiter`); `stop()` returns (`StopCompletes`) | 3 loads: two are enough to run through start and stop twice with left-over flags |
| `Appmain_fail` | the inductive invariant of the proofs, types included; `InstanceIsReady`; `start()` returns and both threads end, when the platform may fail | 3 loads |
| `Roster_accounts` | types, `EntriesLinked`, `EntryHasAccount`, `OneEntryFound`: a lookup by address has one entry to find; `TagsIndexed` | 2 accounts (alike), 2 contacts, 2 entries, 1 user group, 1 tag, one address that is a transport's too and may be typed in a second spelling: every pair of owners of a thing exists. 197 thousand states |
| `Roster_groups` | `GroupsLinked`, `ContactHasGroup`, `MainGroupShown` | 1 contact, 2 entries, 2 user groups and 2 names, renamed, removed, pushed |
| `Chats_agree` | types; `RosterMirrored` and `EntryAgreed`: with nothing on its way both sides are the same, a chat's entry too, unless its memory was reused; `Announced`: no chat of the core is unknown to the GUI; `ChatExists`: and none of the GUI to the core; `DanglingIsBrief`: a chat keeps a deleted entry only while the GUI has still to react; `StartReturns`: the blocking call comes back | 2 contacts, 2 entries, 2 chats, 2 addresses; nothing new happens while a queue holds 2, so that three or more messages cross, since one handler may add several. `MaxEntries = 3` has been run as well (1.9 million states) |
| `Account_safe` | types; `StreamsCleaned`: a stream that ended has its cleanup coming, and `_avail` says whether there is one; `OfflineSticks`: who went offline is offline; `ShownIsCores`: the status shown is the one announced; `ReconnectsByTimer`: a retry has its timer and an idle context none | two online statuses, so that a change and its restoration differ; one interface and one server address; two calls, one notification and two zero timers before nothing new happens: the queues then hold up to three. 3.1 million states |
| `Account_live` | `ReconnectionEnds`, under fairness | one online status, one call; the user and the timers act when nothing is under way (`Patient`), 27 thousand states |
| `Account_observed` | **violated**: the comment at `LPAccount.m:1355`. After a sleep, or a change of interface while another route exists, the account reconnects over the same pair of addresses and nothing observes the network | as `Account_live` without fairness |
| `Metacontacts_saves` | types; `SavedUnlessFailed`; `WritesBehind`, the refinement; `ChangesReachServer`, under fairness | two addresses, one tag, three changes (`MaxChanges` counts the two first lists too), so that two saves overtake a third change; a call lists up to three ids (`MaxListed`), of which some may be of other accounts or gone, so that an order can exceed the number of addresses, and one address may come twice |
| `FileTransfers_ends` | types, with the bound of the socket's buffer; `Settled`: what the core said is over shows as ended; `CompletedIsWhole`; `CancelStops` | sizes 0, 1, 3 and 5 with a buffer of 2: an empty file, less than the buffer, its edge, several fillings; three notifications in flight |
| `GroupChats_agree` | types; `JoinedHasChat`: a room that Iris joins has its chat in the core; `ListsAgree`: both sides list the same participants; `ConnectedIsActive`: a room that Iris is in shows as active | two nicknames (ours and another's, which can be exchanged), two chats of the room, so that one is opened while the other's end is on its way, one reconnection (`MaxStreams = 2`), two messages in flight before anything new happens. 2.9 million states, not counting what differs only in the names (`Nicknames`) |
| `GroupChats_retry` | **violated**: the assertion at `LPGroupChat.m:143`. A join asked for while the account connects is answered before its Online status is announced, and the observer of that status joins again | as above |

Further configurations are kept beside these runs. TLC finds their one property violated
too, and each is a disagreement with a comment or an assertion of the code, worth knowing
to whoever changes it:

| Configuration | Property | What TLC finds |
|---|---|---|
| `Appmain_locked.cfg` | `ExecReturnsLocked` | the comment at `appmain.cpp:69`: after a failed `platform_start`, `quit()` frees the lock that `exec` has taken |
| `Roster_spelled.cfg` | `OneEntryPerAddress` | "No duplicates, please" (`lfp_api.cpp:1366`): an address typed in another spelling gets a second entry |
| `Roster_nameless.cfg` | `NeverCrashes` | "We need to create the new contact" (`lfp_api.cpp:1826`): for an entry without name there is none, and line 1836 uses it |
| `Roster_untag.cfg` | `UntaggedApart` | the comment at `lfp_api.cpp:2072`: the contact thrown away for its tag is found again by its name |
| `Chats_known.cfg` | `ChatKnown` | the assertion at `LPChatsManager.m:215`: a message for a chat that the user has just closed is lost |
| `Chats_twice.cfg` | `OneChatPerContact` | the assertion at `LPChatsManager.m:94`: `chatStart` crosses with a message, two chats of one contact, the second without a window |
| `Chats_match.cfg` | `EntriesMatch` | the assertion at `LPChat.m:170`: `LPRoster.m:590` runs the chat's observer before the entry knows its contact |
| `Metacontacts_dirty.cfg` | `DirtyHasUnsaved` | the comment at `metacontacts_directory.h:84`: a save that finishes clears addresses that changed after it was sent |
| `GroupChats_one.cfg` | `OneChatOfRoom` | the assertion at `LPChatsManager.m:345`: the answer to the leave of a closed window ends the chat started since; its window stays, and the room started from the roster gets a second chat |

(The roster ones are configurations of `MCRoster`; `GroupChats_agree` is one of `MCGroupChats`.)

Two bounds cut behaviours off and do not only limit what begins. `MaxSame = 1` ends one of
`GroupChats` when two participants have one nickname: each kick or reconnection can leave
one more object of a nickname behind, so that the lists are not bounded otherwise (the
state where it happens is still checked, and `ListsAgree` says nothing of it: `doubled`).
And a behaviour ends where a null pointer is used (`crashed`) or `p_addGroupChat` fails its
assertion (`asserted`).

Deadlock is checked in the appmain runs (`Terminated` is the only way to stop). It is
not in the others where they may stop: a roster without free objects, chats that have used
up their IDs with the queues empty, an account whose behaviour waits for the user at a
bound, a directory whose changes are used up with nothing left to save, a transfer after
its end, a room whose chats and streams are used up.

Mutants in the modules are plausible faults: definitions with a comment "Mutant", or
names that end in `Mutant...`; each property of a passing run fails for one of them.

**Fairness.** Appmain: the two threads are scheduled (weak fairness of each thread),
and a platform that was asked to stop ends; nothing is assumed of a platform that
runs by itself. Chats: both event loops serve what is queued (`CoreServes`,
`GuiServes`, `ChatStarted`); neither the server nor the user need ever do anything.
Account: the loops serve what is queued; a timer that is armed again and again fires; each
stage of a connection that is tried again and again is reached in time when nothing else
is under way (strong fairness: otherwise the timeout of 30 s could always win, and
nothing in the code prevents that). `ReconnectionEnds` speaks only of behaviours where
from some moment on the server ends no stream, an interface is up, and neither the user
nor sleep interferes (`LeftAlone`), and counts the alert, which waits for the user, as an
end. Metacontacts: the save timer fires, although each change restarts it (a user
pauses), and the server answers or the stream ends.
These follow from `QThread`, `QCoreApplication::exec` and `NSRunLoop`, which serve
their queues for ever. `StopCompletes` and `Terminates` are up to the death of the
process where Cocoa calls `exit()`.

## What is proved

TLAPS proves for every value of the constants, from the named assumptions only
(`AppmainAssumption`, `RosterAssumption`, `ChatsAssumption`, `AccountAssumption`,
`MetacontactsAssumption`, `FileTransfersAssumption`, `GroupChatsAssumption`), which TLC
evaluates in every run.

* **Appmain.** `Inductive`: `Spec => []IInv`, where `IInv` is the type invariant and
  `Phase`. The properties alone are not inductive: whether a wake-up can be lost
  depends on which of the locks and flags hold at each pair of places. `Phase` says,
  for every place of the app thread, at which places the host can be, with which
  flags and locks (`HostResting`, `HostStarting`, `HostServing`, `HostLeaving`).
  The steps are proved one action at a time. From it follow `TypeCorrect`,
  `HostAsleepHolds`, `OneWaiterHolds`, `PlatformStoppedHolds` and `InstanceIsReadyHolds`
  (`loadPlatform` hands out the instance of a platform that is ready, although it reads the
  pointer outside of the lock).
* **Roster.** `Inductive` is about `RosterInv`, the conjunction of `GroupInv`,
  `EntryInv`, `TagInv` and `AccountInv`: each is a relation seen from both sides,
  with the types that its proof needs. They depend on one another (a contact that
  loses its last entry leaves its groups and its tag), so they are proved together.
  Lemmas describe the operators from which actions are built (`ContactsAfter`,
  `EntryIn`, `EntriesWithout`, `TagsWithout`) once; each action then cites them.
  From it: `GroupsLinkedHolds`, `ContactHasGroupHolds`, `EntriesLinkedHolds`,
  `TagsIndexedHolds`, `EntryHasAccountHolds`. `OneEntryFoundHolds` rests on `AddressInv`: of
  the entries with an address that a lookup asks for, an account has one. Those with an
  address in another spelling are found by none, and `Roster_spelled.cfg` shows that they
  may be many. Two more parts,
  `NameInv` (the names of what is live) and `DeadInv` (what is left of what was deleted),
  complete the types of all variables: `TypeCorrect`. `MainGroupShownHolds` rests upon all
  six and is proved last, since every call that moves a contact or an entry between groups
  can break it. Its premise, `NoTagMoves`, is that no tag of a metacontact moves an entry
  to another contact: a tag moves it whatever its groups are, and the statement is false
  then. The run has no tags for the same reason.

* **Chats.** Every step is first reduced to one of eleven kinds by what it does to the
  two queues and the two tables of chats (`StepKind`: something is said, a chat is
  made, a call is served, ...), with one lemma per action. `TypeInv` adds to `TypeOK`
  the types of the queued messages and `StartInv`: `chatStart` is the last call of
  its queue, the main thread waits for it, and an ID is left. It is needed because
  handlers use what they find in messages, and `chatStart` the next ID.
  `ChatInv` is the life of a chat: `WindowInv` (what a window shows is open), `IdInv`
  (nothing speaks of an ID that was not given), `LifeInv` (a chat whose end is on its
  way is not open, awaited or answered; one that is awaited is not open yet), `Once`
  and `KnownInv`. `ChatExists` alone is not inductive: `chatEnd` deletes a chat, which
  is harmless only because nothing can open it again. Lemmas say what each kind of
  step does to the sets of chats that the queues speak of (`Ending`, `Awaited`,
  `Named`, `First`); the proof about `ChatInv` uses only these. From it:
  `TypeCorrect`, `ChatLife`, `AnnouncedHolds`, `ChatExistsHolds`, for every value of the
  bounds on chats, contacts, entries and queues.

  `RosterMirroredHolds` is about the last word of a queue: the last notification on its way
  about a contact, or about an entry, tells what the core has, and where there is none the
  GUI has it already (`MirrorInv`).

* **Chats, the entry that a chat talks to** (`ChatsAgree_proofs.tla`). The same does not do
  for a chat's entry, because three parties change it: the core, when a message comes from
  another address; the user; and the GUI by itself, when an observer of the roster finds
  that the entry has gone. While messages cross, each side may have any entry. `AgreeNow`
  is about what the GUI *will* have: `V` and `W` replay the notifications on their way upon
  the GUI's roster and upon a chat. For every chat of both sides, at the end of the replay
    - `Settles`: the entry is the core's, or nothing on the way names one and either the
      GUI's own choice is the last of those on their way to the core, or an observer will
      choose on the way;
    - `LetsGo`: if the core's entry is not of the chat's contact any more, a choice is on
      its way that the core will accept, or an observer will choose on the way;
    - `Watches`: once an entry is named on the way, and is one of the contact, the observer
      sees it leave.

  The first is what must be shown, the second is needed because the core keeps a deleted
  entry and ignores choices that it does not like, the third because it may turn a chat to
  an entry that leaves before the GUI has heard of the turn. A chat that the GUI has yet to
  open is replayed from nothing, and, where `chatStart` has given the GUI an ID that is not
  its own (the 0 of an empty answer), from what the GUI has by mistake as well (`Views`).
  Four smaller invariants support it: `MadeInv` (numbers are given in order, an address has
  one entry), `AddrInv` (a chat has its entry's address), `WaitInv` (what the blocked
  `chatStart` asks for is still in the GUI's roster) and `ZeroInv` (of the ID 0).

  The lemmas say what one more notification, one call served, one choice and one
  notification heard do to the replay, for any queue, roster and chat; the lemmas about the
  actions only cite these. `TalkInv` is the inductive invariant. With both queues empty the
  replay is over, whence `EntryAgreedHolds`; and `DanglingIsBriefHolds` reads from `LetsGo`
  what must be on its way when a chat has a deleted entry: in the replay, the observer
  chooses at a notification by which an entry joins or leaves the contact.

* **Account.** `IInv` is `TypeOK` with `StreamInv` (the core has a stream exactly while it
  is available, and one that ended has its cleanup in `soon`), `TimerInv` (a context that
  retries has its timer; an idle one, or one that waits for an interface, has none),
  `OfflineInv` and `ShownInv`. The last two are the properties seen through the queues:
  which status the last call or notification on its way will leave behind, so that what is
  promised for empty queues is an invariant of full ones. One lemma per action. From it:
  `TypeCorrect`, `StreamsAreCleaned`, `OfflineHolds`, `ShownHolds`, `ReconnectionHasTimer`.
* **Metacontacts.** `PastInv`: what is saved, on its way or stored is one of the lists of
  `past`, with its number, and numbers never decrease along the way; `LastInv`: the last
  save on its way, or the stored one, is the directory's list, unless there is a need to
  save or that save failed. From the first, `Refinement`: `Spec => WritesBehind`, the
  abstract specification under the refinement mapping, one step of it for each step of the
  directory or a stutter. From the second, `SavedUnlessFailedHolds`.
* **FileTransfers.** The end of a transfer is told once and last: `Link` (which states of
  handler, `FileTransfer` and timer go together), `Calls`, `EndLast` (nothing follows the
  note of an end), `WholeBefore` (completion is told only when every byte was) and
  `CancelStops`. `Settled` and `CompletedIsWhole` follow: the GUI's state is what the notes
  it has served have said. The buffer's bound is part of `TypeOK`.
* **GroupChats.** `IInv` is `TypeOK`, `JoinedHasChat` and `SheetsHaveWindow`, which need
  one another: what a presence does is typed only where there is a chat, and what an open
  sheet does only where there is a window. `JoinedHasChat` is inductive because each way to
  lose the chat closes the room first. `TypeCorrect`, `JoinedHasChatHolds`. `AgreeInv` is
  about the queue to the GUI: heard to its end it leaves the window with the participants
  that the core lists (`ListsInv`, by a replay of the queue upon the window's bag), and a
  room that is joined while there is a stream leaves it active (`ActiveInv`), with
  what these need of IDs and of nicknames (`IdsInv`, `RenamesDiffer`, `SinglesInv`). From
  it: `Agreement`, `ListsAgreeHolds`, `ConnectedIsActiveHolds`.

Every invariant of the passing runs is proved, `MainGroupShown` with the premise named
above, and so are the refinement and `CancelStops`.

Only model-checked: liveness (`StopCompletes`, `LoadCompletes`, `Terminates`,
`StartReturns`, `ReconnectionEnds`, `ChangesReachServer`), which with fairness and
`ENABLED` is out of the prover's reach. Induction over data is out of its reach too, in the
form of the library's theorems that take an operator; the replays above are functions on
the naturals whose steps are given, and where a proof needs the first or the last of several
notifications it takes a least element (`Least`, `Between` in `ChatsAgree_proofs.tla`).

## Plan

Done: `Appmain`, `Roster`, `Chats`; `Account` (the session and the reconnection composed);
`WriteBehind` and `Metacontacts`, which implements it; `FileTransfers`; `GroupChats`; their
proofs.

Left, in this order:

1. An abstract specification of a replicated table, one side of which changes first, which
   the two rosters and the lists of participants implement: the invariants `MirrorInv`,
   `AgreeInv` and `AgreeNow` say what it is to promise.
2. `Bridge`: its start and its shutdown, calls that cross with them; abstract: two queues
   in order, one call that waits. `Chats` and `GroupChats` are to be shown to use no more.
3. Two accounts in `Account`, and presence in the roster.

## Not modelled

Psi's core and Iris but for the parts that the modules name (third-party code, vendored
with libidn and jdns: by far most of the repository's lines, so that the share of lines
that these modules cover is small), drawing, storage of messages through Core Data, wire
formats, audio-visual gimmicks and the one-request-one-reply tasks: they have no state that
interacts, or none of their own. The shutdown of the bridge: the process ends by `exit()`
while its queues may be full.

What the models leave out of a part that they do cover is listed with each component in
`PROJECT.json`, and known cases that they exclude are hazards with a note. Further cases
that were met while modelling, and that nothing here checks:

* `lfp_api.cpp:1703`: a group with an empty name is refused by `rosterGroupAdd`, and the
  null pointer used; `1355`: the account of an unknown UUID is a null pointer in the table.
* `lfp_api.cpp:2219`: a typing event from an address without entry uses a null pointer.
* `LPChatsManager.m:127`: `chatStart` returns nothing for a contact that is gone, and the ID
  is read as 0, that of the first chat.
* `LPChat.m:94`: after two crossing changes of entry, the echo of the older one may leave the
  chat without; `LPContact.m:740`: the GUI removes a contact without entries that may have
  got a new one in the core.
* `account.cpp:473`: a status set between the end of a stream and its cleanup is announced
  after the Offline of that end; `account.cpp:1352`: after a failed roster request the
  account stays available and never logged in.
* `LPAccount.m:437`: an interface that comes up while the account is not offline arms no
  timer; `LPAccount.m:1427`: without a context an error is not told.
* `metacontacts_directory.cpp:152`: nothing calls `updateFromServer`, so that the first save
  replaces the list of the server.
* `LPFileTransfer.m:223`: a packaging that fails leaves the core's handler; `lfp_api.cpp:3392`:
  the GUI waits for ever for a transfer to an entry that is gone; `3428`: `fileGetProps` for
  a sender without entry.
