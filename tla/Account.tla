--------------------------------- MODULE Account ---------------------------------
(* One account's session, on both sides of the bridge.

   The core (Account, and Iris's Client and Task under it) has the connection: the
   stream goes through stages until the roster is there, and whatever ends it only
   schedules cleanup, which a timer of no delay runs later, after calls and stream
   events that may come first.  The user interface (LPAccount) has the status it
   shows, the status the user wants, and once the account was connected a context
   that observes the network and reconnects by timers.  Calls and notifications
   wait in a queue each.

   A host is an address that the account was connected to, or Configured: the
   custom host, or the empty one that has the core ask DNS.  Iface is the computer's
   addresses; up is those whose interface works.  A stream may fail, close or stay
   silent at any time.  Status messages, the proxy and server information are left
   out; so is removing the account.  The JID is set.  The reply of the server's
   saved options is one more way for the target to be set.

   While the modal alert is shown the user interface does nothing else: timers,
   reachability callbacks and what the bridge delivers run in the default mode of the
   run loop only, and wait.

   The definitions named ...Mutant are faulty variants of the definition that follows
   them, used to see that a property notices the fault.                            *)
EXTENDS Integers, Sequences, SequencesExt

CONSTANTS Online,      \* the statuses that are not Offline
          Offline, Connecting,
          Iface,       \* the computer's addresses
          Remote,      \* the server's addresses
          Configured,  \* the host that the user configured
          MaxCalls,    \* bound: nothing new happens while this many calls wait,
          MaxNotes,    \* or this many notifications,
          MaxSoon,     \* or this many delayed calls of one side
          Patient,     \* those who act only when nothing is under way on the bridge
          None

Show == Online \cup {Offline}
Stage == {"connecting", "negotiating", "session", "agents", "roster", "up", "refused"}
Mode == {"idle", "waiting", "retrying"}

\* What LPAccountAutomaticReconnectionContext keeps.
Context == [mode : Mode, timer : {"reconnect", "timeout", None}, last : Show \cup {None},
            local : Iface \cup {None}, remote : Remote,
            observing : {"pair", "host", None}, flags : BOOLEAN]

ASSUME AccountAssumption ==
    /\ MaxCalls \in Nat /\ MaxNotes \in Nat /\ MaxSoon \in Nat
    /\ Patient \subseteq {"user", "timers"}
    /\ Offline \notin Online /\ Connecting \notin Show /\ Configured \notin Remote
    /\ None \notin Show \cup {Connecting, Configured, "reconnect", "timeout", "pair", "host",
                       "error", "closed"}
    /\ None \notin Iface \cup Remote \cup Stage \cup Context

VARIABLES avail, loggedIn, reqShow,   \* core: Account
          link, ended,                \* core: the stream's stage, and how it ended
          soon,                       \* core: timers of no delay that are due
          toCore, toGui,              \* the bridge
          status, target,             \* user interface: LPAccount
          attempted, lastGood, failed,
          later, alert,               \* user interface: delayed calls, the modal alert
          context,                    \* user interface: reconnection, or None
          up                          \* the interfaces that work

coreVars == <<avail, loggedIn, reqShow, link, ended, soon>>
hostVars == <<attempted, failed>>
guiVars == <<status, target, hostVars, lastGood, later, alert, context>>
vars == <<coreVars, toCore, toGui, guiVars, up>>

Init == /\ avail = FALSE /\ loggedIn = FALSE /\ reqShow = Offline
        /\ link = None /\ ended = None /\ soon = <<>>
        /\ toCore = <<>> /\ toGui = <<>>
        /\ status = Offline /\ target = Offline
        /\ attempted = None /\ failed = FALSE
        /\ lastGood \in Remote \cup {None}           \* from the user's preferences
        /\ later = <<>> /\ alert = FALSE /\ context = None
        /\ up \in SUBSET Iface

(* ------------------------------ messages ------------------------------ *)

StatusUpdated(s) == [note |-> "statusUpdated", show |-> s]
ConnectedToServer(l, r) == [note |-> "accountConnectedToServer", local |-> l, remote |-> r]
ConnectionError(recoverable) == [note |-> "connectionError", recoverable |-> recoverable]

Note == [note : {"statusUpdated"}, show : Show]
        \cup [note : {"accountConnectedToServer"}, local : Iface, remote : Remote]
        \cup [note : {"connectionError"}, recoverable : BOOLEAN]

Notify(notes) == toGui' = toGui \o notes

Busy == \/ Len(toCore) >= MaxCalls \/ Len(toGui) >= MaxNotes
        \/ Len(soon) >= MaxSoon \/ Len(later) >= MaxSoon
Quiet == toCore = <<>> /\ toGui = <<>> /\ soon = <<>> /\ later = <<>>
MayAct(who) == who \in Patient => Quiet

(* ------------------------------ the core ------------------------------ *)

setClientStatusMutant(s) == /\ reqShow' = s
                            /\ Notify(IF loggedIn THEN <<StatusUpdated(reqShow)>> ELSE <<>>)

\* Presence goes out, and the user interface is told, only once logged in.
setClientStatus(s) == /\ reqShow' = s
                      /\ Notify(IF loggedIn THEN <<StatusUpdated(s)>> ELSE <<>>)

setStatus(s) ==
    CASE avail /\ s = Offline -> /\ Notify(<<StatusUpdated(Offline)>>)
                                 /\ soon' = Append(soon, "cleanup")
                                 /\ UNCHANGED <<avail, loggedIn, reqShow, link, ended>>
      [] avail /\ s # Offline -> /\ setClientStatus(s)
                                 /\ UNCHANGED <<avail, loggedIn, link, ended, soon>>
      [] ~avail /\ s = Offline -> UNCHANGED <<coreVars, toGui>>
      [] ~avail /\ s # Offline -> /\ avail' = TRUE /\ reqShow' = s
                                  /\ link' = "connecting" /\ ended' = None
                                  /\ UNCHANGED <<loggedIn, soon, toGui>>

HandleCall == /\ toCore # <<>>
              /\ toCore' = Tail(toCore)
              /\ setStatus(Head(toCore))
              /\ UNCHANGED <<guiVars, up>>

\* The stream got to a stage, while nothing ended it.
Live(stage) == link = stage /\ ended = None /\ ~Busy
Goes(stage) == link' = stage /\ UNCHANGED <<avail, reqShow, ended, toCore, guiVars, up>>

cs_connected ==
    /\ Live("connecting") /\ Goes("negotiating")
    /\ \E l \in up, r \in Remote : Notify(<<ConnectedToServer(l, r)>>)
    /\ UNCHANGED <<loggedIn, soon>>

\* A server of the old protocol has no session to ask for.
cs_authenticated ==
    /\ Live("negotiating")
    /\ Goes("session") \/ Goes("agents")
    /\ UNCHANGED <<loggedIn, soon, toGui>>

sessionStarted == Live("session") /\ Goes("agents") /\ UNCHANGED <<loggedIn, soon, toGui>>

sessionStart_failed ==
    /\ Live("session") /\ Goes("refused")
    /\ Notify(<<StatusUpdated(Offline), ConnectionError(FALSE)>>)
    /\ soon' = Append(soon, "cleanup")
    /\ UNCHANGED loggedIn

\* The agents came, or their timer of five seconds is over; nothing answers the
\* request when the stream has ended.
finishConnectAndGetRoster ==
    /\ link = "agents" /\ ~Busy
    /\ Goes("roster") /\ UNCHANGED <<loggedIn, soon, toGui>>

client_rosterRequestFinished ==
    /\ Live("roster")
    /\ \/ /\ Goes("up") /\ loggedIn' = TRUE
          /\ Notify(<<StatusUpdated(reqShow)>>)
       \/ Goes("refused") /\ UNCHANGED <<loggedIn, toGui>>
    /\ UNCHANGED soon

\* The client is active until the stream's error, not its close, or cleanup.
avatarFactory_selfAvatarHashValuesChanged ==
    /\ link = "up" /\ ended # "error" /\ ~Busy
    /\ setClientStatus(reqShow)
    /\ UNCHANGED <<avail, loggedIn, link, ended, soon, toCore, guiVars, up>>

\* The client's tasks are told after the account: the session task finishes later.
cs_error(recoverable) ==
    /\ link # None /\ ended = None /\ ~Busy
    /\ ended' = "error"
    /\ Notify(<<StatusUpdated(Offline), ConnectionError(recoverable)>>)
    /\ soon' = soon \o IF link = "session" THEN <<"cleanup", "sessionLost">> ELSE <<"cleanup">>
    /\ UNCHANGED <<avail, loggedIn, reqShow, link, toCore, guiVars, up>>

cs_connectionClosedMutant ==
    /\ link # None /\ ended = None /\ ~Busy
    /\ ended' = "closed"
    /\ Notify(<<StatusUpdated(Offline), ConnectionError(FALSE)>>)
    /\ UNCHANGED <<avail, loggedIn, reqShow, link, soon, toCore, guiVars, up>>

\* The client is not told that the stream was closed.
cs_connectionClosed ==
    /\ link # None /\ ended = None /\ ~Busy
    /\ ended' = "closed"
    /\ Notify(<<StatusUpdated(Offline), ConnectionError(FALSE)>>)
    /\ soon' = Append(soon, "cleanup")
    /\ UNCHANGED <<avail, loggedIn, reqShow, link, toCore, guiVars, up>>

\* Client::close disconnects the tasks: an outstanding session task finishes later,
\* unless the stream's error has already disconnected it.
cleanup ==
    /\ soon # <<>> /\ Head(soon) = "cleanup"
    /\ avail' = FALSE /\ loggedIn' = FALSE /\ link' = None /\ ended' = None
    /\ soon' = Tail(soon) \o
               IF link = "session" /\ ended # "error" THEN <<"sessionLost">> ELSE <<>>
    /\ UNCHANGED <<reqShow, toCore, toGui, guiVars, up>>

\* The session task of a stream that is gone: its end counts as a failure to start
\* the session, whatever session the account has by now.
sessionStart_lost ==
    /\ soon # <<>> /\ Head(soon) = "sessionLost"
    /\ Notify(<<StatusUpdated(Offline)>>)
    /\ soon' = Append(Tail(soon), "cleanup")
    /\ UNCHANGED <<avail, loggedIn, reqShow, link, ended, toCore, guiVars, up>>

(* --------------------- the user interface: the status --------------------- *)

Host == IF failed /\ lastGood # None /\ attempted # lastGood THEN lastGood ELSE Configured

\* p_setOnlineStatus: a new host is chosen only for an account that shows Offline.
p_setOnlineStatus(s) ==
    /\ toCore' = Append(toCore, s)
    /\ IF status = Offline /\ s # Offline
       THEN attempted' = Host /\ failed' = FALSE /\ status' = Connecting
       ELSE UNCHANGED <<hostVars, status>>

setTargetStatusMutant(s) ==
    /\ context' = IF s = Offline /\ context # None THEN [context EXCEPT !.mode = "idle"] ELSE context
    /\ target' = s
    /\ p_setOnlineStatus(s)

setTargetStatus(s) ==
    /\ context' = IF s = Offline THEN None ELSE context
    /\ target' = s
    /\ p_setOnlineStatus(s)

SetTarget(s) == /\ ~Busy /\ ~alert /\ MayAct("user")
                /\ setTargetStatus(s)
                /\ UNCHANGED <<coreVars, toGui, lastGood, later, alert, up>>

\* A call that was delayed to the next turn of the run loop.
SetTargetLater == /\ later # <<>> /\ ~alert
                  /\ setTargetStatus(Head(later))
                  /\ later' = Tail(later)
                  /\ UNCHANGED <<coreVars, toGui, lastGood, alert, up>>

DismissAlert == /\ alert /\ alert' = FALSE
                /\ UNCHANGED <<coreVars, toCore, toGui, status, target, hostVars, lastGood,
                               later, context, up>>

(* ------------------- the user interface: reconnection ------------------- *)

Reachable(c) == IF c.observing = "pair" THEN c.local \in up ELSE up # {}
Reconnecting == context # None /\ context.mode # "idle"

\* Nothing happens when the pair of addresses is the one that it was.
setObservedConnection(c, l, r) ==
    IF c.local = l /\ c.remote = r THEN c
    ELSE [c EXCEPT !.local = l, !.remote = r, !.observing = "pair", !.flags = l \in up]

ContextFor(l, r) == [mode |-> "idle", timer |-> None, last |-> None, local |-> l, remote |-> r,
                     observing |-> "pair", flags |-> l \in up]

RetryingMutant(c) == [c EXCEPT !.mode = "retrying", !.timer = "reconnect"]

\* Every way to retry takes the status that the user wants now.
Retrying(c) == [c EXCEPT !.mode = "retrying", !.last = target, !.timer = "reconnect"]

\* Another route to the server may exist; without one the context waits, and
\* observes the server whatever the route.
handleNetworkInterfaceDown ==
    /\ p_setOnlineStatus(Offline)
    /\ context' = IF up # {}
                  THEN [Retrying(context) EXCEPT !.observing = None]
                  ELSE [context EXCEPT !.mode = "waiting", !.last = target, !.timer = None,
                                       !.local = None, !.observing = "host", !.flags = FALSE]
    /\ UNCHANGED <<coreVars, toGui, target, lastGood, later, alert, up>>

handleNetworkInterfaceUp ==
    /\ context' = [context EXCEPT !.flags = TRUE,
                                  !.timer = IF context.mode = "waiting" /\ status = Offline
                                            THEN "reconnect" ELSE @]
    /\ UNCHANGED <<coreVars, toCore, toGui, status, target, hostVars, lastGood, later, alert, up>>

\* The reachability callback acts only on flags that are not the last ones.
ReachabilityDidChange ==
    /\ context # None /\ context.observing # None /\ ~alert /\ ~Busy
    /\ context.flags # Reachable(context)
    /\ IF Reachable(context) THEN handleNetworkInterfaceUp ELSE handleNetworkInterfaceDown

WorkspaceWillSleep == /\ context # None /\ ~alert /\ ~Busy /\ MayAct("timers")
                      /\ handleNetworkInterfaceDown

Timer(t) == context # None /\ context.timer = t /\ ~alert /\ ~Busy /\ MayAct("timers")

p_reconnect ==
    /\ Timer("reconnect")
    /\ p_setOnlineStatus(context.last)
    /\ context' = [context EXCEPT !.timer = "timeout"]
    /\ UNCHANGED <<coreVars, toGui, target, lastGood, later, alert, up>>

p_reconnectTimedOutMutant ==
    /\ Timer("timeout")
    /\ p_setOnlineStatus(Offline)
    /\ context' = [context EXCEPT !.timer = None]
    /\ UNCHANGED <<coreVars, toGui, target, lastGood, later, alert, up>>

p_reconnectTimedOut ==
    /\ Timer("timeout")
    /\ p_setOnlineStatus(Offline)
    /\ context' = [context EXCEPT !.timer = IF Reconnecting THEN "reconnect" ELSE None]
    /\ UNCHANGED <<coreVars, toGui, target, lastGood, later, alert, up>>

(* ------------------- the user interface: notifications ------------------- *)

handleStatusUpdated(s) ==
    /\ status' = s
    /\ context' = IF Reconnecting /\ s # Offline
                  THEN [context EXCEPT !.mode = "idle", !.timer = None] ELSE context
    /\ UNCHANGED <<target, hostVars, lastGood, later, alert>>

handleAccountConnectedToServer(l, r) ==
    /\ lastGood' = r
    /\ context' = IF context = None THEN ContextFor(l, r)
                  ELSE setObservedConnection(context, l, r)
    /\ UNCHANGED <<status, target, hostVars, later, alert>>

\* The last good host is tried next; a reconnection that is going on takes the error;
\* an error of the last good host starts one; any other is shown to the user.
RetriesLastGood(recoverable) == recoverable /\ lastGood # None /\ attempted # lastGood
StartsRetrying(recoverable) ==
    Reconnecting \/ (recoverable /\ lastGood # None /\ attempted = lastGood)

\* An error while reconnecting that is taken for the end of it.
handleConnectionErrorMutant(recoverable) ==
    /\ failed' = (failed \/ recoverable)
    /\ later' = IF RetriesLastGood(recoverable) THEN Append(later, target) ELSE later
    /\ context' = IF ~RetriesLastGood(recoverable) /\ StartsRetrying(recoverable) /\ context # None
                  THEN [context EXCEPT !.mode = "retrying", !.last = target, !.timer = None]
                  ELSE context
    /\ alert' = (alert \/ ~(RetriesLastGood(recoverable) \/ StartsRetrying(recoverable)))
    /\ UNCHANGED <<status, target, attempted, lastGood>>

handleConnectionError(recoverable) ==
    /\ failed' = (failed \/ recoverable)
    /\ later' = IF RetriesLastGood(recoverable) THEN Append(later, target) ELSE later
    /\ context' = IF ~RetriesLastGood(recoverable) /\ StartsRetrying(recoverable) /\ context # None
                  THEN Retrying(context) ELSE context
    /\ alert' = (alert \/ ~(RetriesLastGood(recoverable) \/ StartsRetrying(recoverable)))
    /\ UNCHANGED <<status, target, attempted, lastGood>>

HandleNote(n) ==
    CASE n.note = "statusUpdated" -> handleStatusUpdated(n.show)
      [] n.note = "accountConnectedToServer" -> handleAccountConnectedToServer(n.local, n.remote)
      [] n.note = "connectionError" -> handleConnectionError(n.recoverable)

\* LFPlatformBridge does not disturb a modal panel.
Deliver == /\ toGui # <<>> /\ ~alert
           /\ toGui' = Tail(toGui)
           /\ HandleNote(Head(toGui))
           /\ UNCHANGED <<coreVars, toCore, up>>

(* ------------------------------ the network ------------------------------ *)

InterfacesChange == /\ ~Busy /\ MayAct("timers")
                    /\ up' \in SUBSET Iface /\ up' # up
                    /\ UNCHANGED <<coreVars, toCore, toGui, guiVars>>

(* ------------------------------ the system ------------------------------ *)

Next == \/ HandleCall
        \/ cs_connected \/ cs_authenticated
        \/ sessionStarted \/ sessionStart_failed \/ sessionStart_lost
        \/ finishConnectAndGetRoster \/ client_rosterRequestFinished
        \/ avatarFactory_selfAvatarHashValuesChanged
        \/ \E recoverable \in BOOLEAN : cs_error(recoverable)
        \/ cs_connectionClosed \/ cleanup
        \/ \E s \in Show : SetTarget(s)
        \/ SetTargetLater \/ DismissAlert
        \/ ReachabilityDidChange \/ WorkspaceWillSleep
        \/ p_reconnect \/ p_reconnectTimedOut
        \/ Deliver \/ InterfacesChange

Spec == Init /\ [][Next]_vars

\* A stage is reached in time when nothing else is under way: neither the timeout
\* nor the user has stopped the attempt.
InTime(stage) == stage /\ ended = None /\ Quiet

\* Both event loops go on.  A stage that is tried again and again is reached again
\* and again before the timeout; a timer is not put off for ever.
Fairness == /\ WF_vars(HandleCall \/ cleanup \/ sessionStart_lost)
            /\ WF_vars(Deliver) /\ WF_vars(SetTargetLater)
            /\ SF_vars(p_reconnect \/ p_reconnectTimedOut)
            /\ SF_vars(InTime(cs_connected)) /\ SF_vars(InTime(cs_authenticated))
            /\ SF_vars(InTime(sessionStarted)) /\ SF_vars(InTime(finishConnectAndGetRoster))
            /\ SF_vars(InTime(client_rosterRequestFinished) /\ loggedIn')

FairSpec == Spec /\ Fairness

(* ------------------------------ properties ------------------------------ *)

TypeOK ==
    /\ avail \in BOOLEAN /\ loggedIn \in BOOLEAN /\ reqShow \in Show
    /\ link \in Stage \cup {None} /\ ended \in {None, "error", "closed"}
    /\ soon \in Seq({"cleanup", "sessionLost"})
    /\ toCore \in Seq(Show) /\ toGui \in Seq(Note)
    /\ status \in Show \cup {Connecting} /\ target \in Show
    /\ attempted \in Remote \cup {Configured, None} /\ lastGood \in Remote \cup {None}
    /\ failed \in BOOLEAN /\ later \in Seq(Show) /\ alert \in BOOLEAN
    /\ context \in Context \cup {None}
    /\ up \in SUBSET Iface

\* The core has a stream exactly while the account is available, and a stream that
\* has ended is waiting for its cleanup: no order of calls, ends and late cleanups
\* leaves an account that is available and will never connect again, and setStatus
\* finds no stream to overwrite (account.cpp:440-559, 667-690, 862-876, 1042-1059).
StreamsCleaned == /\ avail <=> link # None
                  /\ ended # None => Contains(soon, "cleanup")

\* A user who went offline is offline: once nothing is under way, the core has no
\* session, whatever errors, reconnection timers, sleeps and delayed retries crossed
\* the call (LPAccount.m:1163-1175, 353-373; account.cpp:440-475).
OfflineSticks == Quiet /\ target = Offline => ~avail

\* While the core is logged in, and told the user interface all, the user interface
\* shows the status that the core announced to the server, and not Offline
\* or Connecting (account.cpp:388-437, LPAccount.m:1439-1447).
ShownIsCores == loggedIn /\ toGui = <<>> /\ soon = <<>> => status = reqShow

\* Reconnection never stalls and never outlives itself: a context that retries has
\* its one timer, one that waits for an interface has no timeout without a try, and
\* an idle one has no timer that would change the status (LPAccount.m:307-491).
ReconnectsByTimer ==
    context # None => /\ context.mode = "idle" => context.timer = None
                      /\ context.mode = "retrying" => context.timer # None
                      /\ context.timer # None => context.last # None

\* "Always update the hostname being observed by our auto-reconnect manager, even if
\* we're always connecting to the same server" (LPAccount.m:1355-1356): an
\* account that is online again has its connection observed.
Observed == /\ Quiet /\ loggedIn /\ context # None
            /\ context.mode = "idle"
            => context.observing = "pair"

\* From some moment on, a route exists, the server does not end or refuse a stream,
\* and neither the user nor the computer's sleep interferes.
StreamEnds == \/ cs_connectionClosed \/ \E recoverable \in BOOLEAN : cs_error(recoverable)
              \/ sessionStart_failed \/ (client_rosterRequestFinished /\ ~loggedIn')
LeftAlone == /\ <>[](up # {})
             /\ <>[][~(StreamEnds \/ WorkspaceWillSleep \/ \E s \in Show : SetTarget(s))]_vars

RetriesOnline == context # None /\ context.mode = "retrying" /\ context.last # Offline

\* Reconnection ends: an account that retries comes back online, or is no longer
\* retrying, once the network and the server let it; an alert holds the timers until
\* the user dismisses it (LPAccount.m:353-373, 446-491, 1363-1447).
ReconnectionEnds == LeftAlone => (RetriesOnline ~> ~RetriesOnline \/ alert)
==================================================================================
