----------------------------- MODULE Account_proofs -----------------------------
(* What Account promises for any statuses, interfaces, servers and bounds: types, that
   a stream that ended is cleaned up, that a user who went offline is offline, that a
   reconnection has its timer, and that a user interface that was told everything
   shows the status of the session.

   The inductive invariant says of each promise what a queue that is not empty
   means for it: the last call that waits decides whether the account will be
   offline, and the last status that waits is the one that will be shown.           *)
EXTENDS Account, SequenceTheorems, TLAPS

----------------------------------------------------------------------------
(* Queues. *)

\* A queue that takes one more element keeps the others in their places.
LEMMA GrowsByOne ==
  ASSUME NEW S, NEW q \in Seq(S), NEW x \in S
  PROVE  /\ q \o <<x>> = Append(q, x)
         /\ Append(q, x) \in Seq(S) /\ Append(q, x) # <<>>
         /\ Len(Append(q, x)) = Len(q) + 1 /\ Len(q) \in Nat
         /\ Append(q, x)[Len(q) + 1] = x
         /\ \A i \in 1..Len(q) : Append(q, x)[i] = q[i]
<1>1. /\ Append(q, x) \in Seq(S) /\ Append(q, x) # <<>>
      /\ Len(Append(q, x)) = Len(q) + 1
      /\ Append(q, x)[Len(q) + 1] = x
      /\ \A i \in 1..Len(q) : Append(q, x)[i] = q[i]
  BY AppendProperties
<1>2. q \o <<x>> = Append(q, x)
  OBVIOUS
<1>3. Len(q) \in Nat
  BY LenProperties
<1> QED
  BY <1>1, <1>2, <1>3

\* A queue that loses its head: the others move up.
LEMMA LosesHead ==
  ASSUME NEW S, NEW q \in Seq(S), q # <<>>
  PROVE  /\ Head(q) \in S /\ Tail(q) \in Seq(S) /\ Head(q) = q[1]
         /\ Len(Tail(q)) = Len(q) - 1 /\ Len(q) \in Nat /\ Len(q) >= 1
         /\ \A i \in 1..Len(Tail(q)) : Tail(q)[i] = q[i + 1]
<1>1. /\ Head(q) \in S /\ Tail(q) \in Seq(S) /\ Head(q) = q[1]
      /\ Len(Tail(q)) = Len(q) - 1
  BY HeadTailProperties
<1>2. \A i \in 1..Len(Tail(q)) : Tail(q)[i] = q[i + 1]
  BY <1>1
<1>3. Len(q) \in Nat /\ Len(q) >= 1
  BY EmptySeq, LenProperties
<1> QED
  BY <1>1, <1>2, <1>3

\* What waits goes on waiting, and what is added waits.
LEMMA WaitsOn ==
  ASSUME NEW S, NEW q \in Seq(S), NEW x \in S
  PROVE  /\ Contains(Append(q, x), x)
         /\ \A y : Contains(q, y) => Contains(Append(q, x), y)
<1>1. /\ Len(Append(q, x)) = Len(q) + 1 /\ Len(q) \in Nat
      /\ Append(q, x)[Len(q) + 1] = x
      /\ \A i \in 1..Len(q) : Append(q, x)[i] = q[i]
  BY GrowsByOne
<1>2. Contains(Append(q, x), x)
  <2>1. Len(q) + 1 \in 1..Len(Append(q, x))
    BY <1>1
  <2> QED
    BY <1>1, <2>1 DEF Contains
<1>3. ASSUME NEW y, Contains(q, y)
      PROVE  Contains(Append(q, x), y)
  <2>1. PICK i \in 1..Len(q) : q[i] = y
    BY <1>3 DEF Contains
  <2>2. i \in 1..Len(Append(q, x)) /\ Append(q, x)[i] = y
    BY <1>1, <2>1
  <2> QED
    BY <2>2 DEF Contains
<1> QED
  BY <1>2, <1>3

\* What waits behind the head goes on waiting when the head is taken.
LEMMA WaitsBehind ==
  ASSUME NEW S, NEW q \in Seq(S), q # <<>>, NEW y, Contains(q, y), Head(q) # y
  PROVE  Contains(Tail(q), y)
<1>1. /\ Head(q) = q[1] /\ Len(Tail(q)) = Len(q) - 1 /\ Len(q) \in Nat
      /\ \A i \in 1..Len(Tail(q)) : Tail(q)[i] = q[i + 1]
  BY LosesHead
<1>2. PICK i \in 1..Len(q) : q[i] = y
  BY DEF Contains
<1>3. i # 1
  BY <1>1, <1>2
<1>4. i - 1 \in 1..Len(Tail(q)) /\ Tail(q)[i - 1] = y
  <2>1. i - 1 \in 1..Len(Tail(q))
    BY <1>1, <1>3
  <2>2. Tail(q)[i - 1] = q[(i - 1) + 1]
    BY <1>1, <2>1
  <2>3. (i - 1) + 1 = i
    OBVIOUS
  <2> QED
    BY <1>2, <2>1, <2>2, <2>3
<1> QED
  BY <1>4 DEF Contains

----------------------------------------------------------------------------
(* The statuses that wait for the user interface. *)

IsStatus(n) == n.note = "statusUpdated"

\* Once all of q is delivered to a user interface that shows s, it shows r.
Told(q, s, r) ==
    \/ \E i \in 1..Len(q) : /\ IsStatus(q[i]) /\ q[i].show = r
                            /\ \A j \in 1..Len(q) : j > i => ~IsStatus(q[j])
    \/ s = r /\ \A j \in 1..Len(q) : ~IsStatus(q[j])

\* The last status that is sent is the one that will be shown; what is no status
\* changes nothing.
LEMMA TellsStatus ==
  ASSUME NEW q \in Seq(Note), NEW n \in Note, NEW s, NEW r
  PROVE  /\ IsStatus(n) => Told(Append(q, n), s, n.show)
         /\ ~IsStatus(n) /\ Told(q, s, r) => Told(Append(q, n), s, r)
<1> DEFINE p == Append(q, n)
<1>1. /\ Len(p) = Len(q) + 1 /\ Len(q) \in Nat
      /\ p[Len(q) + 1] = n
      /\ \A i \in 1..Len(q) : p[i] = q[i]
  BY GrowsByOne
<1> HIDE DEF p
<1>2. ASSUME IsStatus(n)
      PROVE  Told(p, s, n.show)
  <2>1. Len(q) + 1 \in 1..Len(p)
    BY <1>1
  <2>2. \A j \in 1..Len(p) : ~(j > Len(q) + 1)
    BY <1>1
  <2>3. IsStatus(p[Len(q) + 1]) /\ p[Len(q) + 1].show = n.show
    BY <1>1, <1>2
  <2> QED
    BY <2>1, <2>2, <2>3 DEF Told
<1>3. ASSUME ~IsStatus(n), Told(q, s, r)
      PROVE  Told(p, s, r)
  <2>1. \A j \in 1..Len(p) : j \in 1..Len(q) \/ j = Len(q) + 1
    BY <1>1
  <2>2. CASE s = r /\ \A j \in 1..Len(q) : ~IsStatus(q[j])
    <3>1. \A j \in 1..Len(p) : ~IsStatus(p[j])
      BY <1>1, <1>3, <2>1, <2>2
    <3> QED
      BY <2>2, <3>1 DEF Told
  <2>3. CASE \E i \in 1..Len(q) : /\ IsStatus(q[i]) /\ q[i].show = r
                                  /\ \A j \in 1..Len(q) : j > i => ~IsStatus(q[j])
    <3>1. PICK i \in 1..Len(q) : /\ IsStatus(q[i]) /\ q[i].show = r
                                 /\ \A j \in 1..Len(q) : j > i => ~IsStatus(q[j])
      BY <2>3
    <3>2. i \in 1..Len(p) /\ IsStatus(p[i]) /\ p[i].show = r
      BY <1>1, <3>1
    <3>3. \A j \in 1..Len(p) : j > i => ~IsStatus(p[j])
      BY <1>1, <1>3, <2>1, <3>1
    <3> QED
      BY <3>2, <3>3 DEF Told
  <2> QED
    BY <1>3, <2>2, <2>3 DEF Told
<1> QED
  BY <1>2, <1>3 DEF p

\* Delivering the head keeps what will be shown.
LEMMA TellsHead ==
  ASSUME NEW q \in Seq(Note), q # <<>>, NEW s, NEW r, Told(q, s, r)
  PROVE  /\ IsStatus(Head(q)) => Told(Tail(q), Head(q).show, r)
         /\ ~IsStatus(Head(q)) => Told(Tail(q), s, r)
<1> DEFINE t == Tail(q)
<1>1. /\ Head(q) = q[1] /\ Len(t) = Len(q) - 1 /\ Len(q) \in Nat /\ Len(q) >= 1
      /\ \A i \in 1..Len(t) : t[i] = q[i + 1]
  BY LosesHead
<1> HIDE DEF t
<1>2. \A i \in 1..Len(t) : i + 1 \in 1..Len(q) /\ t[i] = q[i + 1]
  BY <1>1
<1>3. CASE s = r /\ \A j \in 1..Len(q) : ~IsStatus(q[j])
  <2>1. ~IsStatus(Head(q))
    BY <1>1, <1>3
  <2>2. \A j \in 1..Len(t) : ~IsStatus(t[j])
    BY <1>2, <1>3
  <2> QED
    BY <1>3, <2>1, <2>2 DEF Told, t
<1>4. CASE \E i \in 1..Len(q) : /\ IsStatus(q[i]) /\ q[i].show = r
                                /\ \A j \in 1..Len(q) : j > i => ~IsStatus(q[j])
  <2>1. PICK i \in 1..Len(q) : /\ IsStatus(q[i]) /\ q[i].show = r
                               /\ \A j \in 1..Len(q) : j > i => ~IsStatus(q[j])
    BY <1>4
  <2>2. CASE i = 1
    <3>1. IsStatus(Head(q)) /\ Head(q).show = r
      BY <1>1, <2>1, <2>2
    <3>2. \A j \in 1..Len(t) : ~IsStatus(t[j])
      <4> TAKE j \in 1..Len(t)
      <4>1. j + 1 \in 1..Len(q) /\ j + 1 > i /\ t[j] = q[j + 1]
        BY <1>2, <2>2
      <4> QED
        BY <2>1, <4>1
    <3> QED
      BY <3>1, <3>2 DEF Told, t
  <2>3. CASE i # 1
    <3>1. i - 1 \in 1..Len(t) /\ t[i - 1] = q[i]
      <4>1. i - 1 \in 1..Len(t)
        BY <1>1, <2>3
      <4>2. (i - 1) + 1 = i
        OBVIOUS
      <4> QED
        BY <1>2, <4>1, <4>2
    <3>2. \A j \in 1..Len(t) : j > i - 1 => ~IsStatus(t[j])
      <4> SUFFICES ASSUME NEW j \in 1..Len(t), j > i - 1
                   PROVE  ~IsStatus(t[j])
        OBVIOUS
      <4>1. j + 1 \in 1..Len(q) /\ j + 1 > i /\ t[j] = q[j + 1]
        BY <1>2
      <4> QED
        BY <2>1, <4>1
    <3>3. IsStatus(t[i - 1]) /\ t[i - 1].show = r
      BY <2>1, <3>1
    <3>4. Told(t, s, r) /\ Told(t, Head(q).show, r)
      BY <3>1, <3>2, <3>3 DEF Told
    <3> QED
      BY <3>4 DEF t
  <2> QED
    BY <2>2, <2>3
<1> QED
  BY <1>3, <1>4 DEF Told

\* Nothing that waits: what is shown is what will be shown.
LEMMA ToldAll ==
  ASSUME NEW s, NEW r, Told(<<>>, s, r)
  PROVE  s = r
BY DEF Told

----------------------------------------------------------------------------
(* The inductive invariant. *)

StreamInv == /\ avail <=> link # None
             /\ loggedIn <=> link = "up"
             /\ ended # None => Contains(soon, "cleanup")
             /\ avail => reqShow \in Online
TimerInv == context # None => /\ context.mode = "idle" => context.timer = None
                              /\ context.mode = "retrying" => context.timer # None
                              /\ context.mode # "idle" => context.last # None
OfflineInv == target = Offline =>
                 /\ IF toCore = <<>> THEN avail => Contains(soon, "cleanup")
                    ELSE toCore[Len(toCore)] = Offline
                 /\ context # None /\ context.mode # "idle" => context.last = Offline
ShownInv == loggedIn => Contains(soon, "cleanup") \/ Told(toGui, status, reqShow)
IInv == TypeOK /\ StreamInv /\ TimerInv /\ OfflineInv /\ ShownInv

LEMMA GrowsByTwo ==
  ASSUME NEW S, NEW q \in Seq(S), NEW x \in S, NEW y \in S
  PROVE  q \o <<x, y>> = Append(Append(q, x), y)
OBVIOUS

\* No string and no status is None.
LEMMA Apart ==
  /\ Offline \notin Online /\ Offline # Connecting /\ Offline # None /\ Connecting \notin Online
  /\ None \notin Show /\ None \notin Stage /\ None \notin Context /\ None # Connecting
  /\ None # "reconnect" /\ None # "timeout" /\ None # "pair" /\ None # "host"
  /\ None # "error" /\ None # "closed"
BY AccountAssumption DEF Show

\* The notifications that are sent are notifications.
LEMMA Notes ==
  /\ \A s \in Show : StatusUpdated(s) \in Note /\ IsStatus(StatusUpdated(s))
                     /\ StatusUpdated(s).show = s
  /\ \A l \in Iface, r \in Remote :
        ConnectedToServer(l, r) \in Note /\ ~IsStatus(ConnectedToServer(l, r))
  /\ \A b \in BOOLEAN : ConnectionError(b) \in Note /\ ~IsStatus(ConnectionError(b))
<1>1. \A s \in Show : StatusUpdated(s) \in Note
  BY DEF StatusUpdated, Note
<1>2. \A l \in Iface, r \in Remote : ConnectedToServer(l, r) \in Note
  BY DEF ConnectedToServer, Note
<1>3. \A b \in BOOLEAN : ConnectionError(b) \in Note
  BY DEF ConnectionError, Note
<1>4. /\ \A s : IsStatus(StatusUpdated(s)) /\ StatusUpdated(s).show = s
      /\ \A l, r : ~IsStatus(ConnectedToServer(l, r))
      /\ \A b : ~IsStatus(ConnectionError(b))
  BY DEF IsStatus, StatusUpdated, ConnectedToServer, ConnectionError
<1> QED
  BY <1>1, <1>2, <1>3, <1>4

\* What the three shapes of notifying do to the queue.
LEMMA Notifies ==
  ASSUME TypeOK
  PROVE  /\ toGui \o <<>> = toGui
         /\ \A n \in Note : toGui \o <<n>> = Append(toGui, n) /\ Append(toGui, n) \in Seq(Note)
         /\ \A n, m \in Note : /\ toGui \o <<n, m>> = Append(Append(toGui, n), m)
                               /\ Append(Append(toGui, n), m) \in Seq(Note)
<1>0. toGui \in Seq(Note)
  BY DEF TypeOK
<1>1. toGui \o <<>> = toGui
  BY <1>0, ConcatEmptySeq
<1>2. ASSUME NEW n \in Note
      PROVE  toGui \o <<n>> = Append(toGui, n) /\ Append(toGui, n) \in Seq(Note)
  BY <1>0, GrowsByOne
<1>3. ASSUME NEW n \in Note, NEW m \in Note
      PROVE  /\ toGui \o <<n, m>> = Append(Append(toGui, n), m)
             /\ Append(Append(toGui, n), m) \in Seq(Note)
  BY <1>0, <1>2, GrowsByOne, GrowsByTwo
<1> QED
  BY <1>1, <1>2, <1>3

----------------------------------------------------------------------------
(* Types. *)

CoreOK == /\ avail \in BOOLEAN /\ loggedIn \in BOOLEAN /\ reqShow \in Show
          /\ link \in Stage \cup {None} /\ ended \in {None, "error", "closed"}
          /\ soon \in Seq({"cleanup", "sessionLost"})
          /\ toGui \in Seq(Note)
GuiOK == /\ toCore \in Seq(Show)
         /\ status \in Show \cup {Connecting} /\ target \in Show
         /\ attempted \in Remote \cup {Configured, None} /\ lastGood \in Remote \cup {None}
         /\ failed \in BOOLEAN /\ later \in Seq(Show) /\ alert \in BOOLEAN
         /\ context \in Context \cup {None}
         /\ up \in SUBSET Iface

CoreStep == \/ cs_connected \/ cs_authenticated
            \/ sessionStarted \/ sessionStart_failed \/ sessionStart_lost
            \/ finishConnectAndGetRoster \/ client_rosterRequestFinished
            \/ avatarFactory_selfAvatarHashValuesChanged
            \/ \E recoverable \in BOOLEAN : cs_error(recoverable)
            \/ cs_connectionClosed \/ cleanup

\* The core's own steps leave the user interface and its calls alone.
LEMMA CoreStepLeaves ==
  ASSUME CoreStep
  PROVE  UNCHANGED <<toCore, guiVars, up>>
BY DEF CoreStep, cs_connected, cs_authenticated, sessionStarted, sessionStart_failed,
       sessionStart_lost, finishConnectAndGetRoster, client_rosterRequestFinished,
       avatarFactory_selfAvatarHashValuesChanged, cs_error, cs_connectionClosed, cleanup,
       Goes

\* Cleanups and lost sessions that are scheduled.
LEMMA Schedules ==
  ASSUME TypeOK
  PROVE  /\ \A x \in {"cleanup", "sessionLost"} :
              /\ Append(soon, x) \in Seq({"cleanup", "sessionLost"})
              /\ soon \o <<x>> = Append(soon, x)
         /\ soon \o <<"cleanup", "sessionLost">> = Append(Append(soon, "cleanup"), "sessionLost")
         /\ Append(Append(soon, "cleanup"), "sessionLost") \in Seq({"cleanup", "sessionLost"})
         /\ soon # <<>> =>
              /\ Tail(soon) \in Seq({"cleanup", "sessionLost"})
              /\ \A x \in {"cleanup", "sessionLost"} :
                   /\ Append(Tail(soon), x) \in Seq({"cleanup", "sessionLost"})
                   /\ Tail(soon) \o <<x>> = Append(Tail(soon), x)
              /\ Tail(soon) \o <<>> = Tail(soon)
<1> DEFINE D == {"cleanup", "sessionLost"}
<1>0. soon \in Seq(D)
  BY DEF TypeOK
<1>1. ASSUME NEW x \in D
      PROVE  Append(soon, x) \in Seq(D) /\ soon \o <<x>> = Append(soon, x)
  BY <1>0, GrowsByOne
<1>2. /\ soon \o <<"cleanup", "sessionLost">> = Append(Append(soon, "cleanup"), "sessionLost")
      /\ Append(Append(soon, "cleanup"), "sessionLost") \in Seq(D)
  BY <1>0, <1>1, GrowsByTwo, GrowsByOne
<1>3. ASSUME soon # <<>>
      PROVE  /\ Tail(soon) \in Seq(D)
             /\ \A x \in D : /\ Append(Tail(soon), x) \in Seq(D)
                             /\ Tail(soon) \o <<x>> = Append(Tail(soon), x)
             /\ Tail(soon) \o <<>> = Tail(soon)
  <2>1. Tail(soon) \in Seq(D)
    BY <1>0, <1>3, LosesHead
  <2> QED
    BY <2>1, GrowsByOne, ConcatEmptySeq
<1> QED
  BY <1>1, <1>2, <1>3

LEMMA CoreTypes ==
  ASSUME TypeOK, HandleCall \/ CoreStep
  PROVE  CoreOK'
<1> USE DEF CoreOK
<1>0. /\ CoreOK /\ up \in SUBSET Iface /\ toCore \in Seq(Show)
      /\ Offline \in Show /\ Online \subseteq Show
      /\ \A s \in {"connecting", "negotiating", "session", "agents", "roster", "up", "refused"} :
            s \in Stage
      /\ TRUE \in BOOLEAN /\ FALSE \in BOOLEAN
  BY DEF TypeOK, Show, Stage
<1>1. CASE HandleCall
  <2> DEFINE s == Head(toCore)
  <2>1. s \in Show
    BY <1>0, <1>1, LosesHead DEF HandleCall
  <2>2. setStatus(s)
    BY <1>1 DEF HandleCall
  <2> HIDE DEF s
  <2>3. CASE avail /\ s = Offline
    BY <1>0, <2>1, <2>2, <2>3, Notes, Notifies, Schedules DEF setStatus, Notify
  <2>4. CASE avail /\ s # Offline
    BY <1>0, <2>1, <2>2, <2>4, Notes, Notifies DEF setStatus, setClientStatus, Notify
  <2>5. CASE ~avail /\ s = Offline
    BY <1>0, <2>1, <2>2, <2>5 DEF setStatus, coreVars
  <2>6. CASE ~avail /\ s # Offline
    BY <1>0, <2>1, <2>2, <2>6 DEF setStatus
  <2> QED
    BY <1>0, <2>3, <2>4, <2>5, <2>6
<1>2. CASE cs_connected
  <2>1. PICK l \in up, r \in Remote : Notify(<<ConnectedToServer(l, r)>>)
    BY <1>2 DEF cs_connected
  <2>2. toGui' \in Seq(Note)
    BY <1>0, <2>1, Notes, Notifies DEF Notify
  <2> QED
    BY <1>0, <1>2, <2>2 DEF cs_connected, Goes
<1>3. CASE cs_authenticated
  BY <1>0, <1>3 DEF cs_authenticated, Goes
<1>4. CASE sessionStarted
  BY <1>0, <1>4 DEF sessionStarted, Goes
<1>5. CASE sessionStart_failed
  BY <1>0, <1>5, Notes, Notifies, Schedules DEF sessionStart_failed, Goes, Notify
<1>6. CASE sessionStart_lost
  BY <1>0, <1>6, Notes, Notifies, Schedules DEF sessionStart_lost, Notify
<1>7. CASE finishConnectAndGetRoster
  BY <1>0, <1>7 DEF finishConnectAndGetRoster, Goes
<1>8. CASE client_rosterRequestFinished
  BY <1>0, <1>8, Notes, Notifies DEF client_rosterRequestFinished, Goes, Notify
<1>9. CASE avatarFactory_selfAvatarHashValuesChanged
  BY <1>0, <1>9, Notes, Notifies
     DEF avatarFactory_selfAvatarHashValuesChanged, setClientStatus, Notify
<1>10. ASSUME NEW recoverable \in BOOLEAN, cs_error(recoverable)
       PROVE  CoreOK'
  <2>1. toGui' \in Seq(Note)
    BY <1>0, <1>10, Notes, Notifies DEF cs_error, Notify
  <2>2. soon' \in Seq({"cleanup", "sessionLost"})
    BY <1>0, <1>10, Schedules DEF cs_error
  <2> QED
    BY <1>0, <1>10, <2>1, <2>2 DEF cs_error
<1>11. CASE cs_connectionClosed
  BY <1>0, <1>11, Notes, Notifies, Schedules DEF cs_connectionClosed, Notify
<1>12. CASE cleanup
  BY <1>0, <1>12, Schedules DEF cleanup
<1> QED
  BY <1>1, <1>2, <1>3, <1>4, <1>5, <1>6, <1>7, <1>8, <1>9, <1>10, <1>11, <1>12 DEF CoreStep

GuiStep == \/ \E s \in Show : SetTarget(s)
           \/ SetTargetLater \/ DismissAlert
           \/ ReachabilityDidChange \/ WorkspaceWillSleep
           \/ p_reconnect \/ p_reconnectTimedOut
           \/ Deliver \/ InterfacesChange

LEMMA Steps ==
  ASSUME Next
  PROVE  HandleCall \/ CoreStep \/ GuiStep
BY DEF Next, CoreStep, GuiStep

\* The steps of the user interface leave the core alone, and only Deliver takes a
\* notification.
LEMMA GuiStepLeaves ==
  ASSUME GuiStep
  PROVE  /\ UNCHANGED coreVars
         /\ ~Deliver => UNCHANGED toGui
BY DEF GuiStep, SetTarget, SetTargetLater, DismissAlert, ReachabilityDidChange,
       WorkspaceWillSleep, handleNetworkInterfaceDown, handleNetworkInterfaceUp,
       p_reconnect, p_reconnectTimedOut, Deliver, InterfacesChange

\* A status is asked for: the call waits last, and the status that is shown changes
\* from Offline to Connecting at most.
LEMMA Asks ==
  ASSUME TypeOK, NEW s \in Show, p_setOnlineStatus(s)
  PROVE  /\ toCore' = Append(toCore, s) /\ toCore' \in Seq(Show)
         /\ toCore' # <<>> /\ toCore'[Len(toCore')] = s
         /\ status' \in Show \cup {Connecting}
         /\ status # Offline => status' = status
         /\ attempted' \in Remote \cup {Configured, None} /\ failed' \in BOOLEAN
<1>1. toCore' = Append(toCore, s)
  BY DEF p_setOnlineStatus
<1>2. /\ toCore' \in Seq(Show) /\ toCore' # <<>> /\ toCore'[Len(toCore) + 1] = s
      /\ Len(toCore') = Len(toCore) + 1
  BY <1>1, GrowsByOne DEF TypeOK
<1>3. Host \in Remote \cup {Configured}
  BY DEF Host, TypeOK
<1> QED
  BY <1>1, <1>2, <1>3 DEF p_setOnlineStatus, TypeOK, hostVars

\* What the handlers make of a context is a context.
LEMMA ContextTypes ==
  ASSUME TypeOK
  PROVE  /\ context # None =>
              /\ context \in Context
              /\ Retrying(context) \in Context
              /\ [Retrying(context) EXCEPT !.observing = None] \in Context
              /\ [context EXCEPT !.mode = "waiting", !.last = target, !.timer = None,
                                 !.local = None, !.observing = "host", !.flags = FALSE] \in Context
              /\ \A t \in {"reconnect", "timeout", None} : [context EXCEPT !.timer = t] \in Context
              /\ \A t \in {"reconnect", "timeout", None} :
                    [context EXCEPT !.flags = TRUE, !.timer = t] \in Context
              /\ [context EXCEPT !.mode = "idle", !.timer = None] \in Context
              /\ \A l \in Iface, r \in Remote : setObservedConnection(context, l, r) \in Context
         /\ \A l \in Iface, r \in Remote : ContextFor(l, r) \in Context
<1>1. ASSUME context # None
      PROVE  context \in Context
  BY <1>1 DEF TypeOK
<1>2. target \in Show
  BY DEF TypeOK
<1>3. ASSUME context # None
      PROVE  /\ Retrying(context) \in Context
             /\ [Retrying(context) EXCEPT !.observing = None] \in Context
             /\ [context EXCEPT !.mode = "waiting", !.last = target, !.timer = None,
                                !.local = None, !.observing = "host", !.flags = FALSE] \in Context
  BY <1>1, <1>2, <1>3 DEF Retrying, Context, Mode
<1>4. ASSUME context # None, NEW t \in {"reconnect", "timeout", None}
      PROVE  /\ [context EXCEPT !.timer = t] \in Context
             /\ [context EXCEPT !.flags = TRUE, !.timer = t] \in Context
             /\ [context EXCEPT !.mode = "idle", !.timer = None] \in Context
  BY <1>1, <1>4 DEF Context, Mode
<1>5. ASSUME context # None, NEW l \in Iface, NEW r \in Remote
      PROVE  setObservedConnection(context, l, r) \in Context
  <2>1. (l \in up) \in BOOLEAN
    OBVIOUS
  <2>2. [context EXCEPT !.local = l, !.remote = r, !.observing = "pair", !.flags = l \in up] \in Context
    BY <1>1, <1>5, <2>1 DEF Context
  <2> QED
    BY <1>1, <1>5, <2>2 DEF setObservedConnection
<1>6. ASSUME NEW l \in Iface, NEW r \in Remote
      PROVE  ContextFor(l, r) \in Context
  BY DEF ContextFor, Context, Mode
<1> QED
  BY <1>1, <1>3, <1>4, <1>5, <1>6

\* An interface that goes down asks for Offline and keeps a context.
LEMMA GoesDown ==
  ASSUME TypeOK, context # None, handleNetworkInterfaceDown
  PROVE  GuiOK' /\ p_setOnlineStatus(Offline) /\ UNCHANGED <<target, lastGood, later, alert>>
<1>1. /\ p_setOnlineStatus(Offline) /\ UNCHANGED <<target, lastGood, later, alert, up>>
      /\ context' \in Context
  BY ContextTypes DEF handleNetworkInterfaceDown
<1>2. /\ toCore' \in Seq(Show) /\ status' \in Show \cup {Connecting}
      /\ attempted' \in Remote \cup {Configured, None} /\ failed' \in BOOLEAN
  BY <1>1, Asks DEF Show
<1> QED
  BY <1>1, <1>2 DEF GuiOK, TypeOK

LEMMA GuiTypes ==
  ASSUME TypeOK, TimerInv, GuiStep
  PROVE  GuiOK' /\ toGui' \in Seq(Note)
<1> USE DEF GuiOK
<1>0. /\ GuiOK /\ toGui \in Seq(Note)
      /\ Offline \in Show /\ Online \subseteq Show
  BY DEF TypeOK, Show
<1>a. ASSUME NEW s \in Show, setTargetStatus(s), UNCHANGED <<lastGood, alert, up>>,
             later' \in Seq(Show)
      PROVE  GuiOK'
  <2>1. p_setOnlineStatus(s) /\ target' = s /\ context' \in Context \cup {None}
    BY <1>0, <1>a DEF setTargetStatus
  <2>2. /\ toCore' \in Seq(Show) /\ status' \in Show \cup {Connecting}
        /\ attempted' \in Remote \cup {Configured, None} /\ failed' \in BOOLEAN
    BY <2>1, Asks
  <2> QED
    BY <1>0, <1>a, <2>1, <2>2
<1>1. ASSUME NEW s \in Show, SetTarget(s)
      PROVE  GuiOK' /\ toGui' \in Seq(Note)
  BY <1>0, <1>1, <1>a DEF SetTarget
<1>2. CASE SetTargetLater
  <2>1. Head(later) \in Show /\ later' \in Seq(Show)
    BY <1>0, <1>2, LosesHead DEF SetTargetLater
  <2> QED
    BY <1>0, <1>2, <1>a, <2>1 DEF SetTargetLater
<1>3. CASE DismissAlert
  BY <1>0, <1>3 DEF DismissAlert, hostVars
<1>4. CASE ReachabilityDidChange
  <2>1. CASE handleNetworkInterfaceDown
    BY <1>0, <1>4, <2>1, GoesDown DEF ReachabilityDidChange, handleNetworkInterfaceDown
  <2>2. CASE handleNetworkInterfaceUp
    <3>1. context.timer \in {"reconnect", "timeout", None}
      BY <1>4, ContextTypes DEF ReachabilityDidChange, Context
    <3>2. context' \in Context
      BY <1>4, <2>2, <3>1, ContextTypes DEF ReachabilityDidChange, handleNetworkInterfaceUp
    <3> QED
      BY <1>0, <2>2, <3>2 DEF handleNetworkInterfaceUp, hostVars
  <2> QED
    BY <1>4, <2>1, <2>2 DEF ReachabilityDidChange
<1>5. CASE WorkspaceWillSleep
  BY <1>0, <1>5, GoesDown DEF WorkspaceWillSleep, handleNetworkInterfaceDown
<1>6. CASE p_reconnect
  <2>1. context # None /\ context.timer = "reconnect"
    BY <1>6 DEF p_reconnect, Timer
  <2>2. context.last \in Show
    BY <2>1, ContextTypes, Apart DEF TimerInv, Context, Mode
  <2>3. p_setOnlineStatus(context.last) /\ context' = [context EXCEPT !.timer = "timeout"]
    BY <1>6 DEF p_reconnect
  <2>4. context' \in Context
    BY <2>1, <2>3, ContextTypes
  <2>5. /\ toCore' \in Seq(Show) /\ status' \in Show \cup {Connecting}
        /\ attempted' \in Remote \cup {Configured, None} /\ failed' \in BOOLEAN
    BY <2>2, <2>3, Asks
  <2> QED
    BY <1>0, <1>6, <2>4, <2>5 DEF p_reconnect
<1>7. CASE p_reconnectTimedOut
  <2>1. context # None
    BY <1>7 DEF p_reconnectTimedOut, Timer
  <2>2. p_setOnlineStatus(Offline) /\ context' \in Context
    BY <1>7, <2>1, ContextTypes DEF p_reconnectTimedOut
  <2>3. /\ toCore' \in Seq(Show) /\ status' \in Show \cup {Connecting}
        /\ attempted' \in Remote \cup {Configured, None} /\ failed' \in BOOLEAN
    BY <1>0, <2>2, Asks
  <2> QED
    BY <1>0, <1>7, <2>2, <2>3 DEF p_reconnectTimedOut
<1>8. CASE Deliver
  <2> DEFINE n == Head(toGui)
  <2>1. n \in Note /\ toGui' \in Seq(Note)
    BY <1>0, <1>8, LosesHead DEF Deliver
  <2>2. HandleNote(n) /\ UNCHANGED <<toCore, up>>
    BY <1>8 DEF Deliver
  <2> HIDE DEF n
  <2>3. CASE n \in [note : {"statusUpdated"}, show : Show]
    <3>1. handleStatusUpdated(n.show) /\ n.show \in Show
      BY <2>2, <2>3 DEF HandleNote
    <3>2. context' \in Context \cup {None}
      BY <1>0, <3>1, ContextTypes DEF handleStatusUpdated, Reconnecting
    <3> QED
      BY <1>0, <2>1, <2>2, <3>1, <3>2 DEF handleStatusUpdated, hostVars
  <2>4. CASE n \in [note : {"accountConnectedToServer"}, local : Iface, remote : Remote]
    <3>1. /\ handleAccountConnectedToServer(n.local, n.remote)
          /\ n.local \in Iface /\ n.remote \in Remote
      BY <2>2, <2>4 DEF HandleNote
    <3>2. context' \in Context
      BY <1>0, <3>1, ContextTypes DEF handleAccountConnectedToServer
    <3> QED
      BY <1>0, <2>1, <2>2, <3>1, <3>2 DEF handleAccountConnectedToServer, hostVars
  <2>5. CASE n \in [note : {"connectionError"}, recoverable : BOOLEAN]
    <3>1. handleConnectionError(n.recoverable) /\ n.recoverable \in BOOLEAN
      BY <2>2, <2>5 DEF HandleNote
    <3>2. context' \in Context \cup {None}
      BY <1>0, <3>1, ContextTypes DEF handleConnectionError
    <3>3. later' \in Seq(Show)
      BY <1>0, <3>1, GrowsByOne DEF handleConnectionError
    <3>4. failed' \in BOOLEAN /\ alert' \in BOOLEAN
      BY <1>0, <3>1 DEF handleConnectionError
    <3> QED
      BY <1>0, <2>1, <2>2, <3>1, <3>2, <3>3, <3>4 DEF handleConnectionError
  <2> QED
    BY <2>1, <2>3, <2>4, <2>5 DEF Note
<1>9. CASE InterfacesChange
  BY <1>0, <1>9 DEF InterfacesChange, guiVars, hostVars
<1> QED
  BY <1>1, <1>2, <1>3, <1>4, <1>5, <1>6, <1>7, <1>8, <1>9 DEF GuiStep

LEMMA TypeStep ==
  ASSUME TypeOK, TimerInv, Next
  PROVE  TypeOK'
<1>1. CASE HandleCall
  <2>1. CoreOK'
    BY <1>1, CoreTypes
  <2>2. toCore' \in Seq(Show) /\ UNCHANGED <<guiVars, up>>
    BY <1>1, LosesHead DEF HandleCall, TypeOK
  <2> QED
    BY <2>1, <2>2 DEF TypeOK, CoreOK, guiVars, hostVars
<1>2. CASE CoreStep
  <2>1. CoreOK' /\ UNCHANGED <<toCore, guiVars, up>>
    BY <1>2, CoreTypes, CoreStepLeaves
  <2> QED
    BY <2>1 DEF TypeOK, CoreOK, guiVars, hostVars
<1>3. CASE GuiStep
  <2>1. GuiOK' /\ toGui' \in Seq(Note) /\ UNCHANGED coreVars
    BY <1>3, GuiTypes, GuiStepLeaves
  <2> QED
    BY <2>1 DEF TypeOK, GuiOK, coreVars
<1> QED
  BY <1>1, <1>2, <1>3, Steps

----------------------------------------------------------------------------
(* The stream and its cleanup. *)

\* A cleanup that is due stays due while more is scheduled, and one that is
\* scheduled is due.
LEMMA CleanupStays ==
  ASSUME TypeOK
  PROVE  /\ Contains(Append(soon, "cleanup"), "cleanup")
         /\ Contains(soon, "cleanup") => Contains(Append(soon, "sessionLost"), "cleanup")
         /\ Contains(Append(Append(soon, "cleanup"), "sessionLost"), "cleanup")
         /\ soon # <<>> => Contains(Append(Tail(soon), "cleanup"), "cleanup")
<1> DEFINE D == {"cleanup", "sessionLost"}
<1>1. soon \in Seq(D) /\ "cleanup" \in D /\ "sessionLost" \in D
  BY DEF TypeOK
<1>2. \A q \in Seq(D) : \A d \in D :
         /\ Append(q, d) \in Seq(D)
         /\ Contains(Append(q, "cleanup"), "cleanup")
         /\ Contains(q, "cleanup") => Contains(Append(q, "sessionLost"), "cleanup")
  <2> TAKE q \in Seq(D)
  <2> TAKE d \in D
  <2>1. Append(q, d) \in Seq(D)
    BY AppendProperties
  <2> QED
    BY <2>1, WaitsOn
<1>3. soon # <<>> => Tail(soon) \in Seq(D)
  BY Schedules
<1> HIDE DEF D
<1>4. /\ Contains(Append(soon, "cleanup"), "cleanup")
      /\ Contains(soon, "cleanup") => Contains(Append(soon, "sessionLost"), "cleanup")
  BY <1>1, <1>2
<1>5. Contains(Append(Append(soon, "cleanup"), "sessionLost"), "cleanup")
  <2>1. Append(soon, "cleanup") \in Seq(D)
    BY <1>1, <1>2
  <2> QED
    BY <1>1, <1>2, <1>4, <2>1
<1>6. soon # <<>> => Contains(Append(Tail(soon), "cleanup"), "cleanup")
  BY <1>1, <1>2, <1>3
<1> QED
  BY <1>4, <1>5, <1>6

LEMMA StreamStep ==
  ASSUME TypeOK, StreamInv, Next
  PROVE  StreamInv'
<1> USE DEF StreamInv
<1>0. /\ \A x \in Stage : x # None
      /\ "connecting" \in Stage /\ "up" \in Stage /\ "connecting" # "up"
      /\ link \in Stage \cup {None}
  BY Apart DEF Stage, TypeOK
<1>1. CASE HandleCall
  <2> DEFINE s == Head(toCore)
  <2>1. s \in Show /\ setStatus(s)
    BY <1>1, LosesHead DEF HandleCall, TypeOK
  <2> HIDE DEF s
  <2>2. CASE avail /\ s = Offline
    BY <2>1, <2>2, Schedules, CleanupStays DEF setStatus
  <2>3. CASE avail /\ s # Offline
    BY <2>1, <2>3 DEF setStatus, setClientStatus, Show
  <2>4. CASE ~avail /\ s = Offline
    BY <2>1, <2>4 DEF setStatus, coreVars
  <2>5. CASE ~avail /\ s # Offline
    <3>1. /\ avail' = TRUE /\ reqShow' = s /\ link' = "connecting" /\ ended' = None
          /\ loggedIn' = loggedIn
      BY <2>1, <2>5 DEF setStatus
    <3>2. ~loggedIn
      BY <1>0, <2>5, Apart
    <3> QED
      BY <1>0, <2>1, <2>5, <3>1, <3>2 DEF Show, TypeOK
  <2> QED
    BY <2>2, <2>3, <2>4, <2>5 DEF TypeOK
<1>2. CASE cs_connected
  BY <1>0, <1>2 DEF cs_connected, Goes, Live, Stage
<1>3. CASE cs_authenticated
  BY <1>0, <1>3 DEF cs_authenticated, Goes, Live, Stage
<1>4. CASE sessionStarted
  BY <1>0, <1>4 DEF sessionStarted, Goes, Live, Stage
<1>5. CASE sessionStart_failed
  BY <1>0, <1>5, CleanupStays DEF sessionStart_failed, Goes, Live, Stage
<1>6. CASE sessionStart_lost
  BY <1>6, CleanupStays DEF sessionStart_lost
<1>7. CASE finishConnectAndGetRoster
  BY <1>0, <1>7 DEF finishConnectAndGetRoster, Goes, Stage
<1>8. CASE client_rosterRequestFinished
  BY <1>0, <1>8 DEF client_rosterRequestFinished, Goes, Live, Stage
<1>9. CASE avatarFactory_selfAvatarHashValuesChanged
  BY <1>9 DEF avatarFactory_selfAvatarHashValuesChanged, setClientStatus
<1>10. ASSUME NEW recoverable \in BOOLEAN, cs_error(recoverable)
       PROVE  StreamInv'
  <2>1. Contains(soon', "cleanup")
    BY <1>10, Schedules, CleanupStays DEF cs_error
  <2> QED
    BY <1>10, <2>1 DEF cs_error
<1>11. CASE cs_connectionClosed
  BY <1>11, CleanupStays DEF cs_connectionClosed
<1>12. CASE cleanup
  BY <1>12, Apart DEF cleanup, Stage
<1>13. CASE GuiStep
  BY <1>13, GuiStepLeaves DEF coreVars
<1> QED
  BY <1>1, <1>2, <1>3, <1>4, <1>5, <1>6, <1>7, <1>8, <1>9, <1>10, <1>11, <1>12, <1>13, Steps
     DEF CoreStep

----------------------------------------------------------------------------
(* The reconnection and its timer. *)

\* What a context has to do with its timer and with the status that is wanted.
Timed(c) == /\ c.mode = "idle" => c.timer = None
            /\ c.mode = "retrying" => c.timer # None
            /\ c.mode # "idle" => c.last # None
Follows(c, t) == t = Offline => (c.mode # "idle" => c.last = Offline)

\* The context after a step: gone, made idle or retrying, with another timer,
\* or as it was.
LEMMA ContextSteps ==
  ASSUME TypeOK, TimerInv, context # None => Follows(context, target), GuiStep
  PROVE  context' # None => Timed(context') /\ Follows(context', target')
<1> DEFINE Good == context' # None => Timed(context') /\ Follows(context', target')
<1>0. /\ context # None => /\ context \in Context /\ Timed(context)
                           /\ Follows(context, target)
      /\ target \in Show /\ target # None
      /\ \A c \in Context : c.mode \in {"idle", "waiting", "retrying"}
  BY Apart DEF TypeOK, TimerInv, Timed, Context, Mode
<1>a. ASSUME context' = context, target' = target
      PROVE  Good
  BY <1>0, <1>a
<1>b. ASSUME NEW s \in Show, setTargetStatus(s)
      PROVE  Good
  <2>1. CASE s = Offline
    BY <1>b, <2>1 DEF setTargetStatus
  <2>2. CASE s # Offline
    BY <1>0, <1>b, <2>2 DEF setTargetStatus, Follows
  <2> QED
    BY <2>1, <2>2
<1>c. ASSUME context # None, context' = Retrying(context), target' = target
      PROVE  Good
  <2>1. context'.mode = "retrying" /\ context'.timer = "reconnect" /\ context'.last = target
    BY <1>0, <1>c DEF Retrying, Context
  <2> QED
    BY <1>0, <1>c, <2>1, Apart DEF Timed, Follows
<1>d. ASSUME context # None, handleNetworkInterfaceDown
      PROVE  Good
  <2>1. target' = target
    BY <1>d DEF handleNetworkInterfaceDown
  <2>2. CASE up # {}
    <3>1. context' = [Retrying(context) EXCEPT !.observing = None]
      BY <1>d, <2>2 DEF handleNetworkInterfaceDown
    <3>2. context'.mode = "retrying" /\ context'.timer = "reconnect" /\ context'.last = target
      BY <1>0, <1>d, <3>1 DEF Retrying, Context
    <3> QED
      BY <1>0, <2>1, <3>2, Apart DEF Timed, Follows
  <2>3. CASE up = {}
    <3>1. context' = [context EXCEPT !.mode = "waiting", !.last = target, !.timer = None,
                                     !.local = None, !.observing = "host", !.flags = FALSE]
      BY <1>d, <2>3 DEF handleNetworkInterfaceDown
    <3>2. context'.mode = "waiting" /\ context'.last = target
      BY <1>0, <1>d, <3>1 DEF Context
    <3> QED
      BY <1>0, <2>1, <3>2 DEF Timed, Follows
  <2> QED
    BY <2>2, <2>3
<1>1. ASSUME NEW s \in Show, SetTarget(s)
      PROVE  Good
  BY <1>1, <1>b DEF SetTarget
<1>2. CASE SetTargetLater
  <2>1. Head(later) \in Show
    BY <1>2, LosesHead DEF SetTargetLater, TypeOK
  <2> QED
    BY <1>2, <2>1, <1>b DEF SetTargetLater
<1>3. CASE DismissAlert
  BY <1>3, <1>a DEF DismissAlert
<1>4. CASE ReachabilityDidChange
  <2>1. CASE handleNetworkInterfaceDown
    BY <1>4, <2>1, <1>d DEF ReachabilityDidChange
  <2>2. CASE handleNetworkInterfaceUp
    <3>1. context \in Context /\ target' = target
      BY <1>0, <1>4, <2>2 DEF ReachabilityDidChange, handleNetworkInterfaceUp
    <3>2. /\ context'.mode = context.mode /\ context'.last = context.last
          /\ context'.timer = IF context.mode = "waiting" /\ status = Offline
                              THEN "reconnect" ELSE context.timer
      BY <2>2, <3>1 DEF handleNetworkInterfaceUp, Context
    <3>3. Timed(context) /\ Follows(context, target)
      BY <1>0, <1>4 DEF ReachabilityDidChange
    <3> QED
      BY <3>1, <3>2, <3>3, Apart DEF Timed, Follows
  <2> QED
    BY <1>4, <2>1, <2>2 DEF ReachabilityDidChange
<1>5. CASE WorkspaceWillSleep
  BY <1>5, <1>d DEF WorkspaceWillSleep
<1>6. CASE p_reconnect
  <2>1. /\ context # None /\ context.timer = "reconnect" /\ target' = target
        /\ context' = [context EXCEPT !.timer = "timeout"]
    BY <1>6 DEF p_reconnect, Timer
  <2>2. /\ context'.mode = context.mode /\ context'.last = context.last
        /\ context'.timer = "timeout"
    BY <1>0, <2>1 DEF Context
  <2>3. context.mode # "idle"
    BY <1>0, <2>1, Apart DEF Timed
  <2> QED
    BY <1>0, <2>1, <2>2, <2>3, Apart DEF Timed, Follows
<1>7. CASE p_reconnectTimedOut
  <2>1. /\ context # None /\ context.timer = "timeout" /\ target' = target
        /\ context' = [context EXCEPT !.timer = IF Reconnecting THEN "reconnect" ELSE None]
    BY <1>7 DEF p_reconnectTimedOut, Timer
  <2>2. context.mode # "idle"
    BY <1>0, <2>1, Apart DEF Timed
  <2>3. /\ context'.mode = context.mode /\ context'.last = context.last
        /\ context'.timer = "reconnect"
    BY <1>0, <2>1, <2>2 DEF Context, Reconnecting
  <2> QED
    BY <1>0, <2>1, <2>2, <2>3, Apart DEF Timed, Follows
<1>8. CASE Deliver
  <2> DEFINE n == Head(toGui)
  <2>1. n \in Note /\ HandleNote(n)
    BY <1>8, LosesHead DEF Deliver, TypeOK
  <2> HIDE DEF n
  <2>2. CASE n \in [note : {"statusUpdated"}, show : Show]
    <3>1. handleStatusUpdated(n.show)
      BY <2>1, <2>2 DEF HandleNote
    <3>2. CASE Reconnecting /\ n.show # Offline
      <4>1. /\ context # None /\ target' = target
            /\ context' = [context EXCEPT !.mode = "idle", !.timer = None]
        BY <3>1, <3>2 DEF handleStatusUpdated, Reconnecting
      <4>2. context'.mode = "idle" /\ context'.timer = None
        BY <1>0, <4>1 DEF Context
      <4> QED
        BY <4>2 DEF Timed, Follows
    <3>3. CASE ~(Reconnecting /\ n.show # Offline)
      BY <3>1, <3>3, <1>a DEF handleStatusUpdated
    <3> QED
      BY <3>2, <3>3
  <2>3. CASE n \in [note : {"accountConnectedToServer"}, local : Iface, remote : Remote]
    <3>1. handleAccountConnectedToServer(n.local, n.remote) /\ target' = target
      BY <2>1, <2>3 DEF HandleNote, handleAccountConnectedToServer
    <3>2. CASE context = None
      <4>1. context'.mode = "idle" /\ context'.timer = None
        BY <3>1, <3>2 DEF handleAccountConnectedToServer, ContextFor
      <4> QED
        BY <4>1 DEF Timed, Follows
    <3>3. CASE context # None
      <4>1. context' = setObservedConnection(context, n.local, n.remote)
        BY <3>1, <3>3 DEF handleAccountConnectedToServer
      <4>2. /\ context'.mode = context.mode /\ context'.last = context.last
            /\ context'.timer = context.timer
        BY <1>0, <3>3, <4>1 DEF setObservedConnection, Context
      <4> QED
        BY <1>0, <3>1, <3>3, <4>2 DEF Timed, Follows
    <3> QED
      BY <3>2, <3>3
  <2>4. CASE n \in [note : {"connectionError"}, recoverable : BOOLEAN]
    <3>1. handleConnectionError(n.recoverable) /\ target' = target
      BY <2>1, <2>4 DEF HandleNote, handleConnectionError
    <3>2. context' = context \/ (context # None /\ context' = Retrying(context))
      BY <3>1 DEF handleConnectionError
    <3> QED
      BY <3>1, <3>2, <1>a, <1>c
  <2> QED
    BY <2>1, <2>2, <2>3, <2>4 DEF Note
<1>9. CASE InterfacesChange
  BY <1>9, <1>a DEF InterfacesChange, guiVars
<1> QED
  BY <1>1, <1>2, <1>3, <1>4, <1>5, <1>6, <1>7, <1>8, <1>9 DEF GuiStep

LEMMA TimerStep ==
  ASSUME TypeOK, TimerInv, OfflineInv, Next
  PROVE  TimerInv'
<1>1. CASE HandleCall \/ CoreStep
  <2>1. context' = context
    BY <1>1, CoreStepLeaves DEF HandleCall, guiVars
  <2> QED
    BY <2>1 DEF TimerInv
<1>2. CASE GuiStep
  <2>1. context # None => Follows(context, target)
    BY DEF OfflineInv, Follows
  <2>2. context' # None => Timed(context')
    BY <1>2, <2>1, ContextSteps
  <2> QED
    BY <2>2 DEF TimerInv, Timed
<1> QED
  BY <1>1, <1>2, Steps

----------------------------------------------------------------------------
(* Going offline. *)

\* What the last call that waits asks for, or what the core does when none waits.
Ends == IF toCore = <<>> THEN avail => Contains(soon, "cleanup")
        ELSE toCore[Len(toCore)] = Offline

\* A call that waits behind another stays the last one; an Offline that is served
\* leaves the core without a stream or with a cleanup that is due.
LEMMA EndsCall ==
  ASSUME TypeOK, Ends, HandleCall
  PROVE  Ends'
<1> DEFINE s == Head(toCore)
           t == Tail(toCore)
<1>1. /\ toCore \in Seq(Show) /\ toCore # <<>> /\ toCore' = t /\ setStatus(s)
      /\ toCore[Len(toCore)] = Offline
  BY DEF HandleCall, TypeOK, Ends
<1>2. /\ s = toCore[1] /\ t \in Seq(Show) /\ Len(t) = Len(toCore) - 1 /\ Len(toCore) \in Nat
      /\ Len(toCore) >= 1
      /\ \A i \in 1..Len(t) : t[i] = toCore[i + 1]
  BY <1>1, LosesHead
<1> HIDE DEF s, t
<1>3. CASE t = <<>>
  <2>1. Len(t) = 0
    BY <1>3, EmptySeq
  <2>2. s = Offline
    <3>1. Len(toCore) = 1
      BY <1>2, <2>1
    <3> QED
      BY <1>1, <1>2, <3>1
  <2>3. avail' => Contains(soon', "cleanup")
    <3>1. CASE avail
      BY <1>1, <2>2, <3>1, CleanupStays DEF setStatus
    <3>2. CASE ~avail
      BY <1>1, <2>2, <3>2 DEF setStatus, coreVars
    <3> QED
      BY <3>1, <3>2
  <2> QED
    BY <1>1, <1>3, <2>3 DEF Ends
<1>4. CASE t # <<>>
  <2>1. Len(t) \in 1..Len(t)
    BY <1>2, <1>4, EmptySeq, LenProperties
  <2>2. t[Len(t)] = toCore[Len(t) + 1]
    BY <1>2, <2>1
  <2>3. Len(t) + 1 = Len(toCore)
    BY <1>2
  <2>4. t[Len(t)] = Offline
    BY <1>1, <2>2, <2>3
  <2> QED
    BY <1>1, <1>4, <2>4 DEF Ends
<1> QED
  BY <1>3, <1>4

\* The core's own steps leave the calls alone, and a cleanup that is due stays due
\* until it has run.
LEMMA EndsCore ==
  ASSUME TypeOK, Ends, CoreStep
  PROVE  Ends'
<1>0. UNCHANGED toCore
  BY CoreStepLeaves
<1>a. ASSUME avail' = avail, soon' = soon
      PROVE  Ends'
  BY <1>0, <1>a DEF Ends
<1>b. ASSUME Contains(soon', "cleanup")
      PROVE  Ends'
  BY <1>0, <1>b DEF Ends
<1>2. CASE cs_connected
  BY <1>2, <1>a DEF cs_connected, Goes
<1>3. CASE cs_authenticated
  BY <1>3, <1>a DEF cs_authenticated, Goes
<1>4. CASE sessionStarted
  BY <1>4, <1>a DEF sessionStarted, Goes
<1>5. CASE sessionStart_failed
  BY <1>5, <1>b, CleanupStays DEF sessionStart_failed
<1>6. CASE sessionStart_lost
  BY <1>6, <1>b, CleanupStays DEF sessionStart_lost
<1>7. CASE finishConnectAndGetRoster
  BY <1>7, <1>a DEF finishConnectAndGetRoster, Goes
<1>8. CASE client_rosterRequestFinished
  BY <1>8, <1>a DEF client_rosterRequestFinished, Goes
<1>9. CASE avatarFactory_selfAvatarHashValuesChanged
  BY <1>9, <1>a DEF avatarFactory_selfAvatarHashValuesChanged
<1>10. ASSUME NEW recoverable \in BOOLEAN, cs_error(recoverable)
       PROVE  Ends'
  <2>1. Contains(soon', "cleanup")
    BY <1>10, Schedules, CleanupStays DEF cs_error
  <2> QED
    BY <2>1, <1>b
<1>11. CASE cs_connectionClosed
  BY <1>11, <1>b, CleanupStays DEF cs_connectionClosed
<1>12. CASE cleanup
  BY <1>0, <1>12 DEF cleanup, Ends
<1> QED
  BY <1>2, <1>3, <1>4, <1>5, <1>6, <1>7, <1>8, <1>9, <1>10, <1>11, <1>12 DEF CoreStep

\* Whatever the user interface does while the user wants to be offline, the last call
\* that it makes asks for Offline.
LEMMA EndsGui ==
  ASSUME TypeOK, TimerInv, OfflineInv, GuiStep, target' = Offline
  PROVE  Ends'
<1>0. UNCHANGED <<avail, soon>> /\ Offline \in Show
  BY GuiStepLeaves DEF coreVars, Show
<1>a. ASSUME target = Offline, toCore' = toCore
      PROVE  Ends'
  BY <1>0, <1>a DEF OfflineInv, Ends
<1>b. ASSUME p_setOnlineStatus(Offline)
      PROVE  Ends'
  BY <1>0, <1>b, Asks DEF Ends
<1>1. ASSUME NEW s \in Show, SetTarget(s)
      PROVE  Ends'
  BY <1>1, <1>b DEF SetTarget, setTargetStatus
<1>2. CASE SetTargetLater
  BY <1>2, <1>b DEF SetTargetLater, setTargetStatus
<1>3. CASE DismissAlert
  BY <1>3, <1>a DEF DismissAlert
<1>4. CASE ReachabilityDidChange
  <2>1. CASE handleNetworkInterfaceDown
    BY <2>1, <1>b DEF handleNetworkInterfaceDown
  <2>2. CASE handleNetworkInterfaceUp
    BY <2>2, <1>a DEF handleNetworkInterfaceUp
  <2> QED
    BY <1>4, <2>1, <2>2 DEF ReachabilityDidChange
<1>5. CASE WorkspaceWillSleep
  BY <1>5, <1>b DEF WorkspaceWillSleep, handleNetworkInterfaceDown
<1>6. CASE p_reconnect
  <2>1. /\ context # None /\ context.timer = "reconnect" /\ target = Offline
        /\ p_setOnlineStatus(context.last)
    BY <1>6 DEF p_reconnect, Timer
  <2>2. context.last = Offline
    BY <2>1, Apart DEF TimerInv, OfflineInv
  <2> QED
    BY <2>1, <2>2, <1>b
<1>7. CASE p_reconnectTimedOut
  BY <1>7, <1>b DEF p_reconnectTimedOut
<1>8. CASE Deliver
  <2>1. toCore' = toCore /\ HandleNote(Head(toGui)) /\ Head(toGui) \in Note
    BY <1>8, LosesHead DEF Deliver, TypeOK
  <2>2. target' = target
    BY <2>1 DEF HandleNote, Note, handleStatusUpdated, handleAccountConnectedToServer,
                handleConnectionError
  <2> QED
    BY <2>1, <2>2, <1>a
<1>9. CASE InterfacesChange
  BY <1>9, <1>a DEF InterfacesChange, guiVars
<1> QED
  BY <1>1, <1>2, <1>3, <1>4, <1>5, <1>6, <1>7, <1>8, <1>9 DEF GuiStep

LEMMA OfflineStep ==
  ASSUME TypeOK, TimerInv, OfflineInv, Next
  PROVE  OfflineInv'
<1>0. /\ target = Offline => Ends
      /\ context # None => Follows(context, target)
  BY DEF OfflineInv, Ends, Follows
<1>1. CASE HandleCall \/ CoreStep
  <2>1. UNCHANGED <<target, context>>
    BY <1>1, CoreStepLeaves DEF HandleCall, guiVars
  <2>2. target' = Offline => Ends'
    BY <1>0, <1>1, <2>1, EndsCall, EndsCore
  <2> QED
    BY <2>1, <2>2 DEF OfflineInv, Ends
<1>2. CASE GuiStep
  <2>1. target' = Offline => Ends'
    BY <1>2, EndsGui
  <2>2. context' # None => Follows(context', target')
    BY <1>0, <1>2, ContextSteps
  <2> QED
    BY <2>1, <2>2 DEF OfflineInv, Ends, Follows
<1> QED
  BY <1>1, <1>2, Steps

----------------------------------------------------------------------------
(* The status that is shown. *)

Shown == Contains(soon, "cleanup") \/ Told(toGui, status, reqShow)

\* The core: what it announces to the server while logged in, it tells.
LEMMA ShownCore ==
  ASSUME TypeOK, StreamInv, ShownInv, HandleCall \/ CoreStep
  PROVE  ShownInv'
<1>0. /\ toGui \in Seq(Note) /\ reqShow \in Show /\ Offline \in Show
      /\ loggedIn => Shown
  BY DEF TypeOK, Show, ShownInv, Shown
<1>s. UNCHANGED status
  BY CoreStepLeaves DEF HandleCall, guiVars
<1>a. ASSUME UNCHANGED <<toGui, reqShow, soon, loggedIn>>
      PROVE  ShownInv'
  BY <1>0, <1>s, <1>a DEF ShownInv, Shown
<1>b. ASSUME Contains(soon', "cleanup")
      PROVE  ShownInv'
  BY <1>b DEF ShownInv
<1>c. ASSUME NEW s \in Show, toGui' = Append(toGui, StatusUpdated(s)), reqShow' = s
      PROVE  ShownInv'
  <2>1. Told(Append(toGui, StatusUpdated(s)), status, s)
    BY <1>0, Notes, TellsStatus
  <2> QED
    BY <1>s, <1>c, <2>1 DEF ShownInv
<1>1. CASE HandleCall
  <2> DEFINE s == Head(toCore)
  <2>1. s \in Show /\ setStatus(s)
    BY <1>1, LosesHead DEF HandleCall, TypeOK
  <2> HIDE DEF s
  <2>2. CASE avail /\ s = Offline
    BY <2>1, <2>2, <1>b, CleanupStays DEF setStatus
  <2>3. CASE avail /\ s # Offline
    <3>1. /\ reqShow' = s /\ loggedIn' = loggedIn
          /\ Notify(IF loggedIn THEN <<StatusUpdated(s)>> ELSE <<>>)
      BY <2>1, <2>3 DEF setStatus, setClientStatus
    <3>2. CASE loggedIn
      <4>1. toGui' = Append(toGui, StatusUpdated(s))
        BY <2>1, <3>1, <3>2, Notes, Notifies DEF Notify
      <4> QED
        BY <2>1, <3>1, <4>1, <1>c
    <3>3. CASE ~loggedIn
      BY <3>1, <3>3 DEF ShownInv
    <3> QED
      BY <3>2, <3>3
  <2>4. CASE ~avail /\ s = Offline
    BY <2>1, <2>4, <1>a DEF setStatus, coreVars
  <2>5. CASE ~avail /\ s # Offline
    <3>1. ~loggedIn
      BY <2>5, Apart DEF StreamInv, Stage
    <3>2. loggedIn' = loggedIn
      BY <2>1, <2>5 DEF setStatus
    <3> QED
      BY <3>1, <3>2 DEF ShownInv
  <2> QED
    BY <2>2, <2>3, <2>4, <2>5 DEF TypeOK
<1>2. CASE cs_connected
  <2>1. ~loggedIn /\ loggedIn' = loggedIn
    BY <1>2 DEF cs_connected, Live, StreamInv
  <2> QED
    BY <2>1 DEF ShownInv
<1>3. CASE cs_authenticated
  BY <1>3, <1>a DEF cs_authenticated, Goes
<1>4. CASE sessionStarted
  BY <1>4, <1>a DEF sessionStarted, Goes
<1>5. CASE sessionStart_failed
  BY <1>5, <1>b, CleanupStays DEF sessionStart_failed
<1>6. CASE sessionStart_lost
  BY <1>6, <1>b, CleanupStays DEF sessionStart_lost
<1>7. CASE finishConnectAndGetRoster
  BY <1>7, <1>a DEF finishConnectAndGetRoster, Goes
<1>8. CASE client_rosterRequestFinished
  <2>1. CASE Notify(<<StatusUpdated(reqShow)>>)
    <3>1. toGui' = Append(toGui, StatusUpdated(reqShow)) /\ reqShow' = reqShow
      BY <1>0, <1>8, <2>1, Notes, Notifies DEF client_rosterRequestFinished, Goes, Notify
    <3> QED
      BY <1>0, <3>1, <1>c
  <2>2. CASE UNCHANGED <<loggedIn, toGui>>
    BY <1>8, <2>2, <1>a DEF client_rosterRequestFinished, Goes
  <2> QED
    BY <1>8, <2>1, <2>2 DEF client_rosterRequestFinished
<1>9. CASE avatarFactory_selfAvatarHashValuesChanged
  <2>1. loggedIn
    BY <1>9 DEF avatarFactory_selfAvatarHashValuesChanged, Live, StreamInv
  <2>2. toGui' = Append(toGui, StatusUpdated(reqShow)) /\ reqShow' = reqShow
    BY <1>0, <1>9, <2>1, Notes, Notifies
       DEF avatarFactory_selfAvatarHashValuesChanged, setClientStatus, Notify
  <2> QED
    BY <1>0, <2>2, <1>c
<1>10. ASSUME NEW recoverable \in BOOLEAN, cs_error(recoverable)
       PROVE  ShownInv'
  <2>1. Contains(soon', "cleanup")
    BY <1>10, Schedules, CleanupStays DEF cs_error
  <2> QED
    BY <2>1, <1>b
<1>11. CASE cs_connectionClosed
  BY <1>11, <1>b, CleanupStays DEF cs_connectionClosed
<1>12. CASE cleanup
  BY <1>12 DEF cleanup, ShownInv
<1> QED
  BY <1>1, <1>2, <1>3, <1>4, <1>5, <1>6, <1>7, <1>8, <1>9, <1>10, <1>11, <1>12 DEF CoreStep

\* The user interface: only an account that shows Offline turns to Connecting, and
\* Offline is not what the session has.
LEMMA ShownGui ==
  ASSUME TypeOK, TimerInv, StreamInv, ShownInv, GuiStep
  PROVE  ShownInv'
<1>0. /\ toGui \in Seq(Note) /\ UNCHANGED <<loggedIn, soon, reqShow>>
      /\ loggedIn => Shown /\ reqShow # Offline
  <2>1. loggedIn => avail
    BY Apart DEF StreamInv, Stage
  <2> QED
    BY <2>1, GuiStepLeaves, Apart DEF TypeOK, ShownInv, Shown, coreVars, StreamInv
<1>a. ASSUME UNCHANGED toGui, status # Offline => status' = status
      PROVE  ShownInv'
  <2>1. ASSUME loggedIn, Told(toGui, status, reqShow)
        PROVE  Told(toGui, status', reqShow)
    <3>1. CASE status = reqShow
      BY <1>0, <1>a, <2>1, <3>1
    <3>2. CASE status # reqShow
      BY <2>1, <3>2 DEF Told
    <3> QED
      BY <3>1, <3>2
  <2> QED
    BY <1>0, <1>a, <2>1 DEF ShownInv, Shown
<1>b. ASSUME UNCHANGED toGui, NEW s \in Show, p_setOnlineStatus(s)
      PROVE  ShownInv'
  BY <1>a, <1>b, Asks
<1>1. ASSUME NEW s \in Show, SetTarget(s)
      PROVE  ShownInv'
  BY <1>1, <1>b DEF SetTarget, setTargetStatus
<1>2. CASE SetTargetLater
  <2>1. Head(later) \in Show
    BY <1>2, LosesHead DEF SetTargetLater, TypeOK
  <2> QED
    BY <1>2, <2>1, <1>b DEF SetTargetLater, setTargetStatus
<1>3. CASE DismissAlert
  BY <1>3, <1>a DEF DismissAlert
<1>4. CASE ReachabilityDidChange
  <2>1. CASE handleNetworkInterfaceDown
    BY <2>1, <1>b DEF handleNetworkInterfaceDown, Show
  <2>2. CASE handleNetworkInterfaceUp
    BY <2>2, <1>a DEF handleNetworkInterfaceUp
  <2> QED
    BY <1>4, <2>1, <2>2 DEF ReachabilityDidChange
<1>5. CASE WorkspaceWillSleep
  BY <1>5, <1>b DEF WorkspaceWillSleep, handleNetworkInterfaceDown, Show
<1>6. CASE p_reconnect
  <2>1. /\ context # None /\ context.timer = "reconnect" /\ UNCHANGED toGui
        /\ p_setOnlineStatus(context.last)
    BY <1>6 DEF p_reconnect, Timer
  <2>2. context.last \in Show
    BY <2>1, ContextTypes, Apart DEF TimerInv, Context, Mode
  <2> QED
    BY <2>1, <2>2, <1>b
<1>7. CASE p_reconnectTimedOut
  BY <1>7, <1>b DEF p_reconnectTimedOut, Show
<1>8. CASE Deliver
  <2> DEFINE n == Head(toGui)
  <2>1. n \in Note /\ HandleNote(n) /\ toGui # <<>> /\ toGui' = Tail(toGui)
    BY <1>0, <1>8, LosesHead DEF Deliver
  <2>2. /\ IsStatus(n) /\ Told(toGui, status, reqShow) => Told(toGui', n.show, reqShow)
        /\ ~IsStatus(n) /\ Told(toGui, status, reqShow) => Told(toGui', status, reqShow)
    BY <1>0, <2>1, TellsHead
  <2> HIDE DEF n
  <2>3. IF IsStatus(n) THEN status' = n.show ELSE status' = status
    BY <2>1 DEF HandleNote, Note, IsStatus, handleStatusUpdated,
                handleAccountConnectedToServer, handleConnectionError
  <2> QED
    BY <1>0, <2>2, <2>3 DEF ShownInv, Shown
<1>9. CASE InterfacesChange
  BY <1>9, <1>a DEF InterfacesChange, guiVars
<1> QED
  BY <1>1, <1>2, <1>3, <1>4, <1>5, <1>6, <1>7, <1>8, <1>9 DEF GuiStep

LEMMA ShownStep ==
  ASSUME TypeOK, TimerInv, StreamInv, ShownInv, Next
  PROVE  ShownInv'
BY ShownCore, ShownGui, Steps

----------------------------------------------------------------------------
(* The theorems. *)

\* The invariant holds at first: the core has no stream, and nothing waits.
LEMMA Begins ==
  ASSUME Init
  PROVE  IInv
<1>1. TypeOK
  <2>1. /\ <<>> \in Seq({"cleanup", "sessionLost"}) /\ <<>> \in Seq(Show)
        /\ <<>> \in Seq(Note)
    OBVIOUS
  <2>2. /\ avail \in BOOLEAN /\ loggedIn \in BOOLEAN /\ reqShow \in Show
        /\ link \in Stage \cup {None} /\ ended \in {None, "error", "closed"}
        /\ status \in Show \cup {Connecting} /\ target \in Show
        /\ alert \in BOOLEAN /\ failed \in BOOLEAN
    BY DEF Init, Show
  <2>3. /\ attempted \in Remote \cup {Configured, None} /\ lastGood \in Remote \cup {None}
        /\ context \in Context \cup {None} /\ up \in SUBSET Iface
    BY DEF Init
  <2>4. soon = <<>> /\ toCore = <<>> /\ toGui = <<>> /\ later = <<>>
    BY DEF Init
  <2> QED
    BY <2>1, <2>2, <2>3, <2>4 DEF TypeOK
<1>2. StreamInv
  BY Apart DEF Init, StreamInv, Stage
<1>3. TimerInv /\ OfflineInv /\ ShownInv
  BY DEF Init, TimerInv, OfflineInv, ShownInv
<1> QED
  BY <1>1, <1>2, <1>3 DEF IInv

\* Every step keeps it.
THEOREM Invariance == Spec => []IInv
<1>1. Init => IInv
  BY Begins
<1>2. IInv /\ [Next]_vars => IInv'
  <2> SUFFICES ASSUME IInv, [Next]_vars
               PROVE  IInv'
    OBVIOUS
  <2>1. CASE Next
    BY <2>1, TypeStep, StreamStep, TimerStep, OfflineStep, ShownStep DEF IInv
  <2>2. CASE UNCHANGED vars
    BY <2>2 DEF IInv, vars, coreVars, guiVars, hostVars, TypeOK, StreamInv, TimerInv,
                OfflineInv, ShownInv
  <2> QED
    BY <2>1, <2>2
<1> QED
  BY <1>1, <1>2, PTL DEF Spec

\* Every variable keeps its type.
THEOREM TypeCorrect == Spec => []TypeOK
<1>1. IInv => TypeOK
  BY DEF IInv
<1> QED
  BY <1>1, Invariance, PTL

\* The core has a stream exactly while the account is available, and a stream that
\* ended waits for its cleanup.
THEOREM StreamsAreCleaned == Spec => []StreamsCleaned
<1>1. IInv => StreamsCleaned
  BY DEF IInv, StreamInv, StreamsCleaned
<1> QED
  BY <1>1, Invariance, PTL

\* A user who went offline is offline once nothing is under way.
THEOREM OfflineHolds == Spec => []OfflineSticks
<1>1. IInv => OfflineSticks
  <2> SUFFICES ASSUME IInv, Quiet, target = Offline
               PROVE  ~avail
    BY DEF OfflineSticks
  <2>1. avail => Contains(<<>>, "cleanup")
    BY DEF IInv, OfflineInv, Quiet
  <2>2. ~Contains(<<>>, "cleanup")
    BY DEF Contains
  <2> QED
    BY <2>1, <2>2
<1> QED
  BY <1>1, Invariance, PTL

\* A user interface that was told everything shows the status of the session.
THEOREM ShownHolds == Spec => []ShownIsCores
<1>1. IInv => ShownIsCores
  <2> SUFFICES ASSUME IInv, loggedIn, toGui = <<>>, soon = <<>>
               PROVE  status = reqShow
    BY DEF ShownIsCores
  <2>1. Contains(<<>>, "cleanup") \/ Told(<<>>, status, reqShow)
    BY DEF IInv, ShownInv
  <2>2. ~Contains(<<>>, "cleanup")
    BY DEF Contains
  <2> QED
    BY <2>1, <2>2, ToldAll
<1> QED
  BY <1>1, Invariance, PTL

\* A reconnection that retries has its timer, and an idle one has none.
THEOREM ReconnectionHasTimer == Spec => []ReconnectsByTimer
<1>1. IInv => ReconnectsByTimer
  <2> SUFFICES ASSUME IInv, context # None
               PROVE  /\ context.mode = "idle" => context.timer = None
                      /\ context.mode = "retrying" => context.timer # None
                      /\ context.timer # None => context.last # None
    BY DEF ReconnectsByTimer
  <2> QED
    BY DEF IInv, TimerInv
<1> QED
  BY <1>1, Invariance, PTL
==============================================================================
