------------------------------- MODULE FileTransfers -------------------------------
(* One file transfer, from the offer to the end, on both sides of the bridge.

   The core has a FileTransferInfo with a FileTransferHandler, over a FileTransfer and
   its bytestream, and a timer that tells the user interface of the progress; the user
   interface has an LPFileTransfer and its row.  The calls to the core wait in a queue
   and so do its notifications; the calls that begin a transfer are answered at once.
   Transfers share nothing but the queues, so one of them is enough.

   A file has size units; what the socket still has to write is counted in the same
   units.  The core's event loop runs the timers of no delay before it goes back to
   the sockets and to the posted events, but it may have seen several sockets ready
   before them: a connection may end between a write and the next one, which then
   uses the connection that is gone.  That is one of the ways the core crashes.

   Left out: resumed transfers (the offset is 0), the proxies, the file's name and
   place, the transfer's speed.  The definitions named ...Mutant are faulty variants of
   the definition that follows them, used to see that a property notices the fault. *)
EXTENDS Integers, Sequences

CONSTANTS Kind,        \* the kinds of transfers: among "incoming", "file" and "folder"
          Sizes,       \* the sizes of files
          SendBuffer,  \* how much of the file is given to the socket at most
          MaxQueue     \* bound: the timer waits while this many notifications do

ASSUME FileTransfersAssumption ==
    /\ Kind \subseteq {"incoming", "file", "folder"}
    /\ Sizes \subseteq Nat /\ SendBuffer \in Nat \ {0} /\ MaxQueue \in Nat

Terminal == {"WasNotAccepted", "AbortedWithError", "Cancelled", "Completed"}
State == {"None", "Packaging", "WaitingToBeAccepted", "Running"} \cup Terminal
Note == [type : {"incoming", "accepted", "progress", "finished", "error"}, at : Nat]

VARIABLES kind, size,  \* of the transfer
          entry,       \* core: the peer's entry is in the roster
          info,        \* core: there is a FileTransferInfo
          handler,     \* core: it has a handler and a timer object
          current,     \* core: currentTotalBytesSent
          timer,       \* core: the progress timer is active
          sent,        \* handler: bytes sent or received
          due,         \* handler: what its timer of no delay will call
          ft,          \* handler: its FileTransfer: null, or what it does
          failing,     \* handler: the FileTransfer's error is on its way
          pending,     \* bytestream: bytes to write
          toCore, toGui,
          state,       \* user interface: of the LPFileTransfer
          offset,      \* user interface: currentFileOffset
          stop,        \* user interface: the row shows the stop button
          task,        \* user interface: the packaging of a folder
          cancelled,   \* history: the user has cancelled the transfer
          over,        \* history: the core has told that the transfer is over
          crashed      \* the core has used a null pointer

offer == <<kind, size>>
core == <<info, handler, current, timer>>
link == <<sent, due, ft, failing, pending>>
gui == <<state, offset, stop, task>>
vars == <<offer, entry, core, link, toCore, toGui, gui, cancelled, over, crashed>>

Init == /\ kind \in Kind /\ size \in Sizes /\ entry \in BOOLEAN
        /\ info = FALSE /\ handler = FALSE /\ current = 0 /\ timer = FALSE
        /\ sent = 0 /\ due = "no" /\ ft = "null" /\ failing = FALSE /\ pending = 0
        /\ toCore = <<>> /\ toGui = <<>>
        /\ state = "None" /\ offset = 0 /\ stop = FALSE /\ task = "no"
        /\ cancelled = FALSE /\ over = FALSE /\ crashed = FALSE

Tell(type, at) == toGui' = Append(toGui, [type |-> type, at |-> at])

Crash == /\ crashed' = TRUE
         /\ UNCHANGED <<offer, entry, core, link, toGui, gui, cancelled, over>>

(* ------------------------------ core: LfpApi ------------------------------ *)

\* addNewFileTransfer; the FileTransfer is an incoming one, or there is none yet.
addNewFileTransfer(f) == /\ info' = TRUE /\ handler' = TRUE /\ ft' = f
                         /\ UNCHANGED <<current, timer, sent, due, failing, pending>>

\* The info stays, without handler and timer.  What the handler waited for is dropped.
cleanupFileTransferInfo ==
    /\ handler' = FALSE /\ timer' = FALSE
    /\ ft' = "null" /\ due' = "no" /\ failing' = FALSE /\ pending' = 0
    /\ UNCHANGED <<info, current, sent>>

fileTransferMgr_incomingFileTransfer ==
    /\ kind = "incoming" /\ ~info
    /\ addNewFileTransfer("waiting") /\ Tell("incoming", 0)
    /\ UNCHANGED <<offer, entry, toCore, gui, cancelled, over, crashed>>

fileTransferHandler_error ==
    /\ Tell("error", 0) /\ over' = TRUE
    /\ cleanupFileTransferInfo
    /\ UNCHANGED <<offer, entry, toCore, gui, cancelled, crashed>>

\* The timer goes on, every 100 ms, once it is started.
fileTransferHandler_progress(n) == current' = n /\ timer' = TRUE /\ UNCHANGED <<info, handler>>

fileTransferTimer_updateProgressMutant ==
    /\ timer /\ Len(toGui) < MaxQueue
    /\ \/ /\ current # size /\ Tell("progress", current)
          /\ UNCHANGED <<core, link, over>>
       \/ /\ current = size
          /\ toGui' = Append(toGui, [type |-> "finished", at |-> 0])
          /\ over' = TRUE /\ cleanupFileTransferInfo
    /\ UNCHANGED <<offer, entry, toCore, gui, cancelled, crashed>>

fileTransferTimer_updateProgress ==
    /\ timer /\ Len(toGui) < MaxQueue
    /\ \/ /\ current # size /\ Tell("progress", current)
          /\ UNCHANGED <<core, link, over>>
       \/ /\ current = size
          /\ toGui' = Append(Append(toGui, [type |-> "progress", at |-> current]),
                             [type |-> "finished", at |-> 0])
          /\ over' = TRUE /\ cleanupFileTransferInfo
    /\ UNCHANGED <<offer, entry, toCore, gui, cancelled, crashed>>

\* A contact's entry is removed by the server or by the user.
EntryRemoved == /\ entry /\ entry' = FALSE
                /\ UNCHANGED <<offer, core, link, toCore, toGui, gui, cancelled, over, crashed>>

\* Without the peer's entry nothing is sent, and nobody is told.
fileStartPending ==
    \/ /\ entry /\ handler /\ ft' = "requesting"
       /\ UNCHANGED <<core, sent, due, failing, pending>>
       /\ UNCHANGED <<offer, entry, toGui, gui, cancelled, over, crashed>>
    \/ entry /\ ~handler /\ Crash
    \/ /\ ~entry
       /\ UNCHANGED <<offer, entry, core, link, toGui, gui, cancelled, over, crashed>>

fileAccept ==
    \/ /\ info /\ handler /\ ft' = "connecting"
       /\ UNCHANGED <<core, sent, due, failing, pending>>
       /\ UNCHANGED <<offer, entry, toGui, gui, cancelled, over, crashed>>
    \/ info /\ ~handler /\ Crash

fileCancelMutant ==
    /\ IF info /\ ft # "null" THEN cleanupFileTransferInfo ELSE UNCHANGED <<core, link>>
    /\ UNCHANGED <<offer, entry, toGui, gui, cancelled, over, crashed>>

fileCancel ==
    /\ IF info THEN cleanupFileTransferInfo ELSE UNCHANGED <<core, link>>
    /\ UNCHANGED <<offer, entry, toGui, gui, cancelled, over, crashed>>

CoreRunsCall ==
    /\ toCore # <<>> /\ toCore' = Tail(toCore)
    /\ \/ Head(toCore) = "fileStartPending" /\ fileStartPending
       \/ Head(toCore) = "fileAccept" /\ fileAccept
       \/ Head(toCore) = "fileCancel" /\ fileCancel

(* ----------------- core: FileTransferHandler and FileTransfer ----------------- *)

\* The peer's answer to the offer: FileTransfer::ft_finished.
ft_accepted == /\ ft = "requesting" /\ ft' = "connecting" /\ Tell("accepted", 0)
               /\ UNCHANGED <<core, sent, due, failing, pending>>
               /\ UNCHANGED <<offer, entry, toCore, gui, cancelled, over, crashed>>

Fails == /\ ft' = "idle" /\ failing' = TRUE /\ pending' = 0
         /\ UNCHANGED <<core, sent, due>>
         /\ UNCHANGED <<offer, entry, toCore, toGui, gui, cancelled, over, crashed>>

\* It is refused, or the account goes offline before the answer.
ft_refused == ft = "requesting" /\ Fails

\* The connection fails, or ends; the FileTransfer forgets it and posts the error.
s5b_error == ft \in {"connecting", "active"} /\ Fails

ft_error == failing /\ due = "no" /\ fileTransferHandler_error

ft_connected ==
    /\ ft = "connecting"
    /\ \/ /\ ft' = "active"
          /\ due' = IF size = 0 THEN "doFinish"
                    ELSE IF kind = "incoming" THEN "no" ELSE "trySend"
          /\ UNCHANGED <<core, sent, failing, pending>>
          /\ UNCHANGED <<offer, entry, toCore, toGui, gui, cancelled, over, crashed>>
       \/ fileTransferHandler_error  \* the file does not open

\* Bytes arrive.
ft_readyRead(n) ==
    /\ kind = "incoming" /\ ft = "active" /\ n \in 1..(size - sent)
    /\ \/ /\ sent' = sent + n
          /\ ft' = IF sent + n = size THEN "null" ELSE "active"
          /\ fileTransferHandler_progress(sent + n)
          /\ UNCHANGED <<due, failing, pending>>
          /\ UNCHANGED <<offer, entry, toCore, toGui, gui, cancelled, over, crashed>>
       \/ fileTransferHandler_error  \* they cannot be written to the file

\* The socket has written some of the bytes.
ft_bytesWritten(n) ==
    /\ kind # "incoming" /\ ft = "active" /\ due = "no" /\ n \in 1..pending
    /\ sent' = sent + n /\ pending' = pending - n
    /\ \/ sent + n = size /\ ft' = "null" /\ due' = "no"
       \/ sent + n # size /\ ft' = "active" /\ due' = "trySend"
    /\ fileTransferHandler_progress(sent + n)
    /\ UNCHANGED <<offer, entry, failing, toCore, toGui, gui, cancelled, over, crashed>>

dataSizeNeededMutant ==
    IF pending >= SendBuffer THEN 0
    ELSE IF SendBuffer < size - (sent + pending) THEN SendBuffer
    ELSE size - (sent + pending)

dataSizeNeeded ==
    IF pending >= SendBuffer THEN 0
    ELSE IF SendBuffer - pending < size - (sent + pending) THEN SendBuffer - pending
    ELSE size - (sent + pending)

\* A file that has become shorter gives less than is needed, in the end nothing.
trySend ==
    /\ due = "trySend"
    /\ \/ /\ ft = "active" /\ due' = "no"
          /\ \E r \in 0..dataSizeNeeded : pending' = pending + r
          /\ UNCHANGED <<core, sent, ft, failing>>
          /\ UNCHANGED <<offer, entry, toCore, toGui, gui, cancelled, over, crashed>>
       \/ ft = "active" /\ dataSizeNeeded > 0 /\ fileTransferHandler_error
       \/ ft # "active" /\ Crash /\ UNCHANGED toCore

\* Only an empty file needs it.
doFinish ==
    /\ due = "doFinish" /\ due' = "no"
    /\ ft' = "null" /\ fileTransferHandler_progress(sent)
    /\ UNCHANGED <<sent, failing, pending>>
    /\ UNCHANGED <<offer, entry, toCore, toGui, gui, cancelled, over, crashed>>

(* ---------------------- user interface: LPFileTransfer ---------------------- *)

\* A packaging that is still running is terminated; the row hides the bar for good.
p_setState(s) ==
    /\ state' = s
    /\ stop' = (stop /\ s \notin Terminal)
    /\ task' = IF s \in Terminal /\ task = "running" THEN "failed" ELSE task

\* fileStart and fileCreatePending: without the peer's entry the transfer's ID is -1.
startSendingFile ==
    /\ kind # "incoming" /\ state = "None" /\ ~info
    /\ IF entry THEN addNewFileTransfer(IF kind = "file" THEN "requesting" ELSE "null")
                ELSE UNCHANGED <<core, link>>
    /\ state' = IF kind = "folder" THEN "Packaging" ELSE "WaitingToBeAccepted"
    /\ task' = IF kind = "folder" THEN "running" ELSE "no"
    /\ stop' = TRUE
    /\ UNCHANGED <<offer, entry, toCore, toGui, offset, cancelled, over, crashed>>

PackagingEnds == /\ task = "running" /\ task' \in {"succeeded", "failed"}
                 /\ UNCHANGED <<offer, entry, core, link, toCore, toGui>>
                 /\ UNCHANGED <<state, offset, stop, cancelled, over, crashed>>

\* A packaging that succeeded is sent, whatever the state has become.
p_filePackagingDidFinish ==
    /\ task \in {"succeeded", "failed"} /\ task' = "no"
    /\ \/ /\ task = "succeeded" /\ state' = "WaitingToBeAccepted"
          /\ toCore' = Append(toCore, "fileStartPending") /\ stop' = stop
       \/ /\ task = "failed" /\ state = "Packaging"
          /\ state' = "AbortedWithError" /\ stop' = FALSE /\ toCore' = toCore
       \/ task = "failed" /\ state # "Packaging" /\ UNCHANGED <<state, stop, toCore>>
    /\ UNCHANGED <<offer, entry, core, link, toGui, offset, cancelled, over, crashed>>

acceptIncomingFileTransfer ==
    /\ kind = "incoming" /\ state = "WaitingToBeAccepted"
    /\ p_setState("Running")
    /\ toCore' = Append(toCore, "fileAccept")
    /\ UNCHANGED <<offer, entry, core, link, toGui, offset, cancelled, over, crashed>>

\* The stop button, and the refusal of an offer.
cancel ==
    /\ stop
    /\ p_setState(IF kind = "incoming" /\ state = "WaitingToBeAccepted"
                  THEN "WasNotAccepted" ELSE "Cancelled")
    /\ toCore' = Append(toCore, "fileCancel") /\ cancelled' = TRUE
    /\ UNCHANGED <<offer, entry, core, link, toGui, offset, over, crashed>>

\* The core looks for the entry of the peer, and uses it without a test.
fileIncoming ==
    /\ state' = "WaitingToBeAccepted" /\ stop' = TRUE
    /\ crashed' = (handler /\ ~entry)
    /\ UNCHANGED <<offset, task>>

fileProgress(at) == offset' = at /\ UNCHANGED <<state, stop, task, crashed>>

handleFileTransferErrorMutant ==
    /\ IF state = "Running" THEN p_setState("AbortedWithError")
                            ELSE UNCHANGED <<state, stop, task>>
    /\ UNCHANGED <<offset, crashed>>

handleFileTransferError == p_setState("AbortedWithError") /\ UNCHANGED <<offset, crashed>>

\* What the state has been does not matter.
GuiHandlesNote ==
    /\ toGui # <<>> /\ toGui' = Tail(toGui)
    /\ LET note == Head(toGui) IN
       \/ note.type = "incoming" /\ fileIncoming
       \/ note.type = "accepted" /\ p_setState("Running") /\ UNCHANGED <<offset, crashed>>
       \/ note.type = "progress" /\ fileProgress(note.at)
       \/ note.type = "finished" /\ p_setState("Completed") /\ UNCHANGED <<offset, crashed>>
       \/ note.type = "error" /\ handleFileTransferError
    /\ UNCHANGED <<offer, entry, core, link, toCore, cancelled, over>>

CoreActs == \/ fileTransferMgr_incomingFileTransfer \/ fileTransferTimer_updateProgress
            \/ EntryRemoved \/ CoreRunsCall
            \/ ft_accepted \/ ft_refused \/ ft_connected \/ s5b_error \/ ft_error
            \/ (\E n \in 1..size : ft_readyRead(n) \/ ft_bytesWritten(n))
            \/ trySend \/ doFinish

GuiActs == \/ startSendingFile \/ PackagingEnds \/ p_filePackagingDidFinish
           \/ acceptIncomingFileTransfer \/ cancel \/ GuiHandlesNote

Next == ~crashed /\ (CoreActs \/ GuiActs)

Spec == Init /\ [][Next]_vars

(* ------------------------------ properties ------------------------------ *)

\* The types; and the handler never gives the socket more than the buffer, nor more
\* than the file.
TypeOK ==
    /\ kind \in Kind /\ size \in Sizes /\ entry \in BOOLEAN
    /\ info \in BOOLEAN /\ handler \in BOOLEAN /\ current \in 0..size /\ timer \in BOOLEAN
    /\ sent \in 0..size /\ due \in {"no", "trySend", "doFinish"} /\ failing \in BOOLEAN
    /\ ft \in {"null", "waiting", "requesting", "connecting", "active", "idle"}
    /\ pending \in 0..SendBuffer /\ sent + pending <= size
    /\ toCore \in Seq({"fileStartPending", "fileAccept", "fileCancel"}) /\ toGui \in Seq(Note)
    /\ state \in State /\ offset \in Nat /\ stop \in BOOLEAN
    /\ task \in {"no", "running", "succeeded", "failed"}
    /\ cancelled \in BOOLEAN /\ over \in BOOLEAN /\ crashed \in BOOLEAN

\* A transfer that the core said is over shows as ended once the user interface has
\* heard everything, whatever was accepted, cancelled or in flight meanwhile.
Settled == over /\ toGui = <<>> => state \in Terminal

\* "Completed" is shown only of a file of which all bytes were shown to be there,
\* although the progress is told ten times a second at most.
CompletedIsWhole == state = "Completed" => offset = size

\* Once the core has run the user's cancel nothing of the transfer goes on, and
\* nothing of it begins again.
CancelStops == cancelled /\ ~crashed /\ (\A i \in 1..Len(toCore) : toCore[i] # "fileCancel")
                   => ~handler /\ ft = "null" /\ ~timer
=============================================================================
