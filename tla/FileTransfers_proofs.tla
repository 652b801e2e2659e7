-------------------------- MODULE FileTransfers_proofs --------------------------
(* What a file transfer promises for files of any size, any buffer and any length of
   the queue of notifications: types, that the user interface learns of every end,
   that a completed file is whole, and that a cancelled transfer is gone.

   The invariant says that the core tells the end once and last: a notification of the
   end has no other one after it, and its transfer has no handler that could send one.
   "finished" follows the progress of the whole file in the queue, or, once that has
   been handled, the offset shown.                                                  *)
EXTENDS FileTransfers, SequenceTheorems, TLAPS

End == {"finished", "error"}
Whole == [type |-> "progress", at |-> size]

\* Who has a handler, and what goes without it.
Link == /\ handler \/ over => info
        /\ ~handler => /\ ft = "null" /\ ~timer /\ due = "no" /\ ~failing /\ pending = 0
        /\ over => ~handler
        /\ kind = "incoming" => /\ task = "no" /\ pending = 0 /\ due # "trySend"
                                /\ ~info => state = "None" /\ toGui = <<>>

\* What precedes what: nothing is cancelled before it begins, nothing is sent before it
\* is packaged.
Calls == /\ state = "None" => /\ toCore = <<>> /\ ~stop /\ ~cancelled /\ task = "no"
         /\ \A i \in 1..Len(toCore) : toCore[i] = "fileAccept" => kind = "incoming"
         /\ task # "no" => /\ ft = "null" /\ due = "no" /\ ~failing /\ ~timer /\ ~over
                           /\ \A i \in 1..Len(toCore) : toCore[i] # "fileStartPending"

\* The notification of the end is the last one, and its state stays.
EndLast == /\ \A i \in 1..Len(toGui) : toGui[i].type \in End => i = Len(toGui) /\ over
           /\ over => IF toGui = <<>> THEN state \in Terminal
                                      ELSE toGui[Len(toGui)].type \in End

\* "finished" follows the whole file's progress.
WholeBefore ==
    /\ \A i \in 1..Len(toGui) : toGui[i].type = "finished" =>
          IF i = 1 THEN offset = size ELSE toGui[i - 1] = Whole
    /\ state = "Completed" => over /\ toGui = <<>> /\ offset = size

IInv == TypeOK /\ Link /\ Calls /\ EndLast /\ WholeBefore /\ CancelStops

----------------------------------------------------------------------------
(* Queues. *)

\* A queue that takes one more element keeps the others in their places.
LEMMA Grows ==
  ASSUME NEW S, NEW q \in Seq(S), NEW x \in S
  PROVE  /\ Append(q, x) \in Seq(S) /\ Append(q, x) # <<>>
         /\ Len(Append(q, x)) = Len(q) + 1 /\ Len(q) \in Nat
         /\ Append(q, x)[Len(q) + 1] = x
         /\ \A i \in 1..Len(q) : Append(q, x)[i] = q[i]
<1>1. /\ Append(q, x) \in Seq(S) /\ Append(q, x) # <<>>
      /\ Len(Append(q, x)) = Len(q) + 1
      /\ Append(q, x)[Len(q) + 1] = x
      /\ \A i \in 1..Len(q) : Append(q, x)[i] = q[i]
  BY AppendProperties
<1>2. Len(q) \in Nat
  BY LenProperties
<1> QED
  BY <1>1, <1>2

\* A queue that loses its head: the others move up.
LEMMA Shrinks ==
  ASSUME NEW S, NEW q \in Seq(S), q # <<>>
  PROVE  /\ Head(q) \in S /\ Tail(q) \in Seq(S) /\ Head(q) = q[1]
         /\ Len(Tail(q)) = Len(q) - 1 /\ Len(q) \in Nat /\ Len(q) >= 1
         /\ \A i \in 1..Len(Tail(q)) : Tail(q)[i] = q[i + 1]
         /\ Tail(q) = <<>> <=> Len(q) = 1
<1>1. /\ Head(q) \in S /\ Tail(q) \in Seq(S) /\ Head(q) = q[1]
      /\ Len(Tail(q)) = Len(q) - 1
      /\ \A i \in 1..Len(Tail(q)) : Tail(q)[i] = q[i + 1]
  BY HeadTailProperties
<1>2. Len(q) \in Nat /\ Len(q) # 0
  BY LenProperties, EmptySeq
<1>3. Len(q) >= 1
  BY <1>2
<1>4. Tail(q) = <<>> <=> Len(Tail(q)) = 0
  BY <1>1, EmptySeq
<1>5. Len(q) - 1 = 0 <=> Len(q) = 1
  BY <1>2
<1> QED
  BY <1>1, <1>2, <1>3, <1>4, <1>5

\* A notification that does not tell the end.
LEMMA NoteAdded ==
  ASSUME TypeOK, EndLast, WholeBefore, ~over,
         NEW note \in Note, note.type \notin End,
         toGui' = Append(toGui, note), UNCHANGED <<size, state, offset, over>>
  PROVE  toGui' \in Seq(Note) /\ EndLast' /\ WholeBefore'
<1>1. /\ toGui' \in Seq(Note) /\ toGui' # <<>>
      /\ Len(toGui') = Len(toGui) + 1 /\ Len(toGui) \in Nat
      /\ toGui'[Len(toGui) + 1] = note
      /\ \A i \in 1..Len(toGui) : toGui'[i] = toGui[i]
  BY Grows DEF TypeOK
<1>2. ASSUME NEW i \in 1..Len(toGui')
      PROVE  toGui'[i].type \notin End
  <2>1. CASE i = Len(toGui) + 1
    BY <1>1, <2>1
  <2>2. CASE i # Len(toGui) + 1
    <3>1. i \in 1..Len(toGui)
      BY <1>1, <2>2
    <3> QED
      BY <1>1, <3>1 DEF EndLast
  <2> QED
    BY <2>1, <2>2
<1>3. EndLast'
  BY <1>2 DEF EndLast
<1>4. WholeBefore'
  BY <1>2 DEF WholeBefore, End
<1> QED
  BY <1>1, <1>3, <1>4

\* An error is told.
LEMMA ErrorAdded ==
  ASSUME TypeOK, EndLast, WholeBefore, ~over, over' = TRUE, Tell("error", 0),
         UNCHANGED <<size, state, offset>>
  PROVE  toGui' \in Seq(Note) /\ EndLast' /\ WholeBefore'
<1> DEFINE note == [type |-> "error", at |-> 0]
<1>0. note \in Note
  BY DEF Note
<1>1. /\ toGui' \in Seq(Note) /\ toGui' # <<>>
      /\ Len(toGui') = Len(toGui) + 1 /\ Len(toGui) \in Nat
      /\ toGui'[Len(toGui) + 1] = note
      /\ \A i \in 1..Len(toGui) : toGui'[i] = toGui[i]
  BY <1>0, Grows DEF TypeOK, Tell
<1>2. ASSUME NEW i \in 1..Len(toGui'), i # Len(toGui) + 1
      PROVE  toGui'[i].type \notin End
  <2>1. i \in 1..Len(toGui)
    BY <1>1, <1>2
  <2> QED
    BY <1>1, <2>1 DEF EndLast
<1>3. EndLast'
  <2>1. toGui'[Len(toGui')].type \in End
    BY <1>1 DEF End
  <2> QED
    BY <1>1, <1>2, <2>1 DEF EndLast
<1>4. toGui'[Len(toGui) + 1].type # "finished"
  BY <1>1
<1>5. WholeBefore'
  BY <1>2, <1>4 DEF WholeBefore, End
<1> QED
  BY <1>1, <1>3, <1>5

\* The whole file's progress, and after it the end.
LEMMA FinishAdded ==
  ASSUME TypeOK, EndLast, WholeBefore, ~over, over' = TRUE,
         toGui' = Append(Append(toGui, Whole), [type |-> "finished", at |-> 0]),
         UNCHANGED <<size, state, offset>>
  PROVE  toGui' \in Seq(Note) /\ EndLast' /\ WholeBefore'
<1> DEFINE note == [type |-> "finished", at |-> 0]
           q == Append(toGui, Whole)
<1>0. note \in Note /\ Whole \in Note
  BY FileTransfersAssumption DEF Note, Whole, TypeOK
<1>1. /\ q \in Seq(Note) /\ Len(q) = Len(toGui) + 1 /\ Len(toGui) \in Nat
      /\ q[Len(toGui) + 1] = Whole
      /\ \A i \in 1..Len(toGui) : q[i] = toGui[i]
  BY <1>0, Grows DEF TypeOK
<1>2. /\ toGui' \in Seq(Note) /\ toGui' # <<>>
      /\ Len(toGui') = Len(q) + 1 /\ Len(q) \in Nat
      /\ toGui'[Len(q) + 1] = note
      /\ \A i \in 1..Len(q) : toGui'[i] = q[i]
  BY <1>0, <1>1, Grows
<1> HIDE DEF q
<1>3. ASSUME NEW i \in 1..Len(toGui'), i # Len(toGui')
      PROVE  toGui'[i].type \notin End
  <2>1. i \in 1..Len(q)
    BY <1>2, <1>3
  <2>2. CASE i = Len(toGui) + 1
    BY <1>1, <1>2, <2>1, <2>2 DEF Whole, End
  <2>3. CASE i # Len(toGui) + 1
    <3>1. i \in 1..Len(toGui)
      BY <1>1, <2>1, <2>3
    <3> QED
      BY <1>1, <1>2, <2>1, <3>1 DEF EndLast
  <2> QED
    BY <2>2, <2>3
<1>4. EndLast'
  <2>1. toGui'[Len(toGui')].type \in End
    BY <1>2 DEF End
  <2> QED
    BY <1>2, <1>3, <2>1 DEF EndLast
<1>5. ASSUME NEW i \in 1..Len(toGui'), toGui'[i].type = "finished"
      PROVE  i # 1 /\ toGui'[i - 1] = Whole'
  <2>1. i = Len(toGui')
    BY <1>3, <1>5 DEF End
  <2>2. i = Len(toGui) + 2 /\ i - 1 = Len(toGui) + 1 /\ i - 1 \in 1..Len(q)
    BY <1>1, <1>2, <2>1
  <2>3. Whole' = Whole
    BY DEF Whole
  <2>4. i # 1
    BY <1>1, <2>2
  <2> QED
    BY <1>1, <1>2, <2>2, <2>3, <2>4
<1>6. state # "Completed"
  BY DEF WholeBefore
<1>7. WholeBefore'
  BY <1>5, <1>6 DEF WholeBefore
<1> QED
  BY <1>2, <1>4, <1>7

\* The same notifications, the same transfer as it is shown.
LEMMA NotesKept ==
  ASSUME EndLast, WholeBefore, UNCHANGED <<size, toGui, state, offset, over>>
  PROVE  EndLast' /\ WholeBefore'
BY DEF EndLast, WholeBefore, Whole

\* The same calls, of the same transfer, which is not being packaged or not sent yet.
LEMMA CallsKept ==
  ASSUME Calls, UNCHANGED <<kind, toCore, state, stop, task>>, cancelled' = cancelled,
         task # "no" => ft' = "null" /\ due' = "no" /\ ~failing' /\ ~timer' /\ ~over'
  PROVE  Calls'
BY DEF Calls

\* No handler begins.
LEMMA CancelKept ==
  ASSUME CancelStops, Link', UNCHANGED <<toCore, cancelled>>, crashed' \/ ~crashed,
         handler' => handler
  PROVE  CancelStops'
BY DEF CancelStops, Link

----------------------------------------------------------------------------
(* Steps of the core. *)

\* Where there is a FileTransfer or something waits, there is a handler and nothing is
\* being packaged.
LEMMA Busy ==
  ASSUME IInv, ft # "null" \/ due # "no" \/ failing \/ timer
  PROVE  handler /\ info /\ ~over /\ task = "no"
BY DEF IInv, Link, Calls, TypeOK

LEMMA ErrorStep ==
  ASSUME IInv, handler, task = "no", fileTransferHandler_error
  PROVE  IInv'
<1> USE DEF IInv, fileTransferHandler_error, cleanupFileTransferInfo, offer, gui
<1>0. info /\ ~over
  BY DEF Link
<1>1. toGui' \in Seq(Note) /\ EndLast' /\ WholeBefore'
  BY <1>0, ErrorAdded
<1>a. TypeOK /\ 0 \in 0..SendBuffer /\ sent + 0 <= size
  BY FileTransfersAssumption DEF TypeOK
<1>2. TypeOK'
  BY <1>1, <1>a DEF TypeOK
<1>3. Link'
  BY <1>0 DEF Link
<1>4. Calls'
  BY DEF Calls
<1>5. CancelStops'
  BY <1>3, CancelKept
<1> QED
  BY <1>1, <1>2, <1>3, <1>4, <1>5

LEMMA IncomingStep ==
  ASSUME IInv, fileTransferMgr_incomingFileTransfer
  PROVE  IInv'
<1> USE DEF IInv, fileTransferMgr_incomingFileTransfer, addNewFileTransfer, Tell, offer, gui
<1>0. ~over /\ ~handler /\ task = "no" /\ state = "None"
  BY DEF Link
<1> DEFINE note == [type |-> "incoming", at |-> 0]
<1>1. note \in Note /\ note.type \notin End
  BY DEF Note, End
<1>2. toGui' \in Seq(Note) /\ EndLast' /\ WholeBefore'
  BY <1>0, <1>1, NoteAdded
<1>3. TypeOK'
  BY <1>2 DEF TypeOK
<1>4. Link'
  BY <1>0 DEF Link
<1>5. Calls'
  BY <1>0 DEF Calls
<1>6. ~cancelled
  BY <1>0 DEF Calls
<1>7. CancelStops'
  BY <1>6 DEF CancelStops
<1> QED
  BY <1>2, <1>3, <1>4, <1>5, <1>7

LEMMA ProgressStep ==
  ASSUME IInv, fileTransferTimer_updateProgress
  PROVE  IInv'
<1> USE DEF IInv, offer, core, link, gui
<1>0. handler /\ info /\ ~over /\ task = "no"
  BY Busy DEF fileTransferTimer_updateProgress
<1>1. /\ UNCHANGED <<kind, size, entry, toCore, state, offset, stop, task, cancelled, crashed>>
      /\ UNCHANGED <<info, current, sent>> 
  BY DEF fileTransferTimer_updateProgress, cleanupFileTransferInfo
<1>2. CASE current # size
  <2> DEFINE note == [type |-> "progress", at |-> current]
  <2>0. UNCHANGED <<handler, timer, due, ft, failing, pending, over>>
    BY <1>2 DEF fileTransferTimer_updateProgress
  <2>1. note \in Note /\ note.type \notin End
    BY DEF Note, End, TypeOK
  <2>2. toGui' \in Seq(Note) /\ EndLast' /\ WholeBefore'
    BY <1>0, <1>1, <1>2, <2>0, <2>1, NoteAdded DEF fileTransferTimer_updateProgress, Tell
  <2>3. TypeOK'
    BY <1>1, <2>0, <2>2 DEF TypeOK
  <2>4. Link'
    BY <1>0, <1>1, <2>0 DEF Link
  <2>5. Calls'
    BY <1>1, <2>0 DEF Calls
  <2>6. CancelStops'
    BY <1>0, <1>1, <2>4, CancelKept DEF TypeOK
  <2> QED
    BY <2>2, <2>3, <2>4, <2>5, <2>6
<1>3. CASE current = size
  <2>0. /\ ~handler' /\ ~timer' /\ ft' = "null" /\ due' = "no" /\ ~failing' /\ pending' = 0
        /\ timer' = FALSE /\ handler' = FALSE /\ failing' = FALSE /\ over' = TRUE
        /\ toGui' = Append(Append(toGui, Whole), [type |-> "finished", at |-> 0])
    BY <1>3 DEF fileTransferTimer_updateProgress, cleanupFileTransferInfo, Whole
  <2>2. toGui' \in Seq(Note) /\ EndLast' /\ WholeBefore'
    BY <1>0, <1>1, <2>0, FinishAdded
  <2>a. TypeOK /\ 0 \in 0..SendBuffer /\ sent + 0 <= size
    BY FileTransfersAssumption DEF TypeOK
  <2>3. TypeOK'
    BY <1>1, <2>0, <2>2, <2>a DEF TypeOK
  <2>4. Link'
    BY <1>0, <1>1, <2>0 DEF Link
  <2>5. Calls'
    BY <1>0, <1>1 DEF Calls
  <2>6. CancelStops'
    BY <1>0, <1>1, <2>4, CancelKept DEF TypeOK
  <2> QED
    BY <2>2, <2>3, <2>4, <2>5, <2>6
<1> QED
  BY <1>2, <1>3

\* A step of the handler, the FileTransfer and the bytestream only.
LEMMA LinkStep ==
  ASSUME IInv, handler, task = "no", TypeOK', Link',
         UNCHANGED <<offer, entry, info, handler, toCore, toGui, gui>>,
         UNCHANGED <<cancelled, over, crashed>>
  PROVE  IInv'
<1> USE DEF IInv, offer, gui
<1>1. EndLast' /\ WholeBefore'
  BY NotesKept
<1>2. Calls'
  BY DEF Calls
<1>3. CancelStops'
  BY CancelKept DEF TypeOK
<1> QED
  BY <1>1, <1>2, <1>3

LEMMA AcceptedStep ==
  ASSUME IInv, ft_accepted
  PROVE  IInv'
<1> USE DEF IInv, ft_accepted, Tell, offer, core, gui
<1>0. handler /\ info /\ ~over /\ task = "no"
  BY Busy
<1> DEFINE note == [type |-> "accepted", at |-> 0]
<1>1. note \in Note /\ note.type \notin End
  BY DEF Note, End
<1>2. toGui' \in Seq(Note) /\ EndLast' /\ WholeBefore'
  BY <1>0, <1>1, NoteAdded
<1>3. TypeOK'
  BY <1>2 DEF TypeOK
<1>4. Link'
  BY <1>0 DEF Link
<1>5. Calls'
  BY <1>0 DEF Calls
<1>6. CancelStops'
  BY <1>4, CancelKept DEF TypeOK
<1> QED
  BY <1>2, <1>3, <1>4, <1>5, <1>6

LEMMA FailsStep ==
  ASSUME IInv, ft # "null", Fails
  PROVE  IInv'
<1> USE DEF Fails, offer, core, gui
<1>1. handler /\ info /\ ~over /\ task = "no"
  BY Busy
<1>2. TypeOK'
  BY FileTransfersAssumption DEF IInv, TypeOK
<1>3. Link'
  BY <1>1 DEF IInv, Link
<1> QED
  BY <1>1, <1>2, <1>3, LinkStep

LEMMA ConnectedStep ==
  ASSUME IInv, ft_connected
  PROVE  IInv'
<1>1. handler /\ info /\ ~over /\ task = "no"
  BY Busy DEF ft_connected
<1>2. CASE fileTransferHandler_error
  BY <1>1, <1>2, ErrorStep
<1>3. CASE /\ ft' = "active"
           /\ due' = IF size = 0 THEN "doFinish"
                     ELSE IF kind = "incoming" THEN "no" ELSE "trySend"
           /\ UNCHANGED <<core, sent, failing, pending>>
           /\ UNCHANGED <<offer, entry, toCore, toGui, gui, cancelled, over, crashed>>
  <2> USE <1>3 DEF offer, core, gui
  <2>1. TypeOK'
    BY DEF IInv, TypeOK
  <2>2. Link'
    BY <1>1 DEF IInv, Link
  <2> QED
    BY <1>1, <2>1, <2>2, LinkStep
<1> QED
  BY <1>2, <1>3 DEF ft_connected

LEMMA ReadStep ==
  ASSUME IInv, NEW n \in 1..size, ft_readyRead(n)
  PROVE  IInv'
<1>1. handler /\ info /\ ~over /\ task = "no"
  BY Busy DEF ft_readyRead
<1>2. CASE fileTransferHandler_error
  BY <1>1, <1>2, ErrorStep
<1>3. CASE /\ sent' = sent + n
           /\ ft' = IF sent + n = size THEN "null" ELSE "active"
           /\ fileTransferHandler_progress(sent + n)
           /\ UNCHANGED <<due, failing, pending>>
           /\ UNCHANGED <<offer, entry, toCore, toGui, gui, cancelled, over, crashed>>
  <2> USE <1>3 DEF offer, core, gui, fileTransferHandler_progress
  <2>0. kind = "incoming" /\ n \in 1..(size - sent) /\ pending = 0
    BY DEF ft_readyRead, IInv, Link
  <2>1. size \in Nat /\ sent \in 0..size
    BY FileTransfersAssumption DEF IInv, TypeOK
  <2>2. sent + n \in 0..size /\ sent + n + 0 <= size
    BY <2>0, <2>1
  <2>3. TypeOK'
    BY <2>0, <2>2 DEF IInv, TypeOK
  <2>4. Link'
    BY <1>1 DEF IInv, Link
  <2> QED
    BY <1>1, <2>3, <2>4, LinkStep
<1> QED
  BY <1>2, <1>3 DEF ft_readyRead

LEMMA WrittenStep ==
  ASSUME IInv, NEW n \in 1..size, ft_bytesWritten(n)
  PROVE  IInv'
<1> USE DEF ft_bytesWritten, offer, core, gui, fileTransferHandler_progress
<1>1. handler /\ info /\ ~over /\ task = "no"
  BY Busy
<1>2. /\ size \in Nat /\ sent \in 0..size /\ pending \in 0..SendBuffer /\ SendBuffer \in Nat
      /\ sent + pending <= size
  BY FileTransfersAssumption DEF IInv, TypeOK
<1>3. /\ sent + n \in 0..size /\ pending - n \in 0..SendBuffer
      /\ sent + n + (pending - n) <= size
  BY <1>2
<1>4. sent' = sent + n /\ pending' = pending - n
  OBVIOUS
<1>5. TypeOK'
  BY <1>3, <1>4 DEF IInv, TypeOK
<1>6. Link'
  BY <1>1 DEF IInv, Link
<1> QED
  BY <1>1, <1>5, <1>6, LinkStep

LEMMA SendStep ==
  ASSUME IInv, trySend
  PROVE  IInv'
<1>1. handler /\ info /\ ~over /\ task = "no"
  BY Busy DEF trySend
<1>2. CASE fileTransferHandler_error
  BY <1>1, <1>2, ErrorStep
<1>3. CASE /\ ft = "active" /\ due' = "no"
           /\ \E r \in 0..dataSizeNeeded : pending' = pending + r
           /\ UNCHANGED <<core, sent, ft, failing>>
           /\ UNCHANGED <<offer, entry, toCore, toGui, gui, cancelled, over, crashed>>
  <2> USE <1>3 DEF offer, core, gui
  <2>1. /\ size \in Nat /\ sent \in 0..size /\ pending \in 0..SendBuffer /\ SendBuffer \in Nat
        /\ sent + pending <= size
    BY FileTransfersAssumption DEF IInv, TypeOK
  <2>2. PICK r \in 0..dataSizeNeeded : pending' = pending + r
    OBVIOUS
  <2>3. pending' \in 0..SendBuffer /\ sent + pending' <= size
    BY <2>1, <2>2 DEF dataSizeNeeded
  <2>4. TypeOK'
    BY <2>3 DEF IInv, TypeOK
  <2>5. kind # "incoming"
    BY DEF trySend, IInv, Link
  <2>6. Link'
    BY <1>1, <2>5 DEF IInv, Link
  <2> QED
    BY <1>1, <2>4, <2>6, LinkStep
<1>4. CASE Crash /\ UNCHANGED toCore
  <2> USE <1>4 DEF Crash, offer, core, link, gui
  <2>1. TypeOK'
    BY DEF IInv, TypeOK
  <2>2. Link' /\ Calls'
    BY DEF IInv, Link, Calls
  <2>3. EndLast' /\ WholeBefore'
    BY NotesKept DEF IInv
  <2>4. CancelStops'
    BY DEF CancelStops
  <2> QED
    BY <2>1, <2>2, <2>3, <2>4 DEF IInv
<1> QED
  BY <1>2, <1>3, <1>4 DEF trySend

LEMMA FinishStep ==
  ASSUME IInv, doFinish
  PROVE  IInv'
<1> USE DEF doFinish, offer, core, gui, fileTransferHandler_progress
<1>1. handler /\ info /\ ~over /\ task = "no"
  BY Busy
<1>2. TypeOK'
  BY DEF IInv, TypeOK
<1>3. Link'
  BY <1>1 DEF IInv, Link
<1> QED
  BY <1>1, <1>2, <1>3, LinkStep

LEMMA RemovedStep ==
  ASSUME IInv, EntryRemoved
  PROVE  IInv'
<1> USE DEF EntryRemoved, offer, core, link, gui
<1>1. TypeOK'
  <2>1. TypeOK /\ entry' \in BOOLEAN
    BY DEF IInv
  <2> QED
    BY <2>1 DEF TypeOK
<1> USE DEF IInv
<1>2. Link' /\ Calls'
  BY DEF Link, Calls
<1>3. EndLast' /\ WholeBefore'
  BY NotesKept
<1>4. CancelStops'
  BY DEF CancelStops
<1> QED
  BY <1>1, <1>2, <1>3, <1>4

----------------------------------------------------------------------------
(* The calls. *)

LEMMA CallTaken ==
  ASSUME TypeOK, toCore # <<>>, toCore' = Tail(toCore)
  PROVE  /\ toCore' \in Seq({"fileStartPending", "fileAccept", "fileCancel"})
         /\ 1 \in 1..Len(toCore) /\ Head(toCore) = toCore[1]
         /\ \A i \in 1..Len(toCore') : i + 1 \in 1..Len(toCore) /\ toCore'[i] = toCore[i + 1]
         /\ \A i \in 1..Len(toCore) : i = 1 \/ (i - 1 \in 1..Len(toCore')
                                                /\ toCore[i] = toCore'[i - 1])
<1>1. /\ toCore' \in Seq({"fileStartPending", "fileAccept", "fileCancel"})
      /\ Head(toCore) = toCore[1]
      /\ Len(toCore') = Len(toCore) - 1 /\ Len(toCore) \in Nat /\ Len(toCore) >= 1
      /\ \A i \in 1..Len(toCore') : toCore'[i] = toCore[i + 1]
  BY Shrinks DEF TypeOK
<1>2. 1 \in 1..Len(toCore)
  BY <1>1
<1>3. \A i \in 1..Len(toCore') : i + 1 \in 1..Len(toCore)
  BY <1>1
<1>4. ASSUME NEW i \in 1..Len(toCore), i # 1
      PROVE  i - 1 \in 1..Len(toCore') /\ toCore[i] = toCore'[i - 1]
  <2>1. i - 1 \in 1..Len(toCore') /\ (i - 1) + 1 = i
    BY <1>1, <1>4
  <2> QED
    BY <1>1, <2>1
<1> QED
  BY <1>1, <1>2, <1>3, <1>4

\* What the queue of calls promises stays; it is enough that the state is kept, and
\* that a call that is not the packaged file's changes nothing that is being packaged.
LEMMA CallsLeft ==
  ASSUME TypeOK, Calls, toCore # <<>>, toCore' = Tail(toCore),
         UNCHANGED <<kind, state, stop, task, cancelled>>,
         task # "no" => ft' = "null" /\ due' = "no" /\ ~failing' /\ ~timer' /\ ~over'
  PROVE  Calls'
<1>1. \A i \in 1..Len(toCore') : i + 1 \in 1..Len(toCore) /\ toCore'[i] = toCore[i + 1]
  BY CallTaken
<1>2. state # "None"
  BY DEF Calls
<1>3. \A i \in 1..Len(toCore') : toCore'[i] = "fileAccept" => kind = "incoming"
  BY <1>1 DEF Calls
<1>4. task # "no" => \A i \in 1..Len(toCore') : toCore'[i] # "fileStartPending"
  BY <1>1 DEF Calls
<1> QED
  BY <1>2, <1>3, <1>4 DEF Calls

\* A call other than the cancel leaves a cancelled transfer without a handler, and so
\* does a crash.
LEMMA CancelLeft ==
  ASSUME TypeOK, CancelStops, Link', toCore # <<>>, toCore' = Tail(toCore),
         Head(toCore) # "fileCancel", cancelled' = cancelled, handler' = handler,
         crashed' \/ ~crashed
  PROVE  CancelStops'
<1>1. SUFFICES ASSUME cancelled, ~crashed,
                      \A i \in 1..Len(toCore') : toCore'[i] # "fileCancel"
               PROVE  ~handler
  BY DEF CancelStops, Link
<1>2. \A i \in 1..Len(toCore) : toCore[i] # "fileCancel"
  BY <1>1, CallTaken
<1> QED
  BY <1>1, <1>2 DEF CancelStops

LEMMA CallStep ==
  ASSUME IInv, ~crashed, CoreRunsCall
  PROVE  IInv'
<1> USE DEF offer, gui
<1>0. toCore # <<>> /\ toCore' = Tail(toCore) /\ TypeOK /\ CancelStops /\ Link /\ Calls
  BY DEF CoreRunsCall, IInv
<1>1. /\ toCore' \in Seq({"fileStartPending", "fileAccept", "fileCancel"})
      /\ 1 \in 1..Len(toCore) /\ Head(toCore) = toCore[1]
  BY <1>0, CallTaken
<1>2. CASE Head(toCore) = "fileStartPending" /\ fileStartPending
  <2>0. task = "no"
    BY <1>0, <1>1, <1>2 DEF Calls
  <2>1. CASE /\ entry /\ handler /\ ft' = "requesting"
             /\ UNCHANGED <<core, sent, due, failing, pending>>
             /\ UNCHANGED <<offer, entry, toGui, gui, cancelled, over, crashed>>
    <3> USE <2>1 DEF core
    <3>1. TypeOK'
      BY <1>0, <1>1 DEF TypeOK
    <3>2. Link'
      BY <1>0 DEF Link
    <3>3. Calls'
      BY <1>0, <2>0, CallsLeft
    <3>4. CancelStops'
      BY <1>0, <1>2, <3>2, CancelLeft
    <3>5. EndLast' /\ WholeBefore'
      BY NotesKept DEF IInv
    <3> QED
      BY <3>1, <3>2, <3>3, <3>4, <3>5 DEF IInv
  <2>2. CASE Crash \/ UNCHANGED <<offer, entry, core, link, toGui, gui, cancelled, over, crashed>>
    <3>0. /\ UNCHANGED <<offer, entry, core, link, toGui, gui, cancelled, over>>
          /\ crashed' = TRUE \/ crashed' = crashed
      BY <2>2 DEF Crash
    <3> USE <3>0 DEF core, link
    <3>a. crashed' \in BOOLEAN
      BY <1>0 DEF TypeOK
    <3>1. TypeOK'
      BY <1>0, <1>1, <3>a DEF TypeOK
    <3>2. Link'
      BY <1>0 DEF Link
    <3>3. Calls'
      BY <1>0, <2>0, CallsLeft
    <3>4. CancelStops'
      BY <1>0, <1>2, <3>2, CancelLeft
    <3>5. EndLast' /\ WholeBefore'
      BY NotesKept DEF IInv
    <3> QED
      BY <3>1, <3>2, <3>3, <3>4, <3>5 DEF IInv
  <2> QED
    BY <1>2, <2>1, <2>2 DEF fileStartPending
<1>3. CASE Head(toCore) = "fileAccept" /\ fileAccept
  <2>0. kind = "incoming" /\ task = "no"
    BY <1>0, <1>1, <1>3 DEF Calls, Link
  <2>1. CASE /\ info /\ handler /\ ft' = "connecting"
             /\ UNCHANGED <<core, sent, due, failing, pending>>
             /\ UNCHANGED <<offer, entry, toGui, gui, cancelled, over, crashed>>
    <3> USE <2>1 DEF core
    <3>1. TypeOK'
      BY <1>0, <1>1 DEF TypeOK
    <3>2. Link'
      BY <1>0 DEF Link
    <3>3. Calls'
      BY <1>0, <2>0, CallsLeft
    <3>4. CancelStops'
      BY <1>0, <1>3, <3>2, CancelLeft
    <3>5. EndLast' /\ WholeBefore'
      BY NotesKept DEF IInv
    <3> QED
      BY <3>1, <3>2, <3>3, <3>4, <3>5 DEF IInv
  <2>2. CASE Crash
    <3>0. /\ UNCHANGED <<offer, entry, core, link, toGui, gui, cancelled, over>>
          /\ crashed' = TRUE
      BY <2>2 DEF Crash
    <3> USE <3>0 DEF core, link
    <3>1. TypeOK'
      BY <1>0, <1>1 DEF TypeOK
    <3>2. Link'
      BY <1>0 DEF Link
    <3>3. Calls'
      BY <1>0, <2>0, CallsLeft
    <3>4. CancelStops'
      BY DEF CancelStops
    <3>5. EndLast' /\ WholeBefore'
      BY NotesKept DEF IInv
    <3> QED
      BY <3>1, <3>2, <3>3, <3>4, <3>5 DEF IInv
  <2> QED
    BY <1>3, <2>1, <2>2 DEF fileAccept
<1>4. CASE Head(toCore) = "fileCancel" /\ fileCancel
  <2>0. /\ UNCHANGED <<kind, size, entry, toGui, state, offset, stop, task>>
        /\ UNCHANGED <<cancelled, over, crashed, info, current, sent>>
    BY <1>4 DEF fileCancel, cleanupFileTransferInfo, core, link
  <2>1. CASE info
    <3>0. /\ handler' = FALSE /\ timer' = FALSE /\ ft' = "null" /\ due' = "no"
          /\ failing' = FALSE /\ pending' = 0
      BY <1>4, <2>1 DEF fileCancel, cleanupFileTransferInfo
    <3>a. 0 \in 0..SendBuffer /\ sent + 0 <= size
      BY <1>0, FileTransfersAssumption DEF TypeOK
    <3>1. TypeOK'
      BY <1>0, <1>1, <2>0, <3>0, <3>a DEF TypeOK
    <3>2. Link'
      BY <1>0, <2>0, <3>0 DEF Link
    <3>3. over => task = "no"
      BY <1>0 DEF Calls
    <3>4. Calls'
      BY <1>0, <2>0, <3>0, <3>3, CallsLeft
    <3>5. CancelStops'
      BY <3>0 DEF CancelStops
    <3> QED
      BY <2>0, <3>1, <3>2, <3>4, <3>5, NotesKept DEF IInv
  <2>2. CASE ~info
    <3>0. UNCHANGED <<handler, timer, ft, due, failing, pending>> /\ ~handler
      BY <1>0, <1>4, <2>2 DEF fileCancel, core, link, Link
    <3>1. TypeOK'
      BY <1>0, <1>1, <2>0, <3>0 DEF TypeOK
    <3>2. Link'
      BY <1>0, <2>0, <3>0 DEF Link
    <3>3. Calls'
      <4>1. task # "no" => ft' = "null" /\ due' = "no" /\ ~failing' /\ ~timer' /\ ~over'
        BY <1>0, <2>0, <3>0 DEF Calls
      <4> QED
        BY <1>0, <2>0, <4>1, CallsLeft
    <3>4. CancelStops'
      BY <3>0, <3>2 DEF CancelStops, Link
    <3> QED
      BY <2>0, <3>1, <3>2, <3>3, <3>4, NotesKept DEF IInv
  <2> QED
    BY <2>1, <2>2
<1> QED
  BY <1>2, <1>3, <1>4 DEF CoreRunsCall

----------------------------------------------------------------------------
(* Steps of the user interface. *)

LEMMA StartStep ==
  ASSUME IInv, startSendingFile
  PROVE  IInv'
<1> USE DEF startSendingFile, offer
<1>0. /\ ~info /\ ~handler /\ ~over /\ ~timer /\ due = "no" /\ ~failing /\ ft = "null"
      /\ toCore = <<>> /\ ~cancelled /\ kind # "incoming"
  BY DEF IInv, Link, Calls
<1>1. /\ info' \in BOOLEAN /\ handler' \in BOOLEAN /\ (handler' => info')
      /\ ft' \in {"requesting", "null"} /\ (kind = "folder" => ft' = "null")
      /\ (~handler' => ft' = "null")
      /\ UNCHANGED <<current, timer, sent, due, failing, pending>>
  <2>1. CASE entry
    BY <1>0, <2>1 DEF addNewFileTransfer, core, link
  <2>2. CASE ~entry
    BY <1>0, <2>2 DEF addNewFileTransfer, core, link, IInv, TypeOK
  <2> QED
    BY <2>1, <2>2
<1>2. /\ state' \in {"Packaging", "WaitingToBeAccepted"} /\ task' \in {"running", "no"}
      /\ (task' # "no" => kind = "folder")
  OBVIOUS
<1>3. TypeOK'
  BY <1>1, <1>2 DEF IInv, TypeOK, State
<1>4. pending = 0
  BY <1>0 DEF IInv, Link
<1>5. Link'
  BY <1>0, <1>1, <1>4 DEF IInv, Link
<1>6. Len(toCore) = 0
  BY <1>0
<1>7. Calls'
  BY <1>0, <1>1, <1>2, <1>6 DEF Calls
<1>8. EndLast' /\ WholeBefore'
  BY <1>0, <1>2 DEF IInv, EndLast, WholeBefore, Whole
<1>9. CancelStops'
  BY <1>0 DEF CancelStops
<1> QED
  BY <1>3, <1>5, <1>7, <1>8, <1>9 DEF IInv

LEMMA PackagingStep ==
  ASSUME IInv, PackagingEnds
  PROVE  IInv'
<1> USE DEF IInv, PackagingEnds, offer, core, link
<1>1. TypeOK'
  BY DEF TypeOK
<1>2. Link' /\ Calls'
  BY DEF Link, Calls
<1>3. EndLast' /\ WholeBefore'
  BY NotesKept
<1>4. CancelStops'
  BY DEF CancelStops
<1> QED
  BY <1>1, <1>2, <1>3, <1>4

\* One more call: what the queue promises, of a transfer that has begun.
LEMMA CallAdded ==
  ASSUME TypeOK, Calls, state' # "None", kind' = kind,
         NEW call \in {"fileStartPending", "fileAccept", "fileCancel"},
         toCore' = Append(toCore, call),
         call = "fileAccept" => kind = "incoming",
         call = "fileStartPending" => task' = "no",
         task' # "no" => task # "no",
         UNCHANGED <<ft, due, failing, timer, over>>
  PROVE  Calls' /\ toCore' \in Seq({"fileStartPending", "fileAccept", "fileCancel"})
<1>1. /\ toCore' \in Seq({"fileStartPending", "fileAccept", "fileCancel"})
      /\ Len(toCore') = Len(toCore) + 1 /\ Len(toCore) \in Nat
      /\ toCore'[Len(toCore) + 1] = call
      /\ \A i \in 1..Len(toCore) : toCore'[i] = toCore[i]
  BY Grows DEF TypeOK
<1>2. \A i \in 1..Len(toCore') : i = Len(toCore) + 1 \/ i \in 1..Len(toCore)
  BY <1>1
<1>3. \A i \in 1..Len(toCore') : toCore'[i] = "fileAccept" => kind = "incoming"
  BY <1>1, <1>2 DEF Calls
<1>4. task' # "no" => \A i \in 1..Len(toCore') : toCore'[i] # "fileStartPending"
  BY <1>1, <1>2 DEF Calls
<1> QED
  BY <1>1, <1>3, <1>4 DEF Calls

\* A call that is not a cancel leaves a cancelled transfer as it is.
LEMMA CancelAdded ==
  ASSUME TypeOK, CancelStops, NEW call \in {"fileStartPending", "fileAccept"},
         toCore' = Append(toCore, call), UNCHANGED <<cancelled, crashed, handler, ft, timer>>
  PROVE  CancelStops'
<1>1. /\ Len(toCore') = Len(toCore) + 1 /\ Len(toCore) \in Nat
      /\ \A i \in 1..Len(toCore) : toCore'[i] = toCore[i]
  BY Grows DEF TypeOK
<1>2. \A i \in 1..Len(toCore) : i \in 1..Len(toCore')
  BY <1>1
<1> QED
  BY <1>1, <1>2 DEF CancelStops

LEMMA PackagedStep ==
  ASSUME IInv, p_filePackagingDidFinish
  PROVE  IInv'
<1> USE DEF p_filePackagingDidFinish, offer, core, link
<1>0. ~over /\ state # "None" /\ kind # "incoming" /\ state \in State
  BY DEF IInv, Link, Calls, TypeOK
<1>1. Link'
  BY <1>0 DEF IInv, Link
<1>2. /\ UNCHANGED <<size, toGui, offset, over>> /\ task' = "no"
      /\ state' # "Completed" \/ state' = state
  OBVIOUS
<1>3. EndLast' /\ WholeBefore'
  BY <1>0, <1>2 DEF IInv, EndLast, WholeBefore, Whole
<1>4. CASE /\ task = "succeeded" /\ state' = "WaitingToBeAccepted"
           /\ toCore' = Append(toCore, "fileStartPending") /\ stop' = stop
  <2>1. Calls' /\ toCore' \in Seq({"fileStartPending", "fileAccept", "fileCancel"})
    BY <1>4, CallAdded DEF IInv
  <2>2. TypeOK'
    BY <1>4, <2>1 DEF IInv, TypeOK, State
  <2>3. CancelStops'
    BY <1>4, CancelAdded DEF IInv
  <2> QED
    BY <1>1, <1>3, <2>1, <2>2, <2>3 DEF IInv
<1>5. CASE /\ task = "failed" /\ toCore' = toCore
           /\ \/ state' = "AbortedWithError" /\ stop' = FALSE
              \/ UNCHANGED <<state, stop>>
  <2>1. Calls'
    BY <1>0, <1>5 DEF IInv, Calls
  <2>a. state' \in State /\ stop' \in BOOLEAN
    BY <1>0, <1>5 DEF IInv, TypeOK, State, Terminal
  <2>2. TypeOK'
    BY <1>5, <2>a DEF IInv, TypeOK
  <2>3. CancelStops'
    BY <1>5 DEF IInv, CancelStops
  <2> QED
    BY <1>1, <1>3, <2>1, <2>2, <2>3 DEF IInv
<1> QED
  BY <1>4, <1>5

LEMMA AcceptStep ==
  ASSUME IInv, acceptIncomingFileTransfer
  PROVE  IInv'
<1> USE DEF acceptIncomingFileTransfer, p_setState, offer, core, link
<1>0. task' = task /\ state' = "Running" /\ (stop' <=> stop) /\ stop' \in BOOLEAN
  BY DEF Terminal, IInv, TypeOK
<1>1. Calls' /\ toCore' \in Seq({"fileStartPending", "fileAccept", "fileCancel"})
  BY <1>0, CallAdded DEF IInv
<1>2. TypeOK'
  BY <1>0, <1>1 DEF IInv, TypeOK, State
<1>3. info
  BY DEF IInv, Link
<1>4. Link'
  BY <1>0, <1>3 DEF IInv, Link
<1>5. EndLast' /\ WholeBefore'
  BY <1>0 DEF IInv, EndLast, WholeBefore, Whole, Terminal
<1>6. CancelStops'
  BY CancelAdded DEF IInv
<1> QED
  BY <1>1, <1>2, <1>4, <1>5, <1>6 DEF IInv

LEMMA CancelStep ==
  ASSUME IInv, cancel
  PROVE  IInv'
<1> USE DEF cancel, p_setState, offer, core, link
<1>0. /\ state' \in {"WasNotAccepted", "Cancelled"} /\ state' \in Terminal /\ stop' = FALSE
      /\ task' \in {task, "failed"} /\ (task' # "no" => task # "no")
      /\ state # "None" /\ cancelled' = TRUE
  BY DEF IInv, TypeOK, Terminal, Calls
<1>1. Calls' /\ toCore' \in Seq({"fileStartPending", "fileAccept", "fileCancel"})
  BY <1>0, CallAdded DEF IInv
<1>2. TypeOK'
  BY <1>0, <1>1 DEF IInv, TypeOK, State, Terminal
<1>3. Link'
  BY <1>0 DEF IInv, Link
<1>4. EndLast' /\ WholeBefore'
  BY <1>0 DEF IInv, EndLast, WholeBefore, Whole
<1>5. CancelStops'
  <2>1. /\ Len(toCore) + 1 \in 1..Len(toCore')
        /\ toCore'[Len(toCore) + 1] = "fileCancel"
    BY Grows DEF IInv, TypeOK
  <2> QED
    BY <2>1 DEF CancelStops
<1> QED
  BY <1>1, <1>2, <1>3, <1>4, <1>5 DEF IInv

----------------------------------------------------------------------------
(* The notifications. *)

\* What the rest of the queue promises when its head has been handled.
LEMMA NoteTaken ==
  ASSUME TypeOK, EndLast, WholeBefore, toGui # <<>>, toGui' = Tail(toGui),
         NEW note, note = Head(toGui),
         UNCHANGED <<size, over>>,
         note.type \in End => state' \in Terminal,
         IF note.type = "progress" THEN offset' = note.at ELSE offset' = offset,
         note.type = "finished" => state' = "Completed",
         note.type # "finished" => state' # "Completed"
  PROVE  toGui' \in Seq(Note) /\ EndLast' /\ WholeBefore'
<1>1. /\ toGui' \in Seq(Note) /\ Head(toGui) = toGui[1]
      /\ Len(toGui') = Len(toGui) - 1 /\ Len(toGui) \in Nat /\ Len(toGui) >= 1
      /\ \A i \in 1..Len(toGui') : toGui'[i] = toGui[i + 1]
      /\ toGui' = <<>> <=> Len(toGui) = 1
  BY Shrinks DEF TypeOK
<1>2. \A i \in 1..Len(toGui') : i + 1 \in 1..Len(toGui) /\ i \in 1..Len(toGui)
  BY <1>1
<1>3. 1 \in 1..Len(toGui)
  BY <1>1
<1>4. ASSUME NEW i \in 1..Len(toGui'), toGui'[i].type \in End
      PROVE  i = Len(toGui') /\ over'
  <2>1. i + 1 = Len(toGui) /\ over
    BY <1>1, <1>2, <1>4 DEF EndLast
  <2>2. i \in Nat
    BY <1>1
  <2>3. (i + 1) - 1 = i
    BY <2>2
  <2>4. i = Len(toGui')
    BY <1>1, <2>1, <2>3
  <2> QED
    BY <2>1, <2>4
<1>5. ASSUME over
      PROVE  IF toGui' = <<>> THEN state' \in Terminal
                              ELSE toGui'[Len(toGui')].type \in End
  <2>1. toGui[Len(toGui)].type \in End
    BY <1>5 DEF EndLast
  <2>2. CASE Len(toGui) = 1
    BY <1>1, <2>1, <2>2
  <2>3. CASE Len(toGui) # 1
    <3>1. Len(toGui') \in 1..Len(toGui') /\ Len(toGui') + 1 = Len(toGui)
      BY <1>1, <2>3
    <3>2. toGui'[Len(toGui')] = toGui[Len(toGui)]
      BY <1>1, <3>1
    <3> QED
      BY <1>1, <2>1, <2>3, <3>2
  <2> QED
    BY <2>2, <2>3
<1>6. EndLast'
  BY <1>4, <1>5 DEF EndLast
<1>7. ASSUME NEW i \in 1..Len(toGui'), toGui'[i].type = "finished"
      PROVE  IF i = 1 THEN offset' = size' ELSE toGui'[i - 1] = Whole'
  <2>1. i + 1 \in 1..Len(toGui) /\ toGui[i + 1].type = "finished" /\ i + 1 # 1
        /\ (i + 1) - 1 = i
    BY <1>1, <1>2, <1>7
  <2>2. toGui[i] = Whole
    BY <2>1 DEF WholeBefore
  <2>3. CASE i = 1
    BY <1>1, <2>2, <2>3 DEF Whole
  <2>4. CASE i # 1
    <3>1. i - 1 \in 1..Len(toGui') /\ (i - 1) + 1 = i
      BY <1>1, <2>4
    <3>2. toGui'[i - 1] = toGui[i]
      BY <1>1, <3>1
    <3> QED
      BY <2>2, <2>4, <3>2 DEF Whole
  <2> QED
    BY <2>3, <2>4
<1>8. ASSUME state' = "Completed"
      PROVE  over' /\ toGui' = <<>> /\ offset' = size'
  <2>1. toGui[1].type = "finished"
    BY <1>1, <1>8
  <2>2. over /\ 1 = Len(toGui)
    BY <1>3, <2>1 DEF EndLast, End
  <2>3. offset = size
    BY <1>3, <2>1 DEF WholeBefore
  <2> QED
    BY <1>1, <2>1, <2>2, <2>3
<1>9. WholeBefore'
  BY <1>7, <1>8 DEF WholeBefore
<1> QED
  BY <1>1, <1>6, <1>9

\* How a notification changes what is shown.
LEMMA NoteShown ==
  ASSUME IInv, ~crashed, GuiHandlesNote, NEW note, note = Head(toGui)
  PROVE  /\ state' \in State /\ stop' \in BOOLEAN /\ offset' \in Nat /\ crashed' \in BOOLEAN
         /\ task' \in {task, "failed"} /\ (task' # "no" => task # "no")
         /\ state' # "None" \/ (state' = state /\ stop' = stop)
         /\ note.type \in End => state' \in Terminal
         /\ IF note.type = "progress" THEN offset' = note.at
                                      ELSE offset' = offset
         /\ note.type = "finished" => state' = "Completed"
         /\ note.type # "finished" => state' # "Completed"
<1>0. toGui # <<>> /\ note \in Note
  BY Shrinks DEF GuiHandlesNote, IInv, TypeOK
<1>1. /\ state # "Completed" /\ state \in State /\ stop \in BOOLEAN /\ offset \in Nat
      /\ task \in {"no", "running", "succeeded", "failed"}
      /\ handler \in BOOLEAN /\ entry \in BOOLEAN /\ crashed \in BOOLEAN
  BY <1>0 DEF IInv, WholeBefore, TypeOK
<1>2. note.at \in Nat
  BY <1>0 DEF Note
<1>3. CASE note.type = "incoming" /\ fileIncoming
  BY <1>1, <1>3 DEF fileIncoming, State, End
<1>4. CASE note.type = "accepted" /\ p_setState("Running") /\ UNCHANGED <<offset, crashed>>
  BY <1>1, <1>4 DEF p_setState, State, Terminal, End
<1>5. CASE note.type = "progress" /\ fileProgress(note.at)
  BY <1>1, <1>2, <1>5 DEF fileProgress, End
<1>6. CASE note.type = "finished" /\ p_setState("Completed") /\ UNCHANGED <<offset, crashed>>
  BY <1>1, <1>6 DEF p_setState, State, Terminal, End
<1>7. CASE note.type = "error" /\ handleFileTransferError
  BY <1>1, <1>7 DEF handleFileTransferError, p_setState, State, Terminal, End
<1> QED
  BY <1>3, <1>4, <1>5, <1>6, <1>7 DEF GuiHandlesNote

LEMMA NoteStep ==
  ASSUME IInv, ~crashed, GuiHandlesNote
  PROVE  IInv'
<1>0. /\ toGui # <<>> /\ toGui' = Tail(toGui)
      /\ UNCHANGED <<kind, size, entry, info, handler, current, timer>>
      /\ UNCHANGED <<sent, due, ft, failing, pending, toCore, cancelled, over>>
  BY DEF GuiHandlesNote, offer, core, link
<1>a. PICK note : note = Head(toGui)
  OBVIOUS
<1>b. /\ state' \in State /\ stop' \in BOOLEAN /\ offset' \in Nat /\ crashed' \in BOOLEAN
      /\ task' \in {task, "failed"} /\ (task' # "no" => task # "no")
      /\ state' # "None" \/ (state' = state /\ stop' = stop)
      /\ note.type \in End => state' \in Terminal
      /\ IF note.type = "progress" THEN offset' = note.at ELSE offset' = offset
      /\ note.type = "finished" => state' = "Completed"
      /\ note.type # "finished" => state' # "Completed"
  BY <1>a, NoteShown
<1>1. toGui' \in Seq(Note) /\ EndLast' /\ WholeBefore'
  BY <1>0, <1>a, <1>b, NoteTaken DEF IInv
<1>2. TypeOK'
  BY <1>0, <1>1, <1>b DEF IInv, TypeOK
<1>3. Link'
  BY <1>0, <1>b DEF IInv, Link
<1>4. Calls'
  BY <1>0, <1>b DEF IInv, Calls
<1>5. CancelStops'
  BY <1>0 DEF IInv, CancelStops
<1> QED
  BY <1>1, <1>2, <1>3, <1>4, <1>5 DEF IInv

----------------------------------------------------------------------------
(* The theorems. *)

LEMMA Start == Init => IInv
<1> SUFFICES ASSUME Init PROVE IInv
  OBVIOUS
<1>1. size \in Nat /\ 0 \in 0..SendBuffer /\ 0 \in 0..size /\ 0 + 0 <= size
  BY FileTransfersAssumption DEF Init
<1>2. Len(toGui) = 0 /\ Len(toCore) = 0
  BY DEF Init
<1>3. TypeOK
  <2>1. state \in State /\ toGui \in Seq(Note) /\ offset \in Nat
        /\ toCore \in Seq({"fileStartPending", "fileAccept", "fileCancel"})
    BY DEF Init, State
  <2>2. /\ kind \in Kind /\ size \in Sizes /\ entry \in BOOLEAN
        /\ info \in BOOLEAN /\ handler \in BOOLEAN /\ timer \in BOOLEAN
        /\ failing \in BOOLEAN /\ stop \in BOOLEAN
        /\ cancelled \in BOOLEAN /\ over \in BOOLEAN /\ crashed \in BOOLEAN
    BY DEF Init
  <2>3. current = 0 /\ sent = 0 /\ pending = 0 /\ due = "no" /\ ft = "null" /\ task = "no"
    BY DEF Init
  <2> QED
    BY <1>1, <2>1, <2>2, <2>3 DEF TypeOK
<1>4. Link /\ Calls /\ EndLast /\ WholeBefore /\ CancelStops
  BY <1>2 DEF Init, Link, Calls, EndLast, WholeBefore, CancelStops
<1> QED
  BY <1>3, <1>4 DEF IInv

LEMMA Step == IInv /\ [Next]_vars => IInv'
<1> SUFFICES ASSUME IInv, [Next]_vars PROVE IInv'
  OBVIOUS
<1>1. CASE ~crashed /\ CoreActs
  <2>1. CASE fileTransferMgr_incomingFileTransfer
    BY <2>1, IncomingStep
  <2>2. CASE fileTransferTimer_updateProgress
    BY <2>2, ProgressStep
  <2>3. CASE EntryRemoved
    BY <2>3, RemovedStep
  <2>4. CASE CoreRunsCall
    BY <1>1, <2>4, CallStep
  <2>5. CASE ft_accepted
    BY <2>5, AcceptedStep
  <2>6. CASE ft_refused \/ s5b_error
    BY <2>6, FailsStep DEF ft_refused, s5b_error
  <2>7. CASE ft_connected
    BY <2>7, ConnectedStep
  <2>8. CASE ft_error
    <3>1. failing /\ fileTransferHandler_error
      BY <2>8 DEF ft_error
    <3> QED
      BY <3>1, Busy, ErrorStep
  <2>9. CASE \E n \in 1..size : ft_readyRead(n) \/ ft_bytesWritten(n)
    BY <2>9, ReadStep, WrittenStep
  <2>10. CASE trySend
    BY <2>10, SendStep
  <2>11. CASE doFinish
    BY <2>11, FinishStep
  <2> QED
    BY <1>1, <2>1, <2>2, <2>3, <2>4, <2>5, <2>6, <2>7, <2>8, <2>9, <2>10, <2>11 DEF CoreActs
<1>2. CASE ~crashed /\ GuiActs
  BY <1>2, StartStep, PackagingStep, PackagedStep, AcceptStep, CancelStep, NoteStep
     DEF GuiActs
<1>3. CASE UNCHANGED vars
  <2> USE <1>3 DEF vars, offer, core, link, gui
  <2>1. TypeOK'
    BY DEF IInv, TypeOK
  <2>2. Link' /\ Calls'
    BY DEF IInv, Link, Calls
  <2>3. EndLast' /\ WholeBefore'
    BY NotesKept DEF IInv
  <2>4. CancelStops'
    BY DEF IInv, CancelStops
  <2> QED
    BY <2>1, <2>2, <2>3, <2>4 DEF IInv
<1> QED
  BY <1>1, <1>2, <1>3 DEF Next

\* The end of a transfer is the last that the core tells of it, and it is told once.
THEOREM Invariance == Spec => []IInv
BY Start, Step, PTL DEF Spec

\* Types, and no more bytes given to the socket than the buffer and the file have.
THEOREM TypeCorrect == Spec => []TypeOK
<1>1. IInv => TypeOK
  BY DEF IInv
<1> QED
  BY <1>1, Invariance, PTL

\* Whatever crosses, a transfer that is over in the core ends in the user interface.
THEOREM SettledHolds == Spec => []Settled
<1>1. IInv => Settled
  BY DEF IInv, EndLast, Settled
<1> QED
  BY <1>1, Invariance, PTL

\* A file of any size that shows as completed has been shown whole.
THEOREM CompletedIsWholeHolds == Spec => []CompletedIsWhole
<1>1. IInv => CompletedIsWhole
  BY DEF IInv, WholeBefore, CompletedIsWhole
<1> QED
  BY <1>1, Invariance, PTL

\* A cancel that the core has run leaves nothing of the transfer.
THEOREM CancelStopsHolds == Spec => []CancelStops
<1>1. IInv => CancelStops
  BY DEF IInv
<1> QED
  BY <1>1, Invariance, PTL

=============================================================================
