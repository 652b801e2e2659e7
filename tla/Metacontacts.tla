------------------------------- MODULE Metacontacts -------------------------------
(* The metacontacts directory of an account: which tag and which order each address
   has.  The user changes it, and a timer, restarted by every change, sends all of it
   to the server's private storage.  Several saves may be on their way; the stream
   keeps their order, and a stream that ends loses them and the answers.

   Nothing in the core ever asks for the server's list (updateFromServer,
   setNeedsToUpdateFromServer) or clears the directory: it begins empty whatever the
   server has.  The parts of the class that are never called are left out; so are the
   roster pushes that a finished save sends, which change nothing here.  The timer
   runs exactly while a save is needed.  An order that is absent is 0.

   A contact has entries of several accounts, and each account has a directory of its
   own: this is the one of one account.  A call lists entries by their ids; what is
   listed here is the address, for an entry of this account, Other for one of another
   account, and Gone for an id that finds no entry any more.

   past and the n of a list tell which of the directory's lists it is: the code does
   not have them.  The definitions named ...Mutant are faulty variants of the
   definition that follows them, used to see that a property notices the fault.     *)
EXTENDS Integers, Sequences, SequencesExt, FiniteSets

CONSTANTS JID, Tag,
          MaxListed,   \* bound: ids that a call lists
          MaxChanges,  \* bound: lists that the directory has had
          Other, Gone, None

ASSUME MetacontactsAssumption == /\ None \notin Tag /\ {Other, Gone} \cap JID = {}
                                 /\ Other # Gone
                                 /\ MaxListed \in Nat \ {0} /\ MaxChanges \in Nat

Info == [tag : Tag \cup {None}, order : 0..MaxListed]
List == [JID -> Info]
Numbered == [list : List, n : Nat]
NoInfo == [tag |-> None, order |-> 0]
\* What the server may have had: it matters only whether a list of ours differs from it.
Foreign == {[j \in JID |-> i] : i \in {NoInfo} \cup [tag : Tag, order : {1}]}

VARIABLES infoByJID,    \* _tagsByJID and _orderByJID
          needsToSave,  \* _needsToSaveToServer, and its timer
          dirtyJIDs,
          online,       \* the client's stream is up
          sent,         \* saves on their way to the server, oldest first
          results,      \* its answers on their way back
          server,       \* what the server stores
          past,         \* the server's first list, then all lists of the directory
          failed        \* the last save was lost or refused

vars == <<infoByJID, needsToSave, dirtyJIDs, online, sent, results, server, past, failed>>

Init == /\ infoByJID = [j \in JID |-> NoInfo]
        /\ needsToSave = FALSE /\ dirtyJIDs = {}
        /\ online = FALSE /\ sent = <<>> /\ results = <<>>
        /\ \E first \in Foreign : /\ server = [list |-> first, n |-> 1]
                               /\ past = <<first, infoByJID>>
        /\ failed = FALSE

(* ------------------------------ the directory ------------------------------ *)

\* setTagForJID and setTagAndOrderForJID for each address of a call, in one step:
\* what did not change is neither dirty nor a reason to save.
Becomes(list, changed) ==
    /\ Len(past) < MaxChanges /\ changed # {}
    /\ infoByJID' = list
    /\ dirtyJIDs' = dirtyJIDs \cup changed
    /\ needsToSave' = TRUE
    /\ past' = Append(past, list)
    /\ UNCHANGED <<online, sent, results, server, failed>>

\* The entries that use a number before the last of the places ps.
Before(s, ps) == {k \in 1..Len(s) : s[k] # Gone /\ \E i \in ps : k < i}

OrderMutant(s, ps) == Len(s) + 1 - Cardinality(Before(s, ps))

\* The numbers begin with that of all ids, and each entry that is found uses one.
Order(s, ps) == Len(s) - Cardinality(Before(s, ps))

Places(s, j) == {i \in 1..Len(s) : s[i] = j}

\* Two entries may have one address, as it was typed: the one listed last prevails.
Ordered(list, t, s) ==
    [j \in JID |-> IF Places(s, j) = {} THEN list[j]
                   ELSE [tag |-> t, order |-> Order(s, Places(s, j))]]

\* The addresses of a contact that had no tag get its new one, whatever the order.
Tagged(list, t, own) == [j \in JID |-> IF j \in own THEN [list[j] EXCEPT !.tag = t] ELSE list[j]]

\* An address that is given another tag or order is changed, be it only for a while.
Changed(list, t, s) ==
    {j \in JID : \E i \in Places(s, j) : list[j] # [tag |-> t, order |-> Order(s, {i})]}

\* The user orders a contact's entries: the contact's addresses are own, if it has no
\* tag yet and gets a new one, and s are the ids that the user interface showed.
rosterContactSetMetacontactOrder(t, own, s) ==
    /\ own # {} => \A j \in JID : infoByJID[j].tag # t
    /\ LET tagged == Tagged(infoByJID, t, own)
       IN  Becomes(Ordered(tagged, t, s), own \cup Changed(tagged, t, s))

saveTimerTimedOutMutant ==
    /\ needsToSave /\ needsToSave' = FALSE
    /\ sent' = IF online /\ sent \o results = <<>>
               THEN Append(sent, [list |-> infoByJID, n |-> Len(past)]) ELSE sent
    /\ failed' = ~online
    /\ UNCHANGED <<infoByJID, dirtyJIDs, online, results, server, past>>

saveOfDirtyMutant ==
    /\ needsToSave /\ needsToSave' = FALSE
    /\ LET list == [j \in JID |-> IF j \in dirtyJIDs THEN infoByJID[j] ELSE NoInfo]
       IN  sent' = IF online THEN Append(sent, [list |-> list, n |-> Len(past)]) ELSE sent
    /\ failed' = ~online
    /\ UNCHANGED <<infoByJID, dirtyJIDs, online, results, server, past>>

\* Without a stream the request is dropped, and nothing tells.
saveTimerTimedOut ==
    /\ needsToSave /\ needsToSave' = FALSE
    /\ sent' = IF online THEN Append(sent, [list |-> infoByJID, n |-> Len(past)]) ELSE sent
    /\ failed' = ~online
    /\ UNCHANGED <<infoByJID, dirtyJIDs, online, results, server, past>>

storageMetacontacts_finishedSaveToServerMutant ==
    /\ results # <<>> /\ results' = Tail(results)
    /\ dirtyJIDs' = IF Head(results) THEN {} ELSE dirtyJIDs
    /\ needsToSave' = (needsToSave /\ ~Head(results))
    /\ UNCHANGED <<infoByJID, online, sent, server, past, failed>>

\* A save that failed is not tried again.
storageMetacontacts_finishedSaveToServer ==
    /\ results # <<>> /\ results' = Tail(results)
    /\ dirtyJIDs' = IF Head(results) THEN {} ELSE dirtyJIDs
    /\ UNCHANGED <<infoByJID, needsToSave, online, sent, server, past, failed>>

(* ------------------------------ the server ------------------------------ *)

\* The stored list is replaced, not merged.
ServerStores ==
    /\ sent # <<>> /\ sent' = Tail(sent)
    /\ server' = Head(sent)
    /\ results' = Append(results, TRUE)
    /\ UNCHANGED <<infoByJID, needsToSave, dirtyJIDs, online, past, failed>>

ServerRefuses ==
    /\ sent # <<>> /\ sent' = Tail(sent)
    /\ results' = Append(results, FALSE)
    /\ failed' = (failed \/ Tail(sent) = <<>>)
    /\ UNCHANGED <<infoByJID, needsToSave, dirtyJIDs, online, server, past>>

Connected == ~online /\ online' = TRUE
             /\ UNCHANGED <<infoByJID, needsToSave, dirtyJIDs, sent, results, server, past, failed>>

\* The tasks finish without success, which changes nothing.
Disconnected == /\ online /\ online' = FALSE
                /\ sent' = <<>> /\ results' = <<>>
                /\ failed' = (failed \/ sent # <<>>)
                /\ UNCHANGED <<infoByJID, needsToSave, dirtyJIDs, server, past>>

Next == \/ \E t \in Tag, own \in SUBSET JID, s \in SeqOf(JID \cup {Other, Gone}, MaxListed) :
              rosterContactSetMetacontactOrder(t, own, s)
        \/ saveTimerTimedOut \/ storageMetacontacts_finishedSaveToServer
        \/ ServerStores \/ ServerRefuses \/ Connected \/ Disconnected

\* The timer fires once the user pauses; the server answers.
Spec == Init /\ [][Next]_vars
FairSpec == Spec /\ WF_vars(saveTimerTimedOut) /\ WF_vars(ServerStores)

(* ------------------------------ properties ------------------------------ *)

TypeOK == /\ infoByJID \in List /\ needsToSave \in BOOLEAN /\ dirtyJIDs \subseteq JID
          /\ online \in BOOLEAN /\ sent \in Seq(Numbered) /\ results \in Seq(BOOLEAN)
          /\ server \in Numbered /\ past \in Seq(List) /\ failed \in BOOLEAN

\* A change is not forgotten while saves and further changes overtake each other: once
\* nothing is waiting or under way, the server has the directory's list, unless the last
\* save was lost or refused (metacontacts_directory.cpp:161-164, 224-294).
SavedUnlessFailed ==
    Len(past) > 2 /\ ~needsToSave /\ sent = <<>> /\ ~failed => server.list = infoByJID

\* "JIDs having unsaved changes" (metacontacts_directory.h:84).
DirtyHasUnsaved ==
    \A j \in JID : infoByJID[j] # NoInfo /\ infoByJID[j] # server.list[j] => j \in dirtyJIDs

\* Every list that the server stores is one that the directory had, whole, and never
\* an older one than before (metacontacts_directory.cpp:224-252).
WB == INSTANCE WriteBehind WITH Value <- List, at <- server.n, backing <- server.list
WritesBehind == WB!Spec

\* A change is saved, unless the connection or the server fails it
\* (metacontacts_directory.cpp:161-164, 280-294).
ChangesReachServer ==
    needsToSave ~> (server.list = infoByJID \/ ~online \/ failed)
==================================================================================
