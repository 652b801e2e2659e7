--------------------------- MODULE Roster_proofs ---------------------------
(* Proofs about Roster, for every set of accounts, addresses, names and
   objects: the cross references between groups, contacts, entries, tags and
   accounts are consistent after every call and every push.  The invariant
   falls into four parts that are proved one after the other; each part has a
   lemma for every change that several operations share.  Two more parts, the
   names of what is live and what is left of what is deleted, give the types
   of all variables; upon all of them rests, last, that the main group of an
   entry is a group of its contact.                                          *)
EXTENDS Roster, TLAPS

----------------------------------------------------------------------------
(* The invariant. *)

\* Entries and contacts name each other, and no entry is without contact.
EntryInv ==
    /\ entries \subseteq Entry /\ contacts \subseteq Contact
    /\ econtact \in [Entry -> Contact \cup {None}]
    /\ centries \in [Contact -> SUBSET Entry]
    /\ \A e \in entries : econtact[e] \in contacts
    /\ \A c \in Contact : centries[c] = {e \in entries : econtact[e] = c}

\* Groups and contacts name each other, and groups[0] is a group of the contact.
GroupInv ==
    /\ groups \subseteq Group /\ NoGroup \in groups /\ NotInList \in groups
    /\ contacts \subseteq Contact
    /\ members \in [Group -> SUBSET Contact]
    /\ cgroups \in [Contact -> SUBSET Group]
    /\ chead \in [Contact -> Group \cup {None}]
    /\ \A g \in Group : members[g] = {c \in contacts : g \in cgroups[c]}
    /\ \A c \in contacts : chead[c] \in cgroups[c] /\ cgroups[c] \subseteq groups

\* A tag and the contact that has it name each other.
TagInv ==
    /\ ctag \in [Contact -> Tag \cup {None}] /\ tagOwner \in [Tag -> contacts \cup {None}]
    /\ \A c \in Contact \ contacts : ctag[c] = None
    /\ \A t \in Tag, c \in Contact : ctag[c] = t <=> tagOwner[t] = c

----------------------------------------------------------------------------
(* Groups and contacts. *)

\* Deleting contacts and making new ones keeps both sides of the relation.
LEMMA ContactsAfterGroups ==
    ASSUME GroupInv, NEW gone, NEW new \in SUBSET Contact, NEW g, NEW n,
           new \cap gone = {}, new # {} => g \in groups',
           groups' \subseteq Group, NoGroup \in groups', NotInList \in groups',
           \A c \in contacts \ gone : cgroups[c] \subseteq groups',
           ContactsAfter(gone, new, g, n)
    PROVE  GroupInv'
<1> USE DEF GroupInv, ContactsAfter
<1>1. /\ contacts' \subseteq Contact
      /\ members' \in [Group -> SUBSET Contact]
  OBVIOUS
<1>2. cgroups' \in [Contact -> SUBSET Group]
  OBVIOUS
<1>3. chead' \in [Contact -> Group \cup {None}]
  OBVIOUS
<1>4. \A x \in Group : members'[x] = {c \in contacts' : x \in cgroups'[c]}
  OBVIOUS
<1>5. \A c \in contacts' : chead'[c] \in cgroups'[c] /\ cgroups'[c] \subseteq groups'
  OBVIOUS
<1> QED
  BY <1>1, <1>2, <1>3, <1>4, <1>5

\* Contacts that leave a group go to "General" if they have no other group.
LEMMA LeaveGroupGroups ==
    ASSUME GroupInv, NEW g \in groups, NEW cs, cs \subseteq members[g],
           g # NotInList, LeaveGroup(cs, g),
           \/ groups' = groups
           \/ cs = members[g] /\ g # NoGroup /\ groups' = groups \ {g}
    PROVE  GroupInv'
<1> USE DEF GroupInv
<1>1. \A c \in Contact : /\ GroupsLeft(c, g) \subseteq Group
                         /\ GroupsLeft(c, g) # {}
                         /\ c \in contacts => Heads(c, GroupsLeft(c, g)) \subseteq GroupsLeft(c, g)
  BY DEF GroupsLeft, Heads, Group
<1>2. cs \subseteq contacts /\ contacts' = contacts
  BY DEF LeaveGroup
<1>3. cgroups' \in [Contact -> SUBSET Group]
  BY <1>1 DEF LeaveGroup
<1>4. members' \in [Group -> SUBSET Contact]
  BY <1>2 DEF LeaveGroup
<1>5. PICK h \in [cs -> Group] :
          /\ \A c \in cs : h[c] \in Heads(c, GroupsLeft(c, g))
          /\ chead' = [c \in Contact |-> IF c \in cs THEN h[c] ELSE chead[c]]
  BY DEF LeaveGroup
<1>6. chead' \in [Contact -> Group \cup {None}]
  BY <1>5
<1>7. \A x \in Group : members'[x] = {c \in contacts' : x \in cgroups'[c]}
  BY <1>2 DEF LeaveGroup, GroupsLeft
<1>8. ASSUME NEW c \in contacts' PROVE chead'[c] \in cgroups'[c]
  BY <1>1, <1>2, <1>5 DEF LeaveGroup
<1>9. ASSUME NEW c \in contacts' PROVE cgroups'[c] \subseteq groups'
  BY <1>2 DEF LeaveGroup, GroupsLeft
<1> QED
  BY <1>2, <1>3, <1>4, <1>6, <1>7, <1>8, <1>9, RosterAssumption
     DEF Group

\* Deleting groups that have no contacts.
LEMMA GroupsWithoutGroups ==
    ASSUME GroupInv, NEW gone, gone \subseteq UserGroup,
           \A g \in gone : members[g] = {}, GroupsWithout(gone),
           UNCHANGED <<members, contacts, cgroups, chead>>
    PROVE  GroupInv'
<1>1. NoGroup \notin gone /\ NotInList \notin gone
  BY RosterAssumption
<1> QED
  BY <1>1 DEF GroupInv, GroupsWithout

\* The two forms in which contacts are deleted and made.
LEMMA ContactsGone ==
    ASSUME GroupInv, NEW gone, NEW g, NEW n, groups' = groups,
           ContactsAfter(gone, {}, g, n)
    PROVE  GroupInv'
<1>1. /\ groups' \subseteq Group /\ NoGroup \in groups' /\ NotInList \in groups'
      /\ \A c \in contacts \ gone : cgroups[c] \subseteq groups'
  BY DEF GroupInv
<1> QED
  BY <1>1, ContactsAfterGroups

LEMMA ContactJoins ==
    ASSUME GroupInv, NEW g \in Group, NEW new \in SUBSET Contact, NEW gone, NEW n,
           new \cap gone = {}, groups' = groups \cup {g}, ContactsAfter(gone, new, g, n)
    PROVE  GroupInv'
<1>1. /\ groups' \subseteq Group /\ NoGroup \in groups' /\ NotInList \in groups'
      /\ \A x \in contacts \ gone : cgroups[x] \subseteq groups'
      /\ g \in groups'
  BY DEF GroupInv
<1> QED
  BY <1>1, ContactsAfterGroups

LEMMA ContactMade ==
    ASSUME GroupInv, NEW g \in Group, NEW c \in Contact, NEW gone, NEW n,
           c \in gone => c \in contacts, groups' = groups \cup {g},
           ContactsAfter(gone, {c} \ contacts, g, n)
    PROVE  GroupInv'
<1> DEFINE new == {c} \ contacts
<1>1. new \in SUBSET Contact /\ new \cap gone = {}
  OBVIOUS
<1>2. ContactsAfter(gone, new, g, n)
  OBVIOUS
<1> HIDE DEF new
<1> QED
  BY <1>1, <1>2, ContactJoins

\* Groups are deleted whose contacts are all deleted.
LEMMA RemoveAllGroups ==
    ASSUME GroupInv, NEW lost, NEW some, NEW gone, NEW empty \in SUBSET UserGroup,
           FoundEmpty(some, gone, empty), RemoveAll(lost, gone, empty)
    PROVE  GroupInv'
<1>1. groups' = groups \ empty /\ NoGroup \notin empty /\ NotInList \notin empty
  BY RosterAssumption DEF RemoveAll, GroupsWithout
<1>2. \A g \in empty : g \in Group /\ members[g] \subseteq gone
  BY DEF FoundEmpty, Group
<1>3. \A c \in contacts \ gone : cgroups[c] \subseteq groups'
  BY <1>1, <1>2 DEF GroupInv
<1>4. groups' \subseteq Group /\ NoGroup \in groups' /\ NotInList \in groups'
  BY <1>1 DEF GroupInv
<1>5. ContactsAfter(gone, {}, None, None)
  BY DEF RemoveAll
<1> QED
  BY <1>3, <1>4, <1>5, ContactsAfterGroups

\* rosterContactAdd makes a contact, or lets one join the group.
LEMMA AddCases ==
    ASSUME NEW g, NEW n, rosterContactAdd(g, n)
    PROVE  \/ \E c \in contacts : rosterContactAddGroup(c, g)
           \/ /\ g \in groups
              /\ \E c \in Contact \ contacts : ContactsAfter({}, {c}, g, n)
              /\ UNCHANGED <<accounts, groups, gname, centries, tagVars, entryVars>>
              /\ Running
<1>1. ASSUME NEW c, rosterContactAddGroup(c, g) PROVE c \in contacts
  BY <1>1 DEF rosterContactAddGroup
<1> QED
  BY <1>1, Zenon DEF rosterContactAdd

\* An item that the core does not survive changes nothing more.
LEMMA ListedEmpty ==
    ASSUME NEW a, NEW j, NEW i, ItemListedEmpty(a, j, i)
    PROVE  crashed' = TRUE /\ UNCHANGED <<accounts, groupVars, contactVars, tagVars, entryVars>>
  BY DEF ItemListedEmpty, Crash

LEMMA InitGroups == Init => GroupInv
  BY DEF Init, GroupInv, Group

\* No call and no push breaks the relation of groups and contacts.
LEMMA NextGroups == GroupInv /\ EntryInv /\ [Next]_vars => GroupInv'
<1> SUFFICES ASSUME GroupInv, EntryInv, [Next]_vars PROVE GroupInv'
  OBVIOUS
<1>1. ASSUME NEW a \in Account, setAccount(a) PROVE GroupInv'
  BY <1>1 DEF GroupInv, setAccount, groupVars, contactVars
<1>2. ASSUME NEW a \in Account, removeAccount(a) PROVE GroupInv'
  <2>1. CASE UNCHANGED <<groupVars, contactVars>>
    BY <2>1 DEF GroupInv, groupVars, contactVars
  <2> QED
    BY <1>2, <2>1, RemoveAllGroups DEF removeAccount
<1>3. ASSUME NEW n \in GroupName, rosterGroupAdd(n) PROVE GroupInv'
  BY <1>3 DEF GroupInv, rosterGroupAdd, WithGroup, contactVars, Group
<1>4. ASSUME NEW g \in UserGroup, NEW n \in GroupName, rosterGroupRename(g, n)
      PROVE  GroupInv'
  BY <1>4 DEF GroupInv, rosterGroupRename, contactVars
<1>5. ASSUME NEW g \in UserGroup, rosterGroupRemove(g) PROVE GroupInv'
  <2>1. g # NotInList /\ g # NoGroup
    BY RosterAssumption
  <2> QED
    BY <1>5, <2>1, LeaveGroupGroups DEF rosterGroupRemove, GroupsWithout
<1>10. ASSUME NEW c \in Contact, NEW g \in Group, rosterContactAddGroup(c, g)
       PROVE  GroupInv'
  BY <1>10 DEF GroupInv, rosterContactAddGroup, Group
<1>6. ASSUME NEW g \in Group, NEW n \in Name, rosterContactAdd(g, n) PROVE GroupInv'
  <2>1. CASE \E c \in contacts : rosterContactAddGroup(c, g)
    BY <1>10, <2>1 DEF GroupInv
  <2>2. ASSUME NEW c \in Contact \ contacts, ContactsAfter({}, {c}, g, n), g \in groups,
               UNCHANGED groups
        PROVE  GroupInv'
    <3>1. groups' = groups \cup {g} /\ {c} \ contacts = {c}
      BY <2>2
    <3> QED
      BY <2>2, <3>1, ContactMade
  <2> QED
    BY <1>6, <2>1, <2>2, AddCases
<1>7. ASSUME NEW c \in Contact, rosterContactRemove(c) PROVE GroupInv'
  BY <1>7, ContactsGone DEF rosterContactRemove
<1>8. ASSUME NEW c \in Contact, NEW n \in Name, rosterContactRename(c, n)
      PROVE  GroupInv'
  BY <1>8 DEF GroupInv, rosterContactRename, groupVars
<1>9. ASSUME NEW c \in Contact, rosterContactSetMetacontactOrder(c) PROVE GroupInv'
  BY <1>9 DEF GroupInv, rosterContactSetMetacontactOrder, groupVars, contactVars
<1>11. ASSUME NEW c \in Contact, NEW g \in Group, rosterContactChangeGroup(c, g)
       PROVE  GroupInv'
  <2> USE DEF GroupInv
  <2>1. PICK h \in IF cgroups[c] = {chead[c]} THEN {g} ELSE cgroups[c] \ {chead[c]} :
               chead' = [chead EXCEPT ![c] = h]
    BY <1>11 DEF rosterContactChangeGroup
  <2>2. c \in contacts /\ g \in groups /\ chead[c] \in cgroups[c]
    BY <1>11 DEF rosterContactChangeGroup
  <2>3. h \in Group /\ h \in (cgroups[c] \ {chead[c]}) \cup {g}
    BY <2>1, <2>2
  <2>4. cgroups' = [cgroups EXCEPT ![c] = (@ \ {chead[c]}) \cup {g}]
    BY <1>11 DEF rosterContactChangeGroup
  <2>5. members' = [x \in Group |-> IF x = g THEN members[x] \cup {c}
                       ELSE IF x = chead[c] THEN members[x] \ {c} ELSE members[x]]
    BY <1>11 DEF rosterContactChangeGroup
  <2>6. groups' = groups /\ contacts' = contacts
    BY <1>11 DEF rosterContactChangeGroup
  <2> QED
    BY <2>1, <2>2, <2>3, <2>4, <2>5, <2>6
<1>12. ASSUME NEW c \in Contact, NEW g \in Group, rosterContactRemoveGroup(c, g)
       PROVE  GroupInv'
  <2>1. g \in groups /\ c \in members[g]
    BY <1>12 DEF GroupInv, rosterContactRemoveGroup
  <2> QED
    BY <1>12, <2>1, LeaveGroupGroups DEF rosterContactRemoveGroup
<1>13. ASSUME NEW e, NEW c, NEW gone, ChangeContact(e, c, gone) PROVE GroupInv'
  BY <1>13, ContactsGone DEF ChangeContact
<1>14. ASSUME NEW c \in Contact, NEW a \in Account, NEW x \in Address,
              rosterEntryAdd(c, a, x)
       PROVE  GroupInv'
  <2>1. CASE UNCHANGED <<groupVars, contacts, cname, cgroups, chead>>
    BY <2>1 DEF GroupInv, groupVars
  <2> QED
    BY <1>13, <1>14, <2>1 DEF rosterEntryAdd
<1>15. ASSUME NEW e \in Entry, rosterEntryRemove(e) PROVE GroupInv'
  BY <1>15 DEF GroupInv, rosterEntryRemove, groupVars
<1>16. CASE deleteEmptyGroups
  BY <1>16, GroupsWithoutGroups DEF deleteEmptyGroups, contactVars
<1>17. ASSUME NEW a \in Account, removeAllContactEntriesForTransport(a)
       PROVE  GroupInv'
  <2>1. PICK own, more, gone : \E empty \in SUBSET UserGroup :
            FoundEmpty(own, gone, empty) /\ RemoveAll(own \cup more, gone, empty)
    BY <1>17, Zenon DEF removeAllContactEntriesForTransport
  <2> QED
    BY <2>1, RemoveAllGroups
<1>18. ASSUME NEW a \in Account, NEW j \in JID, NEW i \in Item, ItemAdded(a, j, i)
       PROVE  GroupInv'
  <2>1. PICK g \in Group, c \in Contact : \E n :
            WithGroup(g, i.main) /\ ContactsAfter({}, {c} \ contacts, g, n)
    BY <1>18, Zenon DEF ItemAdded
  <2> QED
    BY <2>1, ContactMade DEF WithGroup
<1>19. ASSUME NEW a \in Account, NEW j \in JID, NEW i \in Item, ItemListed(a, j, i)
       PROVE  GroupInv'
  <2>1. PICK e \in EntriesOf(a, j), g \in Group :
            LET c == econtact[e] IN
            /\ ~InList(c) /\ WithGroup(g, i.main)
            /\ cgroups' = [cgroups EXCEPT ![c] = (@ \ {NotInList}) \cup {g}]
            /\ members' = [members EXCEPT ![NotInList] = @ \ {c}, ![g] = @ \cup {c}]
            /\ \E h \in IF cgroups[c] = {NotInList} THEN {g} ELSE cgroups[c] \ {NotInList} :
                  chead' = [chead EXCEPT ![c] = h]
            /\ contacts' = contacts
    BY <1>19, Zenon DEF ItemListed
  <2> QED
    <3>1. econtact[e] \in contacts
      BY DEF EntryInv, EntriesOf
    <3> QED
      BY <2>1, <3>1 DEF GroupInv, WithGroup, InList
<1>20. ASSUME NEW a \in Account, NEW j \in JID, NEW i \in Item, ItemUpdated(a, j, i)
       PROVE  GroupInv'
  <2>1. CASE UNCHANGED <<groupVars, contactVars>>
    BY <2>1 DEF GroupInv, groupVars, contactVars
  <2>2. ASSUME NEW e, NEW g \in Group, NEW c \in Contact, NEW n, WithGroup(g, i.main),
               ContactsAfter(IF c = econtact[e] THEN {} ELSE Emptied(e),
                             {c} \ contacts, g, n)
        PROVE  GroupInv'
    <3>1. c \notin IF c = econtact[e] THEN {} ELSE Emptied(e)
      BY DEF Emptied
    <3> QED
      BY <2>2, <3>1, ContactMade DEF WithGroup
  <2> QED
    BY <1>20, <2>1, <2>2, Zenon DEF ItemUpdated, Crash
<1>21. ASSUME NEW a \in Account, NEW j \in JID, ItemRemoved(a, j) PROVE GroupInv'
  BY <1>21, ContactsGone DEF ItemRemoved
<1>22. ASSUME NEW a \in Account, NEW j \in JID, NEW n, NEW m, StrangerAdded(a, j, n, m)
       PROVE  GroupInv'
  <2>1. PICK c \in Contact \ contacts : ContactsAfter({}, {c}, NotInList, n)
    BY <1>22 DEF StrangerAdded
  <2>2. /\ groups' = groups \cup {NotInList} /\ {c} \ contacts = {c}
        /\ NotInList \in Group
    BY <1>22 DEF StrangerAdded, GroupInv
  <2> QED
    BY <2>1, <2>2, ContactMade
<1>23. ASSUME NEW e \in Entry, NEW t \in Tag \cup {None}, MetacontactChanged(e, t)
       PROVE  GroupInv'
  <2>1. CASE UNCHANGED <<groupVars, contactVars>>
    BY <2>1 DEF GroupInv, groupVars, contactVars
  <2>2. ASSUME NEW gone, groups' = groups, ContactsAfter(gone, {}, None, None)
        PROVE  GroupInv'
    BY <2>2, ContactsGone
  <2>3. ASSUME NEW c \in Contact, NEW g, NEW n, g = chead[econtact[e]], e \in entries,
               groups' = groups,
               ContactsAfter(IF c = econtact[e] THEN {} ELSE Emptied(e), {c}, g, n)
        PROVE  GroupInv'
    <3>1. g \in Group /\ groups' = groups \cup {g}
      BY <2>3 DEF EntryInv, GroupInv
    <3>2. {c} \cap (IF c = econtact[e] THEN {} ELSE Emptied(e)) = {}
      BY DEF Emptied
    <3> QED
      BY <2>3, <3>1, <3>2, ContactJoins
  <2> QED
    BY <1>23, <2>1, <2>2, <2>3, Zenon DEF MetacontactChanged, Crash
<1>24. CASE UNCHANGED vars
  BY <1>24 DEF GroupInv, vars, groupVars, contactVars
<1>50. ASSUME NEW a \in Account, NEW j \in JID, NEW i \in Item, ItemListedEmpty(a, j, i)
       PROVE  GroupInv'
  BY <1>50, ListedEmpty DEF GroupInv, groupVars, contactVars
<1>25. CASE GuiCall
  BY <1>25, <1>1, <1>2, <1>3, <1>4, <1>5, <1>6, <1>7, <1>8, <1>9, <1>10, <1>11,
     <1>12, <1>13, <1>14, <1>15, Zenon DEF GuiCall, rosterEntryChangeContact
<1>26. CASE ServerPush
  BY <1>26, <1>16, <1>17, <1>18, <1>19, <1>20, <1>21, <1>22, <1>23, <1>50, Zenon
     DEF ServerPush, SubscriptionReceived, MessageReceived
<1> QED
  BY <1>24, <1>25, <1>26 DEF Next

----------------------------------------------------------------------------
(* Entries and contacts. *)

LEMMA EntriesSame ==
    ASSUME EntryInv, UNCHANGED <<contacts, entries, econtact, centries>>
    PROVE  EntryInv'
  BY DEF EntryInv

\* An entry, new or not, goes to a contact that stays or is made; a contact that
\* goes has no other entry.
LEMMA EntryMoved ==
    ASSUME EntryInv, NEW e \in Entry, NEW c \in Contact, EntryIn(e, c),
           entries' = entries \cup {e}, contacts' \subseteq Contact, c \in contacts',
           \A x \in contacts \ contacts' : centries[x] \subseteq {e}
    PROVE  EntryInv'
<1> USE DEF EntryInv, EntryIn
<1>1. entries' \subseteq Entry /\ econtact' \in [Entry -> Contact \cup {None}]
  OBVIOUS
<1>2. centries' \in [Contact -> SUBSET Entry]
  OBVIOUS
<1>3. ASSUME NEW x \in entries' PROVE econtact'[x] \in contacts'
  <2>1. CASE x = e
    BY <2>1
  <2>2. CASE x # e
    <3>1. x \in entries /\ x \in centries[econtact[x]] /\ econtact'[x] = econtact[x]
      BY <2>2
    <3> QED
      BY <2>2, <3>1
  <2> QED
    BY <2>1, <2>2
<1>4. ASSUME NEW x \in Contact PROVE centries'[x] = {y \in entries' : econtact'[y] = x}
  OBVIOUS
<1> QED
  BY <1>1, <1>2, <1>3, <1>4

\* Entries go; a contact that goes has no entry that stays.
LEMMA EntriesGone ==
    ASSUME EntryInv, NEW lost, EntriesWithout(lost), contacts' \subseteq Contact,
           \A x \in contacts \ contacts' : centries[x] \subseteq lost
    PROVE  EntryInv'
<1> USE DEF EntryInv, EntriesWithout
<1>1. entries' \subseteq Entry /\ econtact' \in [Entry -> Contact \cup {None}]
  OBVIOUS
<1>2. centries' \in [Contact -> SUBSET Entry]
  OBVIOUS
<1>3. ASSUME NEW x \in entries' PROVE econtact'[x] \in contacts'
  <2>1. x \in centries[econtact[x]] /\ x \notin lost /\ econtact'[x] = econtact[x]
    OBVIOUS
  <2> QED
    BY <2>1
<1>4. ASSUME NEW x \in Contact PROVE centries'[x] = {y \in entries' : econtact'[y] = x}
  OBVIOUS
<1> QED
  BY <1>1, <1>2, <1>3, <1>4

\* The contact that an entry leaves, when it is deleted, has no other entry.
LEMMA EntryLeft ==
    ASSUME EntryInv, NEW e \in Entry, NEW c \in Contact, NEW g, NEW n, EntryIn(e, c),
           entries' = entries \cup {e},
           ContactsAfter(IF c = econtact[e] THEN {} ELSE Emptied(e),
                         {c} \ contacts, g, n)
    PROVE  EntryInv'
<1> DEFINE gone == IF c = econtact[e] THEN {} ELSE Emptied(e)
<1>1. c \notin gone /\ \A x \in gone : centries[x] = {e}
  BY DEF Emptied
<1>2. contacts' = (contacts \cup {c}) \ gone
  BY DEF ContactsAfter
<1> HIDE DEF gone
<1> QED
  BY <1>1, <1>2, EntryMoved DEF EntryInv

LEMMA InitEntries == Init => EntryInv
  BY DEF Init, EntryInv

\* No call and no push breaks the relation of entries and contacts.
LEMMA NextEntries == GroupInv /\ EntryInv /\ TagInv /\ [Next]_vars => EntryInv'
<1> SUFFICES ASSUME GroupInv, EntryInv, TagInv, [Next]_vars PROVE EntryInv'
  OBVIOUS
<1>1. ASSUME NEW a \in Account, setAccount(a) PROVE EntryInv'
  BY <1>1, EntriesSame DEF setAccount, contactVars, entryVars
<1>2. ASSUME NEW a \in Account, removeAccount(a) PROVE EntryInv'
  <2>1. CASE UNCHANGED <<contactVars, entryVars>>
    BY <2>1, EntriesSame DEF contactVars, entryVars
  <2>2. ASSUME NEW lost, NEW gone, NEW empty, RemoveAll(lost, gone, empty),
               \A x \in gone : centries[x] \subseteq lost
        PROVE  EntryInv'
    <3>1. EntriesWithout(lost) /\ contacts' = contacts \ gone
      BY <2>2 DEF RemoveAll, ContactsAfter
    <3> QED
      BY <2>2, <3>1, EntriesGone DEF EntryInv
  <2> DEFINE lost == {e \in entries : eaccount[e] = a}
             gone == {c \in contacts : centries[c] # {} /\ centries[c] \subseteq lost}
  <2>3. \A x \in gone : centries[x] \subseteq lost
    OBVIOUS
  <2>4. \/ UNCHANGED <<contactVars, entryVars>>
        \/ \E empty : RemoveAll(lost, gone, empty)
    BY <1>2, Zenon DEF removeAccount
  <2> HIDE DEF lost, gone
  <2> QED
    BY <2>1, <2>2, <2>3, <2>4
<1>3. ASSUME NEW n \in GroupName, rosterGroupAdd(n) PROVE EntryInv'
  BY <1>3, EntriesSame DEF rosterGroupAdd, contactVars, entryVars
<1>4. ASSUME NEW g \in UserGroup, NEW n \in GroupName, rosterGroupRename(g, n)
      PROVE  EntryInv'
  BY <1>4, EntriesSame DEF rosterGroupRename, contactVars
<1>5. ASSUME NEW g \in UserGroup, rosterGroupRemove(g) PROVE EntryInv'
  BY <1>5, EntriesSame DEF rosterGroupRemove, LeaveGroup
<1>10. ASSUME NEW c \in Contact, NEW g \in Group, rosterContactAddGroup(c, g)
       PROVE  EntryInv'
  BY <1>10, EntriesSame DEF rosterContactAddGroup
<1>6. ASSUME NEW g \in Group, NEW n \in Name, rosterContactAdd(g, n) PROVE EntryInv'
  <2>1. CASE \E c \in contacts : rosterContactAddGroup(c, g)
    BY <1>10, <2>1 DEF EntryInv
  <2>2. CASE /\ \E c \in Contact \ contacts : ContactsAfter({}, {c}, g, n)
             /\ UNCHANGED <<centries, entryVars>>
    <3>1. /\ \E c \in Contact \ contacts : contacts' = contacts \cup {c}
          /\ UNCHANGED <<entries, econtact, centries>>
      BY <2>2 DEF ContactsAfter, entryVars
    <3> QED
      BY <3>1 DEF EntryInv
  <2> QED
    BY <1>6, <2>1, <2>2, AddCases
<1>7. ASSUME NEW c \in Contact, rosterContactRemove(c) PROVE EntryInv'
  <2>1. EntriesWithout(centries[c]) /\ contacts' = contacts \ {c}
    BY <1>7 DEF rosterContactRemove, ContactsAfter
  <2> QED
    BY <2>1, EntriesGone DEF EntryInv
<1>8. ASSUME NEW c \in Contact, NEW n \in Name, rosterContactRename(c, n)
      PROVE  EntryInv'
  BY <1>8, EntriesSame DEF rosterContactRename
<1>9. ASSUME NEW c \in Contact, rosterContactSetMetacontactOrder(c) PROVE EntryInv'
  BY <1>9, EntriesSame DEF rosterContactSetMetacontactOrder, contactVars, entryVars
<1>11. ASSUME NEW c \in Contact, NEW g \in Group, rosterContactChangeGroup(c, g)
       PROVE  EntryInv'
  BY <1>11, EntriesSame DEF rosterContactChangeGroup
<1>12. ASSUME NEW c \in Contact, NEW g \in Group, rosterContactRemoveGroup(c, g)
       PROVE  EntryInv'
  BY <1>12, EntriesSame DEF rosterContactRemoveGroup, LeaveGroup
<1>13. ASSUME NEW e \in entries, NEW c \in contacts, NEW gone,
              c \notin gone, \A x \in gone : centries[x] \subseteq {e},
              ChangeContact(e, c, gone)
       PROVE  EntryInv'
  <2>1. EntryIn(e, c) /\ contacts' = contacts \ gone /\ entries' = entries \cup {e}
    BY <1>13 DEF ChangeContact, ContactsAfter
  <2> QED
    BY <1>13, <2>1, EntryMoved DEF EntryInv
<1>14. ASSUME NEW c \in Contact, NEW a \in Account, NEW x \in Address,
              rosterEntryAdd(c, a, x)
       PROVE  EntryInv'
  <2>1. ASSUME NEW e \in EntriesOf(a, x), econtact[e] # c,
               ChangeContact(e, c, Emptied(e))
        PROVE  EntryInv'
    <3>1. c \in contacts /\ e \in entries
      BY <1>14 DEF rosterEntryAdd, EntriesOf
    <3>2. c \notin Emptied(e) /\ \A y \in Emptied(e) : centries[y] \subseteq {e}
      BY <2>1 DEF Emptied
    <3> QED
      BY <1>13, <2>1, <3>1, <3>2
  <2>2. ASSUME NEW e \in Entry \ entries, NEW i, NewEntry(e, a, x, i), EntryIn(e, c),
               UNCHANGED contacts
        PROVE  EntryInv'
    <3>1. c \in contacts
      BY <1>14 DEF rosterEntryAdd
    <3>2. entries' = entries \cup {e}
      BY <2>2 DEF NewEntry
    <3> QED
      BY <2>2, <3>1, <3>2, EntryMoved DEF EntryInv
  <2> QED
    BY <1>14, <2>1, <2>2, Zenon DEF rosterEntryAdd
<1>15. ASSUME NEW e \in Entry, rosterEntryRemove(e) PROVE EntryInv'
  <2>1. EntriesWithout({e}) /\ contacts' = contacts
    BY <1>15 DEF rosterEntryRemove
  <2> QED
    BY <2>1, EntriesGone DEF EntryInv
<1>16. CASE deleteEmptyGroups
  BY <1>16, EntriesSame DEF deleteEmptyGroups, contactVars, entryVars
<1>17. ASSUME NEW a \in Account, removeAllContactEntriesForTransport(a)
       PROVE  EntryInv'
  <2>1. PICK own, more, gone : \E empty :
            /\ \A x \in gone : centries[x] \subseteq own \cup more
            /\ RemoveAll(own \cup more, gone, empty)
    BY <1>17, Zenon DEF removeAllContactEntriesForTransport
  <2>2. EntriesWithout(own \cup more) /\ contacts' = contacts \ gone
    BY <2>1 DEF RemoveAll, ContactsAfter
  <2> QED
    BY <2>1, <2>2, EntriesGone DEF EntryInv
<1>18. ASSUME NEW a \in Account, NEW j \in JID, NEW i \in Item, ItemAdded(a, j, i)
       PROVE  EntryInv'
  <2>1. PICK e \in Entry \ entries, g \in Group, c \in Contact : \E n, m :
            /\ ContactsAfter({}, {c} \ contacts, g, n)
            /\ NewEntry(e, a, j, m) /\ EntryIn(e, c)
    BY <1>18, Zenon DEF ItemAdded
  <2>2. contacts' = contacts \cup {c} /\ entries' = entries \cup {e}
    BY <2>1 DEF ContactsAfter, NewEntry
  <2> QED
    BY <2>1, <2>2, EntryMoved DEF EntryInv
<1>19. ASSUME NEW a \in Account, NEW j \in JID, NEW i \in Item, ItemListed(a, j, i)
       PROVE  EntryInv'
  BY <1>19, EntriesSame, Zenon DEF ItemListed
<1>20. ASSUME NEW a \in Account, NEW j \in JID, NEW i \in Item, ItemUpdated(a, j, i)
       PROVE  EntryInv'
  <2>1. CASE UNCHANGED <<contactVars, entries, econtact>>
    BY <2>1, EntriesSame DEF contactVars
  <2>2. ASSUME NEW e \in EntriesOf(a, j), NEW c \in Contact, NEW g, NEW n, EntryIn(e, c),
               UNCHANGED entries,
               ContactsAfter(IF c = econtact[e] THEN {} ELSE Emptied(e),
                             {c} \ contacts, g, n)
        PROVE  EntryInv'
    <3>1. e \in Entry /\ entries' = entries \cup {e}
      BY <2>2 DEF EntriesOf, EntryInv
    <3> QED
      BY <2>2, <3>1, EntryLeft
  <2> QED
    BY <1>20, <2>1, <2>2, Zenon DEF ItemUpdated, Crash, entryVars
<1>21. ASSUME NEW a \in Account, NEW j \in JID, ItemRemoved(a, j) PROVE EntryInv'
  <2>1. PICK e \in EntriesOf(a, j) : /\ EntriesWithout({e})
                                     /\ ContactsAfter(Emptied(e), {}, None, None)
    BY <1>21 DEF ItemRemoved
  <2>2. contacts' = contacts \ Emptied(e) /\ \A x \in Emptied(e) : centries[x] = {e}
    BY <2>1 DEF ContactsAfter, Emptied
  <2> QED
    BY <2>1, <2>2, EntriesGone DEF EntryInv
<1>22. ASSUME NEW a \in Account, NEW j \in JID, NEW n, NEW m, StrangerAdded(a, j, n, m)
       PROVE  EntryInv'
  <2>1. PICK e \in Entry \ entries, c \in Contact \ contacts : \E i :
            /\ ContactsAfter({}, {c}, NotInList, n)
            /\ NewEntry(e, a, j, i) /\ EntryIn(e, c)
    BY <1>22 DEF StrangerAdded
  <2>2. contacts' = contacts \cup {c} /\ entries' = entries \cup {e}
    BY <2>1 DEF ContactsAfter, NewEntry
  <2> QED
    BY <2>1, <2>2, EntryMoved DEF EntryInv
<1>23. ASSUME NEW e \in Entry, NEW t \in Tag \cup {None}, MetacontactChanged(e, t)
       PROVE  EntryInv'
  <2> DEFINE gone(c) == IF c = econtact[e] THEN {} ELSE Emptied(e)
  <2>1. CASE UNCHANGED <<contactVars, entryVars>>
    BY <2>1, EntriesSame DEF contactVars, entryVars
  <2>2. ASSUME NEW c \in Contact, EntryIn(e, c), UNCHANGED entries,
               contacts' = (contacts \cup {c}) \ gone(c)
        PROVE  EntryInv'
    <3>1. entries' = entries \cup {e}
      BY <1>23, <2>2 DEF MetacontactChanged
    <3>2. c \notin gone(c) /\ \A x \in gone(c) : centries[x] \subseteq {e}
      BY DEF Emptied
    <3> HIDE DEF gone
    <3> QED
      BY <2>2, <3>1, <3>2, EntryMoved DEF EntryInv
  <2>3. ASSUME NEW c \in contacts, EntryIn(e, c), UNCHANGED entries,
               ContactsAfter(gone(c), {}, None, None)
        PROVE  EntryInv'
    <3>1. c \in Contact /\ contacts' = (contacts \cup {c}) \ gone(c)
      BY <2>3 DEF EntryInv, ContactsAfter
    <3> QED
      BY <2>2, <2>3, <3>1
  <2>4. ASSUME NEW c \in Contact, NEW g, NEW n, EntryIn(e, c), UNCHANGED entries,
               ContactsAfter(gone(c), {c}, g, n)
        PROVE  EntryInv'
    <3>1. contacts' = (contacts \cup {c}) \ gone(c)
      BY <2>4 DEF ContactsAfter
    <3> QED
      BY <2>2, <2>4, <3>1
  <2> DEFINE g == chead[econtact[e]]
             found(h) == IF t # None THEN {tagOwner[t]} \ {None}
                         ELSE {c \in ContactsNamed(einfo[e].name, h) : ctag[c] = None}
  <2>5. ASSUME NEW h \in Namesakes(g) PROVE found(h) \subseteq contacts
    <3>1. e \in entries
      BY <1>23 DEF MetacontactChanged
    <3>2. g \in Group
      BY <3>1 DEF EntryInv, GroupInv
    <3>3. h \in Group
      BY <3>2, <2>5 DEF Namesakes, GroupsNamed, Group
    <3> QED
      BY <3>3 DEF TagInv, GroupInv, ContactsNamed
  <2>6. \/ UNCHANGED <<contactVars, entryVars>>
        \/ \E h \in Namesakes(g) : \E c \in found(h) :
              /\ EntryIn(e, c) /\ UNCHANGED entries
              /\ ContactsAfter(gone(c), {}, None, None)
        \/ \E c \in Contact : /\ EntryIn(e, c) /\ UNCHANGED entries
                              /\ ContactsAfter(gone(c), {c}, g, einfo[e].name)
    BY <1>23, Zenon DEF MetacontactChanged, Crash
  <2> HIDE DEF g, found, gone
  <2> QED
    BY <2>1, <2>3, <2>4, <2>5, <2>6
<1>24. CASE UNCHANGED vars
  BY <1>24, EntriesSame DEF vars, contactVars, entryVars
<1>25. ASSUME NEW e \in Entry, NEW c \in Contact, rosterEntryChangeContact(e, c)
       PROVE  EntryInv'
  BY <1>13, <1>25 DEF rosterEntryChangeContact
<1>50. ASSUME NEW a \in Account, NEW j \in JID, NEW i \in Item, ItemListedEmpty(a, j, i)
       PROVE  EntryInv'
  BY <1>50, ListedEmpty, EntriesSame DEF contactVars, entryVars
<1>26. CASE GuiCall
  BY <1>26, <1>1, <1>2, <1>3, <1>4, <1>5, <1>6, <1>7, <1>8, <1>9, <1>10, <1>11,
     <1>12, <1>14, <1>15, <1>25, Zenon DEF GuiCall
<1>27. CASE ServerPush
  BY <1>27, <1>16, <1>17, <1>18, <1>19, <1>20, <1>21, <1>22, <1>23, <1>50, Zenon
     DEF ServerPush, SubscriptionReceived, MessageReceived
<1> QED
  BY <1>24, <1>26, <1>27 DEF Next

----------------------------------------------------------------------------
(* Tags and contacts. *)

LEMMA TagsSame ==
    ASSUME TagInv, UNCHANGED <<contacts, tagVars>>
    PROVE  TagInv'
  BY DEF TagInv, tagVars

\* Contacts that are deleted take their tags with them.
LEMMA TagsGone ==
    ASSUME TagInv, NEW gone \in SUBSET Contact, TagsWithout(gone),
           contacts \ gone \subseteq contacts', contacts' \subseteq Contact \ gone
    PROVE  TagInv'
<1> USE DEF TagInv, TagsWithout
<1>1. ctag' \in [Contact -> Tag \cup {None}]
  OBVIOUS
<1>2. tagOwner' \in [Tag -> contacts' \cup {None}]
  <2>1. ASSUME NEW t \in Tag PROVE tagOwner'[t] \in contacts' \cup {None}
    BY RosterAssumption
  <2> QED
    BY <2>1
<1>3. \A c \in Contact \ contacts' : ctag'[c] = None
  OBVIOUS
<1>4. ASSUME NEW t \in Tag, NEW c \in Contact PROVE ctag'[c] = t <=> tagOwner'[t] = c
  BY RosterAssumption
<1> QED
  BY <1>1, <1>2, <1>3, <1>4

\* The same when one contact is deleted, or one is made.
LEMMA TagsMade ==
    ASSUME TagInv, EntryInv, NEW c \in Contact, NEW g, NEW n,
           ContactsAfter({}, {c} \ contacts, g, n), UNCHANGED tagVars
    PROVE  TagInv'
<1>1. contacts' = contacts \cup {c} /\ UNCHANGED <<ctag, tagOwner>>
  BY DEF ContactsAfter, tagVars
<1>2. \A t \in Tag : tagOwner[t] \in contacts' \cup {None}
  BY <1>1 DEF TagInv
<1> QED
  BY <1>1, <1>2 DEF TagInv, EntryInv

LEMMA TagsLeft ==
    ASSUME TagInv, EntryInv, NEW gone, gone \subseteq contacts, TagsWithout(gone),
           NEW new \in SUBSET Contact, new \cap gone = {}, NEW g, NEW n,
           ContactsAfter(gone, new, g, n)
    PROVE  TagInv'
<1>1. contacts' = (contacts \cup new) \ gone
  BY DEF ContactsAfter
<1> QED
  BY <1>1, TagsGone DEF EntryInv

\* What an entry leaves empty is a contact.
LEMMA EmptiedContacts ==
    ASSUME EntryInv, NEW e \in entries
    PROVE  Emptied(e) \subseteq contacts
  BY DEF Emptied, EntryInv

LEMMA InitTags == Init => TagInv
  BY RosterAssumption DEF Init, TagInv

\* No call and no push breaks the index of the tags.
LEMMA NextTags == GroupInv /\ EntryInv /\ TagInv /\ [Next]_vars => TagInv'
<1> SUFFICES ASSUME GroupInv, EntryInv, TagInv, [Next]_vars PROVE TagInv'
  OBVIOUS
<1>1. ASSUME NEW a \in Account, setAccount(a) PROVE TagInv'
  BY <1>1, TagsSame DEF setAccount, contactVars
<1>2. ASSUME NEW lost, NEW gone, NEW empty, gone \subseteq contacts,
             RemoveAll(lost, gone, empty)
      PROVE  TagInv'
  BY <1>2, TagsLeft DEF RemoveAll
<1>3. ASSUME NEW a \in Account, removeAccount(a) PROVE TagInv'
  <2>1. CASE UNCHANGED <<contactVars, tagVars>>
    BY <2>1, TagsSame DEF contactVars
  <2> DEFINE lost == {e \in entries : eaccount[e] = a}
             gone == {c \in contacts : centries[c] # {} /\ centries[c] \subseteq lost}
  <2>2. gone \subseteq contacts
    OBVIOUS
  <2>3. \/ UNCHANGED <<contactVars, tagVars>>
        \/ \E empty : RemoveAll(lost, gone, empty)
    BY <1>3, Zenon DEF removeAccount
  <2> HIDE DEF lost, gone
  <2> QED
    BY <1>2, <2>1, <2>2, <2>3
<1>4. ASSUME NEW n \in GroupName, rosterGroupAdd(n) PROVE TagInv'
  BY <1>4, TagsSame DEF rosterGroupAdd, contactVars
<1>5. ASSUME NEW g \in UserGroup, NEW n \in GroupName, rosterGroupRename(g, n)
      PROVE  TagInv'
  BY <1>5, TagsSame DEF rosterGroupRename, contactVars
<1>6. ASSUME NEW g \in UserGroup, rosterGroupRemove(g) PROVE TagInv'
  BY <1>6, TagsSame DEF rosterGroupRemove, LeaveGroup
<1>11. ASSUME NEW c \in Contact, NEW g \in Group, rosterContactAddGroup(c, g)
       PROVE  TagInv'
  BY <1>11, TagsSame DEF rosterContactAddGroup
<1>7. ASSUME NEW g \in Group, NEW n \in Name, rosterContactAdd(g, n) PROVE TagInv'
  <2>1. CASE \E c \in contacts : rosterContactAddGroup(c, g)
    BY <1>11, <2>1 DEF EntryInv
  <2>2. ASSUME NEW c \in Contact \ contacts, ContactsAfter({}, {c}, g, n), UNCHANGED tagVars
        PROVE  TagInv'
    <3>1. {c} \ contacts = {c}
      BY <2>2
    <3> QED
      BY <2>2, <3>1, TagsMade
  <2> QED
    BY <1>7, <2>1, <2>2, AddCases
<1>8. ASSUME NEW c \in Contact, rosterContactRemove(c) PROVE TagInv'
  BY <1>8, TagsLeft DEF rosterContactRemove
<1>9. ASSUME NEW c \in Contact, NEW n \in Name, rosterContactRename(c, n)
      PROVE  TagInv'
  BY <1>9, TagsSame DEF rosterContactRename
<1>10. ASSUME NEW c \in Contact, rosterContactSetMetacontactOrder(c) PROVE TagInv'
  <2>1. PICK t \in Tag : /\ tagOwner[t] = None
                         /\ ctag' = [ctag EXCEPT ![c] = t]
                         /\ tagOwner' = [tagOwner EXCEPT ![t] = c]
    BY <1>10 DEF rosterContactSetMetacontactOrder
  <2>2. c \in contacts /\ ctag[c] = None /\ contacts' = contacts
    BY <1>10 DEF rosterContactSetMetacontactOrder, contactVars
  <2> QED
    BY <2>1, <2>2, RosterAssumption DEF TagInv
<1>12. ASSUME NEW c \in Contact, NEW g \in Group, rosterContactChangeGroup(c, g)
       PROVE  TagInv'
  BY <1>12, TagsSame DEF rosterContactChangeGroup
<1>13. ASSUME NEW c \in Contact, NEW g \in Group, rosterContactRemoveGroup(c, g)
       PROVE  TagInv'
  BY <1>13, TagsSame DEF rosterContactRemoveGroup, LeaveGroup
<1>14. ASSUME NEW e \in entries, NEW c, NEW gone, gone \subseteq contacts,
              ChangeContact(e, c, gone)
       PROVE  TagInv'
  BY <1>14, TagsLeft DEF ChangeContact
<1>15. ASSUME NEW c \in Contact, NEW a \in Account, NEW x \in Address,
              rosterEntryAdd(c, a, x)
       PROVE  TagInv'
  <2>1. ASSUME NEW e \in EntriesOf(a, x), ChangeContact(e, c, Emptied(e)) PROVE TagInv'
    <3>1. e \in entries
      BY DEF EntriesOf
    <3> QED
      BY <1>14, <2>1, <3>1, EmptiedContacts
  <2> QED
    BY <1>15, <2>1, TagsSame, Zenon DEF rosterEntryAdd
<1>16. ASSUME NEW e \in Entry, rosterEntryRemove(e) PROVE TagInv'
  BY <1>16, TagsSame DEF rosterEntryRemove
<1>17. CASE deleteEmptyGroups
  BY <1>17, TagsSame DEF deleteEmptyGroups, contactVars
<1>18. ASSUME NEW a \in Account, removeAllContactEntriesForTransport(a)
       PROVE  TagInv'
  <2> DEFINE own == {e \in entries : eaccount[e] = a /\ ejid[e] \in Transport}
  <2>1. PICK gone \in SUBSET {econtact[o] : o \in own} : \E lost, empty :
            RemoveAll(lost, gone, empty)
    BY <1>18, Zenon DEF removeAllContactEntriesForTransport
  <2>2. gone \subseteq contacts
    BY DEF EntryInv
  <2> QED
    BY <1>2, <2>1, <2>2
<1>19. ASSUME NEW a \in Account, NEW j \in JID, NEW i \in Item, ItemAdded(a, j, i)
       PROVE  TagInv'
  <2>1. PICK c \in Contact : \E g, n : ContactsAfter({}, {c} \ contacts, g, n)
    BY <1>19, Zenon DEF ItemAdded
  <2> QED
    BY <1>19, <2>1, TagsMade DEF ItemAdded
<1>20. ASSUME NEW a \in Account, NEW j \in JID, NEW i \in Item, ItemListed(a, j, i)
       PROVE  TagInv'
  BY <1>20, TagsSame, Zenon DEF ItemListed
<1>21. ASSUME NEW e \in entries, NEW c \in Contact, NEW g, NEW n,
              TagsWithout(IF c = econtact[e] THEN {} ELSE Emptied(e)),
              ContactsAfter(IF c = econtact[e] THEN {} ELSE Emptied(e),
                            {c} \ contacts, g, n)
       PROVE  TagInv'
  <2> DEFINE gone == IF c = econtact[e] THEN {} ELSE Emptied(e)
             new == {c} \ contacts
  <2>1. gone \subseteq contacts /\ new \in SUBSET Contact /\ new \cap gone = {}
    BY EmptiedContacts
  <2>2. TagsWithout(gone) /\ ContactsAfter(gone, new, g, n)
    BY <1>21
  <2> HIDE DEF gone, new
  <2> QED
    BY <2>1, <2>2, TagsLeft
<1>22. ASSUME NEW a \in Account, NEW j \in JID, NEW i \in Item, ItemUpdated(a, j, i)
       PROVE  TagInv'
  <2>1. CASE UNCHANGED <<contactVars, tagVars>>
    BY <2>1, TagsSame DEF contactVars
  <2>2. EntriesOf(a, j) \subseteq entries
    BY DEF EntriesOf
  <2>3. \/ UNCHANGED <<contactVars, tagVars>>
        \/ \E e \in EntriesOf(a, j), c \in Contact : \E g, n :
              /\ TagsWithout(IF c = econtact[e] THEN {} ELSE Emptied(e))
              /\ ContactsAfter(IF c = econtact[e] THEN {} ELSE Emptied(e),
                               {c} \ contacts, g, n)
    BY <1>22, Zenon DEF ItemUpdated, Crash
  <2> QED
    BY <1>21, <2>1, <2>2, <2>3
<1>23. ASSUME NEW a \in Account, NEW j \in JID, ItemRemoved(a, j) PROVE TagInv'
  <2>1. PICK e \in EntriesOf(a, j) : /\ ContactsAfter(Emptied(e), {}, None, None)
                                     /\ TagsWithout(Emptied(e))
    BY <1>23 DEF ItemRemoved
  <2>2. Emptied(e) \subseteq contacts
    BY <2>1, EmptiedContacts DEF EntriesOf
  <2> QED
    BY <2>1, <2>2, TagsLeft
<1>24. ASSUME NEW a \in Account, NEW j \in JID, NEW n, NEW m, StrangerAdded(a, j, n, m)
       PROVE  TagInv'
  <2>1. PICK c \in Contact \ contacts : ContactsAfter({}, {c}, NotInList, n)
    BY <1>24 DEF StrangerAdded
  <2>2. {c} \ contacts = {c} /\ UNCHANGED tagVars
    BY <1>24 DEF StrangerAdded
  <2> QED
    BY <2>1, <2>2, TagsMade
<1>25. CASE UNCHANGED vars
  BY <1>25, TagsSame DEF vars, contactVars
<1>26. ASSUME NEW e \in Entry, NEW t \in Tag \cup {None}, MetacontactChanged(e, t)
       PROVE  TagInv'
  <2> DEFINE gone(c) == IF c = econtact[e] THEN {} ELSE Emptied(e)
             Tagged(c) ==
               /\ contacts' = (contacts \cup {c}) \ gone(c)
               /\ t # None => {tagOwner[t]} \ {None} = {}
               /\ ctag' = [x \in Contact |-> IF x \in gone(c) THEN None
                                             ELSE IF x = c /\ t # None THEN t ELSE ctag[x]]
               /\ tagOwner' = [x \in Tag |->
                       IF x = t THEN c
                       ELSE IF \/ \E y \in gone(c) : ctag[y] = x
                               \/ t # None /\ ctag[c] = x THEN None
                       ELSE tagOwner[x]]
  <2>1. e \in entries
    BY <1>26 DEF MetacontactChanged
  <2>2. \A c : gone(c) \subseteq contacts /\ c \notin gone(c)
    BY <2>1, EmptiedContacts DEF Emptied
  <2>3. CASE UNCHANGED <<contactVars, tagVars>>
    BY <2>3, TagsSame DEF contactVars
  <2>4. ASSUME NEW c, TagsWithout(gone(c)), ContactsAfter(gone(c), {}, None, None)
        PROVE  TagInv'
    <3> HIDE DEF gone
    <3> QED
      BY <2>2, <2>4, TagsLeft
  <2>5. ASSUME NEW c \in Contact, Tagged(c) PROVE TagInv'
    <3>1. gone(c) \subseteq contacts /\ c \notin gone(c) /\ contacts \subseteq Contact
      BY <2>2 DEF EntryInv
    <3>2. t # None => tagOwner[t] = None
      BY <2>5
    <3>3. t = None => t \notin Tag
      BY RosterAssumption
    <3>4. Tagged(c)
      BY <2>5
    <3> HIDE DEF gone
    <3>5. ctag' \in [Contact -> Tag \cup {None}]
      BY <3>4 DEF TagInv
    <3>6. \A x \in Contact \ contacts' : ctag'[x] = None
      BY <3>1, <3>4 DEF TagInv
    <3>7. ASSUME NEW s \in Tag PROVE tagOwner'[s] \in contacts' \cup {None}
      BY <3>1, <3>4 DEF TagInv
    <3>8. ASSUME NEW s \in Tag, NEW x \in Contact
          PROVE  ctag'[x] = s <=> tagOwner'[s] = x
      <4>1. CASE s = t
        BY <3>1, <3>2, <3>3, <3>4, <4>1, RosterAssumption DEF TagInv
      <4>2. CASE s # t
        BY <3>1, <3>4, <4>2, RosterAssumption DEF TagInv
      <4> QED
        BY <4>1, <4>2
    <3> QED
      BY <3>4, <3>5, <3>6, <3>7, <3>8 DEF TagInv
  <2>6. \/ UNCHANGED <<contactVars, tagVars>>
        \/ \E c : TagsWithout(gone(c)) /\ ContactsAfter(gone(c), {}, None, None)
        \/ \E c \in Contact : Tagged(c)
    <3> HIDE DEF gone
    <3> QED
      BY <1>26, Zenon DEF MetacontactChanged, Crash, ContactsAfter, gone
  <2> HIDE DEF gone, Tagged
  <2> QED
    BY <2>3, <2>4, <2>5, <2>6
<1>27. ASSUME NEW e \in Entry, NEW c \in Contact, rosterEntryChangeContact(e, c)
       PROVE  TagInv'
  BY <1>14, <1>27 DEF rosterEntryChangeContact
<1>50. ASSUME NEW a \in Account, NEW j \in JID, NEW i \in Item, ItemListedEmpty(a, j, i)
       PROVE  TagInv'
  BY <1>50, ListedEmpty, TagsSame DEF contactVars
<1>28. CASE GuiCall
  BY <1>28, <1>1, <1>3, <1>4, <1>5, <1>6, <1>7, <1>8, <1>9, <1>10, <1>11, <1>12,
     <1>13, <1>15, <1>16, <1>27, Zenon DEF GuiCall
<1>29. CASE ServerPush
  BY <1>29, <1>17, <1>18, <1>19, <1>20, <1>22, <1>23, <1>24, <1>26, <1>50, Zenon
     DEF ServerPush, SubscriptionReceived, MessageReceived
<1> QED
  BY <1>25, <1>28, <1>29 DEF Next

----------------------------------------------------------------------------
(* Entries, accounts and addresses. *)

\* The account of every entry is one that the user has.
AccountInv ==
    /\ accounts \subseteq Account /\ entries \subseteq Entry
    /\ eaccount \in [Entry -> Account \cup {None}]
    /\ \A e \in entries : eaccount[e] \in accounts

\* The account and the address of an entry identify it, when the address is one that a
\* lookup asks for.
AddressInv ==
    /\ entries \subseteq Entry
    /\ eaccount \in [Entry -> Account \cup {None}]
    /\ ejid \in [Entry -> Address \cup {None}]
    /\ \A e \in entries : ejid[e] \in Address
    /\ \A e, f \in entries :
          eaccount[e] = eaccount[f] /\ ejid[e] = ejid[f] /\ ejid[e] \in JID => e = f

\* What a step may do to accounts and addresses of entries: nothing, delete
\* entries, or make one for an address that has none.
Kept == UNCHANGED <<entries, eaccount, ejid>>
Lost == \E lost : EntriesWithout(lost)
Made == /\ UNCHANGED accounts
        /\ \E e \in Entry \ entries, a \in Account \cap accounts, x \in Address : \E i :
              NewEntry(e, a, x, i) /\ EntriesOf(a, x) = {}

\* An account that goes takes its entries with it.
AccountsFollow ==
    /\ accounts' \subseteq accounts \cup Account
    /\ \A e \in entries : eaccount[e] \in accounts => \/ e \notin entries'
                                                      \/ eaccount[e] \in accounts'

StepKind == (Kept \/ Lost \/ Made) /\ AccountsFollow

LEMMA NextKind == [Next]_vars => StepKind
<1> SUFFICES ASSUME [Next]_vars PROVE StepKind
  OBVIOUS
<1> USE DEF StepKind
<1>1. ASSUME UNCHANGED accounts, Kept \/ Lost \/ Made PROVE StepKind
  BY <1>1 DEF AccountsFollow
<1>2. ASSUME NEW a \in Account, setAccount(a) PROVE StepKind
  BY <1>2 DEF setAccount, entryVars, Kept, AccountsFollow
<1>3. ASSUME NEW a \in Account, removeAccount(a) PROVE StepKind
  <2> DEFINE lost == {e \in entries : eaccount[e] = a}
  <2>1. CASE lost = {} /\ UNCHANGED entryVars
    BY <1>3, <2>1 DEF removeAccount, entryVars, Kept, AccountsFollow
  <2>2. CASE EntriesWithout(lost)
    <3>1. Lost
      BY <2>2 DEF Lost
    <3>2. accounts' = accounts \ {a} /\ entries' = entries \ lost
      BY <1>3, <2>2 DEF removeAccount, EntriesWithout
    <3> QED
      BY <3>1, <3>2 DEF AccountsFollow
  <2> QED
    BY <1>3, <2>1, <2>2, Zenon DEF removeAccount, RemoveAll
<1>4. ASSUME NEW n \in GroupName, rosterGroupAdd(n) PROVE StepKind
  BY <1>1, <1>4 DEF rosterGroupAdd, entryVars, Kept
<1>5. ASSUME NEW g \in UserGroup, NEW n \in GroupName, rosterGroupRename(g, n)
      PROVE  StepKind
  BY <1>1, <1>5 DEF rosterGroupRename, Kept
<1>6. ASSUME NEW g \in UserGroup, rosterGroupRemove(g) PROVE StepKind
  BY <1>1, <1>6 DEF rosterGroupRemove, LeaveGroup, Kept
<1>11. ASSUME NEW c, NEW g \in Group, rosterContactAddGroup(c, g) PROVE StepKind
  BY <1>1, <1>11 DEF rosterContactAddGroup, Kept
<1>7. ASSUME NEW g \in Group, NEW n \in Name, rosterContactAdd(g, n) PROVE StepKind
  BY <1>1, <1>7, <1>11, AddCases DEF entryVars, Kept
<1>8. ASSUME NEW c \in Contact, rosterContactRemove(c) PROVE StepKind
  BY <1>1, <1>8 DEF rosterContactRemove, Lost
<1>9. ASSUME NEW c \in Contact, NEW n \in Name, rosterContactRename(c, n) PROVE StepKind
  BY <1>1, <1>9 DEF rosterContactRename, Kept
<1>10. ASSUME NEW c \in Contact, rosterContactSetMetacontactOrder(c) PROVE StepKind
  BY <1>1, <1>10 DEF rosterContactSetMetacontactOrder, entryVars, Kept
<1>12. ASSUME NEW c \in Contact, NEW g \in Group, rosterContactChangeGroup(c, g)
       PROVE  StepKind
  BY <1>1, <1>12 DEF rosterContactChangeGroup, Kept
<1>13. ASSUME NEW c \in Contact, NEW g \in Group, rosterContactRemoveGroup(c, g)
       PROVE  StepKind
  BY <1>1, <1>13 DEF rosterContactRemoveGroup, LeaveGroup, Kept
<1>14. ASSUME NEW e \in Entry, NEW c \in Contact, rosterEntryChangeContact(e, c)
       PROVE  StepKind
  BY <1>1, <1>14 DEF rosterEntryChangeContact, ChangeContact, Kept
<1>15. ASSUME NEW c \in Contact, NEW a \in Account, NEW x \in Address,
              rosterEntryAdd(c, a, x)
       PROVE  StepKind
  <2>1. UNCHANGED accounts /\ a \in accounts
    BY <1>15 DEF rosterEntryAdd, ChangeContact
  <2>2. \/ UNCHANGED <<entries, eaccount, ejid>>
        \/ /\ EntriesOf(a, x) = {}
           /\ \E e \in Entry \ entries : \E i : NewEntry(e, a, x, i)
    BY <1>15, Zenon DEF rosterEntryAdd, ChangeContact
  <2> QED
    BY <1>1, <2>1, <2>2 DEF Kept, Made
<1>16. ASSUME NEW e \in Entry, rosterEntryRemove(e) PROVE StepKind
  BY <1>1, <1>16 DEF rosterEntryRemove, Lost
<1>17. CASE deleteEmptyGroups
  BY <1>1, <1>17 DEF deleteEmptyGroups, entryVars, Kept
<1>18. ASSUME NEW a \in Account, removeAllContactEntriesForTransport(a) PROVE StepKind
  <2>1. UNCHANGED accounts /\ \E lost : EntriesWithout(lost)
    BY <1>18, Zenon DEF removeAllContactEntriesForTransport, RemoveAll
  <2> QED
    BY <1>1, <2>1 DEF Lost
<1>19. ASSUME NEW a \in Account, NEW j \in JID,
              \E e \in Entry \ entries : \E i : NewEntry(e, a, j, i),
              a \in accounts, EntriesOf(a, j) = {}, UNCHANGED accounts
       PROVE  StepKind
  <2>1. j \in Address
    BY RosterAssumption
  <2> QED
    BY <1>1, <1>19, <2>1 DEF Made
<1>20. ASSUME NEW a \in Account, NEW j \in JID, NEW i \in Item, ItemAdded(a, j, i)
       PROVE  StepKind
  BY <1>19, <1>20, Zenon DEF ItemAdded
<1>21. ASSUME NEW a \in Account, NEW j \in JID, NEW i \in Item, ItemListed(a, j, i)
       PROVE  StepKind
  BY <1>1, <1>21, Zenon DEF ItemListed, Kept
<1>22. ASSUME NEW a \in Account, NEW j \in JID, NEW i \in Item, ItemUpdated(a, j, i)
       PROVE  StepKind
  <2>1. UNCHANGED <<accounts, entries, eaccount, ejid>>
    BY <1>22, Zenon DEF ItemUpdated, Crash, entryVars
  <2> QED
    BY <1>1, <2>1 DEF Kept
<1>23. ASSUME NEW a \in Account, NEW j \in JID, ItemRemoved(a, j) PROVE StepKind
  BY <1>1, <1>23 DEF ItemRemoved, Lost
<1>24. ASSUME NEW a \in Account, NEW j \in JID, NEW n, NEW m, StrangerAdded(a, j, n, m)
       PROVE  StepKind
  BY <1>19, <1>24, Zenon DEF StrangerAdded
<1>25. ASSUME NEW e \in Entry, NEW t \in Tag \cup {None}, MetacontactChanged(e, t)
       PROVE  StepKind
  <2>1. UNCHANGED <<accounts, entries, eaccount, ejid>>
    BY <1>25, Zenon DEF MetacontactChanged, Crash, entryVars
  <2> QED
    BY <1>1, <2>1 DEF Kept
<1>26. CASE UNCHANGED vars
  BY <1>1, <1>26 DEF vars, entryVars, Kept
<1> HIDE DEF StepKind
<1>50. ASSUME NEW a \in Account, NEW j \in JID, NEW i \in Item, ItemListedEmpty(a, j, i)
       PROVE  StepKind
  BY <1>1, <1>50, ListedEmpty DEF entryVars, Kept
<1>27. CASE GuiCall
  BY <1>27, <1>2, <1>3, <1>4, <1>5, <1>6, <1>7, <1>8, <1>9, <1>10, <1>11, <1>12,
     <1>13, <1>14, <1>15, <1>16, Zenon DEF GuiCall
<1>28. CASE ServerPush
  BY <1>28, <1>17, <1>18, <1>20, <1>21, <1>22, <1>23, <1>24, <1>25, <1>50, Zenon
     DEF ServerPush, SubscriptionReceived, MessageReceived
<1> QED
  BY <1>26, <1>27, <1>28 DEF Next

\* No entry outlives its account.
LEMMA NextAccounts == AccountInv /\ [Next]_vars => AccountInv'
<1> SUFFICES ASSUME AccountInv, Kept \/ Lost \/ Made, AccountsFollow PROVE AccountInv'
  BY NextKind DEF StepKind
<1> USE DEF AccountInv, AccountsFollow
<1>1. CASE Kept
  BY <1>1 DEF Kept
<1>2. CASE Lost
  BY <1>2 DEF Lost, EntriesWithout
<1>3. CASE Made
  <2>1. PICK e \in Entry \ entries, a \in Account \cap accounts :
            entries' = entries \cup {e} /\ eaccount' = [eaccount EXCEPT ![e] = a]
    BY <1>3 DEF Made, NewEntry
  <2>2. accounts' \subseteq Account
    OBVIOUS
  <2>3. UNCHANGED accounts
    BY <1>3 DEF Made
  <2> QED
    BY <2>1, <2>2, <2>3
<1> QED
  BY <1>1, <1>2, <1>3

\* No step makes a second entry that is found by an address, however it is typed: an
\* entry is made for an address that is not found, and a JID is looked up as it is.
LEMMA NextAddresses ==
    ASSUME AddressInv, [Next]_vars
    PROVE  AddressInv'
<1>1. Kept \/ Lost \/ Made
  BY NextKind DEF StepKind
<1> USE DEF AddressInv
<1>2. CASE Kept
  BY <1>2 DEF Kept
<1>3. CASE Lost
  BY <1>3 DEF Lost, EntriesWithout
<1>4. CASE Made
  <2>1. PICK e \in Entry \ entries, a \in Account \cap accounts, x \in Address : \E i :
            NewEntry(e, a, x, i) /\ EntriesOf(a, x) = {}
    BY <1>4 DEF Made
  <2>2. /\ entries' = entries \cup {e} /\ eaccount' = [eaccount EXCEPT ![e] = a]
        /\ ejid' = [ejid EXCEPT ![e] = x]
    BY <2>1 DEF NewEntry
  <2>3. x \in JID => \A f \in entries : ~(eaccount[f] = a /\ ejid[f] = x)
    BY <2>1, RosterAssumption DEF EntriesOf
  <2> QED
    BY <2>2, <2>3
<1> QED
  BY <1>1, <1>2, <1>3, <1>4

----------------------------------------------------------------------------
(* The theorems. *)

RosterInv == GroupInv /\ EntryInv /\ TagInv /\ AccountInv

THEOREM Inductive == Spec => []RosterInv
<1>1. Init => RosterInv
  BY InitGroups, InitEntries, InitTags DEF RosterInv, Init, AccountInv
<1>2. RosterInv /\ [Next]_vars => RosterInv'
  BY NextGroups, NextEntries, NextTags, NextAccounts DEF RosterInv
<1> QED
  BY <1>1, <1>2, PTL DEF Spec

\* A group lists a contact exactly when the contact lists the group, whatever
\* the GUI calls and the server pushes, in any order.
THEOREM GroupsLinkedHolds == Spec => []GroupsLinked
<1>1. RosterInv => GroupsLinked
  BY DEF RosterInv, GroupInv, GroupsLinked
<1> QED
  BY <1>1, Inductive, PTL

\* Every contact has a groups[0].
THEOREM ContactHasGroupHolds == Spec => []ContactHasGroup
<1>1. RosterInv => ContactHasGroup
  BY DEF RosterInv, GroupInv, ContactHasGroup
<1> QED
  BY <1>1, Inductive, PTL

\* A contact lists an entry exactly when the entry names the contact, and no
\* entry outlives its contact.
THEOREM EntriesLinkedHolds == Spec => []EntriesLinked
<1>1. RosterInv => EntriesLinked
  BY DEF RosterInv, EntryInv, EntriesLinked
<1> QED
  BY <1>1, Inductive, PTL

\* The index of tags finds exactly the contacts that have one.
THEOREM TagsIndexedHolds == Spec => []TagsIndexed
<1>1. RosterInv => TagsIndexed
  BY RosterAssumption DEF RosterInv, EntryInv, TagInv, TagsIndexed
<1> QED
  BY <1>1, Inductive, PTL

\* No entry outlives its account.
THEOREM EntryHasAccountHolds == Spec => []EntryHasAccount
<1>1. RosterInv => EntryHasAccount
  BY DEF RosterInv, AccountInv, EntryHasAccount
<1> QED
  BY <1>1, Inductive, PTL

\* A lookup by address never has two entries to choose from, in whatever spelling users
\* type addresses and whatever the server pushes.
THEOREM OneEntryFoundHolds == Spec => []OneEntryFound
<1>1. Init => AddressInv
  BY DEF Init, AddressInv
<1>2. AddressInv /\ [Next]_vars => AddressInv'
  BY NextAddresses
<1>3. AddressInv => OneEntryFound
  <2>1. \A x \in Address : Bare[x] \in JID
    BY RosterAssumption
  <2> QED
    BY <2>1 DEF AddressInv, OneEntryFound, EntriesOf
<1> QED
  BY <1>1, <1>2, <1>3, PTL DEF Spec

----------------------------------------------------------------------------
(* Types: names and addresses, and objects that are not live. *)

\* What is known by a name has one, and what an entry says of itself is an Info.
NameInv ==
    /\ gname \in [UserGroup -> GroupName \cup {None}]
    /\ \A g \in groups \cap UserGroup : gname[g] \in GroupName
    /\ cname \in [Contact -> Name \cup {None}]
    /\ ejid \in [Entry -> Address \cup {None}]
    /\ einfo \in [Entry -> Info]
    /\ crashed \in BOOLEAN

\* An object that was deleted is in nothing any more.
DeadInv ==
    /\ \A c \in Contact \ contacts : cgroups[c] = {} /\ chead[c] = None
    /\ \A e \in Entry \ entries : eaccount[e] = None /\ econtact[e] = None

LEMMA NamesSame ==
    ASSUME NameInv, UNCHANGED <<groups, gname, cname, ejid, einfo>>, crashed' \in BOOLEAN
    PROVE  NameInv'
  BY DEF NameInv

LEMMA DeadSame ==
    ASSUME DeadInv, UNCHANGED <<contacts, cgroups, chead, entries, eaccount, econtact>>
    PROVE  DeadInv'
  BY DEF DeadInv

\* Contacts are made and deleted, entries are made, move or are deleted, groups go: the
\* names stay names ...
LEMMA ContactsNames ==
    ASSUME NameInv, NEW gone, NEW new, NEW g, NEW n \in Name \cup {None},
           ContactsAfter(gone, new, g, n)
    PROVE  cname' \in [Contact -> Name \cup {None}]
  BY DEF NameInv, ContactsAfter

LEMMA GroupForNames ==
    ASSUME NameInv, NEW g \in Group, NEW n \in GroupName \cup {None}, GroupFor(n, g),
           WithGroup(g, n)
    PROVE  /\ gname' \in [UserGroup -> GroupName \cup {None}]
           /\ \A x \in groups' \cap UserGroup : gname'[x] \in GroupName
<1>1. g \in UserGroup \ groups => n \in GroupName
  BY RosterAssumption DEF GroupFor, GroupsNamed
<1>2. g \in UserGroup => g \in groups \/ n \in GroupName
  BY <1>1
<1> QED
  BY <1>2 DEF NameInv, WithGroup

LEMMA GroupsGoneNames ==
    ASSUME NameInv, NEW gone, GroupsWithout(gone)
    PROVE  /\ gname' \in [UserGroup -> GroupName \cup {None}]
           /\ \A x \in groups' \cap UserGroup : gname'[x] \in GroupName
  BY DEF NameInv, GroupsWithout

LEMMA EntriesGoneNames ==
    ASSUME NameInv, NEW lost, EntriesWithout(lost)
    PROVE  ejid' \in [Entry -> Address \cup {None}] /\ einfo' \in [Entry -> Info]
  BY DEF NameInv, EntriesWithout, NoInfo, Info

LEMMA EntryMadeNames ==
    ASSUME NameInv, NEW e, NEW a, NEW x \in Address, NEW i \in Info, NewEntry(e, a, x, i)
    PROVE  ejid' \in [Entry -> Address \cup {None}] /\ einfo' \in [Entry -> Info]
  BY DEF NameInv, NewEntry

\* ... and what an entry says of itself stays an Info.
LEMMA InfosJoin ==
    ASSUME NEW i \in Info, NEW n \in GroupName
    PROVE  Joining(i, n) \in Info
  BY DEF Joining, Info

LEMMA InfosJoined ==
    ASSUME NameInv, NEW c, NEW g, g \in groups \cap UserGroup
    PROVE  Joined(c, g) \in [Entry -> Info]
<1>1. \A e \in Entry : Joining(einfo[e], gname[g]) \in Info
  BY InfosJoin DEF NameInv
<1> QED
  BY <1>1 DEF NameInv, Joined

LEMMA InfosLeave ==
    ASSUME NEW i \in Info, NEW n
    PROVE  Leaving(i, n) \in Info
  BY DEF Leaving, Info

\* What is deleted is in nothing, what is made is live.
LEMMA ContactsDead ==
    ASSUME DeadInv, NEW gone, NEW new, NEW g, NEW n, ContactsAfter(gone, new, g, n)
    PROVE  \A c \in Contact \ contacts' : cgroups'[c] = {} /\ chead'[c] = None
  BY DEF DeadInv, ContactsAfter

LEMMA EntriesGoneDead ==
    ASSUME DeadInv, NEW lost, EntriesWithout(lost)
    PROVE  \A e \in Entry \ entries' : eaccount'[e] = None /\ econtact'[e] = None
  BY DEF DeadInv, EntriesWithout

LEMMA EntryInDead ==
    ASSUME DeadInv, AccountInv, EntryInv, NEW e \in Entry, NEW c, EntryIn(e, c),
           \/ e \in entries /\ UNCHANGED <<entries, eaccount>>
           \/ \E a, x, i : NewEntry(e, a, x, i)
    PROVE  \A f \in Entry \ entries' : eaccount'[f] = None /\ econtact'[f] = None
<1>1. entries' = entries \cup {e} /\ \A f \in Entry \ {e} : eaccount'[f] = eaccount[f]
  BY DEF NewEntry, AccountInv
<1>2. \A f \in Entry \ {e} : econtact'[f] = econtact[f]
  BY DEF EntryIn, EntryInv
<1> QED
  BY <1>1, <1>2 DEF DeadInv

\* No call and no push makes up a name.
LEMMA NextNames ==
    ASSUME NameInv, GroupInv, EntryInv, [Next]_vars
    PROVE  NameInv'
<1>1. ASSUME UNCHANGED <<groups, gname, cname, ejid, einfo>>, crashed' \in BOOLEAN
      PROVE  NameInv'
  BY <1>1, NamesSame
<1>2. ASSUME NEW a \in Account, setAccount(a) PROVE NameInv'
  BY <1>1, <1>2 DEF setAccount, Running, groupVars, contactVars, entryVars
<1>3. ASSUME NEW lost, NEW gone, NEW empty, RemoveAll(lost, gone, empty), Running
      PROVE  NameInv'
  <2>1. cname' \in [Contact -> Name \cup {None}]
    <3>1. None \in Name \cup {None} /\ ContactsAfter(gone, {}, None, None)
      BY <1>3 DEF RemoveAll
    <3> QED
      BY <3>1, ContactsNames
  <2>2. GroupsWithout(empty) /\ EntriesWithout(lost) /\ crashed' \in BOOLEAN
    BY <1>3 DEF RemoveAll, Running
  <2> QED
    BY <2>1, <2>2, GroupsGoneNames, EntriesGoneNames DEF NameInv
<1>4. ASSUME NEW a \in Account, removeAccount(a) PROVE NameInv'
  <2>1. CASE UNCHANGED <<groupVars, contactVars, entryVars>> /\ Running
    BY <1>1, <2>1 DEF Running, groupVars, contactVars, entryVars
  <2>2. \/ UNCHANGED <<groupVars, contactVars, entryVars>> /\ Running
        \/ \E lost, gone, empty : RemoveAll(lost, gone, empty) /\ Running
    BY <1>4, Zenon DEF removeAccount
  <2> QED
    BY <1>3, <2>1, <2>2
<1>5. ASSUME NEW n \in GroupName, rosterGroupAdd(n) PROVE NameInv'
  BY <1>5 DEF NameInv, rosterGroupAdd, WithGroup, Running, contactVars, entryVars
<1>6. ASSUME NEW g \in UserGroup, NEW n \in GroupName, rosterGroupRename(g, n)
      PROVE  NameInv'
  <2>1. /\ gname' = [gname EXCEPT ![g] = n] /\ groups' = groups
        /\ cname' = cname /\ ejid' = ejid /\ crashed' \in BOOLEAN
    BY <1>6 DEF rosterGroupRename, Running, contactVars
  <2>2. einfo' \in [Entry -> Info]
    BY <1>6 DEF NameInv, rosterGroupRename, Info
  <2> QED
    BY <2>1, <2>2 DEF NameInv
<1>7. ASSUME NEW g, NEW cs, LeaveGroup(cs, g) PROVE einfo' \in [Entry -> Info]
  <2>1. ASSUME NEW e \in Entry
        PROVE  (IF g \in UserGroup /\ \E c \in cs : e \in centries[c]
                THEN Leaving(einfo[e], gname[g]) ELSE einfo[e]) \in Info
    BY InfosLeave DEF NameInv
  <2> QED
    BY <1>7, <2>1 DEF LeaveGroup
<1>8. ASSUME NEW g \in UserGroup, rosterGroupRemove(g) PROVE NameInv'
  <2>1. LeaveGroup(members[g], g) /\ GroupsWithout({g}) /\ Running
    BY <1>8 DEF rosterGroupRemove
  <2>2. UNCHANGED <<cname, ejid>> /\ crashed' \in BOOLEAN
    BY <2>1 DEF LeaveGroup, Running
  <2>3. einfo' \in [Entry -> Info]
    BY <1>7, <2>1
  <2> QED
    BY <2>1, <2>2, <2>3, GroupsGoneNames DEF NameInv
<1>13. ASSUME NEW c \in Contact, NEW g \in Group, rosterContactAddGroup(c, g)
       PROVE  NameInv'
  <2>1. g \in groups \cap UserGroup
    BY <1>13 DEF rosterContactAddGroup
  <2>2. einfo' \in [Entry -> Info]
    BY <1>13, <2>1, InfosJoined DEF rosterContactAddGroup
  <2> QED
    BY <1>13, <2>2 DEF NameInv, rosterContactAddGroup, Running
<1>9. ASSUME NEW g \in Group, NEW n \in Name, rosterContactAdd(g, n) PROVE NameInv'
  <2>1. CASE \E c \in contacts : rosterContactAddGroup(c, g)
    BY <1>13, <2>1 DEF EntryInv
  <2>2. ASSUME NEW c, ContactsAfter({}, {c}, g, n), Running,
               UNCHANGED <<groups, gname, entryVars>>
        PROVE  NameInv'
    <3>1. UNCHANGED <<groups, gname, ejid, einfo>> /\ crashed' \in BOOLEAN
      BY <2>2 DEF entryVars, Running
    <3> QED
      BY <2>2, <3>1, ContactsNames DEF NameInv
  <2> QED
    BY <1>9, <2>1, <2>2, AddCases
<1>10. ASSUME NEW c \in Contact, rosterContactRemove(c) PROVE NameInv'
  <2>1. /\ EntriesWithout(centries[c]) /\ ContactsAfter({c}, {}, None, None)
        /\ UNCHANGED <<groups, gname>> /\ crashed' \in BOOLEAN
    BY <1>10 DEF rosterContactRemove, Running
  <2> QED
    BY <2>1, ContactsNames, EntriesGoneNames DEF NameInv
<1>11. ASSUME NEW c \in Contact, NEW n \in Name, rosterContactRename(c, n)
       PROVE  NameInv'
  BY <1>11 DEF NameInv, rosterContactRename, groupVars, Running, Info
<1>12. ASSUME NEW c \in Contact, rosterContactSetMetacontactOrder(c) PROVE NameInv'
  BY <1>1, <1>12
     DEF rosterContactSetMetacontactOrder, Running, groupVars, contactVars, entryVars
<1>14. ASSUME NEW c \in Contact, NEW g \in Group, rosterContactChangeGroup(c, g)
       PROVE  NameInv'
  <2> DEFINE left(e) == IF chead[c] \in UserGroup THEN Leaving(einfo[e], gname[chead[c]])
                        ELSE einfo[e]
  <2>1. g \in UserGroup => gname[g] \in GroupName
    BY <1>14 DEF NameInv, rosterContactChangeGroup
  <2>2. \A e \in Entry : left(e) \in Info
    BY InfosLeave DEF NameInv
  <2>3. einfo' = [e \in Entry |-> IF e \notin centries[c] THEN einfo[e]
                                  ELSE IF g \in UserGroup THEN Joining(left(e), gname[g])
                                  ELSE left(e)]
    BY <1>14 DEF rosterContactChangeGroup
  <2> HIDE DEF left
  <2>4. \A e \in Entry : g \in UserGroup => Joining(left(e), gname[g]) \in Info
    BY <2>1, <2>2, InfosJoin
  <2>5. einfo' \in [Entry -> Info]
    BY <2>2, <2>3, <2>4 DEF NameInv
  <2> QED
    BY <1>14, <2>5 DEF NameInv, rosterContactChangeGroup, Running
<1>15. ASSUME NEW c \in Contact, NEW g \in Group, rosterContactRemoveGroup(c, g)
       PROVE  NameInv'
  <2>1. LeaveGroup({c}, g) /\ UNCHANGED <<groups, gname>> /\ Running
    BY <1>15 DEF rosterContactRemoveGroup
  <2>2. UNCHANGED <<cname, ejid>> /\ crashed' \in BOOLEAN
    BY <2>1 DEF LeaveGroup, Running
  <2>3. einfo' \in [Entry -> Info]
    BY <1>7, <2>1
  <2> QED
    BY <2>1, <2>2, <2>3 DEF NameInv
<1>16. ASSUME NEW e, NEW c, NEW gone, ChangeContact(e, c, gone) PROVE NameInv'
  <2>1. /\ ContactsAfter(gone, {}, None, None)
        /\ UNCHANGED <<groups, gname, ejid>> /\ crashed' \in BOOLEAN
        /\ \E i \in Info : einfo' = [einfo EXCEPT ![e] = i]
    BY <1>16 DEF ChangeContact, Running
  <2> QED
    BY <2>1, ContactsNames DEF NameInv
<1>17. ASSUME NEW c \in Contact, NEW a \in Account, NEW x \in Address,
              rosterEntryAdd(c, a, x)
       PROVE  NameInv'
  <2> DEFINE gs == IF chead[c] \in UserGroup THEN {gname[chead[c]]} ELSE {}
             i == [name |-> cname[c], groups |-> gs,
                   main |-> IF gs = {} THEN None ELSE gname[chead[c]]]
  <2>1. i \in Info
    <3>1. c \in contacts
      BY <1>17 DEF rosterEntryAdd
    <3>2. chead[c] \in groups
      BY <3>1 DEF GroupInv
    <3>3. chead[c] \in UserGroup => gname[chead[c]] \in GroupName
      BY <3>2 DEF NameInv
    <3> QED
      BY <3>3 DEF NameInv, Info
  <2>2. \/ \E e : ChangeContact(e, c, Emptied(e))
        \/ /\ \E e : NewEntry(e, a, x, i)
           /\ UNCHANGED <<groupVars, cname>> /\ Running
    BY <1>17, Zenon DEF rosterEntryAdd
  <2> HIDE DEF i
  <2>3. ASSUME NEW e, NewEntry(e, a, x, i), UNCHANGED <<groupVars, cname>>, Running
        PROVE  NameInv'
    BY <2>1, <2>3, EntryMadeNames DEF NameInv, groupVars, Running
  <2> QED
    BY <1>16, <2>2, <2>3
<1>18. ASSUME NEW e \in Entry, rosterEntryRemove(e) PROVE NameInv'
  BY <1>18, EntriesGoneNames DEF NameInv, rosterEntryRemove, groupVars, Running
<1>19. CASE deleteEmptyGroups
  BY <1>19, GroupsGoneNames
     DEF NameInv, deleteEmptyGroups, contactVars, entryVars, Running
<1>20. ASSUME NEW a \in Account, removeAllContactEntriesForTransport(a) PROVE NameInv'
  <2>1. \E lost, gone, empty : RemoveAll(lost, gone, empty) /\ Running
    BY <1>20, Zenon DEF removeAllContactEntriesForTransport
  <2> QED
    BY <1>3, <2>1
<1>21. ASSUME NEW i \in Item
       PROVE  i \in Info /\ i.main \in GroupName \cup {None} /\ i.name \in Name \cup {None}
              /\ i.groups \in SUBSET GroupName
  BY DEF Item, Info
<1>22. ASSUME NEW a \in Account, NEW j \in JID, NEW i \in Item, ItemAdded(a, j, i)
       PROVE  NameInv'
  <2> DEFINE n == IF i.name = None THEN j ELSE i.name
             info == [i EXCEPT !.name = n]
  <2>1. n \in Name /\ info \in Info /\ j \in Address
    BY <1>21, RosterAssumption DEF Name, Info
  <2>2. PICK e \in Entry \ entries, g \in Group, c \in Contact :
           /\ GroupFor(i.main, g) /\ WithGroup(g, i.main)
           /\ ContactsAfter({}, {c} \ contacts, g, n) /\ NewEntry(e, a, j, info)
    BY <1>22, Zenon DEF ItemAdded
  <2>3. crashed' \in BOOLEAN
    BY <1>22 DEF ItemAdded, Running
  <2> HIDE DEF n, info
  <2> QED
    BY <1>21, <2>1, <2>2, <2>3, GroupForNames, ContactsNames, EntryMadeNames DEF NameInv
<1>23. ASSUME NEW a \in Account, NEW j \in JID, NEW i \in Item, ItemListed(a, j, i)
       PROVE  NameInv'
  <2>1. PICK e \in EntriesOf(a, j), g \in Group :
           /\ GroupFor(i.main, g) /\ WithGroup(g, i.main)
           /\ \E early : einfo' = [x \in Entry |->
                IF x \notin centries[econtact[e]] THEN einfo[x]
                ELSE [name |-> IF x = e /\ i.name # None THEN i.name ELSE einfo[x].name,
                      groups |-> i.groups,
                      main |-> IF x \in early THEN None ELSE i.main]]
    BY <1>23, Zenon DEF ItemListed
  <2>2. \A x \in Entry : einfo[x].name \in Name \cup {None}
    BY DEF NameInv, Info
  <2>3. einfo' \in [Entry -> Info]
    BY <1>21, <2>1, <2>2 DEF NameInv, Info
  <2>4. UNCHANGED <<cname, ejid>> /\ crashed' \in BOOLEAN
    BY <1>23, Zenon DEF ItemListed, Running
  <2> QED
    BY <1>21, <2>1, <2>3, <2>4, GroupForNames DEF NameInv
<1>24. ASSUME NEW a \in Account, NEW j \in JID, NEW i \in Item, ItemUpdated(a, j, i)
       PROVE  NameInv'
  <2> DEFINE n(e) == IF i.name = None THEN einfo[e].name ELSE i.name
  <2>1. \A e \in Entry : n(e) \in Name \cup {None}
    BY <1>21 DEF NameInv, Info
  <2>2. EntriesOf(a, j) \subseteq Entry
    BY DEF EntriesOf, EntryInv
  <2>3. \/ UNCHANGED <<groupVars, contactVars, entryVars>> /\ crashed' = TRUE
        \/ \E e \in EntriesOf(a, j) :
             /\ einfo' = [einfo EXCEPT ![e].name = n(e), ![e].groups = i.groups]
             /\ UNCHANGED <<groupVars, contactVars, ejid>> /\ crashed' = FALSE
        \/ \E e \in EntriesOf(a, j), g \in Group, c \in Contact : \E gone :
             /\ GroupFor(i.main, g) /\ WithGroup(g, i.main)
             /\ ContactsAfter(gone, {c} \ contacts, g, n(e))
             /\ einfo' = [einfo EXCEPT ![e] = [i EXCEPT !.name = n(e)]]
             /\ UNCHANGED ejid /\ crashed' = FALSE
    BY <1>24, Zenon DEF ItemUpdated, Crash, Running
  <2> HIDE DEF n
  <2>4. CASE UNCHANGED <<groupVars, contactVars, entryVars>> /\ crashed' = TRUE
    BY <1>1, <2>4 DEF groupVars, contactVars, entryVars
  <2>5. ASSUME NEW e \in EntriesOf(a, j),
               einfo' = [einfo EXCEPT ![e].name = n(e), ![e].groups = i.groups],
               UNCHANGED <<groupVars, contactVars, ejid>>, crashed' = FALSE
        PROVE  NameInv'
    <3>1. e \in Entry /\ [einfo[e] EXCEPT !.name = n(e), !.groups = i.groups] \in Info
      BY <1>21, <2>1, <2>2 DEF NameInv, Info
    <3>2. einfo' = [einfo EXCEPT ![e] = [einfo[e] EXCEPT !.name = n(e), !.groups = i.groups]]
      BY <2>5, <3>1 DEF NameInv
    <3>3. einfo' \in [Entry -> Info]
      BY <3>1, <3>2 DEF NameInv
    <3> QED
      BY <2>5, <3>3 DEF NameInv, groupVars, contactVars
  <2>6. ASSUME NEW e \in EntriesOf(a, j), NEW g \in Group, NEW c \in Contact, NEW gone,
               GroupFor(i.main, g), WithGroup(g, i.main),
               ContactsAfter(gone, {c} \ contacts, g, n(e)),
               einfo' = [einfo EXCEPT ![e] = [i EXCEPT !.name = n(e)]],
               UNCHANGED ejid, crashed' = FALSE
        PROVE  NameInv'
    <3>1. n(e) \in Name \cup {None} /\ [i EXCEPT !.name = n(e)] \in Info
      BY <1>21, <2>1, <2>2 DEF Info
    <3>2. einfo' \in [Entry -> Info]
      BY <2>6, <3>1 DEF NameInv
    <3> QED
      BY <1>21, <2>6, <3>1, <3>2, GroupForNames, ContactsNames DEF NameInv
  <2> QED
    BY <2>3, <2>4, <2>5, <2>6
<1>25. ASSUME NEW a \in Account, NEW j \in JID, ItemRemoved(a, j) PROVE NameInv'
  <2>1. PICK e : /\ EntriesWithout({e}) /\ ContactsAfter(Emptied(e), {}, None, None)
    BY <1>25 DEF ItemRemoved
  <2>2. UNCHANGED <<groups, gname>> /\ crashed' \in BOOLEAN
    BY <1>25 DEF ItemRemoved, Running
  <2> QED
    BY <2>1, <2>2, EntriesGoneNames, ContactsNames DEF NameInv
<1>26. ASSUME NEW a \in Account, NEW j \in JID, NEW n \in Name, NEW m \in Name \cup {None},
              StrangerAdded(a, j, n, m)
       PROVE  NameInv'
  <2>1. PICK e, c : /\ ContactsAfter({}, {c}, NotInList, n)
                    /\ NewEntry(e, a, j, [NoInfo EXCEPT !.name = m])
    BY <1>26 DEF StrangerAdded
  <2>2. UNCHANGED <<groups, gname>> /\ crashed' \in BOOLEAN
    BY <1>26 DEF StrangerAdded, Running
  <2>3. [NoInfo EXCEPT !.name = m] \in Info /\ j \in Address
    BY RosterAssumption DEF NoInfo, Info
  <2> QED
    BY <2>1, <2>2, <2>3, EntryMadeNames, ContactsNames DEF NameInv
<1>27. ASSUME NEW e \in Entry, NEW t \in Tag \cup {None}, MetacontactChanged(e, t)
       PROVE  NameInv'
  <2> DEFINE n == einfo[e].name
             g == chead[econtact[e]]
  <2>1. n \in Name \cup {None} /\ g \in groups
    <3>1. e \in entries
      BY <1>27 DEF MetacontactChanged
    <3> QED
      BY <3>1 DEF NameInv, Info, EntryInv, GroupInv
  <2>2. /\ UNCHANGED <<groups, gname, ejid>> /\ crashed' \in BOOLEAN
        /\ \/ UNCHANGED <<contactVars, einfo>>
           \/ \E gone : ContactsAfter(gone, {}, None, None) /\ UNCHANGED einfo
           \/ \E h \in Namesakes(g), c \in Contact : \E gone :
                 /\ ContactFor(n, h, c) /\ ContactsAfter(gone, {c}, g, n)
                 /\ einfo' = Joined(c, g)
    BY <1>27, Zenon DEF MetacontactChanged, Crash, Running, groupVars, entryVars
  <2>3. ASSUME NEW h \in Namesakes(g), NEW c \in Contact, ContactFor(n, h, c)
        PROVE  Joined(c, g) \in [Entry -> Info]
    <3>1. CASE g \in UserGroup
      BY <2>1, <3>1, InfosJoined
    <3>2. CASE g \notin UserGroup
      <4>1. h = g
        BY <2>3, <3>2 DEF Namesakes
      <4>2. c \in members[g] \/ centries[c] = {}
        BY <2>3, <4>1 DEF ContactFor, ContactsNamed, EntryInv
      <4> QED
        BY <4>2 DEF Joined, NameInv
    <3> QED
      BY <3>1, <3>2
  <2> HIDE DEF n, g
  <2>4. cname' \in [Contact -> Name \cup {None}]
    BY <2>1, <2>2, ContactsNames DEF NameInv, contactVars
  <2>5. einfo' \in [Entry -> Info]
    BY <2>2, <2>3 DEF NameInv
  <2> QED
    BY <2>2, <2>4, <2>5 DEF NameInv
<1>28. CASE UNCHANGED vars
  BY <1>1, <1>28 DEF NameInv, vars, groupVars, contactVars, entryVars
<1>50. ASSUME NEW a \in Account, NEW j \in JID, NEW i \in Item, ItemListedEmpty(a, j, i)
       PROVE  NameInv'
  BY <1>1, <1>50, ListedEmpty DEF groupVars, contactVars, entryVars
<1>29. CASE GuiCall
  BY <1>29, <1>2, <1>4, <1>5, <1>6, <1>8, <1>9, <1>10, <1>11, <1>12, <1>13, <1>14,
     <1>15, <1>16, <1>17, <1>18, Zenon DEF GuiCall, rosterEntryChangeContact
<1>30. CASE ServerPush
  <2>1. \A j \in JID : \A n \in ContactName \cup {j} : j \in Name /\ n \in Name
    BY DEF Name
  <2> QED
    BY <1>30, <2>1, <1>19, <1>20, <1>22, <1>23, <1>24, <1>25, <1>26, <1>27, <1>50, Zenon
       DEF ServerPush, SubscriptionReceived, MessageReceived
<1> QED
  BY <1>28, <1>29, <1>30 DEF Next

\* Whatever deletes an object takes it out of everything.
LEMMA NextDead ==
    ASSUME DeadInv, GroupInv, EntryInv, AccountInv, [Next]_vars
    PROVE  DeadInv'
<1> DEFINE ContactsOut == \A c \in Contact \ contacts : cgroups[c] = {} /\ chead[c] = None
           EntriesOut == \A e \in Entry \ entries : eaccount[e] = None /\ econtact[e] = None
<1>1. ASSUME UNCHANGED <<contacts, cgroups, chead>> PROVE ContactsOut'
  BY <1>1 DEF DeadInv
<1>2. ASSUME UNCHANGED <<entries, eaccount, econtact>> PROVE EntriesOut'
  BY <1>2 DEF DeadInv
<1>3. ASSUME NEW gone, NEW new, NEW g, NEW n, ContactsAfter(gone, new, g, n)
      PROVE  ContactsOut'
  BY <1>3, ContactsDead
<1>4. ASSUME NEW lost, EntriesWithout(lost) PROVE EntriesOut'
  BY <1>4, EntriesGoneDead
<1>5. ASSUME NEW e \in Entry, NEW c, EntryIn(e, c),
             \/ e \in entries /\ UNCHANGED <<entries, eaccount>>
             \/ \E a, x, i : NewEntry(e, a, x, i)
      PROVE  EntriesOut'
  BY <1>5, EntryInDead
<1>6. ContactsOut' /\ EntriesOut' => DeadInv'
  BY DEF DeadInv
<1> HIDE DEF ContactsOut, EntriesOut
<1>7. ASSUME NEW a \in Account, setAccount(a) PROVE DeadInv'
  BY <1>1, <1>2, <1>6, <1>7 DEF setAccount, contactVars, entryVars
<1>8. ASSUME NEW lost, NEW gone, NEW empty, RemoveAll(lost, gone, empty) PROVE DeadInv'
  BY <1>3, <1>4, <1>6, <1>8 DEF RemoveAll
<1>9. ASSUME NEW a \in Account, removeAccount(a) PROVE DeadInv'
  <2>1. \/ UNCHANGED <<contactVars, entryVars>>
        \/ \E lost, gone, empty : RemoveAll(lost, gone, empty)
    BY <1>9, Zenon DEF removeAccount
  <2> QED
    BY <1>1, <1>2, <1>6, <1>8, <2>1 DEF contactVars, entryVars
<1>10. ASSUME NEW n \in GroupName, rosterGroupAdd(n) PROVE DeadInv'
  BY <1>1, <1>2, <1>6, <1>10 DEF rosterGroupAdd, contactVars, entryVars
<1>11. ASSUME NEW g \in UserGroup, NEW n \in GroupName, rosterGroupRename(g, n)
       PROVE  DeadInv'
  BY <1>1, <1>2, <1>6, <1>11 DEF rosterGroupRename, contactVars
<1>12. ASSUME NEW g, NEW cs, cs \subseteq contacts, LeaveGroup(cs, g) PROVE DeadInv'
  <2>1. PICK h : chead' = [c \in Contact |-> IF c \in cs THEN h[c] ELSE chead[c]]
    BY <1>12 DEF LeaveGroup
  <2>2. \A c \in Contact \ contacts : cgroups'[c] = cgroups[c] /\ chead'[c] = chead[c]
    BY <1>12, <2>1 DEF LeaveGroup
  <2> QED
    BY <1>12, <2>2 DEF LeaveGroup, DeadInv
<1>13. ASSUME NEW g \in UserGroup, rosterGroupRemove(g) PROVE DeadInv'
  <2>1. members[g] \subseteq contacts
    BY DEF GroupInv, Group
  <2> QED
    BY <1>12, <1>13, <2>1 DEF rosterGroupRemove
<1>18. ASSUME NEW c \in Contact, NEW g \in Group, rosterContactAddGroup(c, g)
       PROVE  DeadInv'
  BY <1>18 DEF DeadInv, GroupInv, rosterContactAddGroup
<1>14. ASSUME NEW g \in Group, NEW n \in Name, rosterContactAdd(g, n) PROVE DeadInv'
  <2>1. CASE \E c \in contacts : rosterContactAddGroup(c, g)
    BY <1>18, <2>1 DEF EntryInv
  <2>2. CASE (\E c : ContactsAfter({}, {c}, g, n)) /\ UNCHANGED entryVars
    BY <1>2, <1>3, <1>6, <2>2 DEF entryVars
  <2> QED
    BY <1>14, <2>1, <2>2, AddCases
<1>15. ASSUME NEW c \in Contact, rosterContactRemove(c) PROVE DeadInv'
  BY <1>3, <1>4, <1>6, <1>15 DEF rosterContactRemove
<1>16. ASSUME NEW c \in Contact, NEW n \in Name, rosterContactRename(c, n) PROVE DeadInv'
  BY <1>1, <1>2, <1>6, <1>16 DEF rosterContactRename
<1>17. ASSUME NEW c \in Contact, rosterContactSetMetacontactOrder(c) PROVE DeadInv'
  BY <1>1, <1>2, <1>6, <1>17 DEF rosterContactSetMetacontactOrder, contactVars, entryVars
<1>19. ASSUME NEW c \in Contact, NEW g \in Group, rosterContactChangeGroup(c, g)
       PROVE  DeadInv'
  <2>1. PICK h : chead' = [chead EXCEPT ![c] = h]
    BY <1>19 DEF rosterContactChangeGroup
  <2>2. \A x \in Contact \ contacts : cgroups'[x] = cgroups[x] /\ chead'[x] = chead[x]
    BY <1>19, <2>1 DEF rosterContactChangeGroup, GroupInv
  <2> QED
    BY <1>19, <2>2 DEF rosterContactChangeGroup, DeadInv
<1>20. ASSUME NEW c \in Contact, NEW g \in Group, rosterContactRemoveGroup(c, g)
       PROVE  DeadInv'
  <2>1. {c} \subseteq contacts /\ LeaveGroup({c}, g)
    BY <1>20 DEF rosterContactRemoveGroup
  <2> QED
    BY <1>12, <2>1
<1>21. ASSUME NEW e \in entries, NEW c, NEW gone, ChangeContact(e, c, gone) PROVE DeadInv'
  <2>1. e \in Entry
    BY DEF EntryInv
  <2>2. /\ EntryIn(e, c) /\ ContactsAfter(gone, {}, None, None)
        /\ UNCHANGED <<entries, eaccount>>
    BY <1>21 DEF ChangeContact
  <2> QED
    BY <1>3, <1>5, <1>6, <2>1, <2>2
<1>22. ASSUME NEW e \in Entry, NEW c \in Contact, rosterEntryChangeContact(e, c)
       PROVE  DeadInv'
  BY <1>21, <1>22 DEF rosterEntryChangeContact
<1>23. ASSUME NEW c \in Contact, NEW a \in Account, NEW x \in Address,
              rosterEntryAdd(c, a, x)
       PROVE  DeadInv'
  <2>1. \/ \E e \in EntriesOf(a, x) : ChangeContact(e, c, Emptied(e))
        \/ /\ \E e \in Entry : EntryIn(e, c) /\ \E i : NewEntry(e, a, x, i)
           /\ UNCHANGED <<contacts, cgroups, chead>>
    BY <1>23, Zenon DEF rosterEntryAdd
  <2>2. EntriesOf(a, x) \subseteq entries
    BY DEF EntriesOf
  <2> QED
    BY <1>1, <1>5, <1>6, <1>21, <2>1, <2>2
<1>24. ASSUME NEW e \in Entry, rosterEntryRemove(e) PROVE DeadInv'
  BY <1>1, <1>4, <1>6, <1>24 DEF rosterEntryRemove
<1>25. CASE deleteEmptyGroups
  BY <1>1, <1>2, <1>6, <1>25 DEF deleteEmptyGroups, contactVars, entryVars
<1>26. ASSUME NEW a \in Account, removeAllContactEntriesForTransport(a) PROVE DeadInv'
  <2>1. \E lost, gone, empty : RemoveAll(lost, gone, empty)
    BY <1>26, Zenon DEF removeAllContactEntriesForTransport
  <2> QED
    BY <1>8, <2>1
<1>27. ASSUME NEW a \in Account, NEW j \in JID, NEW i \in Item, ItemAdded(a, j, i)
       PROVE  DeadInv'
  <2>1. PICK e \in Entry, c \in Contact : \E g, n, m :
           /\ ContactsAfter({}, {c} \ contacts, g, n)
           /\ NewEntry(e, a, j, m) /\ EntryIn(e, c)
    BY <1>27, Zenon DEF ItemAdded
  <2> QED
    BY <1>3, <1>5, <1>6, <2>1
<1>28. ASSUME NEW a \in Account, NEW j \in JID, NEW i \in Item, ItemListed(a, j, i)
       PROVE  DeadInv'
  <2>1. PICK e \in EntriesOf(a, j), g \in Group :
            LET c == econtact[e] IN
            /\ cgroups' = [cgroups EXCEPT ![c] = (@ \ {NotInList}) \cup {g}]
            /\ \E h : chead' = [chead EXCEPT ![c] = h]
            /\ UNCHANGED <<contacts, entries, eaccount, econtact>>
    BY <1>28, Zenon DEF ItemListed
  <2>2. econtact[e] \in contacts
    BY DEF EntryInv, EntriesOf
  <2> QED
    BY <2>1, <2>2 DEF DeadInv, GroupInv
<1>29. ASSUME NEW a \in Account, NEW j \in JID, NEW i \in Item, ItemUpdated(a, j, i)
       PROVE  DeadInv'
  <2>1. \/ UNCHANGED <<contactVars, entries, eaccount, econtact>>
        \/ \E e \in EntriesOf(a, j), c \in Contact : \E gone, g, n :
              /\ EntryIn(e, c) /\ UNCHANGED <<entries, eaccount>>
              /\ ContactsAfter(gone, {c} \ contacts, g, n)
    BY <1>29, Zenon DEF ItemUpdated, Crash, entryVars
  <2>2. EntriesOf(a, j) \subseteq entries /\ entries \subseteq Entry
    BY DEF EntriesOf, EntryInv
  <2> QED
    BY <1>1, <1>2, <1>3, <1>5, <1>6, <2>1, <2>2 DEF contactVars
<1>30. ASSUME NEW a \in Account, NEW j \in JID, ItemRemoved(a, j) PROVE DeadInv'
  <2>1. \E e : EntriesWithout({e}) /\ ContactsAfter(Emptied(e), {}, None, None)
    BY <1>30 DEF ItemRemoved
  <2> QED
    BY <1>3, <1>4, <1>6, <2>1
<1>31. ASSUME NEW a \in Account, NEW j \in JID, NEW n, NEW m, StrangerAdded(a, j, n, m)
       PROVE  DeadInv'
  <2>1. PICK e \in Entry : \E c, i : /\ ContactsAfter({}, {c}, NotInList, n)
                                      /\ NewEntry(e, a, j, i) /\ EntryIn(e, c)
    BY <1>31, Zenon DEF StrangerAdded
  <2> QED
    BY <1>3, <1>5, <1>6, <2>1
<1>32. ASSUME NEW e \in Entry, NEW t \in Tag \cup {None}, MetacontactChanged(e, t)
       PROVE  DeadInv'
  <2>1. \/ UNCHANGED <<contactVars, entryVars>>
        \/ \E c, gone, new, g, n : /\ EntryIn(e, c) /\ UNCHANGED <<entries, eaccount>>
                                   /\ ContactsAfter(gone, new, g, n)
    BY <1>32, Zenon DEF MetacontactChanged, Crash
  <2>2. e \in entries
    BY <1>32 DEF MetacontactChanged
  <2> QED
    BY <1>1, <1>2, <1>3, <1>5, <1>6, <2>1, <2>2 DEF contactVars, entryVars
<1>33. CASE UNCHANGED vars
  BY <1>1, <1>2, <1>6, <1>33 DEF vars, contactVars, entryVars
<1>50. ASSUME NEW a \in Account, NEW j \in JID, NEW i \in Item, ItemListedEmpty(a, j, i)
       PROVE  DeadInv'
  BY <1>1, <1>2, <1>6, <1>50, ListedEmpty DEF contactVars, entryVars
<1>34. CASE GuiCall
  BY <1>34, <1>7, <1>9, <1>10, <1>11, <1>13, <1>14, <1>15, <1>16, <1>17, <1>18, <1>19,
     <1>20, <1>22, <1>23, <1>24, Zenon DEF GuiCall
<1>35. CASE ServerPush
  BY <1>35, <1>25, <1>26, <1>27, <1>28, <1>29, <1>30, <1>31, <1>32, <1>50, Zenon
     DEF ServerPush, SubscriptionReceived, MessageReceived
<1> QED
  BY <1>33, <1>34, <1>35 DEF Next

\* The values that the fields of the objects have, and an object that was deleted in
\* nothing any more.
THEOREM TypeCorrect == Spec => []TypeOK
<1> DEFINE Inv == RosterInv /\ NameInv /\ DeadInv
<1>1. Init => Inv
  <2> SUFFICES ASSUME Init PROVE NameInv /\ DeadInv
    BY InitGroups, InitEntries, InitTags DEF RosterInv, Init, AccountInv
  <2>1. NameInv
    BY RosterAssumption DEF Init, NameInv, NoInfo, Info
  <2>2. DeadInv
    BY DEF Init, DeadInv
  <2> QED
    BY <2>1, <2>2
<1>2. Inv /\ [Next]_vars => Inv'
  BY NextGroups, NextEntries, NextTags, NextAccounts, NextNames, NextDead DEF RosterInv
<1>3. Inv => TypeOK
  <2> SUFFICES ASSUME RosterInv, NameInv, DeadInv PROVE TypeOK
    OBVIOUS
  <2> USE DEF RosterInv
  <2>1. /\ accounts \subseteq Account /\ crashed \in BOOLEAN
        /\ groups \subseteq Group /\ {NoGroup, NotInList} \subseteq groups
        /\ contacts \subseteq Contact /\ entries \subseteq Entry
    BY DEF AccountInv, GroupInv, EntryInv, NameInv
  <2>2. /\ gname \in [UserGroup -> GroupName \cup {None}]
        /\ cname \in [Contact -> Name \cup {None}]
        /\ ejid \in [Entry -> Address \cup {None}] /\ einfo \in [Entry -> Info]
        /\ ctag \in [Contact -> Tag \cup {None}] /\ tagOwner \in [Tag -> contacts \cup {None}]
    BY DEF NameInv, TagInv
  <2>3. members \in [Group -> SUBSET contacts]
    BY DEF GroupInv
  <2>4. cgroups \in [Contact -> SUBSET groups] /\ chead \in [Contact -> groups \cup {None}]
    BY DEF GroupInv, DeadInv
  <2>5. centries \in [Contact -> SUBSET entries]
    BY DEF EntryInv
  <2>6. /\ eaccount \in [Entry -> accounts \cup {None}]
        /\ econtact \in [Entry -> contacts \cup {None}]
    BY DEF EntryInv, AccountInv, DeadInv
  <2> QED
    BY <2>1, <2>2, <2>3, <2>4, <2>5, <2>6 DEF TypeOK
<1> QED
  BY <1>1, <1>2, <1>3, PTL DEF Spec

----------------------------------------------------------------------------
(* Main groups. *)

\* What MainGroupShown says of one entry.
Shows(e) == LET main == einfo[e].main IN
    main # None => /\ main \in einfo[e].groups
                   /\ \E g \in cgroups[econtact[e]] \cap UserGroup : gname[g] = main

\* No metacontact tag moves an entry to another contact.
NoTagMoves == \A e \in Entry, t \in Tag \cup {None} :
                  MetacontactChanged(e, t) => UNCHANGED econtact

LEMMA ShownIsShows == MainGroupShown <=> \A e \in entries : Shows(e)
  BY DEF MainGroupShown, Shows

LEMMA ShownPrimed == MainGroupShown' <=> \A e \in entries' : Shows(e)'
  BY DEF MainGroupShown, Shows

\* An entry that says what it said is shown where its contact keeps its groups and they
\* keep their names.
LEMMA ShowsStill ==
    ASSUME NEW e, Shows(e), einfo'[e] = einfo[e],
           \A g \in cgroups[econtact[e]] \cap UserGroup :
               g \in cgroups'[econtact'[e]] /\ gname'[g] = gname[g]
    PROVE  Shows(e)'
  BY DEF Shows

\* So it is when contacts are made and deleted, and groups that it is not in.
LEMMA ShowsThrough ==
    ASSUME EntryInv, EntryInv', NEW e \in entries, Shows(e), e \in entries',
           UNCHANGED <<einfo[e], econtact[e]>>,
           NEW gone, NEW new, new \cap contacts = {}, NEW g, NEW n,
           ContactsAfter(gone, new, g, n),
           \A x \in cgroups[econtact[e]] \cap UserGroup : gname'[x] = gname[x]
    PROVE  Shows(e)'
<1>1. econtact[e] \in contacts /\ econtact[e] \in Contact /\ econtact'[e] \in contacts'
  BY DEF EntryInv
<1>2. cgroups'[econtact[e]] = cgroups[econtact[e]]
  BY <1>1 DEF ContactsAfter
<1> QED
  BY <1>2, ShowsStill

\* The groups of a contact keep their names when another one is made, and when groups
\* without contacts go.
LEMMA NamesThroughMade ==
    ASSUME GroupInv, NEW c \in contacts, NEW g, NEW n, WithGroup(g, n), NameInv
    PROVE  \A x \in cgroups[c] \cap UserGroup : gname'[x] = gname[x]
  BY DEF GroupInv, WithGroup, NameInv

LEMMA NamesThroughGone ==
    ASSUME GroupInv, NEW gone, NEW empty, \A x \in empty : x \in Group /\ members[x] \subseteq gone,
           NEW c \in contacts \ gone, GroupsWithout(empty)
    PROVE  \A x \in cgroups[c] \cap UserGroup : gname'[x] = gname[x]
  BY DEF GroupInv, GroupsWithout

\* A contact leaves a group: its entries leave the group's name.
LEMMA LeaveShown ==
    ASSUME MainGroupShown, GroupInv, EntryInv, NameInv, NEW g \in groups, NEW cs,
           cs \subseteq contacts, LeaveGroup(cs, g),
           \/ gname' = gname
           \/ cs = members[g] /\ g \in UserGroup /\ GroupsWithout({g})
    PROVE  MainGroupShown'
<1> SUFFICES ASSUME NEW e \in entries' PROVE Shows(e)'
  BY ShownPrimed
<1>1. /\ e \in entries /\ e \in Entry /\ econtact'[e] = econtact[e] /\ Shows(e)
      /\ econtact[e] \in contacts /\ econtact[e] \in Contact
      /\ \A c \in Contact : e \in centries[c] <=> econtact[e] = c
  BY ShownIsShows DEF LeaveGroup, EntryInv
<1> DEFINE c == econtact[e]
<1>2. cgroups'[c] = IF c \in cs THEN GroupsLeft(c, g) ELSE cgroups[c]
  BY <1>1 DEF LeaveGroup
<1>3. \A x \in cgroups[c] \ {g} : x \in cgroups'[c]
  BY <1>2 DEF GroupsLeft
<1>4. \A x \in UserGroup \ {g} : gname'[x] = gname[x]
  BY DEF GroupsWithout
<1>5. CASE c \notin cs
  <2>1. einfo'[e] = einfo[e]
    <3>1. ~(\E x \in cs : e \in centries[x])
      <4> SUFFICES ASSUME NEW x \in cs, e \in centries[x] PROVE FALSE
        OBVIOUS
      <4>1. x \in Contact
        BY <1>1 DEF EntryInv
      <4> QED
        BY <1>1, <1>5, <4>1
    <3> QED
      BY <1>1, <3>1 DEF LeaveGroup
  <2>2. \A x \in cgroups[c] \cap UserGroup : x \in cgroups'[c] /\ gname'[x] = gname[x]
    <3>1. cgroups'[c] = cgroups[c]
      BY <1>2, <1>5
    <3>2. cs = members[g] => g \notin cgroups[c]
      BY <1>1, <1>5 DEF GroupInv
    <3> QED
      BY <1>4, <3>1, <3>2
  <2> QED
    BY <1>1, <2>1, <2>2, ShowsStill
<1>6. CASE c \in cs /\ g \notin UserGroup
  <2>1. einfo'[e] = einfo[e]
    BY <1>1, <1>6 DEF LeaveGroup
  <2> QED
    BY <1>1, <1>3, <1>4, <1>6, <2>1, ShowsStill
<1>7. CASE c \in cs /\ g \in UserGroup
  <2>1. einfo'[e] = Leaving(einfo[e], gname[g])
    BY <1>1, <1>7 DEF LeaveGroup
  <2>2. einfo'[e].groups = einfo[e].groups \ {gname[g]}
        /\ einfo'[e].main = IF einfo[e].main = gname[g] THEN None ELSE einfo[e].main
    BY <1>1, <2>1 DEF Leaving, NameInv, Info
  <2> QED
    BY <1>1, <1>3, <1>4, <2>2 DEF Shows
<1> QED
  BY <1>5, <1>6, <1>7

LEMMA NextShown ==
    ASSUME MainGroupShown, GroupInv, EntryInv, EntryInv', NameInv, DeadInv, AccountInv,
           [Next]_vars, NoTagMoves \/ UNCHANGED vars
    PROVE  MainGroupShown'
<1>1. ASSUME UNCHANGED <<gname, cgroups, entries, econtact, einfo>> PROVE MainGroupShown'
  BY <1>1 DEF MainGroupShown
<1>2. /\ \A e \in entries : Shows(e) /\ e \in Entry /\ econtact[e] \in contacts
                            /\ econtact[e] \in Contact
      /\ \A e \in entries, c \in Contact : e \in centries[c] <=> econtact[e] = c
      /\ \A e \in entries' : econtact'[e] \in contacts'
      /\ einfo \in [Entry -> Info] /\ econtact \in [Entry -> Contact \cup {None}]
  BY ShownIsShows DEF EntryInv, NameInv
<1>3. (\A e \in entries' : Shows(e)') => MainGroupShown'
  BY ShownPrimed
<1>4. ASSUME NEW a \in Account, setAccount(a) PROVE MainGroupShown'
  BY <1>1, <1>4 DEF setAccount, groupVars, contactVars, entryVars
<1>5. ASSUME NEW some, NEW lost, NEW gone, NEW empty \in SUBSET UserGroup,
             FoundEmpty(some, gone, empty), RemoveAll(lost, gone, empty)
      PROVE  MainGroupShown'
  <2>1. \A x \in empty : x \in Group /\ members[x] \subseteq gone
    BY <1>5 DEF FoundEmpty, Group
  <2>2. EntriesWithout(lost) /\ ContactsAfter(gone, {}, None, None) /\ GroupsWithout(empty)
    BY <1>5 DEF RemoveAll
  <2>3. ASSUME NEW e \in entries' PROVE Shows(e)'
    <3>1. e \in entries /\ UNCHANGED <<einfo[e], econtact[e]>>
      BY <1>2, <2>2 DEF EntriesWithout
    <3>2. econtact[e] \in contacts \ gone
      BY <1>2, <2>2, <3>1 DEF ContactsAfter
    <3>3. \A x \in cgroups[econtact[e]] \cap UserGroup : gname'[x] = gname[x]
      BY <2>1, <2>2, <3>2, NamesThroughGone
    <3> QED
      BY <1>2, <2>2, <3>1, <3>3, ShowsThrough
  <2> QED
    BY <1>3, <2>3
<1>6. ASSUME NEW a \in Account, removeAccount(a) PROVE MainGroupShown'
  <2>1. \/ UNCHANGED <<groupVars, contactVars, entryVars>>
        \/ \E lost, gone : \E empty \in SUBSET UserGroup :
              FoundEmpty(lost, gone, empty) /\ RemoveAll(lost, gone, empty)
    BY <1>6, Zenon DEF removeAccount
  <2> QED
    BY <1>1, <1>5, <2>1 DEF groupVars, contactVars, entryVars
<1>7. ASSUME NEW n \in GroupName, rosterGroupAdd(n) PROVE MainGroupShown'
  <2>1. PICK g \in UserGroup \ groups : WithGroup(g, n)
    BY <1>7 DEF rosterGroupAdd
  <2>2. UNCHANGED <<cgroups, entries, econtact, einfo>>
    BY <1>7 DEF rosterGroupAdd, contactVars, entryVars
  <2>3. ASSUME NEW e \in entries' PROVE Shows(e)'
    BY <1>2, <2>1, <2>2, NamesThroughMade, ShowsStill
  <2> QED
    BY <1>3, <2>3
<1>8. ASSUME NEW g \in UserGroup, NEW n \in GroupName, rosterGroupRename(g, n)
      PROVE  MainGroupShown'
  <2>1. /\ gname' = [gname EXCEPT ![g] = n] /\ UNCHANGED <<cgroups, entries, econtact>>
        /\ einfo' = [e \in Entry |->
             IF \E c \in members[g] : e \in centries[c]
             THEN [einfo[e] EXCEPT !.groups = (@ \ {gname[g]}) \cup {n},
                                   !.main = IF @ = gname[g] THEN n ELSE @]
             ELSE einfo[e]]
    BY <1>8 DEF rosterGroupRename, contactVars
  <2>2. gname' \in [UserGroup -> GroupName \cup {None}] /\ gname'[g] = n
        /\ \A x \in UserGroup \ {g} : gname'[x] = gname[x]
    BY <2>1 DEF NameInv
  <2>3. ASSUME NEW e \in entries' PROVE Shows(e)'
    <3> DEFINE c == econtact[e]
    <3>1. e \in entries /\ e \in Entry /\ Shows(e) /\ c \in contacts /\ c \in Contact
          /\ econtact'[e] = c /\ cgroups'[c] = cgroups[c]
      BY <1>2, <2>1
    <3>2. g \in Group
      BY DEF Group
    <3>3. (\E x \in members[g] : e \in centries[x]) <=> g \in cgroups[c]
      <4>1. c \in members[g] <=> g \in cgroups[c]
        BY <3>1, <3>2 DEF GroupInv
      <4>2. \A x \in members[g] : x \in Contact
        BY <3>2 DEF GroupInv
      <4> QED
        BY <1>2, <3>1, <4>1, <4>2
    <3>4. CASE g \notin cgroups[c]
      <4>1. einfo'[e] = einfo[e]
        BY <2>1, <3>1, <3>3, <3>4
      <4> QED
        BY <2>2, <3>1, <3>4, <4>1, ShowsStill
    <3>5. CASE g \in cgroups[c]
      <4>1. /\ einfo'[e].groups = (einfo[e].groups \ {gname[g]}) \cup {n}
            /\ einfo'[e].main = IF einfo[e].main = gname[g] THEN n ELSE einfo[e].main
        <5>1. einfo'[e] = [einfo[e] EXCEPT !.groups = (@ \ {gname[g]}) \cup {n},
                                           !.main = IF @ = gname[g] THEN n ELSE @]
          BY <2>1, <3>1, <3>3, <3>5
        <5> QED
          BY <1>2, <3>1, <5>1 DEF Info
      <4>2. CASE einfo[e].main = gname[g]
        BY <2>2, <3>1, <3>5, <4>1, <4>2 DEF Shows
      <4>3. CASE einfo[e].main # gname[g]
        BY <2>2, <3>1, <4>1, <4>3 DEF Shows
      <4> QED
        BY <4>2, <4>3
    <3> QED
      BY <3>4, <3>5
  <2> QED
    BY <1>3, <2>3
<1>9. ASSUME NEW g \in UserGroup, rosterGroupRemove(g) PROVE MainGroupShown'
  <2>1. members[g] \subseteq contacts /\ g \in groups
    BY <1>9 DEF GroupInv, Group, rosterGroupRemove
  <2>2. LeaveGroup(members[g], g) /\ GroupsWithout({g})
    BY <1>9 DEF rosterGroupRemove
  <2> QED
    BY <2>1, <2>2, LeaveShown
<1>14. ASSUME NEW c \in Contact, NEW g \in Group, rosterContactAddGroup(c, g)
       PROVE  MainGroupShown'
  <2>1. /\ g \in UserGroup /\ UNCHANGED <<gname, entries, econtact>>
        /\ cgroups' = [cgroups EXCEPT ![c] = @ \cup {g}]
        /\ einfo' = [e \in Entry |-> IF e \in centries[c] THEN Joining(einfo[e], gname[g])
                                     ELSE einfo[e]]
    BY <1>14 DEF rosterContactAddGroup, Joined, GroupInv, Group
  <2>2. \A x \in Contact : cgroups[x] \subseteq cgroups'[x] /\ g \in cgroups'[c]
    BY <2>1 DEF GroupInv
  <2>3. ASSUME NEW e \in entries' PROVE Shows(e)'
    <3>1. e \in entries /\ e \in Entry /\ Shows(e) /\ econtact[e] \in Contact
          /\ econtact'[e] = econtact[e] /\ einfo[e] \in Info
      BY <1>2, <2>1
    <3>2. CASE e \notin centries[c]
      <4>1. einfo'[e] = einfo[e]
        BY <2>1, <3>1, <3>2
      <4> QED
        BY <2>1, <2>2, <3>1, <4>1, ShowsStill
    <3>3. CASE e \in centries[c]
      <4>1. /\ einfo'[e].groups = einfo[e].groups \cup {gname[g]}
            /\ einfo'[e].main = IF einfo[e].main = None THEN gname[g] ELSE einfo[e].main
        BY <2>1, <3>1, <3>3 DEF Joining, Info
      <4>2. econtact[e] = c
        BY <1>2, <3>1, <3>3
      <4> QED
        BY <2>1, <2>2, <3>1, <4>1, <4>2 DEF Shows
    <3> QED
      BY <3>2, <3>3
  <2> QED
    BY <1>3, <2>3
<1>10. ASSUME NEW g \in Group, NEW n \in Name, rosterContactAdd(g, n) PROVE MainGroupShown'
  <2>1. CASE \E c \in contacts : rosterContactAddGroup(c, g)
    BY <1>14, <2>1 DEF GroupInv
  <2>2. ASSUME NEW c \in Contact \ contacts, ContactsAfter({}, {c}, g, n),
               UNCHANGED <<gname, entryVars>>
        PROVE  MainGroupShown'
    <3>1. {c} \cap contacts = {} /\ UNCHANGED <<gname, entries, econtact, einfo>>
      BY <2>2 DEF entryVars
    <3>2. ASSUME NEW e \in entries' PROVE Shows(e)'
      BY <1>2, <2>2, <3>1, ShowsThrough
    <3> QED
      BY <1>3, <3>2
  <2> QED
    BY <1>10, <2>1, <2>2, AddCases
<1>11. ASSUME NEW c \in Contact, rosterContactRemove(c) PROVE MainGroupShown'
  <2>1. /\ EntriesWithout(centries[c]) /\ ContactsAfter({c}, {}, None, None)
        /\ UNCHANGED gname
    BY <1>11 DEF rosterContactRemove
  <2>2. ASSUME NEW e \in entries' PROVE Shows(e)'
    <3>1. e \in entries /\ UNCHANGED <<einfo[e], econtact[e]>>
      BY <1>2, <2>1 DEF EntriesWithout
    <3> QED
      BY <1>2, <2>1, <3>1, ShowsThrough
  <2> QED
    BY <1>3, <2>2
<1>12. ASSUME NEW c \in Contact, NEW n \in Name, rosterContactRename(c, n)
       PROVE  MainGroupShown'
  <2>1. /\ UNCHANGED <<gname, cgroups, entries, econtact>>
        /\ einfo' = [e \in Entry |-> IF e \in centries[c] THEN [einfo[e] EXCEPT !.name = n]
                                     ELSE einfo[e]]
    BY <1>12 DEF rosterContactRename, groupVars
  <2>2. \A e \in Entry : einfo'[e].main = einfo[e].main /\ einfo'[e].groups = einfo[e].groups
    BY <1>2, <2>1 DEF Info
  <2>3. ASSUME NEW e \in entries' PROVE Shows(e)'
    <3>1. e \in Entry /\ Shows(e)
      BY <1>2, <2>1
    <3> QED
      BY <2>1, <2>2, <3>1 DEF Shows
  <2> QED
    BY <1>3, <2>3
<1>13. ASSUME NEW c \in Contact, rosterContactSetMetacontactOrder(c) PROVE MainGroupShown'
  BY <1>1, <1>13
     DEF rosterContactSetMetacontactOrder, groupVars, contactVars, entryVars
<1>15. ASSUME NEW c \in Contact, NEW g \in Group, rosterContactChangeGroup(c, g)
       PROVE  MainGroupShown'
  <2> DEFINE old == chead[c]
             left(e) == IF old \in UserGroup THEN Leaving(einfo[e], gname[old]) ELSE einfo[e]
  <2>1. /\ UNCHANGED <<gname, entries, econtact>>
        /\ cgroups' = [cgroups EXCEPT ![c] = (@ \ {old}) \cup {g}]
        /\ einfo' = [e \in Entry |-> IF e \notin centries[c] THEN einfo[e]
                                     ELSE IF g \in UserGroup THEN Joining(left(e), gname[g])
                                     ELSE left(e)]
    BY <1>15 DEF rosterContactChangeGroup
  <2>2. /\ cgroups'[c] = (cgroups[c] \ {old}) \cup {g}
        /\ \A x \in Contact \ {c} : cgroups'[x] = cgroups[x]
    BY <2>1 DEF GroupInv
  <2>3. ASSUME NEW e \in entries' PROVE Shows(e)'
    <3>1. e \in entries /\ e \in Entry /\ Shows(e) /\ econtact[e] \in Contact
          /\ econtact'[e] = econtact[e] /\ einfo[e] \in Info
      BY <1>2, <2>1
    <3>2. CASE e \notin centries[c]
      <4>1. einfo'[e] = einfo[e] /\ econtact[e] # c
        BY <1>2, <2>1, <3>1, <3>2
      <4> QED
        BY <2>1, <2>2, <3>1, <4>1, ShowsStill
    <3>3. CASE e \in centries[c]
      <4>1. econtact[e] = c
        BY <1>2, <3>1, <3>3
      <4>2. /\ left(e) \in Info
            /\ left(e).main # None =>
                 /\ left(e).main \in left(e).groups
                 /\ \E x \in (cgroups[c] \ {old}) \cap UserGroup : gname[x] = left(e).main
        <5>1. CASE old \in UserGroup
          <6>1. left(e) = Leaving(einfo[e], gname[old])
            BY <5>1
          <6>2. left(e) \in Info /\ left(e).groups = einfo[e].groups \ {gname[old]}
                /\ left(e).main = IF einfo[e].main = gname[old] THEN None ELSE einfo[e].main
            BY <3>1, <6>1, InfosLeave DEF Leaving, Info
          <6> HIDE DEF left
          <6> QED
            BY <3>1, <4>1, <6>2 DEF Shows
        <5>2. CASE old \notin UserGroup
          <6>1. left(e) = einfo[e]
            BY <5>2
          <6> HIDE DEF left
          <6> QED
            BY <3>1, <4>1, <5>2, <6>1 DEF Shows
        <5> QED
          BY <5>1, <5>2
      <4> HIDE DEF left
      <4>3. CASE g \in UserGroup
        <5>1. /\ einfo'[e].groups = left(e).groups \cup {gname[g]}
              /\ einfo'[e].main = IF left(e).main = None THEN gname[g] ELSE left(e).main
          BY <2>1, <3>1, <3>3, <4>2, <4>3 DEF Joining, Info
        <5> QED
          BY <2>1, <2>2, <3>1, <4>1, <4>2, <4>3, <5>1 DEF Shows
      <4>4. CASE g \notin UserGroup
        <5>1. einfo'[e] = left(e)
          BY <2>1, <3>1, <3>3, <4>4
        <5> QED
          BY <2>1, <2>2, <3>1, <4>1, <4>2, <5>1 DEF Shows
      <4> QED
        BY <4>3, <4>4
    <3> QED
      BY <3>2, <3>3
  <2> QED
    BY <1>3, <2>3
<1>16. ASSUME NEW c \in Contact, NEW g \in Group, rosterContactRemoveGroup(c, g)
       PROVE  MainGroupShown'
  <2>1. {c} \subseteq contacts /\ g \in groups /\ LeaveGroup({c}, g) /\ gname' = gname
    BY <1>16 DEF rosterContactRemoveGroup, GroupInv
  <2> QED
    BY <2>1, LeaveShown
<1> DEFINE Told(e, c) == einfo'[e].main # None =>
                   /\ einfo'[e].main \in einfo'[e].groups
                   /\ \E g \in cgroups'[c] \cap UserGroup : gname'[g] = einfo'[e].main
\* An entry goes to a contact that is in its main group; the others stay.
<1>17. ASSUME NEW e \in Entry, NEW c, EntryIn(e, c), Told(e, c),
              entries' = entries \cup {e}, NEW i, einfo' = [einfo EXCEPT ![e] = i],
              \/ UNCHANGED cgroups
              \/ \E gone, new, g, n : new \cap contacts = {} /\ ContactsAfter(gone, new, g, n),
              \A f \in entries \ {e} : \A x \in cgroups[econtact[f]] \cap UserGroup :
                  gname'[x] = gname[x]
       PROVE  MainGroupShown'
  <2>1. ASSUME NEW f \in entries' PROVE Shows(f)'
    <3>1. CASE f = e
      <4>1. econtact'[e] = c
        BY <1>2, <1>17 DEF EntryIn
      <4> QED
        BY <1>17, <3>1, <4>1 DEF Shows
    <3>2. CASE f # e
      <4>1. f \in entries /\ f \in Entry
        BY <1>2, <1>17, <3>2
      <4>2. UNCHANGED <<einfo[f], econtact[f]>>
        BY <1>2, <1>17, <3>2, <4>1 DEF EntryIn
      <4>3. CASE UNCHANGED cgroups
        BY <1>2, <1>17, <3>2, <4>1, <4>2, <4>3, ShowsStill
      <4>4. CASE \E gone, new, g, n : new \cap contacts = {} /\ ContactsAfter(gone, new, g, n)
        BY <1>2, <1>17, <3>2, <4>1, <4>2, <4>4, ShowsThrough
      <4> QED
        BY <1>17, <4>3, <4>4
    <3> QED
      BY <3>1, <3>2
  <2> QED
    BY <1>3, <2>1
<1>18. ASSUME NEW e \in Entry, NEW c \in contacts, NEW gone, e \in entries, c \notin gone,
              ChangeContact(e, c, gone)
       PROVE  MainGroupShown'
  <2>1. PICK i \in Info : InfoIn(c, i) /\ einfo' = [einfo EXCEPT ![e] = i]
    BY <1>18 DEF ChangeContact
  <2>2. /\ EntryIn(e, c) /\ ContactsAfter(gone, {}, None, None)
        /\ UNCHANGED <<gname, entries>>
    BY <1>18 DEF ChangeContact
  <2>3. einfo'[e] = i
    BY <1>2, <2>1
  <2>4. i.main # None => /\ i.main \in i.groups
                         /\ \E g \in cgroups[c] \cap UserGroup : gname[g] = i.main
    BY <2>1 DEF InfoIn
  <2>5. cgroups'[c] = cgroups[c]
    BY <1>18, <2>2 DEF ContactsAfter, EntryInv
  <2>6. Told(e, c)
    BY <2>2, <2>3, <2>4, <2>5
  <2>7. entries' = entries \cup {e} /\ {} \cap contacts = {}
    BY <1>18, <2>2
  <2> HIDE DEF Told
  <2> QED
    BY <1>17, <2>1, <2>2, <2>6, <2>7
<1>19. ASSUME NEW e \in Entry, NEW c \in Contact, rosterEntryChangeContact(e, c)
       PROVE  MainGroupShown'
  BY <1>18, <1>19, Zenon DEF rosterEntryChangeContact
<1>20. ASSUME NEW c \in Contact, NEW a \in Account, NEW x \in Address, rosterEntryAdd(c, a, x)
       PROVE  MainGroupShown'
  <2> DEFINE gs == IF chead[c] \in UserGroup THEN {gname[chead[c]]} ELSE {}
             i == [name |-> cname[c], groups |-> gs,
                   main |-> IF gs = {} THEN None ELSE gname[chead[c]]]
  <2>1. CASE \E e \in EntriesOf(a, x) : econtact[e] # c /\ ChangeContact(e, c, Emptied(e))
    <3>1. PICK e \in EntriesOf(a, x) : econtact[e] # c /\ ChangeContact(e, c, Emptied(e))
      BY <2>1
    <3>2. e \in entries /\ e \in Entry /\ c \in contacts /\ c \notin Emptied(e)
      BY <1>2, <1>20, <3>1 DEF EntriesOf, Emptied, rosterEntryAdd
    <3> QED
      BY <1>18, <3>1, <3>2
  <2>2. CASE ~\E e \in EntriesOf(a, x) : econtact[e] # c /\ ChangeContact(e, c, Emptied(e))
    <3>1. PICK e \in Entry \ entries : NewEntry(e, a, x, i) /\ EntryIn(e, c)
      BY <1>20, <2>2, Zenon DEF rosterEntryAdd
    <3>2. UNCHANGED <<gname, cgroups>> /\ c \in contacts
      BY <1>20, <2>2, Zenon DEF rosterEntryAdd, groupVars
    <3>3. /\ entries' = entries \cup {e} /\ einfo' = [einfo EXCEPT ![e] = i]
          /\ einfo'[e] = i
      BY <1>2, <3>1 DEF NewEntry
    <3>4. i.main # None => /\ i.main \in i.groups /\ i.main = gname[chead[c]]
                           /\ chead[c] \in UserGroup
      OBVIOUS
    <3>5. chead[c] \in cgroups[c]
      BY <3>2 DEF GroupInv
    <3>6. Told(e, c)
      <4> HIDE DEF i
      <4> QED
        BY <3>2, <3>3, <3>4, <3>5
    <3> HIDE DEF i, Told
    <3> QED
      BY <1>17, <3>1, <3>2, <3>3, <3>6
  <2> QED
    BY <2>1, <2>2
<1>21. ASSUME NEW e \in Entry, rosterEntryRemove(e) PROVE MainGroupShown'
  <2>1. EntriesWithout({e}) /\ UNCHANGED <<gname, cgroups>>
    BY <1>21 DEF rosterEntryRemove, groupVars
  <2>2. ASSUME NEW f \in entries' PROVE Shows(f)'
    <3>1. f \in entries /\ UNCHANGED <<einfo[f], econtact[f]>>
      BY <1>2, <2>1 DEF EntriesWithout
    <3> QED
      BY <1>2, <2>1, <3>1, ShowsStill
  <2> QED
    BY <1>3, <2>2
<1>22. ASSUME deleteEmptyGroups PROVE MainGroupShown'
  <2> DEFINE empty == {g \in groups \cap UserGroup : members[g] = {}}
  <2>1. GroupsWithout(empty) /\ UNCHANGED <<cgroups, entries, econtact, einfo>>
    BY <1>22 DEF deleteEmptyGroups, contactVars, entryVars
  <2>2. \A x \in empty : x \in Group /\ members[x] \subseteq {}
    BY DEF Group
  <2> HIDE DEF empty
  <2>3. ASSUME NEW e \in entries' PROVE Shows(e)'
    <3>1. e \in entries /\ econtact[e] \in contacts \ {}
      BY <1>2, <2>1
    <3>2. \A x \in cgroups[econtact[e]] \cap UserGroup : gname'[x] = gname[x]
      BY <2>1, <2>2, <3>1, NamesThroughGone
    <3> QED
      BY <1>2, <2>1, <3>1, <3>2, ShowsStill
  <2> QED
    BY <1>3, <2>3
<1>23. ASSUME NEW a \in Account, removeAllContactEntriesForTransport(a)
       PROVE  MainGroupShown'
  <2>1. \E own, lost, gone : \E empty \in SUBSET UserGroup :
            FoundEmpty(own, gone, empty) /\ RemoveAll(lost, gone, empty)
    BY <1>23, Zenon DEF removeAllContactEntriesForTransport
  <2> QED
    BY <1>5, <2>1
\* The contact that a push names: found in the group that it names, or made there.
<1>24. ASSUME NEW m \in GroupName \cup {None}, NEW g \in Group, NEW c \in Contact, NEW n,
              NEW gone, GroupFor(m, g), ContactFor(n, g, c), WithGroup(g, m),
              ContactsAfter(gone, {c} \ contacts, g, n), c \notin gone
       PROVE  /\ m # None => \E x \in cgroups'[c] \cap UserGroup : gname'[x] = m
              /\ \A f \in entries : \A x \in cgroups[econtact[f]] \cap UserGroup :
                     gname'[x] = gname[x]
  <2>1. g \in cgroups'[c]
    <3>1. c \in contacts => g \in cgroups[c]
      <4> SUFFICES ASSUME c \in contacts PROVE g \in cgroups[c]
        OBVIOUS
      <4>1. c \in members[g]
        BY <1>24 DEF ContactFor, ContactsNamed
      <4> QED
        BY <4>1 DEF GroupInv
    <3> QED
      BY <1>24, <3>1 DEF ContactsAfter
  <2>2. m # None => g \in UserGroup /\ gname'[g] = m
    <3>1. m # None => GroupsNamed(m) = {x \in groups \cap UserGroup : gname[x] = m}
      BY DEF GroupsNamed
    <3> QED
      BY <1>24, <3>1 DEF GroupFor, WithGroup, NameInv
  <2>3. \A f \in entries : \A x \in cgroups[econtact[f]] \cap UserGroup :
            gname'[x] = gname[x]
    BY <1>2, <1>24, NamesThroughMade
  <2> QED
    BY <2>1, <2>2, <2>3
<1>25. ASSUME NEW i \in Item
       PROVE  /\ i \in Info /\ i.main \in GroupName \cup {None}
              /\ i.main # None => i.main \in i.groups
  BY DEF Item, Info
<1>26. ASSUME NEW a \in Account, NEW j \in JID, NEW i \in Item, ItemAdded(a, j, i)
       PROVE  MainGroupShown'
  <2> DEFINE n == IF i.name = None THEN j ELSE i.name
             info == [i EXCEPT !.name = n]
  <2>1. PICK e \in Entry \ entries, g \in Group, c \in Contact :
           /\ GroupFor(i.main, g) /\ ContactFor(n, g, c)
           /\ WithGroup(g, i.main) /\ ContactsAfter({}, {c} \ contacts, g, n)
           /\ NewEntry(e, a, j, info) /\ EntryIn(e, c)
    BY <1>26, Zenon DEF ItemAdded
  <2>2. info.main = i.main /\ info.groups = i.groups
    BY <1>25 DEF Info
  <2> HIDE DEF n, info
  <2>3. /\ entries' = entries \cup {e} /\ einfo' = [einfo EXCEPT ![e] = info]
        /\ einfo'[e] = info
    BY <1>2, <2>1 DEF NewEntry
  <2>4. /\ i.main # None => \E x \in cgroups'[c] \cap UserGroup : gname'[x] = i.main
        /\ \A f \in entries : \A x \in cgroups[econtact[f]] \cap UserGroup :
                     gname'[x] = gname[x]
    BY <1>24, <1>25, <2>1
  <2>5. Told(e, c)
    BY <1>25, <2>2, <2>3, <2>4
  <2>6. ({c} \ contacts) \cap contacts = {}
    OBVIOUS
  <2> HIDE DEF Told
  <2> QED
    BY <1>17, <2>1, <2>3, <2>4, <2>5, <2>6
<1>27. ASSUME NEW a \in Account, NEW j \in JID, NEW i \in Item, ItemListed(a, j, i)
       PROVE  MainGroupShown'
  <2>1. PICK e \in EntriesOf(a, j), g \in Group :
           /\ ~InList(econtact[e]) /\ GroupFor(i.main, g) /\ WithGroup(g, i.main)
           /\ cgroups' = [cgroups EXCEPT ![econtact[e]] = (@ \ {NotInList}) \cup {g}]
           /\ \E early : einfo' = [x \in Entry |->
                IF x \notin centries[econtact[e]] THEN einfo[x]
                ELSE [name |-> IF x = e /\ i.name # None THEN i.name ELSE einfo[x].name,
                      groups |-> i.groups,
                      main |-> IF x \in early THEN None ELSE i.main]]
    BY <1>27, Zenon DEF ItemListed
  <2> DEFINE c == econtact[e]
  <2>2. UNCHANGED <<entries, econtact>>
    BY <1>27, Zenon DEF ItemListed
  <2>3. e \in entries /\ c \in contacts /\ c \in Contact
    BY <1>2, <2>1 DEF EntriesOf
  <2>4. cgroups'[c] = (cgroups[c] \ {NotInList}) \cup {g}
        /\ \A x \in Contact \ {c} : cgroups'[x] = cgroups[x]
    BY <2>1, <2>3 DEF GroupInv
  <2>5. \A f \in entries : \A x \in cgroups[econtact[f]] \cap UserGroup : gname'[x] = gname[x]
    BY <1>2, <2>1, NamesThroughMade
  <2>6. i.main # None => g \in UserGroup /\ gname'[g] = i.main
    <3>1. i.main # None => GroupsNamed(i.main) = {x \in groups \cap UserGroup : gname[x] = i.main}
      BY DEF GroupsNamed
    <3> QED
      BY <1>25, <2>1, <3>1 DEF GroupFor, WithGroup, NameInv
  <2>7. ASSUME NEW f \in entries' PROVE Shows(f)'
    <3>1. f \in entries /\ f \in Entry /\ Shows(f) /\ econtact[f] \in Contact
          /\ econtact'[f] = econtact[f]
      BY <1>2, <2>2
    <3>2. CASE f \notin centries[c]
      <4>1. einfo'[f] = einfo[f] /\ econtact[f] # c
        BY <1>2, <2>1, <2>3, <3>1, <3>2
      <4>2. cgroups'[econtact[f]] = cgroups[econtact[f]]
        BY <2>4, <3>1, <4>1
      <4> QED
        BY <2>5, <3>1, <4>1, <4>2, ShowsStill
    <3>3. CASE f \in centries[c]
      <4>1. econtact[f] = c
        BY <1>2, <2>3, <3>1, <3>3
      <4>2. einfo'[f].groups = i.groups /\ einfo'[f].main \in {None, i.main}
        BY <2>1, <3>1, <3>3
      <4>3. i.main # None => i.main \in i.groups
        BY <1>25
      <4>4. i.main # None => g \in cgroups'[c] \cap UserGroup /\ gname'[g] = i.main
        BY <2>4, <2>6
      <4> QED
        BY <3>1, <4>1, <4>2, <4>3, <4>4 DEF Shows
    <3> QED
      BY <3>2, <3>3
  <2> QED
    BY <1>3, <2>7
<1>28. ASSUME NEW a \in Account, NEW j \in JID, NEW i \in Item, ItemUpdated(a, j, i)
       PROVE  MainGroupShown'
  <2> DEFINE n(e) == IF i.name = None THEN einfo[e].name ELSE i.name
             changed(e) == IF einfo[e].groups = {} THEN i.groups # {}
                           ELSE einfo[e].main \notin i.groups
             left(e, c) == IF c = econtact[e] THEN {} ELSE Emptied(e)
  <2>1. \A e \in EntriesOf(a, j) : e \in entries /\ e \in Entry
    BY <1>2 DEF EntriesOf
  <2>2. \/ UNCHANGED <<groupVars, contactVars, entryVars>>
        \/ \E e \in EntriesOf(a, j) :
             /\ ~changed(e)
             /\ einfo' = [einfo EXCEPT ![e].name = n(e), ![e].groups = i.groups]
             /\ UNCHANGED <<groupVars, contactVars, entries, econtact>>
        \/ \E e \in EntriesOf(a, j), g \in Group, c \in Contact :
             /\ GroupFor(i.main, g) /\ ContactFor(n(e), g, c) /\ WithGroup(g, i.main)
             /\ ContactsAfter(left(e, c), {c} \ contacts, g, n(e)) /\ EntryIn(e, c)
             /\ einfo' = [einfo EXCEPT ![e] = [i EXCEPT !.name = n(e)]]
             /\ UNCHANGED entries
    BY <1>28, Zenon DEF ItemUpdated, Crash
  <2> HIDE DEF n
  <2>3. CASE UNCHANGED <<groupVars, contactVars, entryVars>>
    BY <1>1, <2>3 DEF groupVars, contactVars, entryVars
  <2>4. ASSUME NEW e \in EntriesOf(a, j), ~changed(e),
               einfo' = [einfo EXCEPT ![e].name = n(e), ![e].groups = i.groups],
               UNCHANGED <<groupVars, contactVars, entries, econtact>>
        PROVE  MainGroupShown'
    <3>1. /\ \A f \in Entry \ {e} : einfo'[f] = einfo[f]
          /\ einfo'[e] = [einfo[e] EXCEPT !.name = n(e), !.groups = i.groups]
      <4>1. einfo \in [Entry -> Info] /\ e \in Entry
        BY <1>2, <2>1
      <4>2. einfo' = [einfo EXCEPT ![e].name = n(e), ![e].groups = i.groups]
        BY <2>4
      <4> HIDE DEF changed, left
      <4> QED
        BY <4>1, <4>2
    <3>2. einfo'[e].groups = i.groups /\ einfo'[e].main = einfo[e].main
      BY <1>2, <2>1, <3>1 DEF Info
    <3>3. UNCHANGED <<cgroups, gname, entries, econtact>>
      BY <2>4 DEF groupVars, contactVars
    <3>4. einfo[e].main # None => einfo[e].main \in i.groups
      BY <1>2, <2>1, <2>4 DEF Shows
    <3> HIDE DEF changed
    <3>5. ASSUME NEW f \in entries' PROVE Shows(f)'
      <4>1. f \in entries /\ f \in Entry /\ Shows(f)
        BY <1>2, <3>3
      <4>2. CASE f = e
        BY <3>2, <3>3, <3>4, <4>1, <4>2 DEF Shows
      <4>3. CASE f # e
        BY <3>1, <3>3, <4>1, <4>3, ShowsStill
      <4> QED
        BY <4>2, <4>3
    <3> QED
      BY <1>3, <3>5
  <2>5. ASSUME NEW e \in EntriesOf(a, j), NEW g \in Group, NEW c \in Contact,
               GroupFor(i.main, g), ContactFor(n(e), g, c), WithGroup(g, i.main),
               ContactsAfter(left(e, c), {c} \ contacts, g, n(e)), EntryIn(e, c),
               einfo' = [einfo EXCEPT ![e] = [i EXCEPT !.name = n(e)]], UNCHANGED entries
        PROVE  MainGroupShown'
    <3> DEFINE info == [i EXCEPT !.name = n(e)]
    <3>1. info.main = i.main /\ info.groups = i.groups
      BY <1>25 DEF Info
    <3>2. einfo' = [einfo EXCEPT ![e] = info] /\ einfo'[e] = info
      BY <1>2, <2>1, <2>5
    <3> HIDE DEF info, changed
    <3>3. c \notin left(e, c) /\ entries' = entries \cup {e}
      BY <2>1, <2>5 DEF Emptied
    <3> HIDE DEF left
    <3>4. /\ i.main # None => \E x \in cgroups'[c] \cap UserGroup : gname'[x] = i.main
          /\ \A f \in entries : \A x \in cgroups[econtact[f]] \cap UserGroup :
                       gname'[x] = gname[x]
      BY <1>24, <1>25, <2>5, <3>3
    <3>5. Told(e, c)
      BY <1>25, <3>1, <3>2, <3>4
    <3>6. ({c} \ contacts) \cap contacts = {}
      OBVIOUS
    <3> HIDE DEF Told
    <3> QED
      BY <1>17, <2>1, <2>5, <3>2, <3>3, <3>4, <3>5, <3>6
  <2> HIDE DEF changed, left
  <2> QED
    BY <2>2, <2>3, <2>4, <2>5
<1>29. ASSUME NEW a \in Account, NEW j \in JID, ItemRemoved(a, j) PROVE MainGroupShown'
  <2>1. PICK e \in EntriesOf(a, j) :
            EntriesWithout({e}) /\ ContactsAfter(Emptied(e), {}, None, None)
    BY <1>29 DEF ItemRemoved
  <2>2. UNCHANGED gname
    BY <1>29 DEF ItemRemoved
  <2>3. ASSUME NEW f \in entries' PROVE Shows(f)'
    <3>1. f \in entries /\ UNCHANGED <<einfo[f], econtact[f]>>
      BY <1>2, <2>1 DEF EntriesWithout
    <3> QED
      BY <1>2, <2>1, <2>2, <3>1, ShowsThrough
  <2> QED
    BY <1>3, <2>3
<1>30. ASSUME NEW a \in Account, NEW j \in JID, NEW n, NEW m, StrangerAdded(a, j, n, m)
       PROVE  MainGroupShown'
  <2> DEFINE info == [NoInfo EXCEPT !.name = m]
  <2>1. PICK e \in Entry \ entries, c \in Contact \ contacts :
          /\ ContactsAfter({}, {c}, NotInList, n) /\ NewEntry(e, a, j, info) /\ EntryIn(e, c)
    BY <1>30 DEF StrangerAdded
  <2>2. UNCHANGED gname /\ info.main = None
    BY <1>30 DEF StrangerAdded, NoInfo
  <2> HIDE DEF info
  <2>3. /\ entries' = entries \cup {e} /\ einfo' = [einfo EXCEPT ![e] = info]
        /\ einfo'[e] = info
    BY <1>2, <2>1 DEF NewEntry
  <2>4. Told(e, c) /\ {c} \cap contacts = {}
    BY <2>1, <2>2, <2>3
  <2> HIDE DEF Told
  <2> QED
    BY <1>17, <2>1, <2>2, <2>3, <2>4
<1>31. ASSUME NEW e \in Entry, NEW t \in Tag \cup {None}, MetacontactChanged(e, t)
       PROVE  MainGroupShown'
  <2> DEFINE from == econtact[e]
  <2>1. UNCHANGED <<gname, entries, econtact>> /\ e \in entries
    <3>1. UNCHANGED <<gname, entries>> /\ e \in entries
      BY <1>31, Zenon DEF MetacontactChanged, Crash, groupVars, entryVars
    <3> QED
      BY <1>31, <3>1 DEF NoTagMoves, vars, entryVars
  <2>2. from \in contacts /\ from \in members[chead[from]]
    BY <2>1 DEF EntryInv, GroupInv
  <2>3. ASSUME NEW c, EntryIn(e, c) PROVE c = from
    BY <2>1, <2>3 DEF EntryIn, EntryInv
  <2>4. \/ UNCHANGED <<contactVars, einfo>>
        \/ \E gone : ContactsAfter(gone, {}, None, None) /\ UNCHANGED einfo
        \/ \E gone, c, n : /\ EntryIn(e, c) /\ einfo' = Joined(c, chead[from])
                           /\ ContactsAfter(gone, {c}, chead[from], n)
    BY <1>31, Zenon DEF MetacontactChanged, Crash, entryVars
  <2>5. CASE UNCHANGED <<contactVars, einfo>>
    BY <1>1, <2>1, <2>5 DEF contactVars
  <2>6. ASSUME NEW gone, ContactsAfter(gone, {}, None, None), UNCHANGED einfo
        PROVE  MainGroupShown'
    <3>1. {} \cap contacts = {}
      OBVIOUS
    <3>2. ASSUME NEW f \in entries' PROVE Shows(f)'
      BY <1>2, <2>1, <2>6, <3>1, ShowsThrough
    <3> QED
      BY <1>3, <3>2
  <2>7. ASSUME NEW gone, NEW n, einfo' = Joined(from, chead[from]),
               ContactsAfter(gone, {from}, chead[from], n)
        PROVE  MainGroupShown'
    <3>1. UNCHANGED einfo
      BY <2>2, <2>7 DEF Joined, NameInv
    <3>2. ASSUME NEW x \in contacts' PROVE cgroups'[x] = cgroups[x]
      <4>1. x \in contacts /\ x \in Contact /\ x \notin gone /\ from \in contacts
        BY <2>2, <2>7 DEF ContactsAfter, GroupInv
      <4>2. cgroups'[x] = cgroups[x] \cup IF x = from THEN {chead[from]} ELSE {}
        BY <2>7, <4>1 DEF ContactsAfter
      <4>3. chead[from] \in cgroups[from]
        BY <2>2 DEF GroupInv
      <4> QED
        BY <4>2, <4>3
    <3>3. ASSUME NEW f \in entries' PROVE Shows(f)'
      <4>1. econtact[f] \in contacts' /\ Shows(f)
        BY <1>2, <2>1 DEF EntryInv
      <4> QED
        BY <2>1, <3>1, <3>2, <4>1, ShowsStill
    <3> QED
      BY <1>3, <3>3
  <2> HIDE DEF from
  <2> QED
    BY <2>3, <2>4, <2>5, <2>6, <2>7
<1>32. CASE UNCHANGED vars
  BY <1>1, <1>32 DEF vars, groupVars, contactVars, entryVars
<1>50. ASSUME NEW a \in Account, NEW j \in JID, NEW i \in Item, ItemListedEmpty(a, j, i)
       PROVE  MainGroupShown'
  BY <1>1, <1>50, ListedEmpty DEF groupVars, contactVars, entryVars
<1>33. CASE GuiCall
  BY <1>33, <1>4, <1>6, <1>7, <1>8, <1>9, <1>10, <1>11, <1>12, <1>13, <1>14, <1>15,
     <1>16, <1>19, <1>20, <1>21, Zenon DEF GuiCall
<1>34. CASE ServerPush
  BY <1>34, <1>22, <1>23, <1>26, <1>27, <1>28, <1>29, <1>30, <1>31, <1>50, Zenon
     DEF ServerPush, SubscriptionReceived, MessageReceived
<1> QED
  BY <1>32, <1>33, <1>34 DEF Next

\* Through every sequence of calls and pushes in which no tag of a metacontact moves an
\* entry, an entry's main group is one of its groups, and its contact is in a group of
\* that name.
THEOREM MainGroupShownHolds == Spec /\ [][NoTagMoves]_vars => []MainGroupShown
<1> DEFINE Inv == RosterInv /\ NameInv /\ DeadInv /\ MainGroupShown
<1>1. Init => Inv
  <2> SUFFICES ASSUME Init PROVE NameInv /\ DeadInv /\ MainGroupShown
    BY InitGroups, InitEntries, InitTags DEF RosterInv, Init, AccountInv
  <2>1. NameInv
    BY RosterAssumption DEF Init, NameInv, NoInfo, Info
  <2>2. DeadInv /\ MainGroupShown
    BY DEF Init, DeadInv, MainGroupShown
  <2> QED
    BY <2>1, <2>2
<1>2. Inv /\ [Next]_vars /\ [NoTagMoves]_vars => Inv'
  <2> SUFFICES ASSUME Inv, [Next]_vars, [NoTagMoves]_vars PROVE Inv'
    OBVIOUS
  <2>1. (RosterInv /\ NameInv /\ DeadInv)'
    BY NextGroups, NextEntries, NextTags, NextAccounts, NextNames, NextDead DEF RosterInv
  <2>2. MainGroupShown'
    BY <2>1, NextShown DEF RosterInv
  <2> QED
    BY <2>1, <2>2
<1> QED
  BY <1>1, <1>2, PTL DEF Spec
==============================================================================
