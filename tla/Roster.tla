------------------------------ MODULE Roster ------------------------------
(* The roster that the core keeps for all accounts (core/lfp_api.cpp): groups,
   contacts, contact entries, and the indexes that find them.  Each slot of the
   bridge and each handler of a signal of an Account runs to its end in the
   core's event loop, so it is one step here.  What the server pushes, and in
   which order, is left open: a push is any roster item at any time.

   Contact, Entry and UserGroup are the objects that may exist at once: an
   object that is deleted may be allocated again, as memory is.  The position
   of a group, a contact or an entry in its list is not modelled: where the
   code takes the first of several, any of them may be taken.  The exception is
   Contact::groups[0], on which the code depends everywhere (chead).          *)
EXTENDS Naturals, FiniteSets

CONSTANTS
    Account, Contact, Entry, UserGroup,
    GroupName,   \* names of groups, not empty
    Tag,         \* metacontact tags
    JID,         \* bare addresses, as Jid::bare() writes them
    Address,     \* addresses as the user types them: the JIDs and others
    ContactName, \* names of contacts that are not an address
    Transport,   \* the addresses, as they are stored, that belong to a transport
    Bare,        \* Jid::bare() of each address
    None         \* no object, and the empty string

NoGroup == "General"         \* the two groups that the constructor makes
NotInList == "Not In List"
Group == UserGroup \cup {NoGroup, NotInList}
Name == ContactName \cup JID

ASSUME RosterAssumption ==
    /\ JID \cup Transport \subseteq Address
    /\ Bare \in [Address -> JID] /\ \A j \in JID : Bare[j] = j
    /\ {NoGroup, NotInList} \cap UserGroup = {}
    /\ None \notin Account \cup Contact \cup Entry \cup Group \cup GroupName
                   \cup Tag \cup Name \cup Address

VARIABLES
    accounts,                               \* accountsByUUID
    groups, gname, members,                 \* Group: live ones, name, contacts
    contacts, cname, cgroups, chead, centries,  \* Contact: groups, groups[0]
    ctag, tagOwner,                         \* metacontact_tag, contactsByMetacontactTag
    entries, eaccount, ejid, econtact, einfo, \* ContactEntry
    crashed                                 \* a null pointer was dereferenced

groupVars == <<groups, gname, members>>
contactVars == <<contacts, cname, cgroups, chead, centries>>
tagVars == <<ctag, tagOwner>>
entryVars == <<entries, eaccount, ejid, econtact, einfo>>
vars == <<accounts, groupVars, contactVars, tagVars, entryVars, crashed>>

\* What a roster item, or an entry, says of itself: the name, the groups and
\* the one of them that counts ("only support one group for now").
Info == [name : Name \cup {None}, groups : SUBSET GroupName,
         main : GroupName \cup {None}]
NoInfo == [name |-> None, groups |-> {}, main |-> None]
Item == {i \in Info : IF i.groups = {} THEN i.main = None ELSE i.main \in i.groups}

Init == /\ accounts = Account
        /\ groups = {NoGroup, NotInList}
        /\ gname = [g \in UserGroup |-> None]
        /\ members = [g \in Group |-> {}]
        /\ contacts = {} /\ cname = [c \in Contact |-> None]
        /\ cgroups = [c \in Contact |-> {}] /\ chead = [c \in Contact |-> None]
        /\ centries = [c \in Contact |-> {}]
        /\ ctag = [c \in Contact |-> None] /\ tagOwner = [t \in Tag |-> None]
        /\ entries = {} /\ eaccount = [e \in Entry |-> None]
        /\ ejid = [e \in Entry |-> None] /\ econtact = [e \in Entry |-> None]
        /\ einfo = [e \in Entry |-> NoInfo]
        /\ crashed = FALSE

----------------------------------------------------------------------------
(* Lookups. *)

\* findGroup(type, name): None stands for the group of entries without group.
GroupsNamed(n) == IF n = None THEN {NoGroup}
                  ELSE {g \in groups \cap UserGroup : gname[g] = n}
\* findGroup(g->type, g->name), which may find another user group of that name.
Namesakes(g) == IF g \in UserGroup THEN GroupsNamed(gname[g]) ELSE {g}
\* findContact(name, g->name, g->type), for the group g that is found
ContactsNamed(n, g) == {c \in members[g] : cname[c] = n}
\* findEntry(account, jid), for an address in any spelling
EntriesOf(a, x) == {e \in entries : eaccount[e] = a /\ ejid[e] = Bare[x]}
\* Contact::inList
InList(c) == chead[c] # NotInList

\* The group named n: the one that is found, or a new one (rosterGroupAdd).
GroupFor(n, g) == IF GroupsNamed(n) # {} THEN g \in GroupsNamed(n)
                  ELSE g \in UserGroup \ groups
\* The contact named n in group g: found, or a new one (rosterContactAdd).
ContactFor(n, g, c) == IF ContactsNamed(n, g) # {} THEN c \in ContactsNamed(n, g)
                       ELSE c \in Contact \ contacts

(* Changes that several operations share. *)

\* Group g exists afterwards, with name n when it is new.
WithGroup(g, n) == /\ groups' = groups \cup {g}
                   /\ gname' = IF g \in groups THEN gname ELSE [gname EXCEPT ![g] = n]

\* Mutant: groups[0] is not looked at again.
HeadsStale(c, gs) == {chead[c]}

\* What groups[0] may be when the groups of c become gs: it stays while it can.
Heads(c, gs) == IF chead[c] \in gs THEN {chead[c]} ELSE gs

\* Mutant: the groups go on to list the contacts that are deleted.
ContactsAfterListed(gone, new, g, n) ==
    /\ contacts' = (contacts \cup new) \ gone
    /\ cname' = [c \in Contact |-> IF c \in new THEN n ELSE cname[c]]
    /\ cgroups' = [c \in Contact |-> IF c \in gone THEN {}
                                     ELSE IF c \in new THEN {g} ELSE cgroups[c]]
    /\ chead' = [c \in Contact |-> IF c \in new THEN g ELSE chead[c]]
    /\ members' = [x \in Group |-> members[x] \cup IF x = g THEN new ELSE {}]

\* The contacts of 'new' are in group g: those that did not exist are made, with name
\* n (rosterContactAdd); those of 'gone' are deleted (rosterContactRemove).
ContactsAfter(gone, new, g, n) ==
    /\ contacts' = (contacts \cup new) \ gone
    /\ cname' = [c \in Contact |-> IF c \in gone THEN None
                                   ELSE IF c \in new \ contacts THEN n ELSE cname[c]]
    /\ cgroups' = [c \in Contact |-> IF c \in gone THEN {}
                                     ELSE IF c \in new \ contacts THEN {g}
                                     ELSE cgroups[c] \cup IF c \in new THEN {g} ELSE {}]
    /\ chead' = [c \in Contact |-> IF c \in gone THEN None
                                   ELSE IF c \in new \ contacts THEN g ELSE chead[c]]
    /\ members' = [x \in Group |-> (members[x] \cup IF x = g THEN new ELSE {})
                                   \ {c \in gone : x \in cgroups[c]}]

\* Mutant: contactsByMetacontactTag keeps the contacts that are deleted.
TagsWithoutIndex(gone) ==
    /\ ctag' = [x \in Contact |-> IF x \in gone THEN None ELSE ctag[x]]
    /\ UNCHANGED tagOwner

TagsWithout(gone) ==
    /\ ctag' = [x \in Contact |-> IF x \in gone THEN None ELSE ctag[x]]
    /\ tagOwner' = [t \in Tag |-> IF \E x \in gone : ctag[x] = t THEN None ELSE tagOwner[t]]

\* Mutant: the contact that the entry leaves goes on to list it.
EntryInBoth(e, c) ==
    /\ econtact' = [econtact EXCEPT ![e] = c]
    /\ centries' = [centries EXCEPT ![c] = @ \cup {e}]

\* Entry e, new or not, belongs to contact c from now on.
EntryIn(e, c) ==
    /\ econtact' = [econtact EXCEPT ![e] = c]
    /\ centries' = [x \in Contact |-> IF x = c THEN centries[x] \cup {e}
                                      ELSE IF x = econtact[e] THEN centries[x] \ {e}
                                      ELSE centries[x]]

\* The contact that e leaves is deleted when e was its last entry.
Emptied(e) == IF centries[econtact[e]] = {e} THEN {econtact[e]} ELSE {}

\* The entries of 'lost' and the contacts of 'gone' are deleted.
EntriesWithout(lost) ==
    /\ entries' = entries \ lost
    /\ eaccount' = [e \in Entry |-> IF e \in lost THEN None ELSE eaccount[e]]
    /\ ejid' = [e \in Entry |-> IF e \in lost THEN None ELSE ejid[e]]
    /\ econtact' = [e \in Entry |-> IF e \in lost THEN None ELSE econtact[e]]
    /\ einfo' = [e \in Entry |-> IF e \in lost THEN NoInfo ELSE einfo[e]]
    /\ centries' = [c \in Contact |-> centries[c] \ {e \in lost : econtact[e] = c}]

\* The groups of 'gone', whose contacts are all in 'out', are deleted.
GroupsWithout(gone) ==
    /\ groups' = groups \ gone
    /\ gname' = [g \in UserGroup |-> IF g \in gone THEN None ELSE gname[g]]

NewEntry(e, a, j, i) ==
    /\ entries' = entries \cup {e}
    /\ eaccount' = [eaccount EXCEPT ![e] = a] /\ ejid' = [ejid EXCEPT ![e] = j]
    /\ einfo' = [einfo EXCEPT ![e] = i]

\* The core goes on ...
Running == ~crashed /\ crashed' = FALSE
\* ... until a null pointer is used.
Crash == /\ ~crashed /\ crashed' = TRUE
         /\ UNCHANGED <<accounts, groupVars, contactVars, tagVars, entryVars>>

----------------------------------------------------------------------------
(* Groups, as the GUI changes them through the bridge.  A call with an id that
   is not known any more returns at once.                                    *)

setAccount(a) == /\ accounts' = accounts \cup {a}
                 /\ UNCHANGED <<groupVars, contactVars, tagVars, entryVars>>
                 /\ Running

rosterGroupAdd(n) ==
    /\ GroupsNamed(n) = {}
    /\ \E g \in UserGroup \ groups : WithGroup(g, n)
    /\ UNCHANGED <<accounts, members, contactVars, tagVars, entryVars>>
    /\ Running

\* Every entry of the group's contacts gets the new name for the old one.
rosterGroupRename(g, n) ==
    /\ g \in groups \cap UserGroup
    /\ gname' = [gname EXCEPT ![g] = n]
    /\ LET old == gname[g] IN
       einfo' = [e \in Entry |->
           IF \E c \in members[g] : e \in centries[c]
           THEN [einfo[e] EXCEPT !.groups = (@ \ {old}) \cup {n},
                                 !.main = IF @ = old THEN n ELSE @]
           ELSE einfo[e]]
    /\ UNCHANGED <<accounts, groups, members, contactVars, tagVars, entries,
                   eaccount, ejid, econtact>>
    /\ Running

\* An entry whose contact joins the user group named n.
Joining(i, n) == [i EXCEPT !.groups = @ \cup {n}, !.main = IF @ = None THEN n ELSE @]
\* What the entries say when contact c joins g, a user group if c was not in it.
Joined(c, g) == [e \in Entry |-> IF e \in centries[c] /\ c \notin members[g]
                                 THEN Joining(einfo[e], gname[g]) ELSE einfo[e]]
\* Mutant: the group that was left stays the main group of the entry.
LeavingMain(i, n) == [i EXCEPT !.groups = @ \ {n}]

\* An entry whose contact leaves the user group named n.
Leaving(i, n) == [i EXCEPT !.groups = @ \ {n}, !.main = IF @ = n THEN None ELSE @]

\* The contacts cs leave group g, and go to "General" if they have no other.
GroupsLeft(c, g) == IF cgroups[c] \ {g} = {} THEN {NoGroup} ELSE cgroups[c] \ {g}
LeaveGroup(cs, g) ==
    /\ cgroups' = [c \in Contact |-> IF c \in cs THEN GroupsLeft(c, g) ELSE cgroups[c]]
    /\ \E h \in [cs -> Group] :
          /\ \A c \in cs : h[c] \in Heads(c, GroupsLeft(c, g))
          /\ chead' = [c \in Contact |-> IF c \in cs THEN h[c] ELSE chead[c]]
    /\ members' = [x \in Group |->
           (members[x] \ IF x = g THEN cs ELSE {})
           \cup IF x = NoGroup THEN {c \in cs : cgroups[c] \ {g} = {}} ELSE {}]
    /\ einfo' = [e \in Entry |->
           IF g \in UserGroup /\ \E c \in cs : e \in centries[c]
           THEN Leaving(einfo[e], gname[g]) ELSE einfo[e]]
    /\ UNCHANGED <<contacts, cname, centries, entries, eaccount, ejid, econtact>>

rosterGroupRemove(g) ==
    /\ g \in groups \cap UserGroup
    /\ LeaveGroup(members[g], g)
    /\ GroupsWithout({g})
    /\ UNCHANGED <<accounts, tagVars>>
    /\ Running

\* After each roster request: deleteEmptyGroups.
deleteEmptyGroups ==
    /\ GroupsWithout({g \in groups \cap UserGroup : members[g] = {}})
    /\ UNCHANGED <<accounts, members, contactVars, tagVars, entryVars>>
    /\ Running

----------------------------------------------------------------------------
(* Contacts. *)

rosterContactRemove(c) ==
    /\ c \in contacts
    /\ EntriesWithout(centries[c])
    /\ ContactsAfter({c}, {}, None, None) /\ TagsWithout({c})
    /\ UNCHANGED <<accounts, groups, gname>>
    /\ Running

rosterContactRename(c, n) ==
    /\ c \in contacts
    /\ cname' = [cname EXCEPT ![c] = n]
    /\ einfo' = [e \in Entry |-> IF e \in centries[c]
                                 THEN [einfo[e] EXCEPT !.name = n] ELSE einfo[e]]
    /\ UNCHANGED <<accounts, groupVars, contacts, cgroups, chead, centries,
                   tagVars, entries, eaccount, ejid, econtact>>
    /\ Running

\* Mutant: the group does not list its new contact.
rosterContactAddGroupHalf(c, g) ==
    /\ c \in contacts /\ g \in groups \cap UserGroup /\ g \notin cgroups[c]
    /\ cgroups' = [cgroups EXCEPT ![c] = @ \cup {g}]
    /\ UNCHANGED <<accounts, groupVars, contacts, cname, chead, centries,
                   tagVars, entryVars>>
    /\ Running

rosterContactAddGroup(c, g) ==
    /\ c \in contacts /\ g \in groups \cap UserGroup /\ g \notin cgroups[c]
    /\ cgroups' = [cgroups EXCEPT ![c] = @ \cup {g}]
    /\ members' = [members EXCEPT ![g] = @ \cup {c}]
    /\ einfo' = Joined(c, g)
    /\ UNCHANGED <<accounts, groups, gname, contacts, cname, chead, centries,
                   tagVars, entries, eaccount, ejid, econtact>>
    /\ Running

\* "No duplicates, please": a contact of that name is looked for in the group that is
\* found by the name of g, and joins g if that is another one.
rosterContactAdd(g, n) ==
    /\ g \in groups
    /\ \E h \in Namesakes(g) :
          \/ /\ ContactsNamed(n, h) = {}
             /\ \E c \in Contact \ contacts : ContactsAfter({}, {c}, g, n)
             /\ UNCHANGED <<accounts, groups, gname, centries, tagVars, entryVars>>
             /\ Running
          \/ \E c \in ContactsNamed(n, h) : rosterContactAddGroup(c, g)

\* Only groups[0] can be changed, and not from or to "Not In List".
rosterContactChangeGroup(c, new) ==
    LET old == chead[c]
        left == IF old \in UserGroup THEN [e \in Entry |-> Leaving(einfo[e], gname[old])]
                ELSE einfo
    IN
    /\ c \in contacts /\ new \in groups /\ NotInList \notin {old, new}
    /\ cgroups' = [cgroups EXCEPT ![c] = (@ \ {old}) \cup {new}]
    /\ members' = [g \in Group |-> IF g = new THEN members[g] \cup {c}
                                   ELSE IF g = old THEN members[g] \ {c} ELSE members[g]]
    /\ \E h \in IF cgroups[c] = {old} THEN {new} ELSE cgroups[c] \ {old} :
          chead' = [chead EXCEPT ![c] = h]
    /\ einfo' = [e \in Entry |->
           IF e \notin centries[c] THEN einfo[e]
           ELSE IF new \in UserGroup THEN Joining(left[e], gname[new]) ELSE left[e]]
    /\ UNCHANGED <<accounts, groups, gname, contacts, cname, centries, tagVars,
                   entries, eaccount, ejid, econtact>>
    /\ Running

rosterContactRemoveGroup(c, g) ==
    /\ c \in contacts /\ g \in cgroups[c] /\ g # NotInList
    /\ LeaveGroup({c}, g)
    /\ UNCHANGED <<accounts, groups, gname, tagVars>>
    /\ Running

\* rosterContactSetMetacontactOrder: the contact gets a tag if it has none
\* (metacontactTagForContact; a new UUID is the tag of no other contact).
rosterContactSetMetacontactOrder(c) ==
    /\ c \in contacts /\ ctag[c] = None
    /\ \E t \in Tag : /\ tagOwner[t] = None
                      /\ ctag' = [ctag EXCEPT ![c] = t]
                      /\ tagOwner' = [tagOwner EXCEPT ![t] = c]
    /\ UNCHANGED <<accounts, groupVars, contactVars, entryVars>>
    /\ Running

----------------------------------------------------------------------------
(* Entries. *)

\* What an entry of contact c says of itself; its main group is the first one.
InfoIn(c, i) ==
    LET named == cgroups[c] \cap UserGroup IN
    /\ i.name = cname[c] /\ i.groups = {gname[g] : g \in named}
    /\ IF named = {} THEN i.main = None
       ELSE IF chead[c] \in named THEN i.main = gname[chead[c]] ELSE i.main \in i.groups

ChangeContact(e, c, gone) ==
    /\ EntryIn(e, c)
    /\ \E i \in Info : InfoIn(c, i) /\ einfo' = [einfo EXCEPT ![e] = i]
    /\ ContactsAfter(gone, {}, None, None) /\ TagsWithout(gone)
    /\ UNCHANGED <<accounts, groups, gname, entries, eaccount, ejid>>
    /\ Running

\* The old contact stays, even without entries.
rosterEntryChangeContact(e, c) ==
    /\ e \in entries /\ c \in contacts /\ econtact[e] # c
    /\ ChangeContact(e, c, {})

\* Mutant: no search for an entry that the account has already.
rosterEntryAddTwice(c, a, x) ==
    /\ c \in contacts /\ a \in accounts
    /\ \E e \in Entry \ entries : /\ NewEntry(e, a, x, [NoInfo EXCEPT !.name = cname[c]])
                                  /\ EntryIn(e, c)
    /\ UNCHANGED <<accounts, groupVars, contacts, cname, cgroups, chead, tagVars>>
    /\ Running

\* A new entry keeps the address as it was typed; it gets one group only.
rosterEntryAdd(c, a, x) ==
    /\ c \in contacts /\ a \in accounts
    /\ \/ \E e \in EntriesOf(a, x) :
             econtact[e] # c /\ ChangeContact(e, c, Emptied(e))
       \/ /\ EntriesOf(a, x) = {}
          /\ \E e \in Entry \ entries :
                LET gs == IF chead[c] \in UserGroup THEN {gname[chead[c]]} ELSE {} IN
                /\ NewEntry(e, a, x, [name |-> cname[c], groups |-> gs,
                       main |-> IF gs = {} THEN None ELSE gname[chead[c]]])
                /\ EntryIn(e, c)
          /\ UNCHANGED <<accounts, groupVars, contacts, cname, cgroups, chead,
                         tagVars>>
          /\ Running

rosterEntryRemove(e) ==
    /\ e \in entries
    /\ EntriesWithout({e})
    /\ UNCHANGED <<accounts, groupVars, contacts, cname, cgroups, chead, tagVars>>
    /\ Running

\* The entries of 'lost' go, then the contacts of 'gone', which are left without
\* entries, then the groups of 'empty', which are left without contacts.
RemoveAll(lost, gone, empty) ==
    /\ EntriesWithout(lost)
    /\ ContactsAfter(gone, {}, None, None)
    /\ TagsWithout(gone) /\ GroupsWithout(empty)

\* 'empty' may be the groups that are found without contacts: each is the main
\* group of an entry that went.  A group is left behind when its last contact
\* goes with an entry that has another main group.
FoundEmpty(lost, gone, empty) ==
    LET may == {g \in groups \cap UserGroup : /\ members[g] \subseteq gone
                                              /\ \E e \in lost : einfo[e].main = gname[g]}
        must == {g \in may : /\ GroupsNamed(gname[g]) = {g}
                             /\ \A e \in lost : econtact[e] \in members[g]
                                                  => einfo[e].main = gname[g]}
    IN must \subseteq empty /\ empty \subseteq may

\* Mutant: the entries of the account stay.
removeAccountOnly(a) ==
    /\ a \in accounts /\ accounts' = accounts \ {a}
    /\ UNCHANGED <<groupVars, contactVars, tagVars, entryVars>>
    /\ Running

\* removeAccount: removeAllContactEntriesForAccount.
removeAccount(a) ==
    LET lost == {e \in entries : eaccount[e] = a}
        gone == {c \in contacts : centries[c] # {} /\ centries[c] \subseteq lost}
    IN
    /\ a \in accounts
    /\ accounts' = accounts \ {a}
    /\ IF lost = {} THEN UNCHANGED <<groupVars, contactVars, tagVars, entryVars>>
       ELSE \E empty \in SUBSET UserGroup : FoundEmpty(lost, gone, empty)
                                            /\ RemoveAll(lost, gone, empty)
    /\ Running

\* removeAllContactEntriesForTransport.  Line 844 removes the entry that was
\* added last for the address, whatever its account, as often as there are
\* entries: those added after the account's own entry go as well.  Only the
\* contacts of the account's own entries are looked at; one that is left without
\* entries is missed when an entry that went for another was its last, and surely
\* found when each of its entries is the account's only one for its address.
removeAllContactEntriesForTransport(a) ==
    LET own == {e \in entries : eaccount[e] = a /\ ejid[e] \in Transport}
        newer == {e \in entries \ own : \E o \in own : ejid[o] = ejid[e]}
        alone == {o \in own : \A p \in own : ejid[p] = ejid[o] => p = o}
    IN
    /\ a \in accounts /\ own # {}
    /\ \E more \in SUBSET newer, gone \in SUBSET {econtact[o] : o \in own},
          empty \in SUBSET UserGroup :
         /\ \A c \in gone : centries[c] \subseteq own \cup more
         /\ {econtact[o] : o \in {x \in own : centries[econtact[x]] \subseteq alone}}
               \subseteq gone
         /\ FoundEmpty(own, gone, empty) /\ RemoveAll(own \cup more, gone, empty)
    /\ UNCHANGED <<accounts>>
    /\ Running

----------------------------------------------------------------------------
(* What the server sends. *)

\* client_rosterItemAdded, then client_rosterItemUpdated (which finds nothing
\* left to do but to set the name): a new entry ...
ItemAdded(a, j, i) ==
    /\ a \in accounts /\ EntriesOf(a, j) = {}
    /\ \E e \in Entry \ entries, g \in Group, c \in Contact :
          LET n == IF i.name = None THEN j ELSE i.name IN
          /\ GroupFor(i.main, g) /\ ContactFor(n, g, c)
          /\ WithGroup(g, i.main) /\ ContactsAfter({}, {c} \ contacts, g, n)
          /\ NewEntry(e, a, j, [i EXCEPT !.name = n]) /\ EntryIn(e, c)
    /\ UNCHANGED <<accounts, tagVars>>
    /\ Running

\* ... or one whose contact leaves "Not In List".  The other entries of the
\* contact take over its groups, and may get no main group (line 1730 tests the
\* groups of e, which may come later in the list).
ItemListed(a, j, i) ==
    /\ a \in accounts
    /\ \E e \in EntriesOf(a, j), g \in Group :
          LET c == econtact[e] IN
          /\ ~InList(c) /\ GroupFor(i.main, g) /\ WithGroup(g, i.main)
          /\ cgroups' = [cgroups EXCEPT ![c] = (@ \ {NotInList}) \cup {g}]
          /\ members' = [members EXCEPT ![NotInList] = @ \ {c}, ![g] = @ \cup {c}]
          /\ \E h \in IF cgroups[c] = {NotInList} THEN {g} ELSE cgroups[c] \ {NotInList} :
                chead' = [chead EXCEPT ![c] = h]
          /\ \E early \in SUBSET {x \in centries[c] \ {e} : einfo[e].groups = {}} :
                einfo' = [x \in Entry |->
                  IF x \notin centries[c] THEN einfo[x]
                  ELSE [name |-> IF x = e /\ i.name # None THEN i.name ELSE einfo[x].name,
                        groups |-> i.groups,
                        main |-> IF x \in early THEN None ELSE i.main]]
    /\ UNCHANGED <<accounts, contacts, cname, centries, tagVars, entries, eaccount,
                   ejid, econtact>>
    /\ Running

\* ... where line 1730 takes the first of no groups, if e had some and comes after
\* another entry: here a null pointer.
ItemListedEmpty(a, j, i) ==
    /\ a \in accounts /\ i.groups = {}
    /\ \E e \in EntriesOf(a, j) : /\ ~InList(econtact[e]) /\ einfo[e].groups # {}
                                 /\ centries[econtact[e]] # {e}
    /\ Crash

\* client_rosterItemUpdated, for an entry that we have.  It changes contacts
\* when the group that counts is not one of the item's groups any more.
ItemUpdated(a, j, i) ==
    /\ a \in accounts
    /\ \E e \in EntriesOf(a, j) :
         LET n == IF i.name = None THEN einfo[e].name ELSE i.name
             changed == IF einfo[e].groups = {} THEN i.groups # {}
                        ELSE einfo[e].main \notin i.groups
         IN
         IF ~changed
         THEN /\ einfo' = [einfo EXCEPT ![e].name = n, ![e].groups = i.groups]
              /\ UNCHANGED <<accounts, groupVars, contactVars, tagVars, entries,
                             eaccount, ejid, econtact>>
              /\ Running
         ELSE \E g \in Group :
              /\ GroupFor(i.main, g)
              /\ IF n = None
                 THEN Crash  \* rosterContactAdd refuses the empty name
                 ELSE \E c \in Contact :
                      /\ ContactFor(n, g, c) /\ WithGroup(g, i.main)
                      /\ LET gone == IF c = econtact[e] THEN {} ELSE Emptied(e) IN
                         ContactsAfter(gone, {c} \ contacts, g, n) /\ TagsWithout(gone)
                      /\ EntryIn(e, c)
                      /\ einfo' = [einfo EXCEPT ![e] = [i EXCEPT !.name = n]]
                      /\ UNCHANGED <<accounts, entries, eaccount, ejid>>
                      /\ Running

\* client_rosterItemRemoved
ItemRemoved(a, j) ==
    /\ a \in accounts
    /\ \E e \in EntriesOf(a, j) :
          /\ EntriesWithout({e})
          /\ ContactsAfter(Emptied(e), {}, None, None)
          /\ TagsWithout(Emptied(e))
    /\ UNCHANGED <<accounts, groups, gname>>
    /\ Running

\* An entry, and its contact, for somebody who is not in the list.
StrangerAdded(a, j, contactName, entryName) ==
    /\ a \in accounts /\ EntriesOf(a, j) = {}
    /\ \E e \in Entry \ entries, c \in Contact \ contacts :
          /\ ContactsAfter({}, {c}, NotInList, contactName)
          /\ NewEntry(e, a, j, [NoInfo EXCEPT !.name = entryName]) /\ EntryIn(e, c)
    /\ UNCHANGED <<accounts, groups, gname, tagVars>>
    /\ Running

\* client_subscription: n is the nickname, or the address.
SubscriptionReceived(a, j, n) == StrangerAdded(a, j, n, n)
\* getChatForJID: the entry gets no name at all.
MessageReceived(a, j) == StrangerAdded(a, j, j, None)

\* metacontactsDirectory_metacontactInfoForJIDDidChange: entry e has tag t now.
\* rosterContactAdd is asked for a new contact, and may find one by its name.
MetacontactChanged(e, t) ==
    LET from == econtact[e]
        g == chead[from]
        n == einfo[e].name
    IN
    /\ e \in entries /\ t # ctag[from]
    /\ \E h \in Namesakes(g) :
         LET named == ContactsNamed(n, h)
             found == IF t # None THEN {tagOwner[t]} \ {None}
                      ELSE {c \in named : ctag[c] = None}
         IN
         \/ \E c \in found :
               LET gone == IF c = from THEN {} ELSE Emptied(e) IN
               /\ EntryIn(e, c) /\ ContactsAfter(gone, {}, None, None) /\ TagsWithout(gone)
               /\ UNCHANGED <<accounts, groups, gname, entries, eaccount, ejid, einfo>>
               /\ Running
         \/ /\ IF t # None THEN found = {} ELSE named = {} \/ \E c \in named : ctag[c] # None
            /\ IF n = None
               THEN Crash
               ELSE \E c \in Contact :
                    LET gone == IF c = from THEN {} ELSE Emptied(e) IN
                    /\ ContactFor(n, h, c) /\ (t = None /\ c \in contacts => ctag[c] # None)
                    /\ EntryIn(e, c) /\ ContactsAfter(gone, {c}, g, n)
                    /\ ctag' = [x \in Contact |-> IF x \in gone THEN None
                                                  ELSE IF x = c /\ t # None THEN t
                                                  ELSE ctag[x]]
                    /\ tagOwner' = [x \in Tag |->
                         IF x = t THEN c
                         ELSE IF \/ \E y \in gone : ctag[y] = x
                                 \/ t # None /\ ctag[c] = x THEN None
                         ELSE tagOwner[x]]
                    /\ einfo' = Joined(c, g)
                    /\ UNCHANGED <<accounts, groups, gname, entries, eaccount, ejid>>
                    /\ Running

----------------------------------------------------------------------------
GuiCall ==
    \/ \E a \in Account : setAccount(a) \/ removeAccount(a)
    \/ \E n \in GroupName : rosterGroupAdd(n) \/ \E g \in UserGroup : rosterGroupRename(g, n)
    \/ \E g \in UserGroup : rosterGroupRemove(g)
    \/ \E g \in Group, n \in Name : rosterContactAdd(g, n)
    \/ \E c \in Contact : \/ rosterContactRemove(c)
                          \/ \E n \in Name : rosterContactRename(c, n)
                          \/ rosterContactSetMetacontactOrder(c)
    \/ \E c \in Contact, g \in Group : \/ rosterContactAddGroup(c, g)
                                       \/ rosterContactChangeGroup(c, g)
                                       \/ rosterContactRemoveGroup(c, g)
    \/ \E c \in Contact, e \in Entry : rosterEntryChangeContact(e, c)
    \/ \E c \in Contact, a \in Account, x \in Address : rosterEntryAdd(c, a, x)
    \/ \E e \in Entry : rosterEntryRemove(e)

ServerPush ==
    \/ deleteEmptyGroups
    \/ \E a \in Account : removeAllContactEntriesForTransport(a)
    \/ \E a \in Account, j \in JID :
          \/ \E i \in Item : \/ ItemAdded(a, j, i) \/ ItemUpdated(a, j, i)
                             \/ ItemListed(a, j, i) \/ ItemListedEmpty(a, j, i)
          \/ ItemRemoved(a, j)
          \/ \E n \in ContactName \cup {j} : SubscriptionReceived(a, j, n)
          \/ MessageReceived(a, j)
    \/ \E e \in Entry, t \in Tag \cup {None} : MetacontactChanged(e, t)

Next == GuiCall \/ ServerPush
Spec == Init /\ [][Next]_vars

----------------------------------------------------------------------------
(* Properties. *)

\* Every variable has its type, and only live objects are in use.
TypeOK ==
    /\ accounts \subseteq Account /\ crashed \in BOOLEAN
    /\ groups \subseteq Group /\ {NoGroup, NotInList} \subseteq groups
    /\ gname \in [UserGroup -> GroupName \cup {None}]
    /\ members \in [Group -> SUBSET contacts]
    /\ contacts \subseteq Contact /\ cname \in [Contact -> Name \cup {None}]
    /\ cgroups \in [Contact -> SUBSET groups]
    /\ chead \in [Contact -> groups \cup {None}]
    /\ centries \in [Contact -> SUBSET entries]
    /\ ctag \in [Contact -> Tag \cup {None}] /\ tagOwner \in [Tag -> contacts \cup {None}]
    /\ entries \subseteq Entry /\ eaccount \in [Entry -> accounts \cup {None}]
    /\ ejid \in [Entry -> Address \cup {None}]
    /\ econtact \in [Entry -> contacts \cup {None}] /\ einfo \in [Entry -> Info]

\* Group::contacts and Contact::groups are two views of one relation, through
\* every sequence of moves, removals and pushes.
GroupsLinked == \A g \in Group : members[g] = {c \in contacts : g \in cgroups[c]}

\* Contact::entries and ContactEntry::contact are two views of one relation.
EntriesLinked == /\ \A e \in entries : econtact[e] \in contacts
                 /\ \A c \in contacts : centries[c] = {e \in entries : econtact[e] = c}

\* groups[0], which inList() and every move read, exists.
ContactHasGroup == \A c \in contacts : chead[c] \in cgroups[c]

\* The account of an entry, through which the client is reached, exists.
EntryHasAccount == \A e \in entries : eaccount[e] \in accounts

\* The lookup by address (findEntry, 436-448) returns the first entry that it finds:
\* whatever was typed and pushed, there is no second one, so a push, a presence or a
\* message for an address changes the one entry that the account can have meant.
OneEntryFound == \A a \in Account, x \in Address : \A e, f \in EntriesOf(a, x) : e = f

\* "No duplicates, please" (line 1366): an account has one entry for an address.  It
\* fails for an address typed in another spelling, which is stored as it is.
OneEntryPerAddress ==
    \A e, f \in entries :
        eaccount[e] = eaccount[f] /\ Bare[ejid[e]] = Bare[ejid[f]] => e = f

\* contactsByMetacontactTag holds the contacts that have a tag, and no other:
\* it never keeps a contact that was deleted or that has got another tag.
TagsIndexed == /\ \A t \in Tag : tagOwner[t] # None => ctag[tagOwner[t]] = t
               /\ \A c \in contacts : ctag[c] # None => tagOwner[ctag[c]] = c

\* An entry's main group is one of its groups, and its contact is in a group of
\* that name: a push that leaves the main group alone may leave the entry where
\* it is.  (A metacontact tag moves entries whatever their groups are.)
MainGroupShown ==
    \A e \in entries : LET main == einfo[e].main IN
        main # None => /\ main \in einfo[e].groups
                       /\ \E g \in cgroups[econtact[e]] \cap UserGroup : gname[g] = main

\* "We need to create the new contact" (line 1826): no contact is missing when
\* an entry changes groups.
NeverCrashes == ~crashed

\* "If a contact was found based on the entry name but the tags don't match, just
\* throw it away and create a new one" (line 2072): an entry that lost its tag
\* does not stay in, or get into, a contact that has one.
UntaggedApart ==
    [][\A e \in Entry : MetacontactChanged(e, None) /\ Running
                           => ctag'[econtact'[e]] = None]_vars
=============================================================================
