----------------------------- MODULE MCRoster -----------------------------
(* Instances of Roster for TLC. *)
EXTENDS Roster, TLC

CONSTANTS a1, a2, c1, c2, c3, e1, e2, e3, g1, g2, j1, j2, J1

Plain == [x \in {j1, j2} |-> x]
OneJid == [x \in {j1} |-> x]
\* J1 is another spelling of j1.
Spelled == [x \in {j1, J1} |-> j1]

Objects == Permutations(Account) \cup Permutations(Contact) \cup Permutations(Entry)
           \cup Permutations(UserGroup)
=============================================================================
