--------------------------- MODULE MCGroupChats ---------------------------
(* An instance of GroupChats for TLC.  No definition tells one nickname from another,
   and every property is an invariant: states that differ in the names are one.  *)
EXTENDS GroupChats, TLC

Nicknames == Permutations(Nick)
=============================================================================
