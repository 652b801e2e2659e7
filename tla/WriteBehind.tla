------------------------------- MODULE WriteBehind -------------------------------
(* What a cache that is written behind promises of its backing store: the store holds
   a value that the cache once had, whole, and never goes back to an older one.  It
   need not ever be the latest.  The store may begin with a value of its own, from
   which the cache does not start.                                                  *)
EXTENDS Integers, Sequences

CONSTANT Value

VARIABLES past,     \* the store's first value, then every value that the cache has had
          at,       \* which of them is stored
          backing   \* what the store holds

vars == <<past, at, backing>>

Init == /\ \E first, cached \in Value : past = <<first, cached>>
        /\ at = 1 /\ backing = past[1]

Change == /\ \E v \in Value : past' = Append(past, v)
          /\ UNCHANGED <<at, backing>>

Store == /\ at' \in at..Len(past)
         /\ backing' = past[at']
         /\ UNCHANGED past

Next == Change \/ Store

Spec == Init /\ [][Next]_vars
==================================================================================
