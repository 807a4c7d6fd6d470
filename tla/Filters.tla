------------------------------- MODULE Filters -------------------------------
(***************************************************************************)
(* filter() of an array, for a set instead of a predicate: unlike an       *)
(* operator, a set can be handed to a lemma about it.                      *)
(***************************************************************************)
EXTENDS Integers, Sequences

\* What of a sequence is in S, in its order.
Only(order, S) ==
  LET only[n \in 0 .. Len(order)] ==
        IF n = 0 THEN <<>>
        ELSE IF order[n] \in S THEN Append(only[n - 1], order[n]) ELSE only[n - 1]
  IN  only[Len(order)]
=============================================================================
