-------------------------------- MODULE Lists --------------------------------
(***************************************************************************)
(* The one operation on vectors that several modules use and the community *)
(* modules have only with an operator for its argument: what Vec::retain   *)
(* and filter keep, given as a set, so that it can be reasoned about.      *)
(***************************************************************************)
EXTENDS Integers, Sequences

\* The elements of the list that are in S, in their order.
Kept(list, S) ==
  LET upTo[i \in 0..Len(list)] ==
        IF i = 0 THEN <<>>
        ELSE IF list[i] \in S THEN Append(upTo[i - 1], list[i]) ELSE upTo[i - 1]
  IN  upTo[Len(list)]
==============================================================================
