--------------------------- MODULE MCLiveIntervals ---------------------------
(* Instance of LiveIntervals: every control-flow graph of an entry and     *)
(* three further blocks with at most two successors each, in both orders,  *)
(* up to renaming of the blocks.                                           *)
EXTENDS LiveIntervals

MCBlock == 1..4
SuccLists ==
  {<<>>} \cup {<<a>> : a \in 2..4} \cup
    {<<e[1], e[2]>> : e \in {p \in (2..4) \X (2..4) : p[1] # p[2]}}

\* The blocks are numbered in the order the edge lists first mention them.
Mentions(s) == s[1] \o s[2] \o s[3] \o s[4]
Canonical(s) ==
  /\ s[1] # <<>> /\ s[1][1] = 2
  /\ \A b \in 3..4 : \A p \in 1..Len(Mentions(s)) :
       Mentions(s)[p] = b => \E q \in 1..(p - 1) : Mentions(s)[q] = b - 1
  /\ Range(Mentions(s)) = 2..4

MCCfgs == {s \in [1..4 -> SuccLists] : Canonical(s)}
MCCodes ==
  {c \in [1..4 -> {<<"nop", "nop">>, <<"use", "nop">>, <<"def", "nop">>,
                   <<"use", "def", "nop">>, <<"phi", "nop">>}] :
     /\ c[1][1] \in {"nop", "def"}
     /\ c[3][1] # "phi" /\ c[4][1] # "phi"}
=============================================================================
