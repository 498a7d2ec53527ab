----------------------------- MODULE MCMem2Reg ------------------------------
(***************************************************************************)
(* Instance of Mem2Reg. Two variables over a diamond, a loop, a loop with  *)
(* two entries, a loop with an early exit, a join with an unreached        *)
(* predecessor and a single block, with every choice of what each block    *)
(* does with the variables; a block where both escape; and one store and   *)
(* one load over the graphs of five blocks whose entry branches to blocks  *)
(* 2 and 3.                                                                *)
(***************************************************************************)
EXTENDS Mem2Reg

MCVar == {1, 2}
MCToken == {21, 22}
MCValueCount == 11

Load(x, v) == [op |-> "load", var |-> x, val |-> v]
Store(x, v) == [op |-> "store", var |-> x, val |-> v]
Def(v) == [op |-> "def", val |-> v]
Call(x) == [op |-> "call", var |-> x, val |-> Undef]

\* Values 2b - 1 and 2b are those of block b.
Assign(x, b) == <<Def(2 * b), Store(x, 2 * b)>>
Copy(x, y, b) == <<Load(y, 2 * b - 1), Store(x, 2 * b - 1)>>
Swap(b) == <<Load(1, 2 * b - 1), Load(2, 2 * b), Store(2, 2 * b - 1), Store(1, 2 * b)>>
Use(x, b) == <<Load(x, 2 * b - 1)>>

Bodies(b) ==
  IF b = 1 THEN {<<>>, Assign(1, 1), Copy(2, 1, 1)}
  ELSE {<<>>, Assign(1, b), Copy(2, 1, b), Swap(b), Use(1, b),
        Use(2, b) \o <<Call(2)>>}
LastBodies == {<<>>, Copy(1, 2, 4), Use(1, 4)}

Shapes ==
  {<<<<2, 3>>, <<4>>, <<4>>, <<>>>>,
   <<<<2>>, <<3, 4>>, <<2>>, <<>>>>,
   <<<<2, 3>>, <<3, 4>>, <<2>>, <<>>>>,
   <<<<2>>, <<3, 4>>, <<4, 2>>, <<>>>>,
   <<<<2>>, <<4>>, <<4>>, <<>>>>}

FilledShapes ==
  UNION {{[succ |-> s, body |-> <<p, q, r, u>>] :
            p \in Bodies(1), q \in Bodies(2), r \in Bodies(3), u \in LastBodies} :
         s \in Shapes}

SingleBlocks ==
  {[succ |-> <<<<>>>>, body |-> <<Assign(1, 1) \o m \o n>>] :
     m \in {Copy(2, 1, 2), Swap(2), <<Call(2)>>}, n \in {Copy(1, 2, 3), Swap(3)}}

\* Both variables escape: nothing is promoted.
Escaping ==
  {[succ |-> <<<<>>>>, body |-> <<Assign(1, 1) \o m \o <<Call(1), Call(2)>>>>] :
     m \in {Copy(2, 1, 2), Use(1, 2)}}

\* Irreducible and nested loops among blocks 2 to 5, the last of which goes
\* back to 3 and 4.
Pairs == {e \in (2..4) \X (3..5) : e[1] # e[2]}
SuccLists == {<<a>> : a \in 2..5} \cup Pairs
Graphs ==
  {[succ |-> <<<<2, 3>>, p, q, r, <<3, 4>>>>,
    body |-> <<Assign(1, 1), <<>>, <<>>, Assign(1, 4), Use(1, 5)>>] :
     p \in SuccLists, q \in Pairs, r \in SuccLists}

MCInputs == FilledShapes \cup SingleBlocks \cup Escaping \cup Graphs
=============================================================================
