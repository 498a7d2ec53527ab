------------------------------ MODULE MCPhiElim ------------------------------
(* Instance of PhiElim: four shapes of control flow with self loops,       *)
(* latches and critical edges, up to three phis (values 2, 3 and 4) over a *)
(* parameter (1), each other and a computed value (5).                     *)
EXTENDS PhiElim

MCToken == {6, 7}

\* Successor lists and the block that computes value 5: a self loop, a
\* branch around a block, a loop with an exit from its latch, two joins, and
\* a loop in a loop.
Shapes ==
  {[succ |-> <<<<2>>, <<2, 3>>, <<>>>>, def |-> 2],
   [succ |-> <<<<2, 3>>, <<3>>, <<>>>>, def |-> 2],
   [succ |-> <<<<2>>, <<3, 4>>, <<2, 4>>, <<>>>>, def |-> 3],
   [succ |-> <<<<2, 3>>, <<3, 4>>, <<4>>, <<>>>>, def |-> 1],
   [succ |-> <<<<2>>, <<3>>, <<3, 4>>, <<2>>>>, def |-> 3]}

Joins(s) == {b \in DOMAIN s.succ : Cardinality(Preds(s.succ, b)) > 1}
PhisAt(s, b, v, vals) ==
  {[block |-> b, dest |-> v, from |-> g] : g \in [Preds(s.succ, b) -> vals]}

FunctionsOf(s, indirect) ==
  LET make(ps) == [n |-> Len(s.succ), succ |-> s.succ, indirect |-> indirect,
                   phis |-> ps, defs |-> [v \in {5} |-> s.def]]
      first == CHOOSE b \in Joins(s) : \A c \in Joins(s) : b <= c
      last == CHOOSE b \in Joins(s) : \A c \in Joins(s) : b >= c
  IN  {f \in {make({p, q, r}) : p \in PhisAt(s, first, 2, 1..5),
                                q \in PhisAt(s, first, 3, 1..5),
                                r \in PhisAt(s, last, 4, 1..5)} :
         InSSAForm(f)}

MCInputs == UNION {FunctionsOf(s, {}) : s \in Shapes}

\* A loop whose latch, block 3, ends in a computed goto to the header and out.
MCIndirectInputs ==
  FunctionsOf([succ |-> <<<<2>>, <<3>>, <<2, 4>>, <<>>>>, def |-> 3], {3})
=============================================================================
