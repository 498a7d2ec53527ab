---------------------------- MODULE MCCfgCleanup ----------------------------
(* Instance of CfgCleanup: shapes of control flow as lowering makes them,  *)
(* with trampolines, preheaders, latches, a switch, a computed goto and an *)
(* unreachable block.  Values: parameters 1 and 2, phis 3 and 4, a call 5, *)
(* a pure instruction 6.                                                   *)
EXTENDS CfgCleanup

MCToken == {7, 8}

Br(b) == [kind |-> "br", to |-> <<b>>, id |-> 0, arg |-> 0]
Ends(kind, to) == [kind |-> kind, to |-> to, id |-> 0, arg |-> 0]
Cond(b, c) == Ends("cond", <<b, c>>)
Ret == Ends("return", <<>>)

\* A shape: terminators, the block that makes a call, the block that has a
\* pure instruction.
Shape(terms, call, pure) == [terms |-> terms, call |-> call, pure |-> pure]

IfElse == Shape(<<Cond(2, 3), Br(4), Br(4), Ret>>, 1, 4)
DoLoop == Shape(<<Cond(2, 3), Br(4), Br(4), Br(5), Cond(5, 6), Ret>>, 5, 1)
WhileLoop == Shape(<<Br(2), Br(3), Cond(4, 6), Br(5), Br(3), Ret>>, 4, 1)
Switch == Shape(<<Ends("switch", <<2, 3, 4>>), Br(4), Br(4), Ret>>, 3, 3)
SharedTrampoline == Shape(<<Cond(2, 3), Br(4), Cond(4, 5), Br(5), Ret>>, 2, 3)
SharedJoin == Shape(<<Cond(2, 3), Br(4), Cond(2, 4), Ret>>, 3, 1)
Unreachable == Shape(<<Cond(2, 4), Br(4), Br(4), Br(5), Ret>>, 2, 3)
ComputedGoto == Shape(<<Ends("indirect", <<2, 3>>), Br(4), Br(4), Br(5), Ret>>, 2, 3)

\* Blocks on some path from the entry that avoids block a.
ReachedAvoiding(ts, a) ==
  LET r[k \in 0..Len(ts)] ==
        IF k = 0 THEN {1} \ {a}
        ELSE LET S == r[k - 1] IN S \cup ((UNION {Targets(ts[b]) : b \in S}) \ {a})
  IN  r[Len(ts)]

Live(ts) == ReachedAvoiding(ts, 0)
PredsOf(ts, b) == {a \in Live(ts) : b \in Targets(ts[a])}
Joins(ts) == {b \in Live(ts) : Cardinality(PredsOf(ts, b)) > 1}

FirstJoin(ts) == CHOOSE b \in Joins(ts) : \A c \in Joins(ts) : b <= c
LastJoin(ts) == CHOOSE b \in Joins(ts) : \A c \in Joins(ts) : b >= c

\* The values in scope at the end of each block, value 3 selected at the
\* first join, 4 at the last one.
Scopes(s) ==
  LET def == <<1, 1, FirstJoin(s.terms), LastJoin(s.terms), s.call, s.pure>>
      avoiding == [b \in DOMAIN s.terms |-> ReachedAvoiding(s.terms, b)]
  IN  [b \in Live(s.terms) |-> {v \in 1..6 : b \notin avoiding[def[v]]}]

PhisAt(ts, b, v, scope) ==
  {[block |-> b, dest |-> v, from |-> g] :
     g \in {h \in [PredsOf(ts, b) -> 1..6] : \A a \in DOMAIN h : h[a] \in scope[a]}}

\* The function: the call is passed c, every block ends with value r.
Make(s, phis, c, r) ==
  LET ts == s.terms
      at(b) == {p \in phis : p.block = b}
      phi(p) == [dest |-> p.dest,
                 in |-> {[val |-> p.from[a], pred |-> a] : a \in DOMAIN p.from}]
      one(kind, b, dest, arg) ==
        <<[kind |-> kind, id |-> dest, dest |-> dest, arg |-> arg]>>
      block(b) ==
        [phis |-> LET ps == SetToSortSeq(at(b), LAMBDA p, q : p.dest < q.dest)
                  IN  [i \in DOMAIN ps |-> phi(ps[i])],
         body |-> (IF s.pure = b THEN one("pure", b, 6, 0) ELSE <<>>) \o
                  (IF s.call = b THEN one("call", b, 5, c) ELSE <<>>),
         term |-> IF ts[b].kind = "br" THEN ts[b]
                  ELSE [ts[b] EXCEPT !.id = 10 + b,
                                     !.arg = IF ts[b].kind = "return" THEN r ELSE 0],
         preds |-> {a \in DOMAIN ts : b \in Targets(ts[a])},
         succs |-> Targets(ts[b])]
  IN  [b \in DOMAIN ts |-> block(b)]

FunctionsOf(s) ==
  LET scope == Scopes(s)
      ts == s.terms
  IN  {Make(s, {p, q}, c, r) :
         p \in PhisAt(ts, FirstJoin(ts), 3, scope), q \in PhisAt(ts, LastJoin(ts), 4, scope),
         c \in scope[s.call] \ {2, 5, 6}, r \in scope[Len(ts)] \ {1, 2}}

PhisOf(f) == UNION {Range(f[b].phis) : b \in DOMAIN f}

\* A trivial phi that stands for another trivial phi.
HasTrivialChain(f) ==
  \E p, q \in PhisOf(f) : IsTrivial(p) /\ IsTrivial(q) /\ Operands(p) = {q.dest}

\* A value selected by an empty block and used again by a phi of its target.
HasUseInTargetPhi(f) ==
  \E e \in DOMAIN f : IsEmpty(f[e]) /\
    \E p \in Range(f[e].phis), q \in Range(f[Head(f[e].term.to)].phis) :
      \E x \in q.in : x.val = p.dest /\ x.pred # e

\* A branch in a case of a switch to two other cases, all of which lead to
\* one join.
SharedArms == Shape(<<Ends("switch", <<3, 4, 5, 2>>), Cond(3, 4), Br(5), Br(5), Ret>>, 1, 5)

MCAllInputs ==
  FunctionsOf(IfElse) \cup FunctionsOf(DoLoop) \cup FunctionsOf(WhileLoop) \cup
  FunctionsOf(Switch) \cup FunctionsOf(SharedTrampoline) \cup
  FunctionsOf(SharedJoin) \cup FunctionsOf(Unreachable) \cup
  FunctionsOf(ComputedGoto)
MCInputs == {f \in MCAllInputs : ~HasTrivialChain(f) /\ ~HasUseInTargetPhi(f)}
MCArmsInputs ==
  {f \in FunctionsOf(SharedArms) : ~HasTrivialChain(f) /\ ~HasUseInTargetPhi(f)}
MCLoopInputs == {f \in MCAllInputs : ~HasTrivialChain(f) /\ HasUseInTargetPhi(f)}
=============================================================================
