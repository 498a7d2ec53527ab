---------------------------- MODULE MCScalarPasses ----------------------------
(***************************************************************************)
(* Instance of ScalarPasses: two parameters and functions of six families. *)
(*                                                                         *)
(* Left out: bitcasts between types, accesses to one place by two types    *)
(* but as AsOneType allows, the same computation in blocks neither of      *)
(* which dominates the other, chains of invariants over the blocks of a    *)
(* loop, a second pointer in a block that stores, volatile loads between   *)
(* stores, and register coalescing of functions with phis.  The functions  *)
(* defined last are of these kinds, each on its own.                       *)
(***************************************************************************)
EXTENDS ScalarPasses

MCParams == {1, 2}

Op(op, d, x, y) == [op |-> op, dest |-> d, args |-> <<x, y>>, from |-> 0, to |-> 0]
Const(d) == Op("const", d, d, 0)
Conv(op, d, x, m, n) == [op |-> op, dest |-> d, args |-> <<x>>, from |-> m, to |-> n]
Copy(d, x) == Conv("bitcast", d, x, 64, 64)
StoreOf(type, v, p) == [Op("store", 0, v, p) EXCEPT !.from = type]
LoadOf(type, d, p) == Conv("load", d, p, 0, type)
Store(v, p) == StoreOf(64, v, p)
Load(d, p) == LoadOf(64, d, p)
VLoad(d, p) == [op |-> "vload", dest |-> d, args |-> <<p>>, from |-> 0, to |-> 0]
Call(d, a) == [op |-> "call", dest |-> d, args |-> a, from |-> 0, to |-> 0]

Br(t) == [kind |-> "br", to |-> <<t>>, arg |-> 0]
Cond(v, t, e) == [kind |-> "cond", to |-> <<t, e>>, arg |-> v]
Ret(v) == [kind |-> "return", to |-> <<>>, arg |-> v]
Phi(d, v, a, w, b) == [dest |-> d, in |-> <<[val |-> v, pred |-> a], [val |-> w, pred |-> b]>>]
Block(phis, body, term) == [phis |-> phis, body |-> body, term |-> term]

\* No invariant of a loop uses one of another block of the loop, neither
\* as the function is given nor when its copies are propagated.
UnchainedIn(f) ==
  \A lp \in Range(Loops(f)) :
    LET inv == Invariants(f, lp.body, DefinedIn(f, lp.body)) IN
    \A b, c \in lp.body :
      b # c => \A i \in Range(f[b].body), j \in Range(f[c].body) :
                 {i.dest, j.dest} \subseteq inv => i.dest \notin Range(j.args)
Unchained(f) ==
  UnchainedIn(f) /\ UnchainedIn(Renamed(f, Chased(ReplacedBy(Copies(f)))))

-----------------------------------------------------------------------------
\* A loop: 3 goes round, 4 is computed before it, 5 where it is entered and
\* 6 and 7 in its body.
LoopFns ==
  {<<Block(<<>>, <<before>>, Br(2)),
     Block(<<Phi(3, init, 1, next, 3)>>, <<top>>, Cond(5, 3, 4)),
     Block(<<>>, <<first, second>>, Br(2)),
     Block(<<>>, <<>>, Ret(3))>> :
     before \in {Const(4), Op("add", 4, 1, 2)},
     init \in {1, 4},
     next \in {6, 7},
     top \in {Op("add", 5, 2, 1), Op("add", 5, 3, 4), Copy(5, 3)},
     first \in {Op("sub", 6, 1, 2), Op("sub", 6, 3, 2), Copy(6, 3)},
     second \in {Op("sub", 7, 1, 2), Op("sub", 7, 6, 1), Op("div", 7, 1, 2), Call(7, <<6>>)}}

\* A loop in a loop: what is invariant in the inner one may be in the outer.
NestedFns ==
  {<<Block(<<>>, <<>>, Br(2)),
     Block(<<Phi(3, 1, 1, next, 5)>>, <<outer>>, Cond(2, 3, 6)),
     Block(<<Phi(5, 3, 2, 6, 4)>>, <<Op("xor", 8, 5, 1)>>, Cond(8, 4, 5)),
     Block(<<>>, <<inner, Op("div", 7, 6, 2)>>, Br(3)),
     Block(<<>>, <<>>, Br(2)),
     Block(<<>>, <<>>, Ret(result))>> :
     next \in {4, 5},
     outer \in {Op("add", 4, 1, 2), Op("add", 4, 3, 2), Copy(4, 1)},
     inner \in {Op("sub", 6, 1, 2), Op("sub", 6, 3, 2), Op("sub", 6, 5, 2), Copy(6, 5)},
     result \in {3, 4}}

\* Two ways from 1 to 4, with what is redundant in block 1 or below it.
DiamondFns ==
  {<<Block(<<>>, <<Op("add", 4, x, 3 - x)>>, Cond(4, 2, 3)),
     Block(<<>>, <<left, Op("sub", 6, 5, 2)>>, Br(4)),
     Block(<<>>, <<Op("div", 7, 1, 2)>>, Br(4)),
     Block(<<Phi(3, in, 2, out, 3)>>, <<Op("add", 8, 2, 1)>>, Ret(result))>> :
     x \in {1, 2}, in \in {4, 5, 6}, out \in {4, 7},
     left \in {Op("add", 5, 2, 1), Op("add", 5, 4, 1), Copy(5, 4)},
     result \in {3, 8}}

\* Memory: block 1 stores addresses and bytes through one pointer; block 2
\* makes a last access.
Accesses(d) ==
  {Store(1, 1), Store(2, 1), StoreOf(8, 3, 1), Load(d, 1), LoadOf(8, d, 1),
   Call(d, <<1>>), Call(d, <<d - 1>>)}
MemoryFns ==
  {<<Block(<<>>, <<Call(3, <<1>>), first, i, j, k>>, Cond(6, 2, 2)),
     Block(<<>>, <<last, Load(8, 2)>>, Ret(x))>> :
     first \in {Store(2, 1), StoreOf(8, 3, 1)}, i \in {Load(4, 1), LoadOf(8, 4, 1), Store(1, 1)},
     j \in Accesses(5), k \in Accesses(6),
     last \in {Load(7, 1), VLoad(7, 2), Call(7, <<6>>)}, x \in {7, 8}}

\* Between calls, a place that was stored to is read as the type that was
\* stored last, and no store there is followed by a narrower one.
AsOneType(f) ==
  \A b \in DOMAIN f :
    LET code == f[b].body
        later(k, m) == k < m /\ \A n \in k..m : code[n].op # "call"
        stores(k, p) == code[k].op = "store" /\ code[k].args[2] = p
    IN  \A k, m \in DOMAIN code :
          later(k, m) /\ code[k].op = "store" =>
            LET p == code[k].args[2] IN
            /\ stores(m, p) => Bits(code[k].from) <= Bits(code[m].from)
            /\ code[m].op = "load" /\ code[m].args[1] = p =>
                 \/ code[m].to = code[k].from
                 \/ \E n \in (k + 1)..(m - 1) : stores(n, p)

\* Widening and narrowing between 8, 16 and 32 bits.
CastFns ==
  {<<Block(<<>>, <<Conv(op, 4, 1, 8, n), Conv("trunc", 5, 4, n, 8), more>>, Br(2)),
     Block(<<>>, <<Conv("trunc", 7, 6, 32, m)>>, Ret(7))>> :
     op \in {"zext", "sext"}, n \in {8, 16}, m \in {8, 16},
     more \in {Conv("zext", 6, x, 8, 32) : x \in {1, 5}} \cup
              {Conv("sext", 6, x, 16, 32) : x \in {2, 4}}}

\* Calls in tail position, and almost.
TailFns ==
  {<<Block(<<>>, <<Call(4, <<1>>), Call(5, <<x>>)>> \o more, Ret(y))>> :
     x \in {1, 4}, more \in {<<>>, <<Op("add", 6, 4, 5)>>}, y \in {0, 4, 5}}

MCInputs ==
  {f \in LoopFns \cup NestedFns \cup DiamondFns : WellFormed(f) /\ Unchained(f)} \cup
  {f \in MemoryFns : WellFormed(f) /\ AsOneType(f)} \cup
  {f \in CastFns \cup TailFns : WellFormed(f)}
MCSpared == LoopFns \cup NestedFns \cup DiamondFns

-----------------------------------------------------------------------------
\* A counter from one constant by another, compared with a parameter.
CoalescedFns == {<<
  Block(<<>>, <<Const(4), Const(5)>>, Br(2)),
  Block(<<Phi(3, 4, 1, 6, 3)>>, <<Op("sub", 7, 3, 2)>>, Cond(7, 3, 4)),
  Block(<<>>, <<Op("add", 6, 3, 5)>>, Br(2)),
  Block(<<>>, <<>>, Ret(3))>>}

\* The same sum in both arms of a branch, and used in the second.
SiblingFns == {<<
  Block(<<>>, <<>>, Cond(1, 2, 3)),
  Block(<<>>, <<Op("add", 4, 1, 2), Call(5, <<4>>)>>, Br(4)),
  Block(<<>>, <<Op("add", 6, 1, 2), Call(7, <<6>>)>>, Br(4)),
  Block(<<>>, <<>>, Ret(1))>>}

\* A chain of invariants over two blocks of a loop.
ChainedFns == {<<
  Block(<<>>, <<>>, Br(2)),
  Block(<<>>, <<Op("add", 4, 1, 2), Call(5, <<4>>)>>, Cond(5, 3, 4)),
  Block(<<>>, <<Op("sub", 6, 4, 1), Call(7, <<6>>)>>, Br(2)),
  Block(<<>>, <<>>, Ret(1))>>}

\* A store through a second pointer between a store and a load.
AliasedFns == {<<
  Block(<<>>, <<Const(4), Const(5), Store(4, 1), Store(5, 2), Load(6, 1)>>, Ret(6))>>}

\* An integer converted to floating point and returned; converted to two
\* types, of which one is returned.
ConvertedFns ==
  {<<Block(<<>>, <<Conv("bitcast", 4, 1, 32, -64)>> \o more, Ret(4))>> :
     more \in {<<>>, <<Conv("bitcast", 5, 1, 32, -32), Call(6, <<5>>)>>}}

\* A byte read from an address that was just stored.
PunnedFns == {<<Block(<<>>, <<Store(2, 1), LoadOf(8, 4, 1)>>, Ret(4))>>}

\* A byte stored over part of an address.
PartialFns == {<<
  Block(<<>>, <<Call(3, <<2>>), Store(2, 1), StoreOf(8, 3, 1)>>, Ret(0))>>}

\* A volatile load between two stores.
VolatileFns == {<<Block(<<>>, <<Store(1, 1), VLoad(3, 1), Store(2, 1)>>, Ret(3))>>}
=============================================================================
