--------------------------- MODULE PhiElimProofs ---------------------------
(***************************************************************************)
(* Phi elimination preserves the function it is given, for every function  *)
(* in SSA form: what a value has at a block it is in scope of is the same  *)
(* before and after, on every path.                                        *)
(*                                                                         *)
(* The argument has three parts: why chains of trivial phis end, what the  *)
(* edges and phis look like when they have been split, and what the copies *)
(* of each block do.  What dominance is good for is in Lemmas.  The        *)
(* theorems about putting the copies of one block in order come with the   *)
(* third part: they are about ParallelCopy alone.                          *)
(***************************************************************************)
EXTENDS PhiElim, Lemmas, FiniteSetTheorems

-----------------------------------------------------------------------------
(* Values, by the blocks that define them.                                 *)

Alive(f, v) == DefBlock(f, v) \in Reachable(f.succ)
Above(f, u, v) == Dominates(f.succ, DefBlock(f, u), DefBlock(f, v))
StrictlyAbove(f, u, v) == Above(f, u, v) /\ DefBlock(f, u) # DefBlock(f, v)

LEMMA Form ==
  ASSUME NEW f, InSSAForm(f)
  PROVE  /\ Graph(f.succ, f.n) /\ DOMAIN f.succ = 1..f.n
         /\ DOMAIN f.defs \subseteq Value \ {Undef}
         /\ \A p, q \in f.phis : p.dest = q.dest => p = q
         /\ \A p \in f.phis :
              /\ p.block \in 2..f.n /\ p.dest \in Value \ {Undef}
              /\ DOMAIN p.from = Preds(f.succ, p.block)
              /\ p.from \in [Preds(f.succ, p.block) -> Value]
              /\ p \in [block : 2..f.n, dest : Value \ {Undef},
                        from : [Preds(f.succ, p.block) -> Value]]
              /\ DefBlock(f, p.dest) = p.block
              /\ \A b \in DOMAIN p.from : Dominates(f.succ, DefBlock(f, p.from[b]), b)
<1>1. Graph(f.succ, f.n) /\ DOMAIN f.succ = 1..f.n
  BY DEF InSSAForm, Graph
<1>2. \A p, q \in f.phis : p.dest = q.dest => p = q
  BY DEF InSSAForm
<1>3. ASSUME NEW p \in f.phis
      PROVE  /\ p.block \in 2..f.n /\ p.dest \in Value \ {Undef}
             /\ DOMAIN p.from = Preds(f.succ, p.block)
             /\ p.from \in [Preds(f.succ, p.block) -> Value]
             /\ p \in [block : 2..f.n, dest : Value \ {Undef},
                       from : [Preds(f.succ, p.block) -> Value]]
             /\ DefBlock(f, p.dest) = p.block
             /\ \A b \in DOMAIN p.from : Dominates(f.succ, DefBlock(f, p.from[b]), b)
  <2>1. /\ p \in [block : 2..f.n, dest : Value \ {Undef},
                  from : [Preds(f.succ, p.block) -> Value]]
        /\ \A b \in DOMAIN p.from : Dominates(f.succ, DefBlock(f, p.from[b]), b)
    BY DEF InSSAForm
  <2>2. (CHOOSE q \in f.phis : q.dest = p.dest) = p
    BY <1>2
  <2>3. DefBlock(f, p.dest) = p.block
    BY <2>2 DEF DefBlock
  <2> QED  BY <2>1, <2>3
<1>4. DOMAIN f.defs \subseteq Value \ {Undef}
  BY DEF InSSAForm
<1> QED  BY <1>1, <1>2, <1>3, <1>4

(* Values are ordered by the blocks of their definitions.                  *)
LEMMA Order ==
  ASSUME NEW f, InSSAForm(f), NEW u, NEW v, NEW w, Alive(f, w)
  PROVE  /\ Above(f, w, w)
         /\ Above(f, v, w) => Alive(f, v)
         /\ Above(f, u, v) /\ Above(f, v, w) => Above(f, u, w)
         /\ StrictlyAbove(f, u, v) /\ Above(f, v, w) => StrictlyAbove(f, u, w)
         /\ Above(f, u, v) /\ StrictlyAbove(f, v, w) => StrictlyAbove(f, u, w)
         /\ ~(StrictlyAbove(f, u, w) /\ Above(f, w, u))
<1> DEFINE a == DefBlock(f, u)
           b == DefBlock(f, v)
           c == DefBlock(f, w)
           Dom(x, y) == Dominates(f.succ, x, y)
<1>1. Graph(f.succ, f.n) /\ c \in Reachable(f.succ)
  BY Form DEF Alive
<1> HIDE DEF a, b, c
<1>2. Dom(c, c) /\ (Dom(b, c) => b \in Reachable(f.succ))
  BY <1>1, DomReached
<1>3. Dom(a, b) /\ Dom(b, c) => Dom(a, c)
  BY <1>1, DomTransitive
<1>4. Dom(a, c) /\ Dom(c, a) => a = c
  BY <1>1, DomAntisymmetric
<1>5. Dom(a, b) /\ Dom(b, c) /\ a = c => b = a
  <2>1. b \in Reachable(f.succ) /\ Dom(a, b) /\ Dom(b, a) => a = b
    BY <1>1, DomAntisymmetric
  <2> QED  BY <1>2, <2>1
<1> HIDE DEF Dom
<1> QED  BY <1>2, <1>3, <1>4, <1>5 DEF Above, StrictlyAbove, Alive, Dom, a, b, c

-----------------------------------------------------------------------------
(* Chains of trivial phis.  Each leads to a value defined strictly before  *)
(* it, so following as many links as there are trivial phis reaches the    *)
(* end of the chain.                                                       *)

ChaseRec(N, C) ==
  C = [k \in 0..Cardinality(Trivial) |->
         IF k = 0 THEN Identity ELSE [v \in Value |-> C[k - 1][N[v]]]]

Links ==
  [v \in Value |-> IF \E p \in Trivial : p.dest = v
                   THEN Replacement(CHOOSE p \in Trivial : p.dest = v)
                   ELSE v]

Chase(C) ==
  /\ \A k \in 0..Cardinality(Trivial) : C[k] \in [Value -> Value]
  /\ C[0] = Identity
  /\ \A k \in 1..Cardinality(Trivial) : C[k] = [v \in Value |-> C[k - 1][Links[v]]]
  /\ Resolved = C[Cardinality(Trivial)]

\* What is known of the phis in the first phase.
Leads(f) ==
  /\ IsFiniteSet(Trivial)
  /\ \A p, q \in Trivial : p.dest = q.dest => p = q
  /\ \A q \in Trivial :
       /\ q.dest \in Value /\ Replacement(q) \in Value
       /\ Alive(f, q.dest) => StrictlyAbove(f, Replacement(q), q.dest)

(* What a value is replaced by is the operand of its phi, if that is trivial. *)
LEMMA LinksFacts ==
  ASSUME NEW f, Leads(f)
  PROVE  /\ Links \in [Value -> Value]
         /\ \A q \in Trivial : Links[q.dest] = Replacement(q)
         /\ \A v \in Value : (\A q \in Trivial : q.dest # v) => Links[v] = v
         /\ Cardinality(Trivial) \in Nat
<1>1. ASSUME NEW q \in Trivial
      PROVE  (CHOOSE p \in Trivial : p.dest = q.dest) = q
  BY DEF Leads
<1>2. \A q \in Trivial : q.dest \in Value /\ Replacement(q) \in Value
  BY DEF Leads
<1>3. \A q \in Trivial : Links[q.dest] = Replacement(q)
  BY <1>1, <1>2 DEF Links
<1>4. \A v \in Value : (\A q \in Trivial : q.dest # v) => Links[v] = v
  BY DEF Links
<1>5. \A v \in Value : Links[v] \in Value
  BY <1>2, <1>3, <1>4
<1>6. Links = [v \in Value |-> Links[v]]
  BY DEF Links
<1>7. Cardinality(Trivial) \in Nat
  BY FS_CardinalityType DEF Leads
<1> HIDE DEF Links
<1>8. Links \in [Value -> Value]
  BY <1>5, <1>6
<1> QED  BY <1>3, <1>4, <1>7, <1>8

(* Resolved is the last round of a chase, which exists.                    *)
LEMMA ResolvedSteps ==
  ASSUME NEW f, Leads(f)
  PROVE  \E C : Chase(C)
<1> DEFINE K == Cardinality(Trivial)
           V == [Value -> Value]
           base == Identity
           step == [p \in (1..K) \X V |-> [v \in Value |-> p[2][Links[v]]]]
<1>1. K \in Nat /\ Links \in [Value -> Value]
  BY LinksFacts
<1>2. \A S \in V : [v \in Value |-> S[Links[v]]] \in V
  BY <1>1
<1>3. step \in [(1..K) \X V -> V] /\ base \in V
  BY <1>2 DEF Identity
<1>4. PICK C : Follows(C, K, V, base, step)
  <2> HIDE DEF V, step, base, K
  <2> QED  BY <1>1, <1>3, Recursion
<1>5. /\ C \in [0..K -> V] /\ C[0] = base
      /\ \A i \in 1..K : C[i] = step[<<i, C[i - 1]>>]
  BY <1>4 DEF Follows
<1>6. ChaseRec(Links, C)
  <2>1. C = [k \in 0..K |-> C[k]]
    BY <1>5
  <2>2. ASSUME NEW k \in 1..K
        PROVE  C[k] = [v \in Value |-> C[k - 1][Links[v]]]
    <3>1. k - 1 \in 0..K
      BY <1>1
    <3>2. C[k - 1] \in V
      BY <1>5, <3>1
    <3>3. C[k] = step[<<k, C[k - 1]>>]
      BY <1>5
    <3> QED  BY <3>2, <3>3
  <2> HIDE DEF V, step, K
  <2>3. \A k \in 0..K : k = 0 \/ k \in 1..K
    BY <1>1
  <2>4. \A k \in 0..K : C[k] = IF k = 0 THEN Identity
                               ELSE [v \in Value |-> C[k - 1][Links[v]]]
    BY <2>2, <2>3, <1>5 DEF base
  <2>5. C = [k \in 0..K |-> IF k = 0 THEN Identity
                            ELSE [v \in Value |-> C[k - 1][Links[v]]]]
    BY <2>1, <2>4
  <2> QED  BY <2>5 DEF ChaseRec, K
<1>7. Resolved = (CHOOSE C1 : ChaseRec(Links, C1))[K]
  BY DEF Resolved, ChaseRec, Links
<1> HIDE DEF V, step, base, K
<1>8. PICK C1 : ChaseRec(Links, C1) /\ Resolved = C1[K]
  BY <1>6, <1>7
<1>9. \A k \in 0..K : C1[k] = IF k = 0 THEN Identity
                              ELSE [v \in Value |-> C1[k - 1][Links[v]]]
  BY <1>8 DEF ChaseRec, K
<1>10. /\ 0 \in 0..K /\ \A k \in 1..K : k \in 0..K /\ k # 0
  BY <1>1
<1>11. C1[0] = Identity /\ \A k \in 1..K : C1[k] = [v \in Value |-> C1[k - 1][Links[v]]]
  BY <1>9, <1>10
<1> DEFINE Typed == {k \in Nat : k <= K => C1[k] \in V}
<1>12. \A k \in 0..K : C1[k] \in V
  <2>1. 0 \in Typed
    BY <1>3, <1>11 DEF base
  <2>2. ASSUME NEW k \in Nat, k \in Typed PROVE k + 1 \in Typed
    <3>1. k + 1 <= K => k \in Typed /\ k <= K /\ k + 1 \in 1..K /\ (k + 1) - 1 = k
      BY <2>2, <1>1
    <3>2. k + 1 <= K => C1[k + 1] = [v \in Value |-> C1[k][Links[v]]]
      BY <3>1, <1>11
    <3> QED  BY <3>1, <3>2, <1>2
  <2> HIDE DEF Typed
  <2>3. \A k \in Nat : k \in Typed
    BY <2>1, <2>2, SetInduction
  <2> QED  BY <2>3 DEF Typed
<1> QED  BY <1>8, <1>11, <1>12 DEF V, K, Chase

\* The trivial phis a chain from v may still come through.
Ahead(f, v) == {q \in Trivial : q.dest = v \/ StrictlyAbove(f, q.dest, v)}

(* Each link leaves fewer trivial phis ahead, for it goes up in dominance. *)
LEMMA AheadShrinks ==
  ASSUME NEW f, InSSAForm(f), Leads(f), NEW q \in Trivial, Alive(f, q.dest)
  PROVE  /\ Cardinality(Ahead(f, q.dest)) \in Nat
         /\ Cardinality(Ahead(f, Replacement(q))) \in Nat
         /\ Cardinality(Ahead(f, Replacement(q))) < Cardinality(Ahead(f, q.dest))
<1> DEFINE u == Replacement(q)
           v == q.dest
           S == Ahead(f, v)
           T == Ahead(f, u)
<1>1. StrictlyAbove(f, u, v) /\ Above(f, u, v) /\ IsFiniteSet(Trivial)
  BY DEF Leads, StrictlyAbove
<1>2. ASSUME NEW r \in T PROVE r \in S /\ r # q
  <2>1. r \in Trivial /\ (r.dest = u \/ StrictlyAbove(f, r.dest, u))
    BY DEF Ahead
  <2>2. StrictlyAbove(f, r.dest, u) => StrictlyAbove(f, r.dest, v)
    BY <1>1, Order
  <2>3. ~(StrictlyAbove(f, v, u)) /\ u # v
    <3>1. ~(StrictlyAbove(f, u, v) /\ Above(f, v, u))
      BY Order
    <3> QED  BY <1>1, <3>1 DEF StrictlyAbove
  <2> QED  BY <1>1, <2>1, <2>2, <2>3 DEF Ahead
<1>3. q \in S /\ S \in SUBSET Trivial
  BY DEF Ahead
<1> HIDE DEF S, T, u, v
<1>4. IsFiniteSet(S)
  BY <1>1, <1>3, FS_Subset
<1>5. IsFiniteSet(S \ {q}) /\ Cardinality(S \ {q}) = Cardinality(S) - 1
  BY <1>3, <1>4, FS_RemoveElement
<1>6. T \in SUBSET (S \ {q})
  BY <1>2
<1>7. IsFiniteSet(T) /\ Cardinality(T) <= Cardinality(S \ {q})
  BY <1>5, <1>6, FS_Subset
<1>8. Cardinality(S) \in Nat /\ Cardinality(T) \in Nat
  BY <1>4, <1>7, FS_CardinalityType
<1>9. Cardinality(T) < Cardinality(S)
  BY <1>5, <1>7, <1>8
<1> QED  BY <1>8, <1>9 DEF S, T, u, v

LEMMA ChaseFacts ==
  ASSUME NEW f, InSSAForm(f), Leads(f), NEW C, Chase(C),
         NEW k \in Nat, k <= Cardinality(Trivial)
  PROVE  /\ \A v \in Value : (\A q \in Trivial : q.dest # v) => C[k][v] = v
         /\ \A v \in Value : Alive(f, v) => Above(f, C[k][v], v)
<1> DEFINE K == Cardinality(Trivial)
           Plain(v) == \A q \in Trivial : q.dest # v
           Good == {i \in Nat : i <= K =>
                      /\ \A v \in Value : Plain(v) => C[i][v] = v
                      /\ \A v \in Value : Alive(f, v) => Above(f, C[i][v], v)}
<1>1. /\ K \in Nat /\ Links \in [Value -> Value]
      /\ \A q \in Trivial : Links[q.dest] = Replacement(q)
      /\ \A v \in Value : Plain(v) => Links[v] = v
  BY LinksFacts
<1>2. /\ C[0] = Identity
      /\ \A i \in 1..K : C[i] = [v \in Value |-> C[i - 1][Links[v]]]
  BY DEF Chase
<1> HIDE DEF K
<1>3. 0 \in Good
  BY <1>2, Order DEF Identity
<1>4. ASSUME NEW i \in Nat, i \in Good PROVE i + 1 \in Good
  <2> SUFFICES ASSUME i + 1 <= K, NEW v \in Value
      PROVE  /\ Plain(v) => C[i + 1][v] = v
             /\ Alive(f, v) => Above(f, C[i + 1][v], v)
    BY DEF Good
  <2>1. i <= K /\ i + 1 \in 1..K /\ (i + 1) - 1 = i
    BY <1>1
  <2>2. C[i + 1][v] = C[i][Links[v]] /\ Links[v] \in Value
    <3>1. C[i + 1] = [w \in Value |-> C[(i + 1) - 1][Links[w]]]
      BY <1>2, <2>1
    <3>2. C[i + 1] = [w \in Value |-> C[i][Links[w]]]
      BY <2>1, <3>1
    <3>3. Links[v] \in Value
      BY <1>1
    <3> QED  BY ONLY <3>2, <3>3, v \in Value
  <2>3. /\ \A w \in Value : Plain(w) => C[i][w] = w
        /\ \A w \in Value : Alive(f, w) => Above(f, C[i][w], w)
    BY <1>4, <2>1
  <2>4. Plain(v) => Links[v] = v
    BY <1>1
  <2> HIDE DEF Plain
  <2>5. CASE Plain(v)
    BY <2>2, <2>3, <2>4, <2>5
  <2>6. CASE ~Plain(v)
    <3>1. PICK q \in Trivial : q.dest = v
      BY <2>6 DEF Plain
    <3>2. Links[v] = Replacement(q)
      BY <1>1, <3>1
    <3>3. ASSUME Alive(f, v)
          PROVE  Above(f, C[i][Links[v]], v)
      <4>1. Above(f, Links[v], v)
        BY <3>1, <3>2, <3>3 DEF Leads, StrictlyAbove
      <4>2. Alive(f, Links[v])
        BY <3>3, <4>1, Order
      <4>3. Above(f, C[i][Links[v]], Links[v])
        BY <2>2, <2>3, <4>2
      <4> QED  BY <3>3, <4>1, <4>3, Order
    <3> QED  BY <2>2, <2>6, <3>3
  <2> QED  BY <2>5, <2>6
<1> HIDE DEF Good
<1>5. k \in Good
  BY <1>3, <1>4, SetInduction
<1> QED  BY <1>5 DEF Good, K

(* A chase that has as many rounds as there are phis ahead is over.        *)
LEMMA ChaseSettles ==
  ASSUME NEW f, InSSAForm(f), Leads(f), NEW C, Chase(C),
         NEW k \in Nat, k + 1 <= Cardinality(Trivial),
         NEW v \in Value, Alive(f, v), Cardinality(Ahead(f, v)) <= k
  PROVE  C[k + 1][v] = C[k][v]
<1> DEFINE K == Cardinality(Trivial)
           Plain(w) == \A q \in Trivial : q.dest # w
           Good == {i \in Nat : i + 1 <= K =>
                      \A w \in Value :
                        Alive(f, w) /\ Cardinality(Ahead(f, w)) <= i =>
                          C[i + 1][w] = C[i][w]}
<1>1. /\ K \in Nat /\ Links \in [Value -> Value]
      /\ \A q \in Trivial : Links[q.dest] = Replacement(q)
  BY LinksFacts
<1>2. \A i \in 1..K : C[i] = [w \in Value |-> C[i - 1][Links[w]]]
  BY DEF Chase
<1>3. \A i \in Nat, w \in Value : i <= K /\ Plain(w) => C[i][w] = w
  BY ChaseFacts
<1> HIDE DEF K
<1>4. 0 \in Good
  <2> SUFFICES ASSUME 0 + 1 <= K, NEW w \in Value, Alive(f, w), Cardinality(Ahead(f, w)) <= 0
      PROVE  C[0 + 1][w] = C[0][w]
    BY DEF Good
  <2>1. \A q \in Trivial : q.dest = w => FALSE
    <3> SUFFICES ASSUME NEW q \in Trivial, q.dest = w PROVE FALSE
      OBVIOUS
    <3> QED  BY AheadShrinks
  <2>2. Plain(w)
    BY <2>1
  <2> QED  BY <1>1, <1>3, <2>2
<1>5. ASSUME NEW i \in Nat, i \in Good PROVE i + 1 \in Good
  <2> SUFFICES ASSUME (i + 1) + 1 <= K, NEW w \in Value, Alive(f, w),
                      Cardinality(Ahead(f, w)) <= i + 1
      PROVE  C[(i + 1) + 1][w] = C[i + 1][w]
    BY DEF Good
  <2>1. /\ i + 1 <= K /\ i + 1 \in 1..K /\ (i + 1) - 1 = i
        /\ (i + 1) + 1 \in 1..K /\ ((i + 1) + 1) - 1 = i + 1 /\ i + 1 \in Nat
        /\ (i + 1) + 1 \in Nat
    BY <1>1
  <2>2. C[i + 1][w] = C[i][Links[w]] /\ C[(i + 1) + 1][w] = C[i + 1][Links[w]]
    <3>1. /\ C[i + 1] = [x \in Value |-> C[(i + 1) - 1][Links[x]]]
          /\ C[(i + 1) + 1] = [x \in Value |-> C[((i + 1) + 1) - 1][Links[x]]]
      BY <1>2, <2>1
    <3>2. /\ C[i + 1] = [x \in Value |-> C[i][Links[x]]]
          /\ C[(i + 1) + 1] = [x \in Value |-> C[i + 1][Links[x]]]
      BY <2>1, <3>1
    <3> QED  BY ONLY <3>2, w \in Value
  <2>3. CASE Plain(w)
    BY <1>3, <2>1, <2>3
  <2>4. CASE ~Plain(w)
    <3>1. PICK q \in Trivial : q.dest = w
      BY <2>4
    <3>2. /\ Cardinality(Ahead(f, w)) \in Nat
          /\ Cardinality(Ahead(f, Links[w])) \in Nat
          /\ Cardinality(Ahead(f, Links[w])) < Cardinality(Ahead(f, w))
      BY <1>1, <3>1, AheadShrinks
    <3>3. Cardinality(Ahead(f, Links[w])) <= i
      BY <3>2
    <3>4. Alive(f, Links[w]) /\ Links[w] \in Value
      <4>1. Above(f, Links[w], w)
        BY <1>1, <3>1 DEF Leads, StrictlyAbove
      <4> QED  BY <1>1, <4>1, Order
    <3>5. C[i + 1][Links[w]] = C[i][Links[w]]
      BY <1>5, <2>1, <3>3, <3>4
    <3> QED  BY <2>2, <3>5
  <2> QED  BY <2>3, <2>4
<1> HIDE DEF Good
<1>6. k \in Good
  BY <1>4, <1>5, SetInduction
<1> QED  BY <1>6 DEF Good, K

(* Following the trivial phis to the end: what a value resolves to is in   *)
(* scope wherever the value is, and a trivial phi resolves to what its     *)
(* operands resolve to, which is defined strictly before it.               *)
LEMMA ChainsEnd ==
  ASSUME NEW f, InSSAForm(f), Leads(f)
  PROVE  /\ Resolved \in [Value -> Value]
         /\ \A v \in Value : (\A q \in Trivial : q.dest # v) => Resolved[v] = v
         /\ \A v \in Value : Alive(f, v) => Above(f, Resolved[v], v)
         /\ \A q \in Trivial : Alive(f, q.dest) =>
              /\ Resolved[q.dest] = Resolved[Replacement(q)]
              /\ StrictlyAbove(f, Resolved[q.dest], q.dest)
<1> DEFINE K == Cardinality(Trivial)
<1>1. PICK C : Chase(C)
  BY ResolvedSteps
<1>2. K \in Nat /\ K <= K /\ K \in 0..K
  BY LinksFacts
<1>3. Resolved = C[K] /\ C[K] \in [Value -> Value]
  BY <1>1, <1>2 DEF Chase
<1>4. /\ \A v \in Value : (\A q \in Trivial : q.dest # v) => Resolved[v] = v
      /\ \A v \in Value : Alive(f, v) => Above(f, Resolved[v], v)
  BY <1>1, <1>2, <1>3, ChaseFacts
<1>5. ASSUME NEW q \in Trivial, Alive(f, q.dest)
      PROVE  /\ Resolved[q.dest] = Resolved[Replacement(q)]
             /\ StrictlyAbove(f, Resolved[q.dest], q.dest)
  <2> DEFINE u == Replacement(q)
             v == q.dest
             S == Ahead(f, v)
  <2>1. /\ u \in Value /\ v \in Value /\ StrictlyAbove(f, u, v) /\ Above(f, u, v)
        /\ IsFiniteSet(Trivial)
    BY <1>5 DEF Leads, StrictlyAbove
  <2>2. Alive(f, u)
    BY <1>5, <2>1, Order
  <2>3. /\ Cardinality(S) \in Nat /\ Cardinality(Ahead(f, u)) \in Nat
        /\ Cardinality(Ahead(f, u)) < Cardinality(S)
    BY <1>5, AheadShrinks
  <2>4. Cardinality(S) <= K
    <3>1. S \in SUBSET Trivial
      BY DEF Ahead
    <3> HIDE DEF S
    <3> QED  BY <3>1, <2>1, FS_Subset
  <2> HIDE DEF u, v, S, K
  <2>5. /\ K - 1 \in Nat /\ (K - 1) + 1 = K /\ K \in 1..K
        /\ Cardinality(Ahead(f, u)) <= K - 1
    BY <1>2, <2>3, <2>4
  <2>6. C[K][v] = C[K - 1][u]
    <3>1. C[K] = [w \in Value |-> C[K - 1][Links[w]]]
      BY <1>1, <2>5 DEF Chase, K
    <3>2. Links[v] = u
      BY LinksFacts DEF u, v
    <3> QED  BY <3>1, <3>2, <2>1
  <2>7. C[(K - 1) + 1][u] = C[K - 1][u]
    BY <1>1, <2>1, <2>2, <2>5, ChaseSettles DEF K
  <2>8. Resolved[v] = Resolved[u]
    BY <1>3, <2>5, <2>6, <2>7
  <2>9. Above(f, Resolved[u], u)
    BY <1>4, <2>1, <2>2
  <2>10. StrictlyAbove(f, Resolved[u], v)
    BY <1>5, <2>1, <2>9, Order DEF v
  <2> QED  BY <2>8, <2>10 DEF u, v
<1> QED  BY <1>3, <1>4, <1>5

-----------------------------------------------------------------------------
(* The phis left stand for phis of the function given.  A phi keeps its    *)
(* block and result; the operand for predecessor a is at the block its     *)
(* edge now comes from, and is what the operand's uses refer to by now.    *)

Froms == UNION {[S -> Value] : S \in SUBSET Nat}
PhiRecord == [block : Nat, dest : Value, from : Froms]

Site(so, a, b) == IF <<a, b>> \in DOMAIN so THEN so[<<a, b>>] ELSE a

Matches(q, p, st, so) ==
  /\ q.block = p.block /\ q.dest = p.dest
  /\ \A a \in DOMAIN p.from : /\ Site(so, a, p.block) \in DOMAIN q.from
                              /\ q.from[Site(so, a, p.block)] = st[p.from[a]]
  /\ \A c \in DOMAIN q.from : \E a \in DOMAIN p.from : c = Site(so, a, p.block)

PhisAre(f, left, ps, st, so) ==
  /\ left \subseteq f.phis
  /\ ps \subseteq PhiRecord
  /\ \A q, r \in ps : q.dest = r.dest => q = r
  /\ \A q \in ps : \E p \in left : Matches(q, p, st, so)
  /\ \A p \in left : \E q \in ps : Matches(q, p, st, so)

\* A phi that is gone is replaced, like all its operands, by a value that is
\* defined strictly before it.
StandFor(f, left, st) ==
  /\ st \in [Value -> Value]
  /\ \A v \in Value : (\A p \in f.phis \ left : p.dest # v) => st[v] = v
  /\ \A p \in f.phis \ left : Alive(f, p.dest) =>
       /\ \A a \in DOMAIN p.from : st[p.from[a]] = st[p.dest]
       /\ StrictlyAbove(f, st[p.dest], p.dest)

LEMMA FromFacts ==
  /\ \A g \in Froms : DOMAIN g \subseteq Nat /\ g \in [DOMAIN g -> Value]
  /\ \A S \in SUBSET Nat : [S -> Value] \subseteq Froms
BY DEF Froms

LEMMA ValueFinite == IsFiniteSet(Value) /\ Undef \in Value
<1>1. 0 \in Int /\ ValueCount - 1 \in Int /\ 0 \in 0..(ValueCount - 1)
  BY ValueCountAssumption
<1>2. IsFiniteSet(0..(ValueCount - 1))
  BY <1>1, FS_Interval
<1> QED  BY <1>1, <1>2 DEF Value, Undef

LEMMA StandsAbove ==
  ASSUME NEW f, InSSAForm(f), NEW left, NEW st, StandFor(f, left, st),
         NEW v \in Value, Alive(f, v)
  PROVE  st[v] \in Value /\ Above(f, st[v], v)
<1>1. st[v] \in Value
  BY DEF StandFor
<1>2. CASE \A p \in f.phis \ left : p.dest # v
  BY <1>1, <1>2, Order DEF StandFor
<1>3. CASE \E p \in f.phis \ left : p.dest = v
  BY <1>1, <1>3 DEF StandFor, StrictlyAbove
<1> QED  BY <1>2, <1>3

\* What a matching phi is like while no edge has been split.
LEMMA MatchUnsplit ==
  ASSUME NEW q, NEW p, NEW st, Matches(q, p, st, <<>>)
  PROVE  /\ q.block = p.block /\ q.dest = p.dest /\ DOMAIN q.from = DOMAIN p.from
         /\ \A a \in DOMAIN p.from : q.from[a] = st[p.from[a]]
<1>1. \A a, b : Site(<<>>, a, b) = a
  BY DEF Site
<1>2. /\ q.block = p.block /\ q.dest = p.dest
      /\ \A a \in DOMAIN p.from : a \in DOMAIN q.from /\ q.from[a] = st[p.from[a]]
      /\ \A c \in DOMAIN q.from : \E a \in DOMAIN p.from : c = a
  BY <1>1 DEF Matches
<1>3. DOMAIN q.from = DOMAIN p.from
  BY <1>2
<1> QED  BY <1>2, <1>3

LEMMA PhiFacts ==
  ASSUME NEW f, InSSAForm(f), NEW left, NEW ps, NEW st, NEW so,
         PhisAre(f, left, ps, st, so), NEW q \in ps
  PROVE  /\ q.block \in 2..f.n /\ q.dest \in Value /\ DefBlock(f, q.dest) = q.block
         /\ DOMAIN q.from \subseteq Nat /\ q.from \in [DOMAIN q.from -> Value]
         /\ q = [block |-> q.block, dest |-> q.dest, from |-> q.from]
<1>1. PICK p \in left : Matches(q, p, st, so)
  BY DEF PhisAre
<1>2. p \in f.phis
  BY DEF PhisAre
<1>3. p.block \in 2..f.n /\ DefBlock(f, p.dest) = p.block
  BY <1>2, Form
<1>4. q.block = p.block /\ q.dest = p.dest
  BY <1>1 DEF Matches
<1>5. q \in PhiRecord
  BY DEF PhisAre
<1>6. q.dest \in Value /\ q.from \in Froms
      /\ q = [block |-> q.block, dest |-> q.dest, from |-> q.from]
  BY <1>5 DEF PhiRecord
<1> QED  BY <1>3, <1>4, <1>6, FromFacts

\* The operands of a trivial phi.
LEMMA TrivialFacts ==
  ASSUME NEW q \in Trivial, q.dest \in Value, q.from \in [DOMAIN q.from -> Value]
  PROVE  /\ Replacement(q) \in Value
         /\ \A a \in DOMAIN q.from : q.from[a] = q.dest \/ q.from[a] = Replacement(q)
<1> DEFINE O == Operands(q)
<1>1. O \subseteq Value /\ \A a \in DOMAIN q.from : q.from[a] = q.dest \/ q.from[a] \in O
  BY DEF Operands
<1>2. Cardinality(O) <= 1
  BY DEF Trivial
<1>3. IsFiniteSet(O)
  BY <1>1, ValueFinite, FS_Subset
<1> HIDE DEF O
<1>4. CASE O = {}
  BY <1>1, <1>4, ValueFinite DEF Replacement, O
<1>5. CASE O # {}
  <2>1. \A x, y \in O : x = y
    <3> SUFFICES ASSUME NEW x \in O, NEW y \in O, x # y PROVE FALSE
      OBVIOUS
    <3>1. IsFiniteSet(O \ {x}) /\ Cardinality(O \ {x}) = Cardinality(O) - 1
      BY <1>3, FS_RemoveElement
    <3>2. Cardinality(O \ {x}) \in Nat /\ Cardinality(O) \in Nat
      BY <1>3, <3>1, FS_CardinalityType
    <3>3. Cardinality(O \ {x}) = 0
      BY <1>2, <3>1, <3>2
    <3>4. O \ {x} = {}
      BY <3>1, <3>3, FS_EmptySet
    <3> QED  BY <3>4
  <2>2. Replacement(q) = CHOOSE v \in O : TRUE
    BY <1>5 DEF Replacement, O
  <2>3. Replacement(q) \in O
    BY <1>5, <2>2
  <2> QED  BY <1>1, <2>1, <2>3
<1> QED  BY <1>4, <1>5

(* The one operand of a trivial phi is defined above it: it is in scope at *)
(* every predecessor of its block, hence at the block.                     *)
LEMMA TrivialLeads ==
  ASSUME NEW f, InSSAForm(f), NEW left, NEW st, StandFor(f, left, st),
         PhisAre(f, left, phis, st, <<>>)
  PROVE  Leads(f)
<1>1. Trivial \subseteq phis
  BY DEF Trivial
<1>2. \A p, q \in Trivial : p.dest = q.dest => p = q
  BY <1>1 DEF PhisAre
<1>3. \A q \in Trivial : q.dest \in Value
  BY <1>1, PhiFacts
<1>4. IsFiniteSet(Trivial)
  <2> DEFINE g == [q \in Trivial |-> q.dest]
  <2>1. g \in Injection(Trivial, Value)
    BY <1>2, <1>3 DEF Injection, IsInjective
  <2> HIDE DEF g
  <2> QED  BY <2>1, ValueFinite, FS_Injection
<1>5. ASSUME NEW q \in Trivial
      PROVE  /\ Replacement(q) \in Value
             /\ \A a \in DOMAIN q.from : q.from[a] = q.dest \/ q.from[a] = Replacement(q)
  <2>1. q.dest \in Value /\ q.from \in [DOMAIN q.from -> Value]
    BY <1>1, PhiFacts
  <2> QED  BY <2>1, TrivialFacts
<1>6. ASSUME NEW q \in Trivial, Alive(f, q.dest)
      PROVE  StrictlyAbove(f, Replacement(q), q.dest)
  <2>1. PICK p \in left : Matches(q, p, st, <<>>)
    BY <1>1 DEF PhisAre
  <2>2. p \in f.phis
    BY DEF PhisAre
  <2> DEFINE b == p.block
             r == Replacement(q)
             a == DefBlock(f, r)
  <2>3. /\ b \in 2..f.n /\ DOMAIN p.from = Preds(f.succ, b)
        /\ p.from \in [Preds(f.succ, b) -> Value] /\ DefBlock(f, p.dest) = b
        /\ \A x \in DOMAIN p.from : Dominates(f.succ, DefBlock(f, p.from[x]), x)
    BY <2>2, Form
  <2>4. /\ q.dest = p.dest /\ DOMAIN q.from = DOMAIN p.from
        /\ \A x \in DOMAIN p.from : q.from[x] = st[p.from[x]]
    BY <2>1, MatchUnsplit
  <2>5. Graph(f.succ, f.n) /\ b # 1 /\ b \in Reachable(f.succ)
    BY <1>6, <2>3, <2>4, Form DEF Alive
  <2> HIDE DEF b, r
  <2>6. ASSUME NEW x \in Preds(f.succ, b)
        PROVE  Dominates(f.succ, a, x) \/ Dominates(f.succ, b, x)
    <3>1. q.from[x] = q.dest \/ q.from[x] = r
      BY <1>5, <2>3, <2>4 DEF r
    <3>2. Dominates(f.succ, DefBlock(f, q.from[x]), x)
      <4> DEFINE o == p.from[x]
                 d == DefBlock(f, o)
                 e == DefBlock(f, st[o])
      <4>1. o \in Value /\ Dominates(f.succ, d, x) /\ q.from[x] = st[o]
        BY <2>3, <2>4
      <4> HIDE DEF o
      <4>2. CASE x \notin Reachable(f.succ)
        BY <4>1, <4>2, <2>5, DomReached
      <4>3. CASE x \in Reachable(f.succ)
        <5>1. Alive(f, o)
          BY <4>1, <4>3, <2>5, DomReached DEF Alive
        <5>2. Dominates(f.succ, e, d)
          BY <4>1, <5>1, StandsAbove DEF Above
        <5> HIDE DEF d, e
        <5>3. Dominates(f.succ, e, x)
          BY <4>1, <5>2, <2>5, DomTransitive
        <5> QED  BY <4>1, <5>3 DEF e
      <4> QED  BY <4>2, <4>3
    <3> QED  BY <3>1, <3>2, <2>3, <2>4 DEF a
  <2> HIDE DEF a
  <2>7. Dominates(f.succ, a, b) /\ a # b
    BY <2>5, <2>6, FirstArrival
  <2> QED  BY <2>7, <2>3, <2>4 DEF StrictlyAbove, Above, a, r
<1> QED  BY <1>2, <1>3, <1>4, <1>5, <1>6 DEF Leads

\* A phi with other operands.
WithFrom(q, g) == [block |-> q.block, dest |-> q.dest, from |-> g]

LEMMA ExceptFrom ==
  ASSUME NEW q, q = [block |-> q.block, dest |-> q.dest, from |-> q.from], NEW g
  PROVE  [q EXCEPT !.from = g] = WithFrom(q, g)
<1> DEFINE b == q.block
           d == q.dest
           h == q.from
<1>1. q = [block |-> b, dest |-> d, from |-> h]
  OBVIOUS
<1>2. WithFrom(q, g) = [block |-> b, dest |-> d, from |-> g]
  BY DEF WithFrom
<1> HIDE DEF b, d, h
<1> QED  BY <1>1, <1>2

(* A round leaves the phis that are left as the function given has them,   *)
(* each operand being what stands for it.                                  *)
LEMMA EliminateKeeps ==
  ASSUME NEW f, InSSAForm(f), NEW left, NEW st, StandFor(f, left, st),
         PhisAre(f, left, phis, st, <<>>),
         NEW left2, left2 = {p \in left : \A q \in Trivial : q.dest # p.dest},
         NEW st2, st2 = [v \in Value |-> Resolved[st[v]]],
         NEW ps2,
         ps2 = {[q EXCEPT !.from = [b \in DOMAIN q.from |-> Resolved[q.from[b]]]] :
                  q \in phis \ Trivial}
  PROVE  PhisAre(f, left2, ps2, st2, <<>>) /\ StandFor(f, left2, st2)
<1> DEFINE R == Resolved
           G(q) == [b \in DOMAIN q.from |-> R[q.from[b]]]
<1>1. Leads(f)
  BY TrivialLeads
<1>2. /\ R \in [Value -> Value]
      /\ \A v \in Value : (\A q \in Trivial : q.dest # v) => R[v] = v
      /\ \A v \in Value : Alive(f, v) => Above(f, R[v], v)
      /\ \A q \in Trivial : Alive(f, q.dest) =>
           /\ R[q.dest] = R[Replacement(q)]
           /\ StrictlyAbove(f, R[q.dest], q.dest)
  BY <1>1, ChainsEnd
<1>3. ps2 = {WithFrom(q, G(q)) : q \in phis \ Trivial}
  <2>1. \A q \in phis : q = [block |-> q.block, dest |-> q.dest, from |-> q.from]
    BY PhiFacts
  <2>2. \A q \in phis : [q EXCEPT !.from = G(q)] = WithFrom(q, G(q))
    BY <2>1, ExceptFrom
  <2>3. ps2 = {[q EXCEPT !.from = G(q)] : q \in phis \ Trivial}
    OBVIOUS
  <2> HIDE DEF G
  <2> QED  BY <2>2, <2>3
<1>4. st2 = [v \in Value |-> R[st[v]]]
  OBVIOUS
<1> HIDE DEF R
<1>5. /\ st \in [Value -> Value] /\ st2 \in [Value -> Value]
      /\ \A v \in Value : st2[v] = R[st[v]]
  BY <1>2, <1>4 DEF StandFor
<1>6. left2 \subseteq left /\ left \subseteq f.phis /\ Trivial \subseteq phis
  BY DEF PhisAre, Trivial
<1>7. \A q \in phis : \E p \in left : Matches(q, p, st, <<>>)
  BY DEF PhisAre
<1>8. ASSUME NEW p \in f.phis
      PROVE  /\ p.dest \in Value /\ DOMAIN p.from \subseteq Nat
             /\ \A a \in DOMAIN p.from : p.from[a] \in Value
  <2>1. p.dest \in Value /\ p.from \in [Preds(f.succ, p.block) -> Value]
    BY Form
  <2>2. Graph(f.succ, f.n) /\ DOMAIN f.succ = 1..f.n
    BY Form
  <2>3. Preds(f.succ, p.block) \subseteq Nat
    BY <2>2 DEF Preds
  <2> QED  BY <2>1, <2>3
<1>9. StandFor(f, left2, st2)
  <2>1. ASSUME NEW v \in Value, \A p \in f.phis \ left2 : p.dest # v
        PROVE  st2[v] = v
    <3>1. st[v] = v
      BY <1>6, <2>1 DEF StandFor
    <3>2. ASSUME NEW q \in Trivial, q.dest = v PROVE FALSE
      <4>1. PICK p \in left : Matches(q, p, st, <<>>)
        BY <1>6, <1>7
      <4>2. p.dest = v
        BY <3>2, <4>1 DEF Matches
      <4>3. p \notin left2
        BY <3>2, <4>2
      <4> QED  BY <1>6, <2>1, <4>2, <4>3
    <3>3. R[v] = v
      BY <1>2, <3>2
    <3> QED  BY <1>5, <3>1, <3>3
  <2>2. ASSUME NEW p \in f.phis \ left2, Alive(f, p.dest)
        PROVE  /\ \A a \in DOMAIN p.from : st2[p.from[a]] = st2[p.dest]
               /\ StrictlyAbove(f, st2[p.dest], p.dest)
    <3>1. CASE p \notin left
      <4> DEFINE w == st[p.dest]
      <4>1. /\ \A a \in DOMAIN p.from : st[p.from[a]] = w
            /\ StrictlyAbove(f, w, p.dest)
        BY <2>2, <3>1 DEF StandFor
      <4>2. w \in Value /\ st2[p.dest] = R[w]
        BY <1>5, <1>8
      <4> HIDE DEF w
      <4>3. \A a \in DOMAIN p.from : st2[p.from[a]] = R[w]
        BY <1>5, <1>8, <4>1
      <4>4. Alive(f, w) /\ Above(f, w, p.dest)
        BY <2>2, <4>1, Order DEF StrictlyAbove
      <4>5. Above(f, R[w], w)
        BY <1>2, <4>2, <4>4
      <4>6. StrictlyAbove(f, R[w], p.dest)
        BY <2>2, <4>1, <4>5, Order
      <4> QED  BY <4>2, <4>3, <4>6
    <3>2. CASE p \in left
      <4>1. PICK q \in Trivial : q.dest = p.dest
        BY <2>2, <3>2
      <4>2. PICK p2 \in left : Matches(q, p2, st, <<>>)
        BY <1>6, <1>7
      <4>3. p2 = p
        BY <1>6, <4>1, <4>2, Form DEF Matches
      <4>4. /\ DOMAIN q.from = DOMAIN p.from
            /\ \A a \in DOMAIN p.from : q.from[a] = st[p.from[a]]
        BY <4>2, <4>3, MatchUnsplit
      <4>5. st[p.dest] = p.dest
        <5>1. \A p3 \in f.phis \ left : p3.dest # p.dest
          BY <3>2, <1>6, Form
        <5> QED  BY <5>1, <1>8 DEF StandFor
      <4>6. q.dest \in Value /\ q.from \in [DOMAIN q.from -> Value]
        BY <1>6, PhiFacts
      <4>7. \A a \in DOMAIN q.from : q.from[a] = q.dest \/ q.from[a] = Replacement(q)
        BY <4>6, TrivialFacts
      <4>8. R[q.dest] = R[Replacement(q)] /\ StrictlyAbove(f, R[q.dest], q.dest)
        BY <1>2, <2>2, <4>1
      <4>9. \A a \in DOMAIN p.from : R[st[p.from[a]]] = R[q.dest]
        BY <4>4, <4>7, <4>8
      <4> QED  BY <1>5, <1>8, <4>1, <4>5, <4>8, <4>9
    <3> QED  BY <3>1, <3>2
  <2> QED  BY <1>5, <2>1, <2>2 DEF StandFor
<1>10. PhisAre(f, left2, ps2, st2, <<>>)
  <2>1. ASSUME NEW q \in phis \ Trivial, NEW p \in left, Matches(q, p, st, <<>>)
        PROVE  Matches(WithFrom(q, G(q)), p, st2, <<>>)
    <3> DEFINE r == WithFrom(q, G(q))
    <3>1. /\ q.block = p.block /\ q.dest = p.dest /\ DOMAIN q.from = DOMAIN p.from
          /\ \A a \in DOMAIN p.from : q.from[a] = st[p.from[a]]
      BY <2>1, MatchUnsplit
    <3>2. r.block = p.block /\ r.dest = p.dest /\ r.from = G(q)
      BY <3>1 DEF WithFrom
    <3> HIDE DEF r
    <3>3. /\ DOMAIN r.from = DOMAIN p.from
          /\ \A a \in DOMAIN p.from : r.from[a] = st2[p.from[a]]
      BY <3>1, <3>2, <1>5, <1>6, <1>8
    <3>4. \A a, b : Site(<<>>, a, b) = a
      BY DEF Site
    <3>5. Matches(r, p, st2, <<>>)
      BY <3>2, <3>3, <3>4, SMTT(30) DEF Matches
    <3> QED  BY <3>5 DEF r
  <2>2. ASSUME NEW q \in phis \ Trivial
        PROVE  /\ WithFrom(q, G(q)) \in PhiRecord
               /\ WithFrom(q, G(q)).dest = q.dest
               /\ \E p \in left2 : Matches(WithFrom(q, G(q)), p, st2, <<>>)
    <3>1. /\ q.block \in 2..f.n /\ q.dest \in Value
          /\ DOMAIN q.from \subseteq Nat /\ q.from \in [DOMAIN q.from -> Value]
      BY PhiFacts
    <3>2. f.n \in Nat
      BY Form DEF Graph
    <3>3. G(q) \in [DOMAIN q.from -> Value]
      BY <3>1, <1>2
    <3>4. G(q) \in Froms
      <4> HIDE DEF G
      <4> QED  BY <3>1, <3>3, FromFacts
    <3>5. PICK p \in left : Matches(q, p, st, <<>>)
      BY <1>7
    <3>6. p \in left2
      <4>1. \A r \in Trivial : r.dest # p.dest
        <5> SUFFICES ASSUME NEW r \in Trivial, r.dest = p.dest PROVE FALSE
          OBVIOUS
        <5>1. r = q
          BY <1>6, <3>5 DEF PhisAre, Matches
        <5> QED  BY <5>1
      <4> QED  BY <4>1
    <3>7. Matches(WithFrom(q, G(q)), p, st2, <<>>)
      BY <2>1, <3>5
    <3> HIDE DEF G
    <3>8. WithFrom(q, G(q)) \in PhiRecord /\ WithFrom(q, G(q)).dest = q.dest
      BY <3>1, <3>2, <3>4 DEF WithFrom, PhiRecord
    <3> QED  BY <3>6, <3>7, <3>8
  <2>3. ASSUME NEW p \in left2
        PROVE  \E q \in phis \ Trivial : Matches(WithFrom(q, G(q)), p, st2, <<>>)
    <3>1. PICK q \in phis : Matches(q, p, st, <<>>)
      BY <1>6 DEF PhisAre
    <3>2. q \notin Trivial
      BY <3>1 DEF Matches
    <3> HIDE DEF G
    <3> QED  BY <1>6, <2>1, <3>1, <3>2
  <2> HIDE DEF G
  <2>4. ps2 \subseteq PhiRecord
    BY <1>3, <2>2
  <2>5. ASSUME NEW r \in ps2 PROVE \E p \in left2 : Matches(r, p, st2, <<>>)
    <3>1. PICK q \in phis \ Trivial : r = WithFrom(q, G(q))
      BY <1>3
    <3>2. PICK p \in left2 : Matches(WithFrom(q, G(q)), p, st2, <<>>)
      BY <2>2
    <3> QED  BY <3>1, <3>2
  <2>6. \A p \in left2 : \E q \in ps2 : Matches(q, p, st2, <<>>)
    BY <1>3, <2>3
  <2>7. ASSUME NEW x \in ps2, NEW y \in ps2, x.dest = y.dest PROVE x = y
    <3>1. PICK q \in phis \ Trivial : x = WithFrom(q, G(q))
      BY <1>3
    <3>2. PICK r \in phis \ Trivial : y = WithFrom(r, G(r))
      BY <1>3
    <3>3. q.dest = r.dest
      BY <2>2, <2>7, <3>1, <3>2
    <3>4. q = r
      BY <3>3 DEF PhisAre
    <3> QED  BY <3>1, <3>2, <3>4
  <2>8. left2 \subseteq f.phis
    BY <1>6
  <2> QED  BY <2>4, <2>5, <2>6, <2>7, <2>8 DEF PhisAre
<1> QED  BY <1>9, <1>10

-----------------------------------------------------------------------------
(* Splitting edges.  The critical edges into the phis left are those of    *)
(* the function given; each gets a block of its own, numbered above the    *)
(* blocks there were, and the phis follow.                                 *)

Critical(f, a, b) ==
  /\ Len(f.succ[a]) > 1 /\ Cardinality(Preds(f.succ, b)) > 1
  /\ a \notin f.indirect

Crit(f, left) ==
  {e \in UNION {(DOMAIN p.from) \X {p.block} : p \in left} : Critical(f, e[1], e[2])}

Splits(f, left, s, m, ps, so, to) ==
  /\ Graph(s, m) /\ m >= f.n
  /\ so \in [DOMAIN so -> (f.n + 1)..m]
  /\ \A e, g \in DOMAIN so : so[e] = so[g] => e = g
  /\ to \cup DOMAIN so = Crit(f, left) /\ to \cap DOMAIN so = {}
  /\ \A p \in left : Cardinality(Preds(f.succ, p.block)) > 1
  /\ \A q \in ps : DOMAIN q.from = Preds(s, q.block)

LEMMA CritFacts ==
  ASSUME NEW f, InSSAForm(f), NEW left, left \subseteq f.phis
  PROVE  /\ \A e \in Crit(f, left) :
              /\ e = <<e[1], e[2]>> /\ e[1] \in 1..f.n /\ e[2] \in 2..f.n
              /\ e[1] \in Preds(f.succ, e[2])
         /\ \A p \in left : \A a \in DOMAIN p.from :
              <<a, p.block>> \in Crit(f, left) <=> Critical(f, a, p.block)
<1>1. ASSUME NEW p \in left
      PROVE  /\ p.block \in 2..f.n /\ DOMAIN p.from = Preds(f.succ, p.block)
             /\ DOMAIN p.from \subseteq 1..f.n
  <2>1. p \in f.phis
    OBVIOUS
  <2>2. p.block \in 2..f.n /\ DOMAIN p.from = Preds(f.succ, p.block)
    BY <2>1, Form
  <2>3. Preds(f.succ, p.block) \subseteq 1..f.n
    <3>1. DOMAIN f.succ = 1..f.n
      BY Form
    <3> QED  BY <3>1 DEF Preds
  <2> QED  BY <2>2, <2>3
<1>2. ASSUME NEW e \in Crit(f, left)
      PROVE  /\ e = <<e[1], e[2]>> /\ e[1] \in 1..f.n /\ e[2] \in 2..f.n
             /\ e[1] \in Preds(f.succ, e[2])
  <2>1. PICK p \in left : e \in (DOMAIN p.from) \X {p.block}
    BY DEF Crit
  <2> QED  BY <1>1, <2>1
<1>3. ASSUME NEW p \in left, NEW a \in DOMAIN p.from
      PROVE  <<a, p.block>> \in Crit(f, left) <=> Critical(f, a, p.block)
  <2>1. <<a, p.block>> \in (DOMAIN p.from) \X {p.block}
    OBVIOUS
  <2>2. <<a, p.block>>[1] = a /\ <<a, p.block>>[2] = p.block
    OBVIOUS
  <2> QED  BY <2>1, <2>2 DEF Crit
<1> QED  BY <1>2, <1>3

LEMMA AtMostOne ==
  ASSUME NEW S, IsFiniteSet(S)
  PROVE  Cardinality(S) <= 1 <=> \A x, y \in S : x = y
<1>1. Cardinality(S) \in Nat
  BY FS_CardinalityType
<1>2. ASSUME Cardinality(S) <= 1, NEW x \in S, NEW y \in S, x # y PROVE FALSE
  <2>1. IsFiniteSet(S \ {x}) /\ Cardinality(S \ {x}) = Cardinality(S) - 1
    BY FS_RemoveElement
  <2>2. Cardinality(S \ {x}) \in Nat
    BY <2>1, FS_CardinalityType
  <2>3. Cardinality(S \ {x}) = 0
    BY <1>1, <1>2, <2>1, <2>2
  <2>4. S \ {x} = {}
    BY <2>1, <2>3, FS_EmptySet
  <2> QED  BY <1>2, <2>4
<1>3. ASSUME \A x, y \in S : x = y PROVE Cardinality(S) <= 1
  <2>1. CASE S = {}
    BY <2>1, FS_EmptySet
  <2>2. CASE S # {}
    <3>1. PICK x \in S : S = {x}
      BY <1>3, <2>2
    <3>2. Cardinality({x}) = 1
      BY FS_Singleton
    <3> QED  BY <3>1, <3>2
  <2> QED  BY <2>1, <2>2
<1> QED  BY <1>2, <1>3

\* Once no phi is trivial, every phi left has several ways in.
(* The edges collected are the critical ones into the phis left that do not *)
(* start at a computed goto.                                               *)
LEMMA SplitsStart ==
  ASSUME NEW f, InSSAForm(f), NEW left, NEW st, PhisAre(f, left, phis, st, <<>>),
         Trivial = {},
         NEW to,
         to = {e \in UNION {(DOMAIN p.from) \X {p.block} : p \in phis} :
                 /\ Len(f.succ[e[1]]) > 1 /\ Cardinality(Preds(f.succ, e[2])) > 1
                 /\ e[1] \notin f.indirect}
  PROVE  Splits(f, left, f.succ, f.n, phis, <<>>, to)
<1>1. Graph(f.succ, f.n) /\ DOMAIN f.succ = 1..f.n /\ f.n >= f.n
  BY Form DEF Graph
<1>2. left \subseteq f.phis
  BY DEF PhisAre
<1>3. ASSUME NEW q \in phis, NEW p \in left, Matches(q, p, st, <<>>)
      PROVE  q.block = p.block /\ DOMAIN q.from = DOMAIN p.from
  BY <1>3, MatchUnsplit
<1>4. to = Crit(f, left)
  <2> DEFINE E(p) == (DOMAIN p.from) \X {p.block}
  <2>1. UNION {E(p) : p \in phis} = UNION {E(p) : p \in left}
    <3>1. \A q \in phis : \E p \in left : E(q) = E(p)
      <4> SUFFICES ASSUME NEW q \in phis PROVE \E p \in left : E(q) = E(p)
        OBVIOUS
      <4>1. PICK p \in left : Matches(q, p, st, <<>>)
        BY DEF PhisAre
      <4> QED  BY <1>3, <4>1
    <3>2. \A p \in left : \E q \in phis : E(q) = E(p)
      <4> SUFFICES ASSUME NEW p \in left PROVE \E q \in phis : E(q) = E(p)
        OBVIOUS
      <4>1. PICK q \in phis : Matches(q, p, st, <<>>)
        BY DEF PhisAre
      <4> QED  BY <1>3, <4>1
    <3> HIDE DEF E
    <3> QED  BY <3>1, <3>2
  <2> DEFINE U == UNION {E(p) : p \in phis}
  <2>2. to = {e \in U : Critical(f, e[1], e[2])}
    BY DEF Critical
  <2>3. Crit(f, left) = {e \in UNION {E(p) : p \in left} : Critical(f, e[1], e[2])}
    BY DEF Crit
  <2> HIDE DEF E
  <2> QED  BY <2>1, <2>2, <2>3
<1>5. ASSUME NEW p \in left
      PROVE  Cardinality(Preds(f.succ, p.block)) > 1
  <2>1. PICK q \in phis : Matches(q, p, st, <<>>)
    BY DEF PhisAre
  <2> DEFINE P == Preds(f.succ, p.block)
  <2>2. P = DOMAIN q.from /\ IsFiniteSet(P)
    <3>1. DOMAIN p.from = P
      BY <1>2, Form
    <3>2. P \subseteq 1..f.n /\ IsFiniteSet(1..f.n)
      BY <1>1, Edges DEF Preds
    <3> HIDE DEF P
    <3> QED  BY <3>1, <3>2, <1>3, <2>1, FS_Subset
  <2> HIDE DEF P
  <2>3. ~(Cardinality(Operands(q)) <= 1)
    BY DEF Trivial
  <2>4. IsFiniteSet(Operands(q))
    <3>1. q.from \in [DOMAIN q.from -> Value]
      BY PhiFacts
    <3>2. Operands(q) \subseteq Value
      BY <3>1 DEF Operands
    <3> QED  BY <3>2, ValueFinite, FS_Subset
  <2>5. PICK x, y \in Operands(q) : x # y
    BY <2>3, <2>4, AtMostOne
  <2>6. PICK a, b \in DOMAIN q.from : x = q.from[a] /\ y = q.from[b]
    BY DEF Operands
  <2>7. ~(Cardinality(P) <= 1)
    BY <2>2, <2>5, <2>6, AtMostOne
  <2>8. Cardinality(P) \in Nat
    BY <2>2, FS_CardinalityType
  <2> QED  BY <2>7, <2>8 DEF P
<1>6. ASSUME NEW q \in phis
      PROVE  DOMAIN q.from = Preds(f.succ, q.block)
  <2>1. PICK p \in left : Matches(q, p, st, <<>>)
    BY DEF PhisAre
  <2> QED  BY <1>2, <1>3, <2>1, Form
<1>7. DOMAIN <<>> = {} /\ <<>> \in [DOMAIN <<>> -> (f.n + 1)..f.n]
  OBVIOUS
<1> QED  BY <1>1, <1>4, <1>5, <1>6, <1>7 DEF Splits

\* The edges once <<a, b>> goes through the new block m + 1.
SplitAt(s, m, a, b) ==
  [c \in DOMAIN s \cup {m + 1} |->
     IF c = m + 1 THEN <<b>>
     ELSE IF c = a THEN Append(Kept(s[a], DOMAIN s \ {b}), m + 1)
     ELSE s[c]]

LEMMA SplitGraph ==
  ASSUME NEW s, NEW m, Graph(s, m), NEW a \in 1..m, NEW b \in 1..m
  PROVE  LET t == SplitAt(s, m, a, b) IN
         /\ Graph(t, m + 1)
         /\ \A c \in 1..m : c # b => Preds(t, c) = Preds(s, c)
         /\ Preds(t, b) = (Preds(s, b) \ {a}) \cup {m + 1}
<1> DEFINE t == SplitAt(s, m, a, b)
           A == 1..m
           B == 1..(m + 1)
           k == Kept(s[a], DOMAIN s \ {b})
<1>1. m \in Nat /\ DOMAIN s = A /\ \A c \in A : s[c] \in Seq(A) /\ Range(s[c]) \subseteq A
  BY Edges
<1>2. /\ A \subseteq B /\ m + 1 \in B /\ m + 1 \notin A /\ B = A \cup {m + 1}
      /\ m + 1 \in Nat \ {0}
  BY <1>1
<1>3. k \in Seq(A) /\ Range(k) = Range(s[a]) \cap (A \ {b})
  <2>1. s[a] \in Seq(A)
    BY <1>1
  <2> HIDE DEF A
  <2> QED  BY <2>1, <1>1, KeptRange
<1> HIDE DEF k, A, B
<1>4. \A x \in Seq(A) : x \in Seq(B)
  BY <1>2
<1>5. Append(k, m + 1) \in Seq(B) /\ Range(Append(k, m + 1)) = Range(k) \cup {m + 1}
  <2>1. k \in Seq(B)
    BY <1>3, <1>4
  <2>2. k \o <<m + 1>> = Append(k, m + 1) /\ <<m + 1>> \in Seq(B)
    BY <1>2, <2>1
  <2>3. Range(<<m + 1>>) = {m + 1}
    BY DEF Range
  <2>4. k \o <<m + 1>> \in Seq(B) /\ Range(k \o <<m + 1>>) = Range(k) \cup Range(<<m + 1>>)
    BY <2>1, <2>2, ConcatRange, ZenonT(30)
  <2> QED  BY <2>2, <2>3, <2>4
<1>6. <<b>> \in Seq(B) /\ Range(<<b>>) = {b}
  <2>1. b \in B
    BY <1>2 DEF A
  <2> QED  BY <2>1 DEF Range
<1>7. /\ DOMAIN t = B /\ t[m + 1] = <<b>> /\ t[a] = Append(k, m + 1)
      /\ \A c \in A : c # a => t[c] = s[c]
  <2>1. a \in A
    BY DEF A
  <2>2. t = [c \in B |-> IF c = m + 1 THEN <<b>>
                         ELSE IF c = a THEN Append(k, m + 1) ELSE s[c]]
    BY <1>1, <1>2 DEF SplitAt, k
  <2> HIDE DEF t
  <2>3. \A c \in A : c \in B /\ c # m + 1
    BY <1>2
  <2> QED  BY <2>1, <2>2, <2>3, <1>2
<1>8. t = [c \in B |-> t[c]]
  BY <1>1, <1>2 DEF SplitAt
<1> HIDE DEF t
<1>9. \A c \in B : t[c] \in Seq(B)
  <2> SUFFICES ASSUME NEW c \in B PROVE t[c] \in Seq(B)
    OBVIOUS
  <2>1. CASE c = m + 1
    BY <2>1, <1>6, <1>7
  <2>2. CASE c = a
    BY <2>2, <1>5, <1>7
  <2>3. CASE c # m + 1 /\ c # a
    <3>1. c \in A
      BY <2>3, <1>2
    <3> QED  BY <3>1, <2>3, <1>1, <1>4, <1>7
  <2> QED  BY <2>1, <2>2, <2>3
<1>10. Graph(t, m + 1)
  BY <1>2, <1>8, <1>9 DEF Graph, B
<1>11. \A x \in B, c \in A : c \in Range(t[x]) <=>
          \/ x = m + 1 /\ c = b
          \/ x \in A /\ x # a /\ c \in Range(s[x])
          \/ x = a /\ c # b /\ c \in Range(s[a])
  <2> SUFFICES ASSUME NEW x \in B, NEW c \in A
               PROVE  c \in Range(t[x]) <=>
                        \/ x = m + 1 /\ c = b
                        \/ x \in A /\ x # a /\ c \in Range(s[x])
                        \/ x = a /\ c # b /\ c \in Range(s[a])
    OBVIOUS
  <2>0. a \in A /\ a # m + 1 /\ c # m + 1
    BY <1>2 DEF A
  <2>1. CASE x = m + 1
    BY <2>0, <2>1, <1>2, <1>6, <1>7
  <2>2. CASE x = a
    BY <2>0, <2>2, <1>3, <1>5, <1>7
  <2>3. CASE x # m + 1 /\ x # a
    BY <2>0, <2>3, <1>2, <1>7
  <2> QED  BY <2>1, <2>2, <2>3
<1>12. \A c \in A : /\ Preds(t, c) = {x \in B : c \in Range(t[x])}
                    /\ Preds(s, c) = {x \in A : c \in Range(s[x])}
  BY <1>1, <1>7 DEF Preds
<1>13. a \in A /\ b \in A
  BY DEF A
<1>14. ASSUME NEW c \in A
       PROVE  /\ c # b => Preds(t, c) = Preds(s, c)
              /\ c = b => Preds(t, c) = (Preds(s, c) \ {a}) \cup {m + 1}
  <2> DEFINE In == {x \in B : c \in Range(t[x])}
             Was == {x \in A : c \in Range(s[x])}
  <2>1. /\ \A x \in B : x \in In <=> \/ x = m + 1 /\ c = b
                                     \/ x \in A /\ x # a /\ x \in Was
                                     \/ x = a /\ c # b /\ x \in Was
        /\ In \subseteq B /\ Was \subseteq A
    BY <1>11, <1>13
  <2> HIDE DEF In, Was
  <2>2. c # b => In = Was
    BY <1>2, <2>1
  <2>3. c = b => In = (Was \ {a}) \cup {m + 1}
    BY <1>2, <2>1
  <2>4. Preds(t, c) = In /\ Preds(s, c) = Was
    BY <1>12 DEF In, Was
  <2> QED  BY <2>2, <2>3, <2>4
<1>15. /\ \A c \in A : c # b => Preds(t, c) = Preds(s, c)
       /\ Preds(t, b) = (Preds(s, b) \ {a}) \cup {m + 1}
  BY <1>13, <1>14
<1> QED  BY <1>10, <1>15 DEF t, A

\* One more edge split.
Sited(so, a, b, new) ==
  [e \in DOMAIN so \cup {<<a, b>>} |-> IF e = <<a, b>> THEN new ELSE so[e]]

LEMMA SitedFacts ==
  ASSUME NEW so, NEW a, NEW b, NEW new
  PROVE  /\ Site(Sited(so, a, b, new), a, b) = new
         /\ \A x, c : ~(x = a /\ c = b) => Site(Sited(so, a, b, new), x, c) = Site(so, x, c)
<1> DEFINE so2 == Sited(so, a, b, new)
<1>1. /\ DOMAIN so2 = DOMAIN so \cup {<<a, b>>} /\ so2[<<a, b>>] = new
      /\ \A e \in DOMAIN so : e # <<a, b>> => so2[e] = so[e]
  BY DEF Sited
<1> HIDE DEF so2
<1>2. Site(so2, a, b) = new
  BY <1>1 DEF Site
<1>3. ASSUME NEW x, NEW c, ~(x = a /\ c = b) PROVE Site(so2, x, c) = Site(so, x, c)
  <2>1. <<x, c>> # <<a, b>>
    BY <1>3
  <2> HIDE <1>3
  <2>2. <<x, c>> \in DOMAIN so2 <=> <<x, c>> \in DOMAIN so
    BY <1>1, <2>1
  <2>3. <<x, c>> \in DOMAIN so => so2[<<x, c>>] = so[<<x, c>>]
    BY <1>1, <2>1
  <2> QED  BY <2>2, <2>3 DEF Site
<1> QED  BY <1>2, <1>3 DEF so2

LEMMA SiteRange ==
  ASSUME NEW n \in Nat, NEW m \in Nat, m >= n, NEW so, so \in [DOMAIN so -> (n + 1)..m],
         NEW x \in 1..n, NEW c
  PROVE  /\ Site(so, x, c) \in 1..m
         /\ <<x, c>> \in DOMAIN so => Site(so, x, c) = so[<<x, c>>] /\ Site(so, x, c) > n
         /\ <<x, c>> \notin DOMAIN so => Site(so, x, c) = x
<1>1. CASE <<x, c>> \in DOMAIN so
  <2>1. so[<<x, c>>] \in (n + 1)..m
    BY <1>1
  <2> QED  BY <1>1, <2>1 DEF Site
<1>2. CASE <<x, c>> \notin DOMAIN so
  BY <1>2 DEF Site
<1> QED  BY <1>1, <1>2

LEMMA SplitPhi ==
  ASSUME NEW n \in Nat, NEW m \in Nat, m >= n, NEW so, so \in [DOMAIN so -> (n + 1)..m],
         NEW q, NEW p, NEW st, Matches(q, p, st, so), DOMAIN p.from \subseteq 1..n,
         NEW a \in 1..n, NEW b, <<a, b>> \notin DOMAIN so,
         p.block = b => a \in DOMAIN p.from
  PROVE  /\ p.block # b => Matches(q, p, st, Sited(so, a, b, m + 1))
         /\ p.block = b => Matches(WithFrom(q, Retarget(q.from, a, m + 1)), p, st,
                                   Sited(so, a, b, m + 1))
<1> DEFINE so2 == Sited(so, a, b, m + 1)
           new == m + 1
<1>1. /\ Site(so2, a, b) = new
      /\ \A x, c : ~(x = a /\ c = b) => Site(so2, x, c) = Site(so, x, c)
  BY SitedFacts
<1>2. /\ q.block = p.block /\ q.dest = p.dest
      /\ \A x \in DOMAIN p.from : /\ Site(so, x, p.block) \in DOMAIN q.from
                                  /\ q.from[Site(so, x, p.block)] = st[p.from[x]]
      /\ \A c \in DOMAIN q.from : \E x \in DOMAIN p.from : c = Site(so, x, p.block)
  BY DEF Matches
<1> HIDE DEF so2
<1>3. CASE p.block # b
  <2>1. \A x : Site(so2, x, p.block) = Site(so, x, p.block)
    BY <1>1, <1>3
  <2>2. Matches(q, p, st, so2)
    BY <1>2, <2>1 DEF Matches
  <2> QED  BY <1>3, <2>2 DEF so2
<1>4. CASE p.block = b
  <2> DEFINE g == Retarget(q.from, a, new)
             r == WithFrom(q, g)
  <2>1. a \in DOMAIN p.from /\ Site(so, a, b) = a
    BY <1>4, SiteRange
  <2>2. \A x \in DOMAIN p.from : x # a => Site(so, x, b) # a
    <3> SUFFICES ASSUME NEW x \in DOMAIN p.from, x # a PROVE Site(so, x, b) # a
      OBVIOUS
    <3>1. x \in 1..n
      OBVIOUS
    <3>2. Site(so, x, b) = x \/ Site(so, x, b) > n
      BY <3>1, SiteRange
    <3> QED  BY <3>2
  <2>3. \A x \in DOMAIN p.from : Site(so, x, b) # new
    <3> SUFFICES ASSUME NEW x \in DOMAIN p.from PROVE Site(so, x, b) # new
      OBVIOUS
    <3>1. x \in 1..n
      OBVIOUS
    <3>2. Site(so, x, b) \in 1..m
      BY <3>1, SiteRange
    <3> QED  BY <3>2
  <2> HIDE DEF new
  <2>4. /\ DOMAIN g = (DOMAIN q.from \ {a}) \cup {new}
        /\ g[new] = q.from[a]
        /\ \A c \in DOMAIN q.from \ {a} : c # new => g[c] = q.from[c]
    BY DEF Retarget
  <2> HIDE DEF g
  <2>5. r.block = p.block /\ r.dest = p.dest /\ r.from = g
    BY <1>2 DEF WithFrom
  <2> HIDE DEF r
  <2>6. ASSUME NEW x \in DOMAIN p.from
        PROVE  Site(so2, x, b) \in DOMAIN g /\ g[Site(so2, x, b)] = st[p.from[x]]
    <3>1. CASE x = a
      <4>1. q.from[a] = st[p.from[a]]
        BY <1>2, <1>4, <2>1
      <4>2. Site(so2, x, b) = new
        BY <3>1, <1>1
      <4> QED  BY <3>1, <4>1, <4>2, <2>4
    <3>2. CASE x # a
      <4>1. Site(so2, x, b) = Site(so, x, b)
        BY <3>2, <1>1
      <4>2. /\ Site(so, x, b) \in DOMAIN q.from /\ Site(so, x, b) # a /\ Site(so, x, b) # new
            /\ q.from[Site(so, x, b)] = st[p.from[x]]
        BY <3>2, <1>2, <1>4, <2>2, <2>3
      <4> QED  BY <4>1, <4>2, <2>4
    <3> QED  BY <3>1, <3>2
  <2>7. ASSUME NEW c \in DOMAIN g
        PROVE  \E x \in DOMAIN p.from : c = Site(so2, x, b)
    <3>1. CASE c = new
      BY <3>1, <2>1, <1>1
    <3>2. CASE c # new
      <4>1. c \in DOMAIN q.from /\ c # a
        BY <3>2, <2>4
      <4>2. PICK x \in DOMAIN p.from : c = Site(so, x, b)
        BY <4>1, <1>2, <1>4
      <4>3. x # a
        BY <4>1, <4>2, <2>1
      <4> QED  BY <4>2, <4>3, <1>1
    <3> QED  BY <3>1, <3>2
  <2>8. Matches(r, p, st, so2)
    BY <1>4, <2>5, <2>6, <2>7 DEF Matches
  <2> QED  BY <1>4, <2>8 DEF r, g, so2, new
<1> QED  BY <1>3, <1>4

(* Splitting one edge leaves graph and phis as the edges split so far and  *)
(* those to come say, whichever comes next.                                *)
LEMMA SplitKeeps ==
  ASSUME NEW f, InSSAForm(f), NEW left, NEW st, NEW m,
         PhisAre(f, left, phis, st, splitOf),
         Splits(f, left, succ, m, phis, splitOf, toSplit),
         NEW e \in toSplit, SplitEdge(e[1], e[2]), toSplit' = toSplit \ {e}
  PROVE  /\ PhisAre(f, left, phis', st, splitOf')
         /\ Splits(f, left, succ', m + 1, phis', splitOf', toSplit')
<1> DEFINE a == e[1]
           b == e[2]
           new == m + 1
           D == DOMAIN splitOf
<1>1. /\ Graph(succ, m) /\ m >= f.n
      /\ splitOf \in [D -> (f.n + 1)..m]
      /\ \A x, y \in D : splitOf[x] = splitOf[y] => x = y
      /\ toSplit \cup D = Crit(f, left) /\ toSplit \cap D = {}
      /\ \A p \in left : Cardinality(Preds(f.succ, p.block)) > 1
      /\ \A q \in phis : DOMAIN q.from = Preds(succ, q.block)
  BY DEF Splits
<1>2. /\ left \subseteq f.phis /\ phis \subseteq PhiRecord
      /\ \A q, r \in phis : q.dest = r.dest => q = r
      /\ \A q \in phis : \E p \in left : Matches(q, p, st, splitOf)
      /\ \A p \in left : \E q \in phis : Matches(q, p, st, splitOf)
  BY DEF PhisAre
<1>3. /\ e = <<a, b>> /\ a \in 1..f.n /\ b \in 2..f.n /\ a \in Preds(f.succ, b)
      /\ e \in toSplit /\ e \notin D
  BY <1>1, <1>2, CritFacts
<1>4. m \in Nat /\ f.n \in Nat /\ DOMAIN succ = 1..m /\ Cardinality(DOMAIN succ) = m
  <2>1. Graph(f.succ, f.n)
    BY Form
  <2> QED  BY <1>1, <2>1, Edges
<1>5. a \in 1..m /\ b \in 1..m
  BY <1>1, <1>3, <1>4
<1>6. /\ succ' = SplitAt(succ, m, a, b)
      /\ splitOf' = Sited(splitOf, a, b, new)
      /\ phis' = {IF q.block = b THEN [q EXCEPT !.from = Retarget(q.from, a, new)]
                  ELSE q : q \in phis}
  BY <1>4 DEF SplitEdge, SplitAt, Succs, Sited
<1> DEFINE Moved(q) == IF q.block = b THEN WithFrom(q, Retarget(q.from, a, new)) ELSE q
<1>7. phis' = {Moved(q) : q \in phis}
  <2>1. \A q \in phis : q = [block |-> q.block, dest |-> q.dest, from |-> q.from]
    BY PhiFacts
  <2>2. \A q \in phis : [q EXCEPT !.from = Retarget(q.from, a, new)]
                          = WithFrom(q, Retarget(q.from, a, new))
    BY <2>1, ExceptFrom
  <2> HIDE DEF a, b, new
  <2> QED  BY <1>6, <2>2
<1> HIDE DEF a, b, new, D
<1>8. ASSUME NEW p \in left
      PROVE  /\ DOMAIN p.from \subseteq 1..f.n /\ DOMAIN p.from = Preds(f.succ, p.block)
             /\ p.block = b => a \in DOMAIN p.from
  <2>1. DOMAIN p.from = Preds(f.succ, p.block) /\ DOMAIN f.succ = 1..f.n
    BY <1>2, Form
  <2> QED  BY <2>1, <1>3 DEF Preds
<1>9. ASSUME NEW q \in phis, NEW p \in left, Matches(q, p, st, splitOf)
      PROVE  Matches(Moved(q), p, st, splitOf')
  <2>1. q.block = p.block
    BY <1>9 DEF Matches
  <2>2. <<a, b>> \notin DOMAIN splitOf
    BY <1>3 DEF D
  <2>3. splitOf \in [DOMAIN splitOf -> (f.n + 1)..m]
    BY <1>1 DEF D
  <2>4. /\ p.block # b => Matches(q, p, st, Sited(splitOf, a, b, m + 1))
        /\ p.block = b => Matches(WithFrom(q, Retarget(q.from, a, m + 1)), p, st,
                                  Sited(splitOf, a, b, m + 1))
    BY <1>1, <1>3, <1>4, <1>8, <1>9, <2>2, <2>3, SplitPhi
  <2>5. splitOf' = Sited(splitOf, a, b, m + 1)
    BY <1>6 DEF new
  <2> QED  BY <2>1, <2>4, <2>5 DEF new
<1>10. /\ \A c \in 1..m :
            /\ c # b => Preds(succ', c) = Preds(succ, c)
            /\ c = b => Preds(succ', c) = (Preds(succ, c) \ {a}) \cup {new}
       /\ Graph(succ', m + 1)
  BY <1>1, <1>5, <1>6, SplitGraph DEF new
<1>11. ASSUME NEW q \in phis
       PROVE  /\ Moved(q) \in PhiRecord /\ Moved(q).dest = q.dest
              /\ DOMAIN Moved(q).from = Preds(succ', Moved(q).block)
              /\ \E p \in left : Matches(Moved(q), p, st, splitOf')
  <2>1. \E p \in left : Matches(Moved(q), p, st, splitOf')
    BY <1>2, <1>9
  <2>2. /\ q.block \in 2..f.n /\ q.dest \in Value /\ q \in PhiRecord
        /\ DOMAIN q.from \subseteq Nat /\ q.from \in [DOMAIN q.from -> Value]
        /\ DOMAIN q.from = Preds(succ, q.block) /\ q.block \in 1..m
    BY <1>1, <1>2, <1>4, PhiFacts
  <2>3. CASE q.block # b
    BY <2>1, <2>2, <2>3, <1>10
  <2>4. CASE q.block = b
    <3> DEFINE g == Retarget(q.from, a, new)
    <3>1. a \in DOMAIN q.from
      <4>1. PICK p \in left : Matches(q, p, st, splitOf)
        BY <1>2
      <4>2. p.block = b /\ a \in DOMAIN p.from
        BY <4>1, <2>4, <1>8 DEF Matches
      <4>3. Site(splitOf, a, b) = a
        BY <1>3 DEF Site, D
      <4> QED  BY <4>1, <4>2, <4>3 DEF Matches
    <3>2. DOMAIN g = (DOMAIN q.from \ {a}) \cup {new} /\ g \in [DOMAIN g -> Value]
      BY <3>1, <2>2 DEF Retarget
    <3>3. new \in Nat
      BY <1>4 DEF new
    <3> HIDE DEF g
    <3>4. g \in Froms
      BY <2>2, <3>2, <3>3, FromFacts
    <3>5. Moved(q) = WithFrom(q, g)
      BY <2>4 DEF g
    <3> HIDE DEF Moved
    <3>6. Moved(q) \in PhiRecord /\ Moved(q).dest = q.dest
      BY <3>4, <3>5, <2>2, <1>4 DEF WithFrom, PhiRecord
    <3>7. Moved(q).from = g /\ Moved(q).block = b
      BY <3>5, <2>4 DEF WithFrom
    <3> QED  BY <2>1, <2>2, <2>4, <3>2, <3>6, <3>7, <1>10
  <2> QED  BY <2>3, <2>4
<1>12. \A p \in left : \E q \in phis : Matches(Moved(q), p, st, splitOf')
  BY <1>2, <1>9
<1> HIDE DEF Moved
<1>13. PhisAre(f, left, phis', st, splitOf')
  <2>1. phis' \subseteq PhiRecord
    BY <1>7, <1>11
  <2>2. \A q \in phis' : \E p \in left : Matches(q, p, st, splitOf')
    BY <1>7, <1>11
  <2>3. \A p \in left : \E q \in phis' : Matches(q, p, st, splitOf')
    BY <1>7, <1>12
  <2>4. \A q, r \in phis' : q.dest = r.dest => q = r
    BY <1>2, <1>7, <1>11
  <2> QED  BY <1>2, <2>1, <2>2, <2>3, <2>4 DEF PhisAre
<1>14. Splits(f, left, succ', m + 1, phis', splitOf', toSplit')
  <2>1. /\ DOMAIN splitOf' = D \cup {e}
        /\ splitOf'[e] = new /\ \A x \in D : splitOf'[x] = splitOf[x]
        /\ splitOf' = [x \in D \cup {e} |-> splitOf'[x]]
    BY <1>3, <1>6 DEF Sited, D
  <2>2. \A x \in D : splitOf[x] \in (f.n + 1)..m
    BY <1>1
  <2>3. \A x \in D : splitOf'[x] \in (f.n + 1)..(m + 1) /\ splitOf'[x] # new
    BY <2>1, <2>2, <1>4 DEF new
  <2>4. new \in (f.n + 1)..(m + 1) /\ m + 1 >= f.n
    BY <1>1, <1>4 DEF new
  <2>5. splitOf' \in [D \cup {e} -> (f.n + 1)..(m + 1)]
    BY <2>1, <2>3, <2>4
  <2>6. \A x, y \in D \cup {e} : splitOf'[x] = splitOf'[y] => x = y
    BY <1>1, <2>1, <2>3
  <2>7. toSplit' \cup (D \cup {e}) = Crit(f, left) /\ toSplit' \cap (D \cup {e}) = {}
    BY <1>1, <1>3
  <2>8. \A q \in phis' : DOMAIN q.from = Preds(succ', q.block)
    BY <1>7, <1>11
  <2> DEFINE S == splitOf'
             E == DOMAIN S
  <2>9. E = D \cup {e}
    BY <2>1
  <2> HIDE DEF E
  <2>10. S \in [E -> (f.n + 1)..(m + 1)] /\ \A x, y \in E : S[x] = S[y] => x = y
    BY <2>5, <2>6, <2>9
  <2>11. toSplit' \cup E = Crit(f, left) /\ toSplit' \cap E = {}
    BY <2>7, <2>9
  <2>12. Graph(succ', m + 1) /\ \A p \in left : Cardinality(Preds(f.succ, p.block)) > 1
    BY <1>1, <1>10
  <2> QED  BY ONLY <2>4, <2>8, <2>10, <2>11, <2>12 DEF Splits, E
<1> QED  BY <1>13, <1>14

-----------------------------------------------------------------------------
(* The copies of one predecessor, while they are put in order: a remaining *)
(* copy moves what the copy it was made from moves, and the others have    *)
(* taken effect.                                                           *)

Copying(cs, rem, next, h) ==
  /\ cs \subseteq [dest : Value, src : Value]
  /\ \A c, d \in cs : c.dest = d.dest => c = d
  /\ next \in Nat /\ h \in [DOMAIN h -> Value]
  /\ Value \subseteq DOMAIN h /\ DOMAIN h \subseteq 0..(next - 1)
  /\ rem \subseteq [dest : Value, src : DOMAIN h]
  /\ \A c \in rem : \E g \in cs : g.dest = c.dest /\ h[c.src] = g.src
  /\ \A c, d \in rem : c.dest = d.dest => c = d
  /\ \A g \in cs : h[g.dest] = g.src \/ \E c \in rem : c.dest = g.dest
  /\ \A v \in Value : (\A g \in cs : g.dest # v) => h[v] = v

\* What the copies at the end of block c come to.
Effected(left, st, so, ef, c) ==
  /\ \A p \in left : \A a \in DOMAIN p.from :
       Site(so, a, p.block) = c => ef[p.dest] = st[p.from[a]]
  /\ \A v \in Value :
       (\A p \in left : p.dest = v => \A a \in DOMAIN p.from : Site(so, a, p.block) # c)
         => ef[v] = v

LEMMA CopiesFacts ==
  ASSUME NEW f, InSSAForm(f), NEW left, NEW st, NEW so,
         PhisAre(f, left, phis, st, so), NEW c
  PROVE  /\ CopiesAt(c) \subseteq [dest : Value, src : Value]
         /\ \A g, h \in CopiesAt(c) : g.dest = h.dest => g = h
         /\ \A g \in CopiesAt(c) : \E q \in phis :
              /\ c \in DOMAIN q.from /\ q.from[c] # q.dest
              /\ g = [dest |-> q.dest, src |-> q.from[c]]
         /\ \A q \in phis : c \in DOMAIN q.from /\ q.from[c] # q.dest =>
              [dest |-> q.dest, src |-> q.from[c]] \in CopiesAt(c)
<1>1. /\ \A g \in CopiesAt(c) : \E q \in phis :
           /\ c \in DOMAIN q.from /\ q.from[c] # q.dest
           /\ g = [dest |-> q.dest, src |-> q.from[c]]
      /\ \A q \in phis : c \in DOMAIN q.from /\ q.from[c] # q.dest =>
           [dest |-> q.dest, src |-> q.from[c]] \in CopiesAt(c)
  BY DEF CopiesAt
<1>2. \A q \in phis : c \in DOMAIN q.from => q.dest \in Value /\ q.from[c] \in Value
  BY PhiFacts
<1>3. ASSUME NEW g \in CopiesAt(c) PROVE g \in [dest : Value, src : Value]
  BY <1>1, <1>2
<1>4. ASSUME NEW g \in CopiesAt(c), NEW h \in CopiesAt(c), g.dest = h.dest PROVE g = h
  <2>1. PICK q \in phis : g = [dest |-> q.dest, src |-> q.from[c]]
    BY <1>1
  <2>2. PICK r \in phis : h = [dest |-> r.dest, src |-> r.from[c]]
    BY <1>1
  <2>3. q.dest = r.dest
    BY <1>4, <2>1, <2>2
  <2>4. q = r
    BY <2>3 DEF PhisAre
  <2> QED  BY <2>1, <2>2, <2>4
<1> QED  BY <1>1, <1>3, <1>4

\* Executed, the copies of a block give each phi its operand.
(* A parallel copy at the end of a block does what the phis left ask for there. *)
LEMMA EffectOfCopies ==
  ASSUME NEW f, InSSAForm(f), NEW left, NEW st, NEW so,
         PhisAre(f, left, phis, st, so), NEW c, NEW ef,
         \A g \in CopiesAt(c) : ef[g.dest] = g.src,
         \A v \in Value : (\A g \in CopiesAt(c) : g.dest # v) => ef[v] = v
  PROVE  Effected(left, st, so, ef, c)
<1>1. /\ \A g \in CopiesAt(c) : \E q \in phis :
           /\ c \in DOMAIN q.from /\ q.from[c] # q.dest
           /\ g = [dest |-> q.dest, src |-> q.from[c]]
      /\ \A q \in phis : c \in DOMAIN q.from /\ q.from[c] # q.dest =>
           [dest |-> q.dest, src |-> q.from[c]] \in CopiesAt(c)
  BY CopiesFacts
<1>2. ASSUME NEW p \in left, NEW a \in DOMAIN p.from, Site(so, a, p.block) = c
      PROVE  ef[p.dest] = st[p.from[a]]
  <2>1. PICK q \in phis : Matches(q, p, st, so)
    BY DEF PhisAre
  <2>2. q.dest = p.dest /\ c \in DOMAIN q.from /\ q.from[c] = st[p.from[a]]
    BY <1>2, <2>1 DEF Matches
  <2>3. CASE q.from[c] # q.dest
    <3> DEFINE g == [dest |-> q.dest, src |-> q.from[c]]
    <3>1. g \in CopiesAt(c) /\ g.dest = q.dest /\ g.src = q.from[c]
      BY <1>1, <2>2, <2>3
    <3> HIDE DEF g
    <3>2. ef[g.dest] = g.src
      BY <3>1
    <3> QED  BY <2>2, <3>1, <3>2
  <2>4. CASE q.from[c] = q.dest
    <3>1. ASSUME NEW g \in CopiesAt(c), g.dest = q.dest PROVE FALSE
      <4>1. PICK r \in phis : /\ r.from[c] # r.dest
                              /\ g = [dest |-> r.dest, src |-> r.from[c]]
        BY <1>1
      <4>2. r.dest = q.dest
        BY <3>1, <4>1
      <4>3. r = q
        BY <4>2 DEF PhisAre
      <4> QED  BY <2>4, <4>1, <4>3
    <3>2. q.dest \in Value
      BY PhiFacts
    <3>3. ef[q.dest] = q.dest
      BY <3>1, <3>2
    <3> QED  BY <2>2, <2>4, <3>3
  <2> QED  BY <2>3, <2>4
<1>3. ASSUME NEW v \in Value,
             \A p \in left : p.dest = v => \A a \in DOMAIN p.from : Site(so, a, p.block) # c
      PROVE  ef[v] = v
  <2>1. ASSUME NEW g \in CopiesAt(c), g.dest = v PROVE FALSE
    <3>1. PICK q \in phis : /\ c \in DOMAIN q.from
                            /\ g = [dest |-> q.dest, src |-> q.from[c]]
      BY <1>1
    <3>2. PICK p \in left : Matches(q, p, st, so)
      BY DEF PhisAre
    <3>3. p.dest = v
      BY <2>1, <3>1, <3>2 DEF Matches
    <3>4. PICK a \in DOMAIN p.from : c = Site(so, a, p.block)
      BY <3>1, <3>2 DEF Matches
    <3> QED  BY <1>3, <3>3, <3>4
  <2> QED  BY <2>1
<1> QED  BY <1>2, <1>3 DEF Effected

LEMMA CopyingStarts ==
  ASSUME NEW f, InSSAForm(f), NEW left, NEW st, NEW so,
         PhisAre(f, left, phis, st, so), NEW c, NEW next \in Nat, next >= ValueCount
  PROVE  Copying(CopiesAt(c), CopiesAt(c), next, Identity)
<1> DEFINE cs == CopiesAt(c)
<1>1. /\ cs \subseteq [dest : Value, src : Value]
      /\ \A g, h \in cs : g.dest = h.dest => g = h
  BY CopiesFacts
<1>2. /\ DOMAIN Identity = Value /\ \A v \in Value : Identity[v] = v
      /\ Identity \in [Value -> Value]
  BY DEF Identity
<1>3. Value \subseteq 0..(next - 1)
  BY ValueCountAssumption DEF Value
<1> HIDE DEF cs
<1>4. \A g \in cs : g.dest \in Value /\ g.src \in Value
  BY <1>1
<1> QED  BY <1>1, <1>2, <1>3, <1>4 DEF Copying, cs

\* A safe destination is nobody's source: the others keep their promise.
LEMMA EmitSafeCopies ==
  ASSUME Copying(given, remaining, nextValue, holds), EmitSafe
  PROVE  Copying(given', remaining', nextValue', holds')
<1>1. PICK c \in Safe :
        /\ Execute(c.dest, c.src)
        /\ remaining' = remaining \ {c}
        /\ UNCHANGED <<given, nextValue>>
  BY DEF EmitSafe, Without
<1>2. c \in remaining /\ \A d \in remaining : d.src # c.dest
  BY DEF Safe, NeededAsSrc
<1>3. /\ given \subseteq [dest : Value, src : Value]
      /\ \A g, d \in given : g.dest = d.dest => g = d
      /\ nextValue \in Nat /\ holds \in [DOMAIN holds -> Value]
      /\ Value \subseteq DOMAIN holds /\ DOMAIN holds \subseteq 0..(nextValue - 1)
      /\ remaining \subseteq [dest : Value, src : DOMAIN holds]
      /\ \A d \in remaining : \E g \in given : g.dest = d.dest /\ holds[d.src] = g.src
      /\ \A d, e \in remaining : d.dest = e.dest => d = e
      /\ \A g \in given : holds[g.dest] = g.src \/ \E d \in remaining : d.dest = g.dest
      /\ \A v \in Value : (\A g \in given : g.dest # v) => holds[v] = v
  BY DEF Copying
<1>4. c.dest \in Value /\ c.dest \in DOMAIN holds /\ c.src \in DOMAIN holds
  BY <1>2, <1>3
<1>5. /\ DOMAIN holds' = DOMAIN holds /\ holds'[c.dest] = holds[c.src]
      /\ \A v \in DOMAIN holds : v # c.dest => holds'[v] = holds[v]
      /\ holds' = [v \in DOMAIN holds |-> holds'[v]]
  BY <1>1, <1>4 DEF Execute
<1>6. holds' \in [DOMAIN holds -> Value]
  <2>1. \A v \in DOMAIN holds : holds'[v] \in Value
    BY <1>3, <1>4, <1>5
  <2> QED  BY <1>5, <2>1
<1>7. ASSUME NEW d \in remaining, d # c
      PROVE  /\ d.src \in DOMAIN holds /\ holds'[d.src] = holds[d.src]
             /\ d.dest # c.dest
  BY <1>2, <1>3, <1>5, <1>7
<1>8. \A d \in remaining' : \E g \in given' : g.dest = d.dest /\ holds'[d.src] = g.src
  BY <1>1, <1>3, <1>7
<1>9. ASSUME NEW g \in given
      PROVE  holds'[g.dest] = g.src \/ \E d \in remaining' : d.dest = g.dest
  <2>1. g.dest \in DOMAIN holds
    BY <1>3
  <2>2. CASE g.dest = c.dest
    <3>1. PICK h \in given : h.dest = c.dest /\ holds[c.src] = h.src
      BY <1>2, <1>3
    <3>2. h = g
      BY <1>3, <2>2, <3>1
    <3> QED  BY <1>5, <2>2, <3>1, <3>2
  <2>3. CASE g.dest # c.dest
    <3>1. holds'[g.dest] = holds[g.dest]
      BY <1>5, <2>1, <2>3
    <3>2. \A d \in remaining : d.dest = g.dest => d \in remaining'
      BY <1>1, <2>3
    <3> QED  BY <1>3, <3>1, <3>2
  <2> QED  BY <2>2, <2>3
<1>10. ASSUME NEW v \in Value, \A g \in given : g.dest # v PROVE holds'[v] = v
  <2>1. v # c.dest
    BY <1>2, <1>3, <1>10
  <2> QED  BY <1>3, <1>5, <1>10, <2>1
<1>11. remaining' \subseteq remaining /\ given' = given /\ nextValue' = nextValue
  BY <1>1
<1>12. /\ remaining' \subseteq [dest : Value, src : DOMAIN holds']
       /\ \A d, e \in remaining' : d.dest = e.dest => d = e
  BY <1>3, <1>5, <1>11
<1>13. holds' \in [DOMAIN holds' -> Value]
  BY <1>5, <1>6
<1> QED  BY <1>3, <1>5, <1>8, <1>9, <1>10, <1>11, <1>12, <1>13 DEF Copying

\* The temporary is fresh: writing it disturbs nobody.
LEMMA BreakCycleCopies ==
  ASSUME Copying(given, remaining, nextValue, holds), BreakCycle
  PROVE  Copying(given', remaining', nextValue', holds')
<1>1. PICK c \in remaining :
        /\ Execute(nextValue, c.src)
        /\ remaining' = (remaining \ {c}) \cup {[dest |-> c.dest, src |-> nextValue]}
        /\ nextValue' = nextValue + 1
        /\ UNCHANGED given
  BY DEF BreakCycle, Redirected
<1>3. /\ given \subseteq [dest : Value, src : Value]
      /\ \A g, d \in given : g.dest = d.dest => g = d
      /\ nextValue \in Nat /\ holds \in [DOMAIN holds -> Value]
      /\ Value \subseteq DOMAIN holds /\ DOMAIN holds \subseteq 0..(nextValue - 1)
      /\ remaining \subseteq [dest : Value, src : DOMAIN holds]
      /\ \A d \in remaining : \E g \in given : g.dest = d.dest /\ holds[d.src] = g.src
      /\ \A d, e \in remaining : d.dest = e.dest => d = e
      /\ \A g \in given : holds[g.dest] = g.src \/ \E d \in remaining : d.dest = g.dest
      /\ \A v \in Value : (\A g \in given : g.dest # v) => holds[v] = v
  BY DEF Copying
<1> DEFINE new == [dest |-> c.dest, src |-> nextValue]
<1>4. /\ c.dest \in Value /\ c.src \in DOMAIN holds /\ nextValue \notin DOMAIN holds
      /\ holds[c.src] \in Value
  BY <1>3
<1>5. /\ DOMAIN holds' = DOMAIN holds \cup {nextValue}
      /\ holds'[nextValue] = holds[c.src]
      /\ \A v \in DOMAIN holds : holds'[v] = holds[v]
      /\ holds' = [v \in DOMAIN holds \cup {nextValue} |-> holds'[v]]
  BY <1>1, <1>4 DEF Execute
<1>6. holds' \in [DOMAIN holds' -> Value]
  <2>1. \A v \in DOMAIN holds \cup {nextValue} : holds'[v] \in Value
    BY <1>3, <1>4, <1>5
  <2> QED  BY <1>5, <2>1
<1>7. /\ new.dest = c.dest /\ new.src = nextValue
      /\ new \in [dest : Value, src : DOMAIN holds']
      /\ remaining' = (remaining \ {c}) \cup {new}
  BY <1>1, <1>4, <1>5
<1> HIDE DEF new
<1>8. /\ nextValue + 1 \in Nat /\ DOMAIN holds' \subseteq 0..((nextValue + 1) - 1)
      /\ Value \subseteq DOMAIN holds'
  BY <1>3, <1>5
<1>9. ASSUME NEW d \in remaining
      PROVE  /\ d.src \in DOMAIN holds /\ holds'[d.src] = holds[d.src]
             /\ d \in [dest : Value, src : DOMAIN holds']
  BY <1>3, <1>5
<1>10. remaining' \subseteq [dest : Value, src : DOMAIN holds']
  BY <1>7, <1>9
<1>11. ASSUME NEW d \in remaining'
       PROVE  \E g \in given : g.dest = d.dest /\ holds'[d.src] = g.src
  <2>1. CASE d = new
    BY <2>1, <1>3, <1>5, <1>7
  <2>2. CASE d \in remaining
    BY <2>2, <1>3, <1>9
  <2> QED  BY <2>1, <2>2, <1>7
<1>12. \A d, e \in remaining' : d.dest = e.dest => d = e
  BY <1>3, <1>7
<1>13. ASSUME NEW g \in given
       PROVE  holds'[g.dest] = g.src \/ \E d \in remaining' : d.dest = g.dest
  <2>1. holds'[g.dest] = holds[g.dest]
    BY <1>3, <1>5
  <2>2. ASSUME NEW d \in remaining PROVE \E e \in remaining' : e.dest = d.dest
    <3>1. CASE d = c
      BY <1>7, <3>1
    <3>2. CASE d # c
      BY <1>7, <3>2
    <3> QED  BY <3>1, <3>2
  <2> QED  BY <1>3, <2>1, <2>2
<1>14. \A v \in Value : (\A g \in given : g.dest # v) => holds'[v] = v
  BY <1>3, <1>5
<1>15. given' = given /\ nextValue' = nextValue + 1
  BY <1>1
<1> QED  BY <1>3, <1>6, <1>8, <1>10, <1>11, <1>12, <1>13, <1>14, <1>15 DEF Copying

-----------------------------------------------------------------------------
(* Running both functions.  The hypothesis: every critical edge into a phi *)
(* could be split, none of them starts at a computed goto.                 *)

Placed ==
  \A p \in func.phis : \A a \in Preds(func.succ, p.block) :
    a \in func.indirect =>
      ~(Len(func.succ[a]) > 1 /\ Cardinality(Preds(func.succ, p.block)) > 1)

\* Everything in scope has the same contents in both functions.
Aligned ==
  \A v \in Value :
    Dominates(func.succ, DefBlock(func, v), at) => ssa[v] = out[stands[v]]

\* All phis have become copies.
Copied(left, m) ==
  /\ Splits(func, left, succ, m, {}, splitOf, {})
  /\ effect \in [1..m -> [Value -> Value]]
  /\ \A c \in 1..m : Effected(left, stands, splitOf, effect[c], c)

(* A list with two different elements has a length of at least two.        *)
LEMMA TwoSuccessors ==
  ASSUME NEW A, NEW s \in Seq(A), NEW x \in Range(s), NEW y \in Range(s), x # y
  PROVE  Len(s) > 1
<1>1. /\ Len(s) \in Nat
      /\ \A z : z \in Range(s) <=> \E i \in 1..Len(s) : s[i] = z
  BY RangeOf
<1>2. PICK i \in 1..Len(s), j \in 1..Len(s) : s[i] = x /\ s[j] = y
  BY <1>1
<1> QED  BY <1>1, <1>2

\* What the copies on an edge come to: each phi of the block entered gets
\* its operand for this edge, and nothing else changes.
(* The copies run on the way along an edge are those of the edge: none that *)
(* belongs to another edge is run, whether this one was split or not.      *)
LEMMA EdgeCopies ==
  ASSUME InSSAForm(func), NEW left, left \subseteq func.phis, NEW m, Copied(left, m),
         stands \in [Value -> Value],
         Placed, at \in 1..func.n, NEW b \in Range(func.succ[at])
  PROVE  /\ \A p \in left : p.block = b =>
              AfterCopies(b)[p.dest] = out[stands[p.from[at]]]
         /\ \A v \in Value : (\A p \in left : p.block = b => p.dest # v) =>
              AfterCopies(b)[v] = out[v]
<1> DEFINE n == func.n
           D == DOMAIN splitOf
<1>1. /\ m \in Nat /\ n \in Nat /\ m >= n /\ splitOf \in [D -> (n + 1)..m]
      /\ \A e, g \in D : splitOf[e] = splitOf[g] => e = g
      /\ D = Crit(func, left)
      /\ \A p \in left : Cardinality(Preds(func.succ, p.block)) > 1
  <2>1. Graph(func.succ, n)
    BY Form
  <2> QED  BY <2>1 DEF Copied, Splits, Graph
<1>2. /\ effect \in [1..m -> [Value -> Value]]
      /\ \A c \in 1..m : Effected(left, stands, splitOf, effect[c], c)
  BY DEF Copied
<1>3. Graph(func.succ, n) /\ DOMAIN func.succ = 1..n /\ func.succ[at] \in Seq(1..n)
      /\ at \in 1..m /\ at \in 1..n
  <2>1. Graph(func.succ, n) /\ DOMAIN func.succ = 1..n
    BY Form
  <2>2. func.succ[at] \in Seq(1..n)
    BY <2>1, Edges
  <2> QED  BY <1>1, <2>1, <2>2
<1>4. at \in Preds(func.succ, b)
  BY <1>3 DEF Preds
<1>5. ASSUME NEW p \in left
      PROVE  /\ p \in func.phis /\ p.dest \in Value
             /\ DOMAIN p.from = Preds(func.succ, p.block) /\ DOMAIN p.from \subseteq 1..n
             /\ \A a \in DOMAIN p.from : p.from[a] \in Value
             /\ p.block = b => at \in DOMAIN p.from
  <2>1. /\ p \in func.phis /\ p.dest \in Value
        /\ p.from \in [Preds(func.succ, p.block) -> Value]
    BY Form
  <2>2. Preds(func.succ, p.block) \subseteq 1..n
    BY <1>3 DEF Preds
  <2> QED  BY <2>1, <2>2, <1>4
<1>6. \A p \in left : \A a \in DOMAIN p.from :
        <<a, p.block>> \in D <=> Critical(func, a, p.block)
  BY <1>1, CritFacts
<1> HIDE DEF n, D
<1>7. ASSUME NEW p \in left, NEW a \in DOMAIN p.from
      PROVE  /\ Site(splitOf, a, p.block) \in 1..m
             /\ <<a, p.block>> \in D => /\ Site(splitOf, a, p.block) = splitOf[<<a, p.block>>]
                                        /\ Site(splitOf, a, p.block) > n
             /\ <<a, p.block>> \notin D => Site(splitOf, a, p.block) = a
  <2>1. a \in 1..n
    BY <1>5
  <2> QED  BY <1>1, <2>1, SiteRange DEF D
<1>8. ASSUME NEW c \in 1..m, NEW v \in Value,
             \A p \in left : p.dest = v => \A a \in DOMAIN p.from : Site(splitOf, a, p.block) # c
      PROVE  effect[c][v] = v
  BY <1>2, <1>8 DEF Effected
<1>9. \A c \in 1..m : \A p \in left : \A a \in DOMAIN p.from :
        Site(splitOf, a, p.block) = c => effect[c][p.dest] = stands[p.from[a]]
  BY <1>2 DEF Effected
<1>10. CASE <<at, b>> \in D
  <2> DEFINE s == splitOf[<<at, b>>]
  <2>1. /\ Len(func.succ[at]) > 1 /\ at \notin func.indirect
    BY <1>1, <1>10 DEF Crit, Critical
  <2>2. s \in 1..m /\ s > n
    <3>1. s \in (n + 1)..m
      BY <1>1, <1>10
    <3> QED  BY <1>1, <3>1
  <2>3. \A v \in Value : AfterCopies(b)[v] = out[effect[at][effect[s][v]]]
    <3>1. \A v \in Value : effect[s][v] \in Value
      BY <1>2, <2>2
    <3> DEFINE end == [v \in Value |-> out[effect[at][v]]]
    <3>2. AfterCopies(b) = [v \in Value |-> end[effect[s][v]]]
      BY <1>10 DEF AfterCopies, D
    <3>3. \A v \in Value : end[v] = out[effect[at][v]]
      OBVIOUS
    <3> HIDE DEF end, s
    <3> QED  BY <3>1, <3>2, <3>3
  <2>4. ASSUME NEW u \in Value PROVE effect[at][u] = u
    <3>1. ASSUME NEW p \in left, NEW a \in DOMAIN p.from, Site(splitOf, a, p.block) = at
          PROVE  FALSE
      <4>1. <<a, p.block>> \notin D
        <5>1. ~(at > n)
          BY <1>1, <1>3
        <5> QED  BY <1>7, <3>1, <5>1
      <4>2. a = at
        BY <1>7, <3>1, <4>1
      <4>3. Critical(func, at, p.block)
        BY <1>1, <2>1 DEF Critical
      <4> QED  BY <1>6, <4>1, <4>2, <4>3
    <3> QED  BY <1>3, <1>8, <3>1
  <2> HIDE DEF s
  <2>5. ASSUME NEW p \in left, p.block = b
        PROVE  AfterCopies(b)[p.dest] = out[stands[p.from[at]]]
    <3>1. at \in DOMAIN p.from /\ <<at, p.block>> \in D
      BY <1>5, <1>10, <2>5
    <3>2. Site(splitOf, at, p.block) = s
      BY <1>7, <2>5, <3>1 DEF s
    <3>3. effect[s][p.dest] = stands[p.from[at]]
      BY <1>9, <2>2, <3>1, <3>2
    <3>4. stands[p.from[at]] \in Value
      BY <1>5, <3>1
    <3> QED  BY <1>5, <2>3, <2>4, <3>3, <3>4
  <2>6. ASSUME NEW v \in Value, \A p \in left : p.block = b => p.dest # v
        PROVE  AfterCopies(b)[v] = out[v]
    <3>1. ASSUME NEW p \in left, p.dest = v, NEW a \in DOMAIN p.from,
                 Site(splitOf, a, p.block) = s
          PROVE  FALSE
      <4>1. <<a, p.block>> \in D
        <5>1. a \in 1..n
          BY <1>5
        <5>2. ~(a > n)
          BY <1>1, <5>1
        <5> QED  BY <1>7, <2>2, <3>1, <5>2
      <4>2. splitOf[<<a, p.block>>] = splitOf[<<at, b>>]
        BY <1>7, <3>1, <4>1 DEF s
      <4>3. <<a, p.block>> = <<at, b>>
        BY <1>1, <1>10, <4>1, <4>2
      <4> QED  BY <2>6, <3>1, <4>3
    <3>2. effect[s][v] = v
      BY <1>8, <2>2, <3>1
    <3> QED  BY <2>3, <2>4, <3>2
  <2> QED  BY <2>5, <2>6
<1>11. CASE <<at, b>> \notin D
  <2>1. \A v \in Value : AfterCopies(b)[v] = out[effect[at][v]]
    BY <1>11 DEF AfterCopies, D
  <2>2. ASSUME NEW p \in left, p.block = b
        PROVE  AfterCopies(b)[p.dest] = out[stands[p.from[at]]]
    <3>1. at \in DOMAIN p.from /\ <<at, p.block>> \notin D
      BY <1>5, <1>11, <2>2
    <3>2. Site(splitOf, at, p.block) = at
      BY <1>7, <3>1
    <3>3. effect[at][p.dest] = stands[p.from[at]]
      BY <1>3, <1>9, <3>1, <3>2
    <3> QED  BY <1>5, <2>1, <3>3
  <2>3. ASSUME NEW v \in Value, \A p \in left : p.block = b => p.dest # v
        PROVE  AfterCopies(b)[v] = out[v]
    <3>1. ASSUME NEW p \in left, p.dest = v, NEW a \in DOMAIN p.from,
                 Site(splitOf, a, p.block) = at
          PROVE  FALSE
      <4>1. p.block # b
        BY <2>3, <3>1
      <4>2. <<a, p.block>> \notin D
        <5>1. ~(at > n)
          BY <1>1, <1>3
        <5> QED  BY <1>7, <3>1, <5>1
      <4>3. a = at
        BY <1>7, <3>1, <4>2
      <4>4. at \in Preds(func.succ, p.block)
        BY <1>5, <4>3
      <4>5. p.block \in Range(func.succ[at])
        BY <4>4 DEF Preds
      <4>6. Len(func.succ[at]) > 1
        BY <1>3, <4>1, <4>5, TwoSuccessors
      <4>7. ~Critical(func, at, p.block)
        BY <1>6, <4>2, <4>3
      <4>8. at \in func.indirect
        BY <1>1, <4>6, <4>7 DEF Critical
      <4> QED  BY <1>1, <1>5, <4>4, <4>6, <4>8 DEF Placed
    <3>2. effect[at][v] = v
      BY <1>3, <1>8, <3>1
    <3> QED  BY <2>1, <3>2
  <2> QED  BY <2>2, <2>3
<1> QED  BY <1>10, <1>11

\* The block a value without a phi is defined in.
LEMMA DefBlockFacts ==
  ASSUME NEW f, InSSAForm(f), NEW v \in Value, \A p \in f.phis : p.dest # v
  PROVE  /\ v \in DOMAIN f.defs => DefBlock(f, v) = f.defs[v]
         /\ v \notin DOMAIN f.defs => DefBlock(f, v) = 1
BY DEF DefBlock

(* One edge taken by both functions.                                       *)
LEMMA StepAligns ==
  ASSUME InSSAForm(func), NEW left, left \subseteq func.phis, NEW m, Copied(left, m),
         StandFor(func, left, stands), Placed, Aligned,
         at \in Reachable(func.succ), Step
  PROVE  Aligned' /\ at' \in Reachable(func.succ)
<1> DEFINE G == func.succ
           Own(b) == {v \in DOMAIN func.defs : func.defs[v] = b}
           D(v) == DefBlock(func, v)
<1>1. PICK b \in Range(G[at]), t \in Token :
        /\ at' = b
        /\ ssa' = [v \in Value |-> IF v \in Own(b) THEN t ELSE AfterPhis(b)[v]]
        /\ out' = [v \in Value |-> IF v \in Own(b) THEN t ELSE AfterCopies(b)[v]]
        /\ func' = func /\ stands' = stands
  BY DEF Step, pass
<1>2. Graph(G, func.n) /\ at \in 1..func.n /\ b \in Reachable(G) /\ at \in Reachable(G)
  <2>1. Graph(G, func.n)
    BY Form
  <2>2. Reachable(G) \subseteq 1..func.n
    BY <2>1, ReachableFacts
  <2> QED  BY <1>1, <2>1, <2>2, ReachableFacts
<1>3. stands \in [Value -> Value]
  BY DEF StandFor
<1>4. /\ \A p \in left : p.block = b => AfterCopies(b)[p.dest] = out[stands[p.from[at]]]
      /\ \A v \in Value : (\A p \in left : p.block = b => p.dest # v) =>
           AfterCopies(b)[v] = out[v]
  BY <1>2, <1>3, EdgeCopies
<1>5. ASSUME NEW p \in func.phis
      PROVE  /\ p.dest \in Value /\ D(p.dest) = p.block /\ p.dest \notin DOMAIN func.defs
             /\ p.block # 1
             /\ p.block = b =>
                  /\ at \in DOMAIN p.from /\ p.from[at] \in Value
                  /\ Dominates(G, D(p.from[at]), at)
                  /\ ssa'[p.dest] = ssa[p.from[at]]
  <2>1. /\ p.block \in 2..func.n /\ p.dest \in Value
        /\ DOMAIN p.from = Preds(G, p.block)
        /\ p.from \in [Preds(G, p.block) -> Value]
        /\ D(p.dest) = p.block
        /\ \A a \in DOMAIN p.from : Dominates(G, D(p.from[a]), a)
    BY Form
  <2>2. p.dest \notin DOMAIN func.defs
    BY DEF InSSAForm
  <2>3. p.block # 1
    BY <2>1
  <2> HIDE DEF D
  <2>4. ASSUME p.block = b
        PROVE  /\ at \in DOMAIN p.from /\ p.from[at] \in Value
               /\ Dominates(G, D(p.from[at]), at)
               /\ ssa'[p.dest] = ssa[p.from[at]]
    <3>1. at \in Preds(G, p.block)
      <4>1. DOMAIN G = 1..func.n
        BY Form
      <4> QED  BY <1>1, <1>2, <2>4, <4>1 DEF Preds
    <3>2. (CHOOSE q \in func.phis : q.dest = p.dest) = p
      BY Form
    <3>3. AfterPhis(b)[p.dest] = ssa[p.from[at]]
      BY <2>1, <2>4, <3>2 DEF AfterPhis
    <3>4. p.dest \notin Own(b)
      BY <2>2
    <3> HIDE DEF Own
    <3>5. ssa'[p.dest] = AfterPhis(b)[p.dest]
      BY <1>1, <2>1, <3>4
    <3> QED  BY <2>1, <3>1, <3>3, <3>5
  <2> QED  BY <2>1, <2>2, <2>3, <2>4
<1>6. ASSUME NEW v \in Value, \A p \in func.phis : p.block = b => p.dest # v
      PROVE  /\ v \notin Own(b) => ssa'[v] = ssa[v] /\ out'[v] = out[v]
             /\ v \in Own(b) => ssa'[v] = t /\ out'[v] = t
  <2>1. AfterPhis(b)[v] = ssa[v]
    BY <1>6 DEF AfterPhis
  <2>2. AfterCopies(b)[v] = out[v]
    BY <1>4, <1>6
  <2> HIDE DEF Own
  <2> QED  BY <1>1, <2>1, <2>2
<1>7. ASSUME NEW w \in Value, D(w) # b
      PROVE  out'[w] = out[w]
  <2>1. \A p \in func.phis : p.block = b => p.dest # w
    BY <1>5, <1>7
  <2>2. w \notin Own(b)
    <3>1. CASE \E p \in func.phis : p.dest = w
      BY <1>5, <3>1
    <3>2. CASE \A p \in func.phis : p.dest # w
      BY <1>7, <3>2, DefBlockFacts
    <3> QED  BY <3>1, <3>2
  <2> QED  BY <1>6, <2>1, <2>2
<1>8. ASSUME NEW v \in Value, Dominates(G, D(v), b)
      PROVE  ssa'[v] = out'[stands[v]]
  <2>1. D(v) \in Reachable(G)
    BY <1>2, <1>8, DomReached
  <2>2. CASE \E p \in func.phis : p.block = b /\ p.dest = v
    <3>1. PICK p \in func.phis : p.block = b /\ p.dest = v
      BY <2>2
    <3> DEFINE o == p.from[at]
    <3>2. o \in Value /\ Dominates(G, D(o), at) /\ ssa'[v] = ssa[o] /\ D(v) = b
          /\ at \in DOMAIN p.from
      BY <1>5, <3>1
    <3> HIDE DEF o, D
    <3>3. ssa[o] = out[stands[o]]
      BY <3>2 DEF Aligned, D
    <3>4. CASE p \in left
      <4>1. stands[v] = v
        <5>1. \A q \in func.phis \ left : q.dest # v
          BY <3>1, <3>4, Form
        <5> QED  BY <5>1 DEF StandFor
      <4>2. v \notin Own(b)
        BY <1>5, <3>1
      <4>3. AfterCopies(b)[v] = out[stands[o]]
        BY <1>4, <3>1, <3>4 DEF o
      <4>4. out'[v] = AfterCopies(b)[v]
        <5> HIDE DEF Own
        <5> QED  BY <1>1, <4>2
      <4> QED  BY <3>2, <3>3, <4>1, <4>3, <4>4
    <3>5. CASE p \notin left
      <4>1. Alive(func, p.dest)
        BY <2>1, <3>1 DEF Alive, D
      <4>2. stands[o] = stands[v] /\ StrictlyAbove(func, stands[v], v)
        BY <3>1, <3>2, <3>5, <4>1 DEF StandFor, o
      <4>3. D(stands[v]) # b /\ stands[v] \in Value
        BY <1>3, <3>2, <4>2 DEF StrictlyAbove, D
      <4>4. out'[stands[v]] = out[stands[v]]
        BY <1>7, <4>3 DEF D
      <4> QED  BY <3>2, <3>3, <4>2, <4>4
    <3> QED  BY <3>4, <3>5
  <2>3. CASE (\A p \in func.phis : p.block = b => p.dest # v) /\ v \in Own(b)
    <3>1. \A p \in func.phis : p.dest # v
      BY <1>5, <2>3
    <3>2. stands[v] = v
      BY <3>1 DEF StandFor
    <3> HIDE DEF Own
    <3> QED  BY <1>6, <2>3, <3>2
  <2>4. CASE (\A p \in func.phis : p.block = b => p.dest # v) /\ v \notin Own(b)
    <3>1. D(v) = b => D(v) = 1 /\ \A p \in func.phis : p.dest # v
      <4>1. D(v) = b => \A p \in func.phis : p.dest # v
        BY <1>5, <2>4
      <4> QED  BY <2>4, <4>1, DefBlockFacts
    <3>2. Dominates(G, D(v), at)
      <4>1. CASE D(v) = b
        BY <1>2, <3>1, <4>1, EntryDominates
      <4>2. CASE D(v) # b
        <5> HIDE DEF D
        <5> QED  BY <1>1, <1>2, <1>8, <4>2, DomBefore
      <4> QED  BY <4>1, <4>2
    <3>3. ssa[v] = out[stands[v]]
      BY <3>2 DEF Aligned
    <3>4. ssa'[v] = ssa[v]
      <4> HIDE DEF Own
      <4> QED  BY <1>6, <2>4
    <3>5. CASE \A p \in func.phis \ left : p.dest # v
      <4>1. stands[v] = v
        BY <3>5 DEF StandFor
      <4>2. out'[v] = out[v]
        <5> HIDE DEF Own
        <5> QED  BY <1>6, <2>4
      <4> QED  BY <3>3, <3>4, <4>1, <4>2
    <3>6. CASE \E p \in func.phis \ left : p.dest = v
      <4>1. PICK p \in func.phis \ left : p.dest = v
        BY <3>6
      <4>2. StrictlyAbove(func, stands[v], v)
        BY <2>1, <4>1 DEF StandFor, Alive
      <4> DEFINE w == stands[v]
      <4>3. w \in Value /\ Dominates(G, D(w), D(v)) /\ D(w) # D(v)
        BY <1>3, <4>2 DEF StrictlyAbove, Above
      <4>4. D(w) # b
        <5> SUFFICES ASSUME D(w) = b PROVE FALSE
          OBVIOUS
        <5>1. Dominates(G, b, D(v))
          BY <4>3
        <5> HIDE DEF D, w
        <5>2. D(v) = b
          BY <1>2, <1>8, <5>1, DomAntisymmetric
        <5> QED  BY <4>3, <5>2
      <4> HIDE DEF w
      <4>5. out'[w] = out[w]
        BY <1>7, <4>3, <4>4
      <4> QED  BY <3>3, <3>4, <4>5 DEF w
    <3> QED  BY <3>5, <3>6
  <2> QED  BY <2>2, <2>3, <2>4
<1>9. Aligned'
  BY <1>1, <1>8 DEF Aligned
<1> QED  BY <1>1, <1>2, <1>9

\* At the entry only what was there before the function began is in scope.
LEMMA RunStarts ==
  ASSUME InSSAForm(func), NEW left, left \subseteq func.phis,
         StandFor(func, left, stands), at = 1, ssa = Identity, out = Identity
  PROVE  Aligned /\ at \in Reachable(func.succ)
<1>1. Graph(func.succ, func.n)
  BY Form
<1>2. 1 \in Reachable(func.succ)
  BY <1>1, ReachableFacts
<1>3. ASSUME NEW v \in Value, Dominates(func.succ, DefBlock(func, v), 1)
      PROVE  ssa[v] = out[stands[v]]
  <2> DEFINE b == DefBlock(func, v)
  <2>1. Dominates(func.succ, 1, b)
    BY <1>1, EntryDominates
  <2>2. b = 1
    <3> HIDE DEF b
    <3>1. Dominates(func.succ, b, 1)
      BY <1>3 DEF b
    <3> QED  BY <1>1, <1>2, <2>1, <3>1, DomAntisymmetric
  <2>3. \A p \in func.phis : p.dest # v
    <3> SUFFICES ASSUME NEW p \in func.phis, p.dest = v PROVE FALSE
      OBVIOUS
    <3>1. p.block \in 2..func.n /\ DefBlock(func, p.dest) = p.block
      BY Form
    <3> QED  BY <2>2, <3>1
  <2>4. stands[v] = v
    BY <2>3 DEF StandFor
  <2> QED  BY <2>4 DEF Identity
<1> QED  BY <1>2, <1>3 DEF Aligned

-----------------------------------------------------------------------------
(* The inductive invariant, for the phis of the function given that are    *)
(* left: what holds throughout, and what holds in each phase.              *)

Throughout(left) ==
  /\ func \in Inputs /\ left \subseteq func.phis
  /\ StandFor(func, left, stands)
  /\ nextValue \in Nat /\ nextValue >= ValueCount

NotRunning == at = 1 /\ ssa = Identity /\ out = Identity

InTrivial(left) ==
  /\ pc = "trivial" /\ pred = 0 /\ NotRunning
  /\ PhisAre(func, left, phis, stands, splitOf)
  /\ succ = func.succ /\ splitOf = <<>> /\ effect = [b \in 1..func.n |-> Identity]

InSplit(left, m) ==
  /\ pc = "split" /\ pred = 0 /\ NotRunning
  /\ PhisAre(func, left, phis, stands, splitOf)
  /\ Splits(func, left, succ, m, phis, splitOf, toSplit)
  /\ effect = [b \in 1..m |-> Identity]

InCopy(left, m) ==
  /\ pc = "copy" /\ NotRunning
  /\ PhisAre(func, left, phis, stands, splitOf)
  /\ Splits(func, left, succ, m, phis, splitOf, toSplit) /\ toSplit = {}
  /\ pending \subseteq 1..m
  /\ effect \in [1..m -> [Value -> Value]]
  /\ \A c \in 1..m : c \notin pending /\ c # pred =>
       Effected(left, stands, splitOf, effect[c], c)
  /\ pred # 0 => /\ pred \in 1..m /\ given = CopiesAt(pred)
                 /\ Copying(given, remaining, nextValue, holds)

InRun(left, m) ==
  /\ pc = "run" /\ phis = {} /\ Copied(left, m)
  /\ at \in Reachable(func.succ) /\ (Placed => Aligned)

Phase(left) ==
  \/ InTrivial(left)
  \/ \E m \in Nat : InSplit(left, m) \/ InCopy(left, m) \/ InRun(left, m)

InvFor(left) == Throughout(left) /\ Phase(left)

IInv == \E left : InvFor(left)

LEMMA Given == ASSUME NEW left, Throughout(left) PROVE InSSAForm(func)
BY FunctionsAssumption DEF Throughout

(* The invariant holds at first and is kept by each action.                *)
LEMMA InitIInv == Init => IInv
<1> SUFFICES ASSUME Init PROVE InvFor(func.phis)
  BY DEF IInv
<1> DEFINE left == func.phis
<1>1. func \in Inputs /\ InSSAForm(func)
  BY FunctionsAssumption DEF Init
<1>2. /\ Identity \in [Value -> Value] /\ \A v \in Value : Identity[v] = v
  BY DEF Identity
<1>3. StandFor(func, left, Identity)
  BY <1>2 DEF StandFor
<1>4. \A p \in left : Matches(p, p, Identity, <<>>) /\ p \in PhiRecord
  <2> SUFFICES ASSUME NEW p \in left
               PROVE  Matches(p, p, Identity, <<>>) /\ p \in PhiRecord
    OBVIOUS
  <2> DEFINE P == Preds(func.succ, p.block)
  <2>1. /\ p.block \in 2..func.n /\ DOMAIN p.from = P /\ p.from \in [P -> Value]
        /\ p \in [block : 2..func.n, dest : Value \ {Undef}, from : [P -> Value]]
    BY <1>1, Form
  <2>2. P \subseteq Nat /\ func.n \in Nat
    <3>1. Graph(func.succ, func.n) /\ DOMAIN func.succ = 1..func.n
      BY <1>1, Form
    <3> QED  BY <3>1 DEF Preds, Graph
  <2> HIDE DEF P
  <2>3. [P -> Value] \subseteq Froms
    BY <2>2, FromFacts
  <2>4. p \in PhiRecord
    BY <2>1, <2>2, <2>3 DEF PhiRecord
  <2>5. \A a, b : Site(<<>>, a, b) = a
    BY DEF Site
  <2>6. \A a \in DOMAIN p.from : Identity[p.from[a]] = p.from[a]
    BY <1>2, <2>1
  <2>7. Matches(p, p, Identity, <<>>)
    BY <2>5, <2>6 DEF Matches
  <2> QED  BY <2>4, <2>7
<1>5. PhisAre(func, left, func.phis, Identity, <<>>)
  <2>1. \A q, r \in func.phis : q.dest = r.dest => q = r
    BY <1>1, Form
  <2> QED  BY <1>4, <2>1 DEF PhisAre
<1> HIDE DEF left
<1>6. Throughout(left)
  BY <1>1, <1>3, ValueCountAssumption DEF Init, Throughout, left
<1>7. InTrivial(left)
  BY <1>5 DEF Init, InTrivial, NotRunning
<1> QED  BY <1>6, <1>7 DEF InvFor, Phase, left

LEMMA EliminateTrivialIInv ==
  ASSUME NEW left, Throughout(left), InTrivial(left), EliminateTrivial
  PROVE  IInv'
<1> DEFINE left2 == {p \in left : \A q \in Trivial : q.dest # p.dest}
<1>1. PICK l : l = left2
  OBVIOUS
<1>2. InSSAForm(func)
  BY Given
<1>3. /\ func' = func /\ pc' = pc /\ pred' = pred /\ nextValue' = nextValue
      /\ succ' = succ /\ splitOf' = splitOf /\ effect' = effect
      /\ at' = at /\ ssa' = ssa /\ out' = out
      /\ stands' = [v \in Value |-> Resolved[stands[v]]]
      /\ phis' = {[q EXCEPT !.from = [b \in DOMAIN q.from |-> Resolved[q.from[b]]]] :
                    q \in phis \ Trivial}
  BY DEF EliminateTrivial, copying, running
<1>4. StandFor(func, left, stands) /\ PhisAre(func, left, phis, stands, <<>>)
  BY DEF Throughout, InTrivial
<1>5. PhisAre(func, l, phis', stands', <<>>) /\ StandFor(func, l, stands')
  <2>1. l = {p \in left : \A q \in Trivial : q.dest # p.dest}
    BY <1>1
  <2> QED  BY <1>2, <1>3, <1>4, <2>1, EliminateKeeps
<1>6. Throughout(l)'
  <2>1. l \subseteq func.phis
    BY <1>1 DEF Throughout
  <2> QED  BY <1>3, <1>5, <2>1 DEF Throughout
<1>7. InTrivial(l)'
  BY <1>3, <1>5 DEF InTrivial, NotRunning
<1> QED  BY <1>6, <1>7 DEF IInv, InvFor, Phase

LEMMA CollectEdgesIInv ==
  ASSUME NEW left, Throughout(left), InTrivial(left), CollectEdges
  PROVE  IInv'
<1>1. InSSAForm(func)
  BY Given
<1>2. /\ func' = func /\ stands' = stands /\ phis' = phis /\ pred' = pred
      /\ nextValue' = nextValue /\ succ' = succ /\ splitOf' = splitOf /\ effect' = effect
      /\ at' = at /\ ssa' = ssa /\ out' = out
      /\ pc' = "split" /\ Trivial = {}
      /\ toSplit' = {e \in UNION {(DOMAIN p.from) \X {p.block} : p \in phis} :
                       IsCritical(e[1], e[2]) /\ e[1] \notin func.indirect}
  BY DEF CollectEdges, copying, running
<1>3. /\ PhisAre(func, left, phis, stands, <<>>) /\ succ = func.succ /\ splitOf = <<>>
  BY DEF InTrivial
<1>4. toSplit' = {e \in UNION {(DOMAIN p.from) \X {p.block} : p \in phis} :
                    /\ Len(func.succ[e[1]]) > 1
                    /\ Cardinality(Preds(func.succ, e[2])) > 1
                    /\ e[1] \notin func.indirect}
  BY <1>2, <1>3 DEF IsCritical
<1>5. Splits(func, left, func.succ, func.n, phis, <<>>, toSplit')
  BY <1>1, <1>2, <1>3, <1>4, SplitsStart
<1>6. Throughout(left)'
  BY <1>2 DEF Throughout
<1>7. func.n \in Nat
  BY <1>1, Form DEF Graph
<1> DEFINE m == func.n
<1>8. InSplit(left, m)'
  BY <1>2, <1>3, <1>5 DEF InSplit, InTrivial, NotRunning
<1>9. \E k \in Nat : InSplit(left, k)'
  <2>1. m' = m
    BY <1>2
  <2> QED  BY <1>2, <1>7, <1>8
<1> QED  BY <1>6, <1>9 DEF IInv, InvFor, Phase

LEMMA SplitCriticalEdgeIInv ==
  ASSUME NEW left, Throughout(left), NEW m \in Nat, InSplit(left, m), SplitCriticalEdge
  PROVE  IInv'
<1>1. InSSAForm(func)
  BY Given
<1>2. /\ func' = func /\ stands' = stands /\ pc' = pc /\ pred' = pred
      /\ nextValue' = nextValue /\ at' = at /\ ssa' = ssa /\ out' = out
  BY DEF SplitCriticalEdge, copying, running
<1>3. PICK e \in toSplit : SplitEdge(e[1], e[2]) /\ toSplit' = toSplit \ {e}
  BY DEF SplitCriticalEdge
<1>4. /\ PhisAre(func, left, phis, stands, splitOf)
      /\ Splits(func, left, succ, m, phis, splitOf, toSplit)
      /\ effect = [b \in 1..m |-> Identity]
  BY DEF InSplit
<1>5. /\ PhisAre(func, left, phis', stands, splitOf')
      /\ Splits(func, left, succ', m + 1, phis', splitOf', toSplit')
  BY <1>1, <1>3, <1>4, SplitKeeps
<1>6. effect' = [b \in 1..(m + 1) |-> Identity]
  <2>1. Graph(succ, m)
    BY <1>4 DEF Splits
  <2>2. Cardinality(DOMAIN succ) = m
    BY <2>1, Edges
  <2>3. effect' = [c \in DOMAIN effect \cup {m + 1} |->
                     IF c = m + 1 THEN Identity ELSE effect[c]]
    BY <1>3, <2>2 DEF SplitEdge
  <2>4. DOMAIN effect \cup {m + 1} = 1..(m + 1)
    BY <1>4
  <2>5. \A c \in 1..(m + 1) : c = m + 1 \/ c \in 1..m
    OBVIOUS
  <2>6. \A c \in 1..(m + 1) : (IF c = m + 1 THEN Identity ELSE effect[c]) = Identity
    BY <1>4, <2>5
  <2> QED  BY <2>3, <2>4, <2>6
<1>7. Throughout(left)'
  BY <1>2 DEF Throughout
<1>8. InSplit(left, m + 1)'
  BY <1>2, <1>5, <1>6 DEF InSplit, NotRunning
<1>9. m + 1 \in Nat
  OBVIOUS
<1> QED  BY <1>7, <1>8, <1>9 DEF IInv, InvFor, Phase

LEMMA GenerateCopiesIInv ==
  ASSUME NEW left, Throughout(left), NEW m \in Nat, InSplit(left, m), GenerateCopies
  PROVE  IInv'
<1>1. InSSAForm(func)
  BY Given
<1>2. /\ func' = func /\ stands' = stands /\ pc' = "copy" /\ pred' = pred /\ pred = 0
      /\ nextValue' = nextValue /\ at' = at /\ ssa' = ssa /\ out' = out
      /\ phis' = phis /\ succ' = succ /\ splitOf' = splitOf /\ effect' = effect
      /\ toSplit' = toSplit /\ toSplit = {}
      /\ pending' = {b \in DOMAIN succ : CopiesAt(b) # {}}
  BY DEF GenerateCopies, copying, running, InSplit
<1>3. /\ PhisAre(func, left, phis, stands, splitOf)
      /\ Splits(func, left, succ, m, phis, splitOf, toSplit)
      /\ effect = [b \in 1..m |-> Identity]
  BY DEF InSplit
<1>4. DOMAIN succ = 1..m
  <2>1. Graph(succ, m)
    BY <1>3 DEF Splits
  <2> QED  BY <2>1, Edges
<1>5. Identity \in [Value -> Value] /\ \A v \in Value : Identity[v] = v
  BY DEF Identity
<1>6. ASSUME NEW c \in 1..m, c \notin pending'
      PROVE  Effected(left, stands, splitOf, effect[c], c)
  <2>1. CopiesAt(c) = {} /\ effect[c] = Identity
    BY <1>2, <1>3, <1>4, <1>6
  <2>2. /\ \A g \in CopiesAt(c) : effect[c][g.dest] = g.src
        /\ \A v \in Value : effect[c][v] = v
    BY <1>5, <2>1
  <2> QED  BY <1>1, <1>3, <2>2, EffectOfCopies
<1>7. effect \in [1..m -> [Value -> Value]]
  BY <1>3, <1>5
<1>8. Throughout(left)'
  BY <1>2 DEF Throughout
<1>9. pending' \subseteq 1..m
  BY <1>2, <1>4
<1>10. InCopy(left, m)'
  BY <1>2, <1>3, <1>6, <1>7, <1>9 DEF InCopy, InSplit, NotRunning
<1> QED  BY <1>8, <1>10 DEF IInv, InvFor, Phase

LEMMA BeginPredIInv ==
  ASSUME NEW left, Throughout(left), NEW m \in Nat, InCopy(left, m), BeginPred
  PROVE  IInv'
<1>1. InSSAForm(func)
  BY Given
<1>2. PICK b \in pending :
        /\ pred' = b /\ pending' = pending \ {b}
        /\ given' = CopiesAt(b) /\ remaining' = CopiesAt(b)
  BY DEF BeginPred
<1>3. /\ func' = func /\ stands' = stands /\ pc' = pc /\ pred = 0
      /\ nextValue' = nextValue /\ at' = at /\ ssa' = ssa /\ out' = out
      /\ phis' = phis /\ succ' = succ /\ splitOf' = splitOf /\ effect' = effect
      /\ toSplit' = toSplit /\ holds' = Identity
  BY DEF BeginPred, running
<1>4. PhisAre(func, left, phis, stands, splitOf) /\ pending \subseteq 1..m
  BY DEF InCopy
<1>5. Copying(CopiesAt(b), CopiesAt(b), nextValue, Identity)
  BY <1>1, <1>4, CopyingStarts DEF Throughout
<1>6. CopiesAt(b)' = CopiesAt(b)
  BY <1>3 DEF CopiesAt
<1>7. Copying(given, remaining, nextValue, holds)'
  BY <1>2, <1>3, <1>5
<1>8. CopiesAt(pred)' = CopiesAt(b)
  BY <1>2, <1>3 DEF CopiesAt
<1>9. pred' \in 1..m /\ pending' \subseteq 1..m /\ given' = CopiesAt(pred)'
  BY <1>2, <1>4, <1>8
<1>10. \A c \in 1..m : c \notin pending' /\ c # pred' =>
         Effected(left, stands, splitOf, effect[c], c)
  <2>1. \A c \in 1..m : c \notin pending' /\ c # pred' => c \notin pending /\ c # pred
    BY <1>2, <1>3
  <2> QED  BY <2>1 DEF InCopy
<1>11. Throughout(left)'
  BY <1>3 DEF Throughout
<1>12. InCopy(left, m)'
  BY <1>3, <1>7, <1>9, <1>10 DEF InCopy, NotRunning
<1> QED  BY <1>11, <1>12 DEF IInv, InvFor, Phase

LEMMA SequentializeIInv ==
  ASSUME NEW left, Throughout(left), NEW m \in Nat, InCopy(left, m), Sequentialize
  PROVE  IInv'
<1>1. /\ func' = func /\ stands' = stands /\ pc' = pc /\ pred' = pred /\ pred # 0
      /\ at' = at /\ ssa' = ssa /\ out' = out
      /\ phis' = phis /\ succ' = succ /\ splitOf' = splitOf /\ effect' = effect
      /\ toSplit' = toSplit /\ pending' = pending
      /\ EmitSafe \/ BreakCycle
  BY DEF Sequentialize, CopyNext, pass, running
<1>2. /\ Copying(given, remaining, nextValue, holds) /\ given = CopiesAt(pred)
      /\ pred \in 1..m
  BY <1>1 DEF InCopy
<1>3. Copying(given', remaining', nextValue', holds')
  BY <1>1, <1>2, EmitSafeCopies, BreakCycleCopies
<1>4. given' = given /\ nextValue' \in Nat /\ nextValue' >= ValueCount
  <2>1. CASE EmitSafe
    BY <2>1 DEF EmitSafe, Throughout
  <2>2. CASE BreakCycle
    <3>1. given' = given /\ nextValue' = nextValue + 1
      BY <2>2 DEF BreakCycle
    <3> QED  BY <3>1, ValueCountAssumption DEF Throughout
  <2> QED  BY <1>1, <2>1, <2>2
<1>5. CopiesAt(pred)' = CopiesAt(pred)
  BY <1>1 DEF CopiesAt
<1>6. Throughout(left)'
  BY <1>1, <1>4 DEF Throughout
<1>7. InCopy(left, m)'
  BY <1>1, <1>2, <1>3, <1>4, <1>5 DEF InCopy, NotRunning
<1> QED  BY <1>6, <1>7 DEF IInv, InvFor, Phase

LEMMA InsertCopiesIInv ==
  ASSUME NEW left, Throughout(left), NEW m \in Nat, InCopy(left, m), InsertCopies
  PROVE  IInv'
<1>1. InSSAForm(func)
  BY Given
<1>2. /\ func' = func /\ stands' = stands /\ pc' = pc /\ pred # 0 /\ pred' = 0
      /\ nextValue' = nextValue /\ at' = at /\ ssa' = ssa /\ out' = out
      /\ phis' = phis /\ succ' = succ /\ splitOf' = splitOf
      /\ toSplit' = toSplit /\ pending' = pending /\ remaining = {}
      /\ effect' = [effect EXCEPT ![pred] = [v \in Value |-> holds[v]]]
  BY DEF InsertCopies, copying, running
<1>3. /\ Copying(given, remaining, nextValue, holds) /\ given = CopiesAt(pred)
      /\ pred \in 1..m /\ PhisAre(func, left, phis, stands, splitOf)
      /\ effect \in [1..m -> [Value -> Value]]
  BY <1>2 DEF InCopy
<1> DEFINE ef == [v \in Value |-> holds[v]]
<1>4. /\ ef \in [Value -> Value]
      /\ \A g \in CopiesAt(pred) : ef[g.dest] = g.src
      /\ \A v \in Value : (\A g \in CopiesAt(pred) : g.dest # v) => ef[v] = v
  BY <1>2, <1>3 DEF Copying
<1> HIDE DEF ef
<1>5. Effected(left, stands, splitOf, ef, pred)
  BY <1>1, <1>3, <1>4, EffectOfCopies
<1>6. /\ effect' \in [1..m -> [Value -> Value]] /\ effect'[pred] = ef
      /\ \A c \in 1..m : c # pred => effect'[c] = effect[c]
  BY <1>2, <1>3, <1>4 DEF ef
<1>7. \A c \in 1..m : c \notin pending => Effected(left, stands, splitOf, effect'[c], c)
  <2> SUFFICES ASSUME NEW c \in 1..m, c \notin pending
               PROVE  Effected(left, stands, splitOf, effect'[c], c)
    OBVIOUS
  <2>1. CASE c = pred
    BY <2>1, <1>5, <1>6
  <2>2. CASE c # pred
    BY <2>2, <1>6 DEF InCopy
  <2> QED  BY <2>1, <2>2
<1>8. Throughout(left)'
  BY <1>2 DEF Throughout
<1>9. InCopy(left, m)'
  BY <1>2, <1>6, <1>7 DEF InCopy, NotRunning
<1> QED  BY <1>8, <1>9 DEF IInv, InvFor, Phase

LEMMA RemovePhisIInv ==
  ASSUME NEW left, Throughout(left), NEW m \in Nat, InCopy(left, m), RemovePhis
  PROVE  IInv'
<1>1. InSSAForm(func)
  BY Given
<1>2. /\ func' = func /\ stands' = stands /\ pc' = "run" /\ pred = 0 /\ pending = {}
      /\ nextValue' = nextValue /\ at' = at /\ ssa' = ssa /\ out' = out
      /\ phis' = {} /\ succ' = succ /\ splitOf' = splitOf /\ effect' = effect
  BY DEF RemovePhis, copying, running
<1>3. /\ Splits(func, left, succ, m, phis, splitOf, {})
      /\ effect \in [1..m -> [Value -> Value]] /\ NotRunning
  BY DEF InCopy
<1>4. Splits(func, left, succ, m, {}, splitOf, {})
  BY <1>3 DEF Splits
<1>5. \A c \in 1..m : Effected(left, stands, splitOf, effect[c], c)
  <2>1. \A c \in 1..m : c \notin pending /\ c # pred
    BY <1>2
  <2> QED  BY <2>1 DEF InCopy
<1>6. Copied(left, m)
  BY <1>3, <1>4, <1>5 DEF Copied
<1>7. Aligned /\ at \in Reachable(func.succ)
  BY <1>1, <1>3, RunStarts DEF Throughout, NotRunning
<1>8. Copied(left, m)' /\ Aligned' /\ at' \in Reachable(func'.succ)
  BY <1>2, <1>6, <1>7 DEF Copied, Aligned
<1>9. Throughout(left)'
  BY <1>2 DEF Throughout
<1>10. InRun(left, m)'
  BY <1>2, <1>8 DEF InRun
<1> QED  BY <1>9, <1>10 DEF IInv, InvFor, Phase

LEMMA StepIInv ==
  ASSUME NEW left, Throughout(left), NEW m \in Nat, InRun(left, m), Step
  PROVE  IInv'
<1>1. InSSAForm(func)
  BY Given
<1>2. /\ func' = func /\ stands' = stands /\ pc' = pc /\ nextValue' = nextValue
      /\ phis' = phis /\ succ' = succ /\ splitOf' = splitOf /\ effect' = effect
  BY DEF Step, pass, copying
<1>3. Placed' <=> Placed
  BY <1>2 DEF Placed
<1>4. /\ Copied(left, m) /\ at \in Reachable(func.succ) /\ (Placed => Aligned)
      /\ left \subseteq func.phis /\ StandFor(func, left, stands)
  BY DEF InRun, Throughout
<1>5. Placed => Aligned'
  BY <1>1, <1>4, StepAligns
<1>6. at' \in Reachable(func.succ)
  <2>1. at' \in Range(func.succ[at])
    BY DEF Step
  <2>2. Graph(func.succ, func.n)
    BY <1>1, Form
  <2> QED  BY <1>4, <2>1, <2>2, ReachableFacts
<1>7. Copied(left, m)'
  BY <1>2, <1>4 DEF Copied
<1>8. Throughout(left)'
  BY <1>2 DEF Throughout
<1>9. InRun(left, m)'
  BY <1>2, <1>3, <1>5, <1>6, <1>7 DEF InRun
<1> QED  BY <1>8, <1>9 DEF IInv, InvFor, Phase

(* In every reachable state there are phis of the function given that are *)
(* left, and what the phase the pass is in says of them holds.             *)
THEOREM Inductive == Spec => []IInv
<1>1. IInv /\ [Next]_vars => IInv'
  <2> SUFFICES ASSUME IInv, [Next]_vars PROVE IInv'
    OBVIOUS
  <2>1. PICK left : InvFor(left)
    BY DEF IInv
  <2>2. Throughout(left) /\ Phase(left)
    BY <2>1 DEF InvFor
  <2>3. CASE UNCHANGED vars
    <3>1. /\ UNCHANGED <<func, pc, succ, phis, stands, toSplit, splitOf, pending, pred>>
          /\ UNCHANGED <<effect, given, remaining, nextValue, holds, at, ssa, out>>
      BY <2>3 DEF vars, pass, copying, running
    <3>2. Throughout(left)'
      BY <2>2, <3>1 DEF Throughout
    <3>3. InTrivial(left) => InTrivial(left)'
      BY <3>1 DEF InTrivial, NotRunning
    <3>4. ASSUME NEW m \in Nat
          PROVE  /\ InSplit(left, m) => InSplit(left, m)'
                 /\ InCopy(left, m) => InCopy(left, m)'
                 /\ InRun(left, m) => InRun(left, m)'
      <4>1. InSplit(left, m) => InSplit(left, m)'
        BY <3>1 DEF InSplit, NotRunning
      <4>2. CopiesAt(pred)' = CopiesAt(pred)
        BY <3>1 DEF CopiesAt
      <4>3. InCopy(left, m) => InCopy(left, m)'
        BY <3>1, <4>2 DEF InCopy, NotRunning
      <4>4. InRun(left, m) => InRun(left, m)'
        BY <3>1 DEF InRun, Copied, Aligned, Placed
      <4> QED  BY <4>1, <4>3, <4>4
    <3>5. Phase(left)'
      BY <2>2, <3>3, <3>4 DEF Phase
    <3> QED  BY <3>2, <3>5 DEF IInv, InvFor
  <2>4. CASE Next /\ InTrivial(left)
    <3>1. pc = "trivial"
      BY <2>4 DEF InTrivial
    <3>2. EliminateTrivial \/ CollectEdges
      BY <2>4, <3>1 DEF Next, SplitCriticalEdge, GenerateCopies, BeginPred,
         Sequentialize, InsertCopies, RemovePhis, Step
    <3> QED  BY <2>2, <2>4, <3>2, EliminateTrivialIInv, CollectEdgesIInv
  <2>5. ASSUME NEW m \in Nat, Next, InSplit(left, m) PROVE IInv'
    <3>1. pc = "split"
      BY <2>5 DEF InSplit
    <3>2. SplitCriticalEdge \/ GenerateCopies
      BY <2>5, <3>1 DEF Next, EliminateTrivial, CollectEdges, BeginPred,
         Sequentialize, InsertCopies, RemovePhis, Step
    <3> QED  BY <2>2, <2>5, <3>2, SplitCriticalEdgeIInv, GenerateCopiesIInv
  <2>6. ASSUME NEW m \in Nat, Next, InCopy(left, m) PROVE IInv'
    <3>1. pc = "copy"
      BY <2>6 DEF InCopy
    <3>2. BeginPred \/ Sequentialize \/ InsertCopies \/ RemovePhis
      BY <2>6, <3>1 DEF Next, EliminateTrivial, CollectEdges, SplitCriticalEdge,
         GenerateCopies, Step
    <3> QED  BY <2>2, <2>6, <3>2, BeginPredIInv, SequentializeIInv, InsertCopiesIInv,
             RemovePhisIInv
  <2>7. ASSUME NEW m \in Nat, Next, InRun(left, m) PROVE IInv'
    <3>1. pc = "run"
      BY <2>7 DEF InRun
    <3>2. Step
      BY <2>7, <3>1 DEF Next, EliminateTrivial, CollectEdges, SplitCriticalEdge,
         GenerateCopies, BeginPred, Sequentialize, InsertCopies, RemovePhis
    <3> QED  BY <2>2, <2>7, <3>2, StepIInv
  <2>8. Next \/ UNCHANGED vars
    OBVIOUS
  <2> QED  BY <2>2, <2>3, <2>4, <2>5, <2>6, <2>7, <2>8 DEF Phase
<1> QED  BY <1>1, InitIInv, PTL DEF Spec

(* However the edges are split, one by one, each phi has exactly one       *)
(* operand for each predecessor its block has at that point.               *)
THEOREM PhisMatch == Spec => []PhiPredsMatch
<1>1. IInv => PhiPredsMatch
  <2> SUFFICES ASSUME NEW left, Throughout(left), Phase(left) PROVE PhiPredsMatch
    BY DEF IInv, InvFor
  <2>1. CASE InTrivial(left)
    <3>1. InSSAForm(func)
      BY Given
    <3>2. /\ PhisAre(func, left, phis, stands, <<>>) /\ succ = func.succ
      BY <2>1 DEF InTrivial
    <3>3. ASSUME NEW q \in phis PROVE DOMAIN q.from = Preds(succ, q.block)
      <4>1. PICK p \in left : Matches(q, p, stands, <<>>)
        BY <3>2 DEF PhisAre
      <4>2. q.block = p.block /\ DOMAIN q.from = DOMAIN p.from
        BY <4>1, MatchUnsplit
      <4>3. p \in func.phis
        BY DEF Throughout
      <4>4. DOMAIN p.from = Preds(func.succ, p.block)
        BY <3>1, <4>3, Form
      <4> QED  BY <3>2, <4>2, <4>4
    <3> QED  BY <3>3 DEF PhiPredsMatch
  <2>2. CASE \E m \in Nat : InSplit(left, m) \/ InCopy(left, m) \/ InRun(left, m)
    <3>1. PICK m \in Nat : InSplit(left, m) \/ InCopy(left, m) \/ InRun(left, m)
      BY <2>2
    <3>2. CASE InSplit(left, m) \/ InCopy(left, m)
      BY <3>2 DEF InSplit, InCopy, Splits, PhiPredsMatch
    <3>3. CASE InRun(left, m)
      BY <3>3 DEF InRun, PhiPredsMatch
    <3> QED  BY <3>1, <3>2, <3>3
  <2> QED  BY <2>1, <2>2 DEF Phase
<1> QED  BY <1>1, Inductive, PTL

(* Phi elimination preserves every function all of whose critical edges    *)
(* into a phi can be split: on every path, whatever its instructions       *)
(* compute, a value in scope has the same contents before and after.       *)
THEOREM Preserved == Spec => [](Placed => Agreement)
<1>1. IInv => (Placed => Agreement)
  <2> SUFFICES ASSUME NEW left, Phase(left), Placed, pc = "run" PROVE Aligned
    BY DEF IInv, InvFor, Agreement, Aligned
  <2>1. PICK m \in Nat : InRun(left, m)
    BY DEF Phase, InTrivial, InSplit, InCopy
  <2> QED  BY <2>1 DEF InRun
<1> QED  BY <1>1, Inductive, PTL

-----------------------------------------------------------------------------
(* sequentialize_copies by itself, for every set of copies one block may   *)
(* have: the list does what the parallel copies would do.                  *)

LEMMA CopySetsFact == \A cs \in CopySets : IsCopySet(cs)
<1> SUFFICES ASSUME NEW D \in SUBSET Value, NEW f \in [D -> Value]
    PROVE  IsCopySet({[dest |-> v, src |-> f[v]] : v \in DOMAIN f})
  BY DEF CopySets
<1> QED  BY DEF IsCopySet, Copy

(* Each remaining copy stands for the given copy with its destination: its *)
(* source, perhaps a temporary by now, holds what that copy should move.   *)
Represents ==
  \A c \in remaining : \E g \in given :
     g.dest = c.dest /\ holds[c.src] = g.src

OnePerDest == \A c, d \in remaining : c.dest = d.dest => c = d

(* A given copy with no remaining one has taken effect.                    *)
EmittedDone ==
  \A g \in given :
     holds[g.dest] = g.src \/ \E c \in remaining : c.dest = g.dest

OthersUnchanged == \A v \in Value \ Dests : holds[v] = v

CopyIInv ==
  CopyTypeOK /\ Represents /\ OnePerDest /\ EmittedDone /\ OthersUnchanged

LEMMA CopyInitIInv == CopyInit => CopyIInv
<1> SUFFICES ASSUME CopyInit PROVE CopyIInv
  OBVIOUS
<1>1. IsCopySet(given) /\ given \subseteq Copy
  BY CopySetsFact DEF CopyInit, IsCopySet
<1>2. CopyTypeOK
  BY <1>1, ValueCountAssumption DEF CopyInit, CopyTypeOK, Copy, Value
<1>3. Represents
  BY <1>1 DEF CopyInit, Represents, Copy
<1>4. OnePerDest
  BY <1>1 DEF CopyInit, OnePerDest, IsCopySet
<1>5. EmittedDone
  BY <1>1 DEF CopyInit, EmittedDone, Copy
<1>6. OthersUnchanged
  BY DEF CopyInit, OthersUnchanged
<1> QED  BY <1>2, <1>3, <1>4, <1>5, <1>6 DEF CopyIInv

\* A safe destination is nobody's source: the others keep their promise.
LEMMA CopyEmitIInv == ASSUME CopyIInv, EmitSafe PROVE CopyIInv'
<1>1. PICK c \in Safe :
        /\ Execute(c.dest, c.src)
        /\ remaining' = remaining \ {c}
        /\ UNCHANGED <<given, nextValue>>
  BY DEF EmitSafe, Without
<1>2. /\ c \in remaining /\ c.dest \in Value /\ c.src \in 0..(nextValue - 1)
      /\ \A d \in remaining : d.src # c.dest
      /\ CopyTypeOK /\ Value \subseteq 0..(nextValue - 1)
  BY ValueCountAssumption DEF CopyIInv, CopyTypeOK, Safe, NeededAsSrc, Value
<1>3. /\ holds' \in [0..(nextValue - 1) -> Value]
      /\ holds'[c.dest] = holds[c.src]
      /\ \A v \in 0..(nextValue - 1) : v # c.dest => holds'[v] = holds[v]
  BY <1>1, <1>2 DEF Execute, CopyTypeOK
<1>4. CopyTypeOK'
  BY <1>1, <1>2, <1>3 DEF CopyTypeOK
<1>5. \A d \in remaining : d # c => /\ d.src \in 0..(nextValue - 1)
                                    /\ holds'[d.src] = holds[d.src]
                                    /\ d.dest # c.dest
  BY <1>2, <1>3 DEF CopyTypeOK, CopyIInv, OnePerDest
<1>6. Represents'
  BY <1>1, <1>5 DEF CopyIInv, Represents
<1>7. OnePerDest'
  BY <1>1 DEF CopyIInv, OnePerDest
<1>8. EmittedDone'
  <2> SUFFICES ASSUME NEW g \in given
      PROVE  holds'[g.dest] = g.src \/ \E d \in remaining' : d.dest = g.dest
    BY <1>1 DEF EmittedDone
  <2>0. g.dest \in Value
    BY <1>2 DEF CopyTypeOK, IsCopySet, Copy
  <2>1. CASE g.dest = c.dest
    <3>1. PICK h \in given : h.dest = c.dest /\ holds[c.src] = h.src
      BY <1>2 DEF CopyIInv, Represents
    <3>2. h = g
      BY <1>2, <2>1, <3>1 DEF CopyTypeOK, IsCopySet
    <3> QED  BY <1>3, <2>1, <3>1, <3>2
  <2>2. CASE g.dest # c.dest
    BY <1>1, <1>2, <1>3, <2>0, <2>2 DEF CopyIInv, EmittedDone
  <2> QED  BY <2>1, <2>2
<1>9. OthersUnchanged'
  <2>1. c.dest \in Dests
    BY <1>2 DEF CopyIInv, Represents, Dests
  <2> QED  BY <1>1, <1>2, <1>3, <2>1 DEF CopyIInv, OthersUnchanged, Dests
<1> QED  BY <1>4, <1>6, <1>7, <1>8, <1>9 DEF CopyIInv

\* The temporary is fresh: writing it disturbs nobody.
LEMMA CopyBreakIInv == ASSUME CopyIInv, BreakCycle PROVE CopyIInv'
<1>1. PICK c \in remaining :
        /\ Execute(nextValue, c.src)
        /\ remaining' = Redirected(c)
        /\ nextValue' = nextValue + 1
        /\ UNCHANGED given
  BY DEF BreakCycle
<1> DEFINE new == [dest |-> c.dest, src |-> nextValue]
<1>2. /\ CopyTypeOK /\ nextValue \in Nat /\ c.dest \in Value
      /\ c.src \in 0..(nextValue - 1)
      /\ Value \subseteq 0..(nextValue - 1)
      /\ remaining' = (remaining \ {c}) \cup {new}
  BY <1>1, ValueCountAssumption DEF CopyIInv, CopyTypeOK, Value, Redirected
<1>3. /\ holds' \in [0..nextValue -> Value]
      /\ holds'[nextValue] = holds[c.src]
      /\ \A v \in 0..(nextValue - 1) : holds'[v] = holds[v]
  BY <1>1, <1>2 DEF Execute, CopyTypeOK
<1>4. CopyTypeOK'
  <2>1. \A d \in remaining : d \in [dest : Value, src : 0..nextValue]
    BY <1>2 DEF CopyTypeOK
  <2>2. new \in [dest : Value, src : 0..nextValue]
    BY <1>2
  <2>3. nextValue' \in Nat /\ ValueCount <= nextValue' /\ nextValue' - 1 = nextValue
    BY <1>1, <1>2, ValueCountAssumption DEF CopyTypeOK
  <2>4. remaining' \subseteq [dest : Value, src : 0..(nextValue' - 1)]
    BY <1>2, <2>1, <2>2, <2>3
  <2> QED  BY <1>1, <1>2, <1>3, <2>3, <2>4 DEF CopyTypeOK
<1>5. \A d \in remaining : holds'[d.src] = holds[d.src]
  BY <1>2, <1>3 DEF CopyTypeOK
<1>6. Represents'
  <2>1. PICK g \in given : g.dest = c.dest /\ holds[c.src] = g.src
    BY DEF CopyIInv, Represents
  <2>2. new.dest = g.dest /\ holds'[new.src] = g.src
    BY <1>3, <2>1
  <2>3. ASSUME NEW d \in remaining'
        PROVE  \E h \in given : h.dest = d.dest /\ holds'[d.src] = h.src
    <3>1. CASE d = new
      BY <2>2, <3>1
    <3>2. CASE d \in remaining
      BY <1>5, <3>2 DEF CopyIInv, Represents
    <3> QED  BY <1>2, <2>3, <3>1, <3>2
  <2> HIDE DEF new
  <2>4. given' = given
    BY <1>1
  <2> QED  BY <2>3, <2>4 DEF Represents
<1>7. OnePerDest'
  BY <1>2 DEF CopyIInv, OnePerDest
<1>8. EmittedDone'
  <2>1. \A g \in given : holds'[g.dest] = holds[g.dest]
    BY <1>2, <1>3 DEF CopyTypeOK, IsCopySet, Copy
  <2>2. ASSUME NEW d \in remaining
        PROVE  \E e \in remaining' : e.dest = d.dest
    <3>1. new \in remaining' /\ new.dest = c.dest
      BY <1>2
    <3>2. CASE d = c
      BY <3>1, <3>2
    <3>3. CASE d # c
      BY <1>2, <3>3
    <3> QED  BY <3>2, <3>3
  <2> QED  BY <1>1, <2>1, <2>2 DEF CopyIInv, EmittedDone
<1>9. OthersUnchanged'
  BY <1>1, <1>2, <1>3 DEF CopyIInv, OthersUnchanged, Dests
<1> QED  BY <1>4, <1>6, <1>7, <1>8, <1>9 DEF CopyIInv

(* The strengthening holds after any number of emitted copies.             *)
THEOREM CopyInductive == CopySpec => []CopyIInv
<1>1. CopyIInv /\ [CopyNext]_copying => CopyIInv'
  <2> SUFFICES ASSUME CopyIInv, [CopyNext]_copying PROVE CopyIInv'
    OBVIOUS
  <2>1. CASE EmitSafe
    BY <2>1, CopyEmitIInv
  <2>2. CASE BreakCycle
    BY <2>2, CopyBreakIInv
  <2>3. CASE UNCHANGED copying
    BY <2>3 DEF copying, CopyIInv, CopyTypeOK, Represents, OnePerDest, EmittedDone,
       OthersUnchanged, Dests
  <2> QED  BY <2>1, <2>2, <2>3 DEF CopyNext
<1> QED  BY <1>1, CopyInitIInv, PTL DEF CopySpec

(* Executing the copies sequentialize_copies emits, in their order, moves  *)
(* every source to its destination as if all were read first.              *)
THEOREM SequentialIsParallel == CopySpec => []ParallelEffect
<1>1. CopyIInv => ParallelEffect
  BY DEF CopyIInv, EmittedDone, OthersUnchanged, ParallelEffect
<1> QED  BY <1>1, CopyInductive, PTL

(* Temporaries are always fresh and every remaining copy reads a value     *)
(* that exists.                                                            *)
THEOREM TypeCorrect == CopySpec => []CopyTypeOK
<1>1. CopyIInv => CopyTypeOK
  BY DEF CopyIInv
<1> QED  BY <1>1, CopyInductive, PTL

-----------------------------------------------------------------------------
(* The temporaries.  A copy that reads a temporary keeps the cycle it was  *)
(* on from being broken again: while it is there another copy reads its    *)
(* destination, or has been emitted since, so that by the time the next    *)
(* temporary is taken two copies have gone for the last one.               *)
FromTemp == {c \in remaining : c.src \notin Value}

Taken == 2 * (nextValue - ValueCount)

Budget ==
  /\ IsFiniteSet(given) /\ IsFiniteSet(remaining)
  /\ \A c \in remaining : c.dest # c.src
  /\ \A c, d \in FromTemp : c = d
  /\ FromTemp = {} => Taken + Cardinality(remaining) <= Cardinality(given)
  /\ \A t \in FromTemp :
       \/ Taken + Cardinality(remaining) - 1 <= Cardinality(given)
       \/ /\ Taken + Cardinality(remaining) - 2 <= Cardinality(given)
          /\ \E e \in remaining : e.src = t.dest

LEMMA CopySetFinite ==
  ASSUME NEW cs, IsCopySet(cs)
  PROVE  IsFiniteSet(cs)
<1> DEFINE f == [c \in cs |-> c.dest]
<1>1. f \in Injection(cs, Value)
  BY DEF IsCopySet, Copy, Injection, IsInjective
<1>2. IsFiniteSet(Value)
  BY ValueCountAssumption, FS_Interval DEF Value
<1> HIDE DEF f
<1> QED  BY <1>1, <1>2, FS_Injection

LEMMA BudgetStarts == CopyInit => Budget
<1> SUFFICES ASSUME CopyInit PROVE Budget
  OBVIOUS
<1>1. IsCopySet(given) /\ remaining = {c \in given : c.dest # c.src}
      /\ nextValue = ValueCount
  BY CopySetsFact DEF CopyInit
<1>2. IsFiniteSet(given)
  BY <1>1, CopySetFinite
<1>3. /\ IsFiniteSet(remaining) /\ Cardinality(remaining) <= Cardinality(given)
      /\ Cardinality(remaining) \in Nat
  BY <1>1, <1>2, FS_Subset, FS_CardinalityType
<1>4. FromTemp = {}
  BY <1>1 DEF FromTemp, IsCopySet, Copy
<1>5. Taken = 0
  BY <1>1, ValueCountAssumption DEF Taken
<1> QED  BY <1>1, <1>2, <1>3, <1>4, <1>5 DEF Budget

(* Emitting a copy: one less remains.                                      *)
LEMMA EmitSafeBudget ==
  ASSUME CopyTypeOK, Budget, EmitSafe
  PROVE  Budget'
<1>1. PICK c \in Safe : remaining' = remaining \ {c} /\ UNCHANGED <<given, nextValue>>
  BY DEF EmitSafe, Without
<1>2. c \in remaining /\ \A d \in remaining : d.src # c.dest
  BY DEF Safe, NeededAsSrc
<1> DEFINE n == Cardinality(remaining)
           g == Cardinality(given)
<1>3. /\ n \in Nat /\ n >= 1 /\ IsFiniteSet(remaining')
      /\ Cardinality(remaining') = n - 1
      /\ g \in Nat /\ Taken \in Int /\ Taken' = Taken
  <2>1. nextValue \in Nat /\ ValueCount \in Nat
    BY ValueCountAssumption DEF CopyTypeOK
  <2>2. IsFiniteSet(remaining) /\ IsFiniteSet(given)
    BY DEF Budget
  <2>3. g \in Nat
    BY <2>2, FS_CardinalityType
  <2>4. /\ n \in Nat /\ n >= 1 /\ IsFiniteSet(remaining \ {c})
        /\ Cardinality(remaining \ {c}) = n - 1
    BY <1>2, <2>2, Counts
  <2>5. Taken \in Int /\ Taken' = Taken
    BY <1>1, <2>1 DEF Taken
  <2> QED  BY <1>1, <2>3, <2>4, <2>5
<1>4. FromTemp' = FromTemp \ {c}
  BY <1>1 DEF FromTemp
<1> HIDE DEF n, g
<1>5. CASE FromTemp = {}
  <2>1. Taken + n <= g
    BY <1>5 DEF Budget, n, g
  <2>2. Taken + (n - 1) <= g
    BY <2>1, <1>3
  <2>3. FromTemp' = {}
    BY <1>4, <1>5
  <2> QED  BY <1>1, <1>3, <2>2, <2>3 DEF Budget, g
<1>6. CASE FromTemp # {}
  <2>1. PICK t \in FromTemp : TRUE
    BY <1>6
  <2>2. FromTemp = {t}
    BY <2>1 DEF Budget
  <2>3. t \in remaining
    BY DEF FromTemp
  <2>4. \/ Taken + n - 1 <= g
        \/ Taken + n - 2 <= g /\ \E e \in remaining : e.src = t.dest
    BY DEF Budget, n, g
  <2>5. CASE c = t
    <3>1. Taken + n - 1 <= g
      BY <2>4, <2>5, <1>2
    <3>2. Taken + (n - 1) <= g
      BY <3>1, <1>3
    <3>3. FromTemp' = {}
      BY <1>4, <2>2, <2>5
    <3> QED  BY <1>1, <1>3, <3>2, <3>3 DEF Budget, g
  <2>6. CASE c # t
    <3>1. FromTemp' = {t}
      BY <1>4, <2>2, <2>6
    <3>2. Taken + (n - 1) - 1 <= g
      BY <2>4, <1>3
    <3> QED  BY <1>1, <1>3, <3>1, <3>2 DEF Budget, g
  <2> QED  BY <2>5, <2>6
<1> QED  BY <1>5, <1>6

(* When no copy is safe, none reads a temporary: the copies are as many as *)
(* their destinations, and each destination is read by another copy.       *)
LEMMA AllOnCycles ==
  ASSUME CopyTypeOK, OnePerDest, Budget, Safe = {}
  PROVE  FromTemp = {}
<1> SUFFICES ASSUME NEW t \in FromTemp PROVE FALSE
  OBVIOUS
<1>1. t \in remaining /\ t.src \notin Value
  BY DEF FromTemp
<1>2. \A c \in remaining : \E d \in remaining : d.src = c.dest
  BY DEF Safe, NeededAsSrc
<1>3. \A c \in remaining : c.dest \in Value
  BY DEF CopyTypeOK
<1> DEFINE reader(c) == CHOOSE d \in remaining : d.src = c.dest
           f == [c \in remaining |-> reader(c)]
<1>4. \A c \in remaining : /\ reader(c) \in remaining \ {t}
                           /\ reader(c).src = c.dest
  BY <1>1, <1>2, <1>3
<1> HIDE DEF reader
<1>5. f \in [remaining -> remaining \ {t}]
  BY <1>4
<1>6. \A c, d \in remaining : f[c] = f[d] => c = d
  BY <1>4 DEF OnePerDest
<1> HIDE DEF f
<1>7. f \in Injection(remaining, remaining \ {t})
  BY <1>5, <1>6 DEF Injection, IsInjective
<1>8. IsFiniteSet(remaining)
  BY DEF Budget
<1>9. /\ Cardinality(remaining) \in Nat /\ IsFiniteSet(remaining \ {t})
      /\ Cardinality(remaining \ {t}) = Cardinality(remaining) - 1
  BY <1>1, <1>8, Counts
<1>10. Cardinality(remaining) <= Cardinality(remaining \ {t})
  BY <1>7, <1>9, FS_Injection
<1> QED  BY <1>9, <1>10

(* Breaking a cycle: as many copies remain, and one temporary more is out. *)
LEMMA BreakCycleBudget ==
  ASSUME CopyTypeOK, OnePerDest, Budget, BreakCycle
  PROVE  Budget'
<1>1. PICK c \in remaining :
        /\ remaining' = Redirected(c)
        /\ nextValue' = nextValue + 1
        /\ UNCHANGED given
  BY DEF BreakCycle
<1>2. Safe = {}
  BY DEF BreakCycle
<1> DEFINE new == [dest |-> c.dest, src |-> nextValue]
           n == Cardinality(remaining)
           g == Cardinality(given)
<1>3. /\ nextValue \in Nat /\ ValueCount \in Nat /\ nextValue \notin Value
      /\ c.dest \in Value
      /\ \A d \in remaining : d.src # nextValue
  BY ValueCountAssumption DEF CopyTypeOK, Value
<1>4. new.dest = c.dest /\ new.src = nextValue /\ new \notin remaining
  BY <1>3
<1>5. remaining' = (remaining \ {c}) \cup {new}
  BY <1>1 DEF Redirected
<1> HIDE DEF new
<1>6. /\ n \in Nat /\ n >= 1 /\ g \in Nat
      /\ IsFiniteSet(remaining') /\ Cardinality(remaining') = n
  <2>1. IsFiniteSet(remaining) /\ IsFiniteSet(given)
    BY DEF Budget
  <2>2. g \in Nat
    BY <2>1, FS_CardinalityType
  <2>3. new \notin remaining \ {c}
    BY <1>4
  <2> QED  BY <1>5, <2>1, <2>2, <2>3, Counts
<1>7. FromTemp = {}
  BY <1>2, AllOnCycles
<1>8. FromTemp' = {new}
  BY <1>3, <1>4, <1>5, <1>7 DEF FromTemp
<1>9. \A d \in remaining' : d.dest # d.src
  BY <1>3, <1>4, <1>5 DEF Budget
<1>10. \E e \in remaining' : e.src = new.dest
  <2>1. PICK e \in remaining : e.src = c.dest
    BY <1>2 DEF Safe, NeededAsSrc
  <2>2. e # c
    BY <2>1 DEF Budget
  <2> QED  BY <2>1, <2>2, <1>4, <1>5
<1> HIDE DEF n, g
<1>11. Taken' + n - 2 <= g
  <2>1. Taken + n <= g
    BY <1>7 DEF Budget, n, g
  <2>2. Taken' = Taken + 2 /\ Taken \in Int
    BY <1>1, <1>3 DEF Taken
  <2> QED  BY <2>1, <2>2, <1>6
<1>12. IsFiniteSet(given') /\ Cardinality(given') = g
  BY <1>1 DEF Budget, g
<1> QED  BY <1>6, <1>8, <1>9, <1>10, <1>11, <1>12 DEF Budget

LEMMA BudgetBounds ==
  ASSUME CopyTypeOK, Budget
  PROVE  TempsAtMostHalf
<1> DEFINE n == Cardinality(remaining)
           g == Cardinality(given)
<1>1. /\ IsFiniteSet(remaining) /\ n \in Nat /\ g \in Nat
  BY FS_CardinalityType DEF Budget
<1>2. Taken \in Int
  BY ValueCountAssumption DEF CopyTypeOK, Taken
<1>3. Taken <= g
  <2>1. CASE FromTemp = {}
    BY <2>1, <1>1, <1>2 DEF Budget
  <2>2. CASE FromTemp # {}
    <3>1. PICK t \in FromTemp : TRUE
      BY <2>2
    <3>2. t \in remaining /\ t.src \notin Value
      BY DEF FromTemp
    <3>3. n >= 1 /\ IsFiniteSet(remaining \ {t}) /\ Cardinality(remaining \ {t}) = n - 1
      BY <1>1, <3>2, Counts
    <3>4. CASE Taken + n - 1 <= g
      BY <3>3, <3>4, <1>1, <1>2
    <3>5. CASE Taken + n - 2 <= g /\ \E e \in remaining : e.src = t.dest
      <4>1. PICK e \in remaining : e.src = t.dest
        BY <3>5
      <4>2. e \in remaining \ {t}
        BY <3>2, <4>1 DEF CopyTypeOK
      <4>3. n - 1 >= 1
        BY <3>3, <4>2, Counts
      <4> QED  BY <4>3, <3>5, <1>1, <1>2
    <3> QED  BY <3>4, <3>5 DEF Budget
  <2> QED  BY <2>1, <2>2
<1> QED  BY <1>3 DEF TempsAtMostHalf, Taken

(* sequentialize_copies never takes more than one temporary for two of the *)
(* copies it was given, however the cycles lie and are broken.             *)
THEOREM TemporariesBounded == CopySpec => []TempsAtMostHalf
<1>1. CopyInit => Budget
  BY BudgetStarts
<1>2. CopyIInv /\ Budget /\ [CopyNext]_copying => Budget'
  <2> SUFFICES ASSUME CopyIInv, Budget, [CopyNext]_copying PROVE Budget'
    OBVIOUS
  <2>1. CopyTypeOK /\ OnePerDest
    BY DEF CopyIInv
  <2>2. CASE EmitSafe
    BY <2>1, <2>2, EmitSafeBudget
  <2>3. CASE BreakCycle
    BY <2>1, <2>3, BreakCycleBudget
  <2>4. CASE UNCHANGED copying
    BY <2>4 DEF copying, Budget, FromTemp, Taken
  <2> QED  BY <2>2, <2>3, <2>4 DEF CopyNext
<1>3. CopyIInv /\ Budget => TempsAtMostHalf
  BY BudgetBounds DEF CopyIInv
<1> QED  BY <1>1, <1>2, <1>3, CopyInductive, PTL DEF CopySpec
=============================================================================
