---------------------------- MODULE Mem2RegProofs ----------------------------
(***************************************************************************)
(* What promotion to SSA form promises, for every function: the tree it    *)
(* builds is the dominator tree, every phi is complete and the function it *)
(* made does what the one it was given does, on every path.                *)
(*                                                                         *)
(* The argument has five parts: why the algorithm of Lengauer and Tarjan   *)
(* finds the dominators, why the phis placed on the iterated frontiers are *)
(* enough, what one walk over a block does, what the walk over the tree    *)
(* keeps true while its stacks grow and shrink, and how the two functions  *)
(* run in step.                                                            *)
(***************************************************************************)
EXTENDS Mem2Reg, Lemmas


-----------------------------------------------------------------------------
(* The search: the vertices on its stack are those above the last one in   *)
(* the tree, and the successors of every other vertex have been visited.   *)

OnTop(s) == s.stack[Len(s.stack)]
Open(s, A) == IF s.stack = <<>> THEN {} ELSE A[OnTop(s)]

Grown(s, A) ==
  /\ s \in [vertex : Seq(1..Len(cfg)), parent : Seq(Nat), stack : Seq(Nat)]
  /\ Len(s.vertex) >= 1 /\ Len(s.parent) = Len(s.vertex)
  /\ s.vertex[1] = 1 /\ s.parent[1] = 0
  /\ \A i, j \in 1..Len(s.vertex) : s.vertex[i] = s.vertex[j] => i = j
  /\ DFTree(s.parent, Len(s.vertex), A)
  /\ \A v \in 2..Len(s.vertex) : s.vertex[v] \in Range(cfg[s.vertex[s.parent[v]]])
  /\ \A u, v \in 1..Len(s.vertex) :
       u < v /\ s.vertex[v] \in Range(cfg[s.vertex[u]]) => u \in A[v]

Stacked(s, A) ==
  /\ \A j \in 1..Len(s.stack) : s.stack[j] \in 1..Len(s.vertex)
  /\ s.stack # <<>> => s.stack[1] = 1
  /\ \A j \in 2..Len(s.stack) : s.stack[j] # 1 /\ s.stack[j - 1] = s.parent[s.stack[j]]
  /\ \A u \in Open(s, A) : \A k \in u..Len(s.vertex) : u \in A[k]
  /\ \A u \in 1..Len(s.vertex) :
       u \notin Open(s, A) => Range(cfg[s.vertex[u]]) \subseteq Range(s.vertex)

Fuel(s) == 2 * (Len(cfg) - Len(s.vertex)) + Len(s.stack)

LEMMA TreeGrows ==
  ASSUME NEW par, NEW N, NEW A, DFTree(par, N, A), NEW t \in 1..N,
         \A u \in A[t] : \A k \in u..N : u \in A[k],
         NEW more, \A v \in 2..N : more[v] = par[v], more[N + 1] = t,
         NEW B, B = [v \in 1..(N + 1) |-> IF v = N + 1 THEN {N + 1} \cup A[t] ELSE A[v]]
  PROVE  DFTree(more, N + 1, B)
<1>0. /\ N \in Nat /\ N >= 1 /\ \A v \in 1..N : A[v] \subseteq 1..N
      /\ \A v \in 1..N : v \in A[v]
  BY TreeFacts
<1>1. /\ A \in [1..N -> SUBSET (1..N)] /\ A[1] = {1}
      /\ \A v \in 2..N : par[v] \in 1..(v - 1) /\ A[v] = {v} \cup A[par[v]]
      /\ \A v \in 1..N : \A u \in A[v] :
           u <= v /\ A[u] \subseteq A[v] /\ \A k \in u..v : u \in A[k]
  BY DEF DFTree
<1>2. /\ N + 1 \in Nat \ {0} /\ N + 1 \notin 1..N /\ 1 \in 1..N
      /\ \A v \in 1..(N + 1) : v \in 1..N \/ v = N + 1
      /\ \A v \in 1..N : v \in 1..(N + 1) /\ v # N + 1
  BY <1>0
<1>3. \A v \in 1..N : B[v] = A[v]
  BY <1>2
<1>4. B[N + 1] = {N + 1} \cup A[t]
  BY <1>2
<1>5. A[t] \subseteq 1..N
  BY <1>0
<1>6. B \in [1..(N + 1) -> SUBSET (1..(N + 1))] /\ B[1] = {1}
  <2>1. \A v \in 1..(N + 1) : B[v] \in SUBSET (1..(N + 1))
    <3>1. \A v \in 1..N : B[v] \in SUBSET (1..(N + 1))
      BY <1>0, <1>3, <1>2
    <3>2. B[N + 1] \in SUBSET (1..(N + 1))
      BY <1>4, <1>5, <1>2, <1>0
    <3> QED  BY <3>1, <3>2, <1>2
  <2>2. B = [v \in 1..(N + 1) |-> B[v]]
    OBVIOUS
  <2> QED  BY <2>1, <2>2, <1>1, <1>2, <1>3
<1>7. \A v \in 2..(N + 1) : more[v] \in 1..(v - 1) /\ B[v] = {v} \cup B[more[v]]
  <2>1. ASSUME NEW v \in 2..N PROVE more[v] \in 1..(v - 1) /\ B[v] = {v} \cup B[more[v]]
    <3>1. v \in 1..N /\ more[v] = par[v] /\ par[v] \in 1..(v - 1) /\ par[v] \in 1..N
      BY <1>0, <1>1
    <3>2. B[v] = A[v] /\ B[par[v]] = A[par[v]]
      BY <1>3, <3>1
    <3>3. A[v] = {v} \cup A[par[v]]
      BY <1>1
    <3> QED  BY <3>1, <3>2, <3>3
  <2>2. more[N + 1] \in 1..N /\ (N + 1) - 1 = N
    BY <1>0
  <2>3. B[N + 1] = {N + 1} \cup B[more[N + 1]]
    BY <1>3, <1>4
  <2>4. \A v \in 2..(N + 1) : v \in 2..N \/ v = N + 1
    BY <1>0
  <2> QED  BY <2>1, <2>2, <2>3, <2>4
<1>8. ASSUME NEW v \in 1..(N + 1), NEW u \in B[v]
      PROVE  u <= v /\ B[u] \subseteq B[v] /\ \A k \in u..v : u \in B[k]
  <2>1. CASE v \in 1..N
    <3>1. u \in A[v] /\ u \in 1..N
      BY <1>0, <1>3, <1>8, <2>1
    <3>2. u <= v /\ A[u] \subseteq A[v] /\ \A k \in u..v : u \in A[k]
      BY <1>1, <2>1, <3>1
    <3>3. \A k \in u..v : k \in 1..N
      BY <2>1, <3>1, <1>0
    <3> QED  BY <1>3, <2>1, <3>1, <3>2, <3>3
  <2>2. CASE v = N + 1 /\ u = N + 1
    <3>1. \A k \in u..v : k = N + 1
      BY <2>2, <1>0
    <3> QED  BY <2>2, <1>0, <1>4, <3>1
  <2>3. CASE v = N + 1 /\ u # N + 1
    <3>1. u \in A[t] /\ u \in 1..N
      BY <1>4, <1>5, <1>8, <2>3
    <3>2. A[u] \subseteq A[t] /\ \A k \in u..N : u \in A[k]
      BY <1>1, <3>1
    <3>3. B[u] \subseteq B[v]
      BY <1>3, <1>4, <2>3, <3>1, <3>2
    <3>4. ASSUME NEW k \in u..v PROVE u \in B[k]
      <4>1. k \in u..N \/ k = N + 1
        BY <2>3, <3>1, <1>0
      <4>2. CASE k \in u..N
        <5>1. k \in 1..N
          BY <3>1, <4>2, <1>0
        <5> QED  BY <1>3, <3>2, <4>2, <5>1
      <4>3. CASE k = N + 1
        BY <1>4, <3>1, <4>3
      <4> QED  BY <4>1, <4>2, <4>3
    <3>5. u <= v
      BY <2>3, <3>1, <1>0
    <3> QED  BY <3>3, <3>4, <3>5
  <2> QED  BY <1>2, <2>1, <2>2, <2>3
<1> HIDE <1>0
<1> QED  BY <1>2, <1>6, <1>7, <1>8 DEF DFTree

(* Leaving the vertex on top, all of whose successors have been visited.   *)
LEMMA LeaveKeeps ==
  ASSUME NEW n, Graph(cfg, n), Len(cfg) = n, NEW s, NEW A, Grown(s, A), Stacked(s, A),
         s.stack # <<>>, Range(cfg[s.vertex[OnTop(s)]]) \subseteq Range(s.vertex),
         NEW r, r = [s EXCEPT !.stack = Front(@)]
  PROVE  Grown(r, A) /\ Stacked(r, A) /\ Fuel(r) = Fuel(s) - 1
<1> DEFINE N == Len(s.vertex)
           m == Len(s.stack)
<1>1. /\ s \in [vertex : Seq(1..Len(cfg)), parent : Seq(Nat), stack : Seq(Nat)]
      /\ DFTree(s.parent, N, A) /\ N \in Nat
  BY DEF Grown
<1>2. /\ m \in Nat /\ m >= 1
      /\ Front(s.stack) \in Seq(Nat) /\ Len(Front(s.stack)) = m - 1
      /\ \A j \in 1..(m - 1) : Front(s.stack)[j] = s.stack[j]
  <2> DEFINE q == s.stack
  <2>1. q \in Seq(Nat) /\ q # <<>>
    BY <1>1
  <2> HIDE DEF q
  <2>2. /\ Front(q) \in Seq(Nat) /\ Len(Front(q)) = Len(q) - 1 /\ Len(q) \in Nat \ {0}
        /\ \A j \in 1..(Len(q) - 1) : Front(q)[j] = q[j]
    BY ONLY <2>1, FrontFacts
  <2>3. Len(q) >= 1
    BY ONLY <2>2
  <2> QED  BY <2>2, <2>3 DEF m, q
<1>3. /\ r.vertex = s.vertex /\ r.parent = s.parent /\ r.stack = Front(s.stack)
      /\ r = [vertex |-> s.vertex, parent |-> s.parent, stack |-> Front(s.stack)]
  BY <1>1
<1>5. r \in [vertex : Seq(1..Len(cfg)), parent : Seq(Nat), stack : Seq(Nat)]
  BY <1>1, <1>2, <1>3
<1>6. Grown(r, A)
  BY <1>3, <1>5 DEF Grown
<1>7. /\ \A j \in 1..m : s.stack[j] \in 1..N
      /\ s.stack[1] = 1
      /\ \A j \in 2..m : s.stack[j] # 1 /\ s.stack[j - 1] = s.parent[s.stack[j]]
      /\ \A u \in A[s.stack[m]] : \A k \in u..N : u \in A[k]
      /\ \A u \in 1..N : u \notin A[s.stack[m]] => Range(cfg[s.vertex[u]]) \subseteq Range(s.vertex)
      /\ Range(cfg[s.vertex[s.stack[m]]]) \subseteq Range(s.vertex)
  BY DEF Stacked, Open, OnTop
<1>8. Fuel(r) = Fuel(s) - 1
  <2>1. n \in Nat /\ Len(r.vertex) = N /\ Len(r.stack) = m - 1
    BY <1>2, <1>3, Edges
  <2>2. Fuel(r) = 2 * (n - N) + (m - 1) /\ Fuel(s) = 2 * (n - N) + m
    BY <2>1 DEF Fuel
  <2> HIDE DEF N, m
  <2>3. 2 * (n - N) \in Int
    BY <2>1, <1>1
  <2> QED  BY <2>2, <2>3, <1>2
<1> HIDE DEF N, m
<1>9. CASE m = 1
  <2>1. r.stack = <<>> /\ Len(r.stack) = 0
    BY <1>2, <1>3, <1>9
  <2>2. A[s.stack[m]] = {1} /\ s.stack[m] = 1
    BY <1>1, <1>7, <1>9 DEF DFTree
  <2>3. \A u \in 1..N : Range(cfg[s.vertex[u]]) \subseteq Range(s.vertex)
    BY <1>7, <2>2
  <2>4. Stacked(r, A)
    BY <1>3, <2>1, <2>3 DEF Stacked, Open, N
  <2> QED  BY <1>6, <1>8, <2>4
<1>10. CASE m # 1
  <2> DEFINE t == s.stack[m]
             q == s.stack[m - 1]
  <2>1. m - 1 \in 1..m /\ m - 1 >= 1 /\ m \in 2..m /\ m \in 1..m
    BY <1>2, <1>10
  <2>2. t \in 1..N /\ t # 1 /\ q = s.parent[t] /\ q \in 1..N
    BY <1>7, <2>1
  <2>3. Len(r.stack) = m - 1 /\ r.stack # <<>> /\ OnTop(r) = q
    BY <1>2, <1>3, <2>1 DEF OnTop
  <2>4. t \in 2..N /\ A[t] = {t} \cup A[q]
    <3>1. \A v \in 2..N : A[v] = {v} \cup A[s.parent[v]]
      BY <1>1 DEF DFTree
    <3> HIDE DEF t, q
    <3>2. t \in 2..N
      BY <1>1, <2>2
    <3> QED  BY <2>2, <3>1, <3>2
  <2>5. Open(r, A) = A[q]
    BY <2>3 DEF Open
  <2>6. \A j \in 1..(m - 1) : r.stack[j] = s.stack[j] /\ j \in 1..m
    BY <1>2, <1>3
  <2>7. \A j \in 1..Len(r.stack) : r.stack[j] \in 1..N
    BY <1>7, <2>3, <2>6
  <2>8. \A j \in 2..Len(r.stack) : r.stack[j] # 1 /\ r.stack[j - 1] = s.parent[r.stack[j]]
    <3> SUFFICES ASSUME NEW j \in 2..Len(r.stack)
        PROVE  r.stack[j] # 1 /\ r.stack[j - 1] = s.parent[r.stack[j]]
      OBVIOUS
    <3>1. j \in 2..m /\ j \in 1..(m - 1) /\ j - 1 \in 1..(m - 1)
      BY <1>2, <2>3
    <3> QED  BY <1>7, <2>6, <3>1
  <2>9. r.stack[1] = 1
    BY <1>7, <2>1, <2>6, <1>2
  <2>10. \A u \in A[q] : \A k \in u..N : u \in A[k]
    BY <1>7, <2>4
  <2>11. \A u \in 1..N : u \notin A[q] => Range(cfg[s.vertex[u]]) \subseteq Range(s.vertex)
    BY <1>7, <2>4
  <2> HIDE DEF t, q
  <2>12. Stacked(r, A)
    BY <1>3, <2>5, <2>7, <2>8, <2>9, <2>10, <2>11 DEF Stacked, N
  <2> QED  BY <1>6, <1>8, <2>12
<1> QED  BY <1>9, <1>10

(* Visiting a successor of the vertex on top that has no number yet.       *)
LEMMA AppendFacts ==
  ASSUME NEW T, NEW q \in Seq(T), NEW e \in T
  PROVE  /\ Append(q, e) \in Seq(T) /\ Len(Append(q, e)) = Len(q) + 1 /\ Len(q) \in Nat
         /\ Append(q, e)[Len(q) + 1] = e
         /\ \A j \in 1..Len(q) : Append(q, e)[j] = q[j]
OBVIOUS

LEMMA VisitKeeps ==
  ASSUME NEW n, Graph(cfg, n), Len(cfg) = n, NEW s, NEW A, Grown(s, A), Stacked(s, A),
         s.stack # <<>>, NEW c \in Range(cfg[s.vertex[OnTop(s)]]), c \notin Range(s.vertex),
         NEW r, r = [vertex |-> Append(s.vertex, c), parent |-> Append(s.parent, OnTop(s)),
                     stack |-> Append(s.stack, Len(s.vertex) + 1)]
  PROVE  /\ \E B : Grown(r, B) /\ Stacked(r, B)
         /\ Fuel(r) = Fuel(s) - 1
<1> DEFINE N == Len(s.vertex)
           m == Len(s.stack)
           t == OnTop(s)
           B == [v \in 1..(N + 1) |-> IF v = N + 1 THEN {N + 1} \cup A[t] ELSE A[v]]
<1>1. /\ s.vertex \in Seq(1..n) /\ s.parent \in Seq(Nat) /\ s.stack \in Seq(Nat)
      /\ N \in Nat /\ N >= 1 /\ Len(s.parent) = N
      /\ s.vertex[1] = 1 /\ s.parent[1] = 0
      /\ \A i, j \in 1..N : s.vertex[i] = s.vertex[j] => i = j
      /\ DFTree(s.parent, N, A)
      /\ \A v \in 2..N : s.vertex[v] \in Range(cfg[s.vertex[s.parent[v]]])
      /\ \A u, v \in 1..N :
           u < v /\ s.vertex[v] \in Range(cfg[s.vertex[u]]) => u \in A[v]
  BY DEF Grown
<1>2. m \in Nat /\ m >= 1 /\ t = s.stack[m]
  BY <1>1 DEF OnTop
<1>3. /\ \A j \in 1..m : s.stack[j] \in 1..N
      /\ s.stack[1] = 1
      /\ \A j \in 2..m : s.stack[j] # 1 /\ s.stack[j - 1] = s.parent[s.stack[j]]
      /\ \A u \in A[t] : \A k \in u..N : u \in A[k]
      /\ \A u \in 1..N : u \notin A[t] => Range(cfg[s.vertex[u]]) \subseteq Range(s.vertex)
  BY DEF Stacked, Open
<1>4. t \in 1..N /\ t \in Nat
  <2>1. m \in 1..m
    BY <1>2
  <2>2. t \in 1..N
    BY <1>2, <1>3, <2>1
  <2> HIDE DEF t, m, N
  <2> QED  BY ONLY <1>1, <2>2
<1>5. c \in 1..n /\ n \in Nat
  <2>1. s.vertex[t] \in 1..n
    <3>1. ASSUME NEW T, NEW q \in Seq(T), NEW i \in 1..Len(q) PROVE q[i] \in T
      OBVIOUS
    <3> HIDE DEF t
    <3>2. s.vertex \in Seq(1..n) /\ t \in 1..Len(s.vertex)
      BY <1>1, <1>4
    <3> QED  BY ONLY <3>1, <3>2
  <2> QED  BY <2>1, Edges
<1>6. /\ r.vertex = Append(s.vertex, c) /\ r.parent = Append(s.parent, t)
      /\ r.stack = Append(s.stack, N + 1)
      /\ r = [vertex |-> r.vertex, parent |-> r.parent, stack |-> r.stack]
  OBVIOUS
<1> HIDE DEF N, m, t
<1>7. /\ r.vertex \in Seq(1..n) /\ Len(r.vertex) = N + 1 /\ r.vertex[N + 1] = c
      /\ \A j \in 1..N : r.vertex[j] = s.vertex[j]
  BY <1>1, <1>5, <1>6, AppendFacts DEF N
<1>8. /\ r.parent \in Seq(Nat) /\ Len(r.parent) = N + 1 /\ r.parent[N + 1] = t
      /\ \A j \in 1..N : r.parent[j] = s.parent[j]
  <2> DEFINE q == s.parent
  <2>1. q \in Seq(Nat) /\ Len(q) = N /\ t \in Nat
    BY <1>1, <1>4
  <2> HIDE DEF q
  <2>2. /\ Append(q, t) \in Seq(Nat) /\ Len(Append(q, t)) = Len(q) + 1
        /\ Append(q, t)[Len(q) + 1] = t /\ \A j \in 1..Len(q) : Append(q, t)[j] = q[j]
    BY ONLY <2>1, AppendFacts
  <2> QED  BY <1>6, <2>1, <2>2 DEF q
<1>9. /\ r.stack \in Seq(Nat) /\ Len(r.stack) = m + 1 /\ r.stack[m + 1] = N + 1
      /\ \A j \in 1..m : r.stack[j] = s.stack[j]
  <2> DEFINE q == s.stack
             e == N + 1
  <2>1. q \in Seq(Nat) /\ e \in Nat
    BY <1>1
  <2> HIDE DEF q, e
  <2>2. /\ Append(q, e) \in Seq(Nat) /\ Len(Append(q, e)) = Len(q) + 1
        /\ Append(q, e)[Len(q) + 1] = e /\ \A j \in 1..Len(q) : Append(q, e)[j] = q[j]
    BY ONLY <2>1, AppendFacts
  <2> QED  BY <1>6, <2>2 DEF m, q, e
<1>10. /\ 1 \in 1..N /\ N + 1 \notin 1..N /\ \A v \in 1..N : v # N + 1 /\ v \in 1..(N + 1)
       /\ \A v \in 1..(N + 1) : v \in 1..N \/ v = N + 1
       /\ \A v \in 2..(N + 1) : v \in 2..N \/ v = N + 1
       /\ \A v \in 2..N : v \in 1..N /\ s.parent[v] \in 1..N
  <2>1. \A v \in 2..N : s.parent[v] \in 1..N
    BY <1>1, TreeFacts
  <2> QED  BY <1>1, <2>1
<1>11. /\ \A v \in 1..N : B[v] = A[v]
       /\ B[N + 1] = {N + 1} \cup A[t]
  <2>1. N + 1 \in 1..(N + 1)
    BY ONLY <1>1
  <2> QED  BY <1>10, <2>1
<1>12. DFTree(r.parent, N + 1, B)
  <2>1. \A v \in 2..N : r.parent[v] = s.parent[v]
    BY <1>8, <1>10
  <2>2. B = [v \in 1..(N + 1) |-> IF v = N + 1 THEN {N + 1} \cup A[t] ELSE A[v]]
    OBVIOUS
  <2> HIDE DEF B
  <2>3. DFTree(s.parent, N, A) /\ \A u \in A[t] : \A k \in u..N : u \in A[k]
    BY <1>1, <1>3
  <2>4. t \in 1..N /\ r.parent[N + 1] = t
    BY <1>4, <1>8
  <2> QED  BY ONLY <2>1, <2>2, <2>3, <2>4, TreeGrows
<1>13. A[t] \subseteq 1..N
  BY <1>1, <1>4, TreeFacts
<1> HIDE DEF B
<1>14. /\ \A x : x \in Range(s.vertex) <=> \E j \in 1..N : s.vertex[j] = x
       /\ \A x : x \in Range(r.vertex) <=> \E j \in 1..(N + 1) : r.vertex[j] = x
  <2>0. ASSUME NEW q \in Seq(1..n)
        PROVE  \A x : x \in Range(q) <=> \E j \in 1..Len(q) : q[j] = x
    BY RangeOf
  <2>1. s.vertex \in Seq(1..n) /\ r.vertex \in Seq(1..n) /\ Len(r.vertex) = N + 1
    BY <1>1, <1>7
  <2>2. Len(s.vertex) = N
    BY DEF N
  <2>3. \A x : x \in Range(s.vertex) <=> \E j \in 1..N : s.vertex[j] = x
    BY ONLY <2>0, <2>1, <2>2
  <2>4. \A x : x \in Range(r.vertex) <=> \E j \in 1..(N + 1) : r.vertex[j] = x
    BY ONLY <2>0, <2>1
  <2> QED  BY <2>3, <2>4
<1>15. \A j \in 1..N : s.vertex[j] # c
  BY <1>14
<1>16. Grown(r, B)
  <2>1. \A i, j \in 1..(N + 1) : r.vertex[i] = r.vertex[j] => i = j
    <3> SUFFICES ASSUME NEW i \in 1..(N + 1), NEW j \in 1..(N + 1), r.vertex[i] = r.vertex[j]
        PROVE  i = j
      OBVIOUS
    <3>1. CASE i \in 1..N /\ j \in 1..N
      BY <1>1, <1>7, <3>1
    <3>2. CASE i = N + 1 \/ j = N + 1
      <4>1. r.vertex[N + 1] = c /\ \A k \in 1..N : r.vertex[k] # c
        BY <1>7, <1>15
      <4>2. (i \in 1..N \/ i = N + 1) /\ (j \in 1..N \/ j = N + 1)
        BY <1>10
      <4> QED  BY <3>2, <4>1, <4>2
    <3> QED  BY <1>10, <3>1, <3>2
  <2>2. \A v \in 2..(N + 1) : r.vertex[v] \in Range(cfg[r.vertex[r.parent[v]]])
    <3>1. \A v \in 2..N : r.vertex[v] \in Range(cfg[r.vertex[r.parent[v]]])
      <4> SUFFICES ASSUME NEW v \in 2..N
          PROVE  r.vertex[v] \in Range(cfg[r.vertex[r.parent[v]]])
        OBVIOUS
      <4>1. v \in 1..N /\ r.parent[v] = s.parent[v] /\ s.parent[v] \in 1..N
        BY <1>8, <1>10
      <4>2. r.vertex[v] = s.vertex[v] /\ r.vertex[r.parent[v]] = s.vertex[s.parent[v]]
        BY <1>7, <4>1
      <4>3. s.vertex[v] \in Range(cfg[s.vertex[s.parent[v]]])
        BY <1>1
      <4> QED  BY <4>2, <4>3
    <3>2. r.vertex[N + 1] \in Range(cfg[r.vertex[r.parent[N + 1]]])
      BY <1>4, <1>7, <1>8 DEF t
    <3> QED  BY <3>1, <3>2, <1>10
  <2>3. \A u, v \in 1..(N + 1) : u < v /\ r.vertex[v] \in Range(cfg[r.vertex[u]]) => u \in B[v]
    <3> SUFFICES ASSUME NEW u \in 1..(N + 1), NEW v \in 1..(N + 1), u < v,
                        r.vertex[v] \in Range(cfg[r.vertex[u]])
        PROVE  u \in B[v]
      OBVIOUS
    <3>1. u \in 1..N
      BY <1>1
    <3>2. CASE v \in 1..N
      BY <1>1, <1>7, <1>11, <3>1, <3>2
    <3>3. CASE v = N + 1
      <4>1. c \in Range(cfg[s.vertex[u]])
        BY <1>7, <3>1, <3>3
      <4>2. u \in A[t]
        BY <1>3, <3>1, <4>1
      <4> QED  BY <1>11, <3>3, <4>2
    <3> QED  BY <1>10, <3>2, <3>3
  <2>4. /\ Len(r.vertex) >= 1 /\ Len(r.parent) = Len(r.vertex)
        /\ r.vertex[1] = 1 /\ r.parent[1] = 0
    BY <1>1, <1>7, <1>8, <1>10
  <2>5. r \in [vertex : Seq(1..Len(cfg)), parent : Seq(Nat), stack : Seq(Nat)]
    BY <1>6, <1>7, <1>8, <1>9
  <2> QED  BY <1>7, <1>12, <2>1, <2>2, <2>3, <2>4, <2>5 DEF Grown
<1>17. Stacked(r, B)
  <2>1. /\ \A j \in 1..(m + 1) : j \in 1..m \/ j = m + 1
        /\ \A j \in 2..(m + 1) : (j \in 2..m \/ j = m + 1) /\ j - 1 \in 1..m
        /\ \A j \in 2..m : j \in 1..m
        /\ 1 \in 1..m
    BY <1>2
  <2>2. \A j \in 1..(m + 1) : r.stack[j] \in 1..(N + 1)
    <3> SUFFICES ASSUME NEW j \in 1..(m + 1) PROVE r.stack[j] \in 1..(N + 1)
      OBVIOUS
    <3>1. N + 1 \in 1..(N + 1)
      BY <1>1
    <3>2. CASE j \in 1..m
      BY <1>3, <1>9, <1>10, <3>2
    <3> QED  BY <1>9, <2>1, <3>1, <3>2
  <2>3. r.stack[1] = 1
    BY <1>3, <1>9, <2>1
  <2>4. \A j \in 2..(m + 1) : r.stack[j] # 1 /\ r.stack[j - 1] = r.parent[r.stack[j]]
    <3>1. \A j \in 2..m : r.stack[j] # 1 /\ r.stack[j - 1] = r.parent[r.stack[j]]
      <4> SUFFICES ASSUME NEW j \in 2..m
          PROVE  r.stack[j] # 1 /\ r.stack[j - 1] = r.parent[r.stack[j]]
        OBVIOUS
      <4>1. j \in 1..m /\ j - 1 \in 1..m /\ j \in 2..(m + 1)
        BY <1>2
      <4>2. r.stack[j] = s.stack[j] /\ r.stack[j - 1] = s.stack[j - 1] /\ s.stack[j] \in 1..N
        BY <1>3, <1>9, <4>1
      <4>3. s.stack[j] # 1 /\ s.stack[j - 1] = s.parent[s.stack[j]]
        BY <1>3
      <4> QED  BY <1>8, <4>2, <4>3
    <3>2. N + 1 # 1 /\ (m + 1) - 1 = m /\ m \in 1..m
      BY <1>1, <1>2
    <3>3. r.stack[m + 1] # 1 /\ r.stack[(m + 1) - 1] = r.parent[r.stack[m + 1]]
      BY <1>2, <1>8, <1>9, <3>2
    <3> QED  BY <2>1, <3>1, <3>3
  <2>5. Open(r, B) = {N + 1} \cup A[t]
    <3>1. r.stack # <<>>
      BY <1>2, <1>9
    <3> QED  BY <1>9, <1>11, <3>1 DEF Open, OnTop
  <2>6. ASSUME NEW u \in {N + 1} \cup A[t], NEW k \in u..(N + 1) PROVE u \in B[k]
    <3>1. CASE k = N + 1
      BY <1>11, <2>6, <3>1
    <3>2. CASE k # N + 1
      <4>1. u \in A[t] /\ u \in 1..N /\ k \in u..N /\ k \in 1..N
        <5>1. u # N + 1 => u \in A[t]
          BY <2>6
        <5>2. A[t] \subseteq 1..N /\ N \in Nat
          BY <1>1, <1>13
        <5>3. u # N + 1 /\ k <= N /\ u <= k
          BY ONLY <2>6, <3>2, <5>1, <5>2
        <5> QED  BY ONLY <2>6, <3>2, <5>1, <5>2, <5>3
      <4> QED  BY <1>3, <1>11, <4>1
    <3> QED  BY <3>1, <3>2
  <2>7. ASSUME NEW u \in 1..(N + 1), u \notin {N + 1} \cup A[t]
        PROVE  Range(cfg[r.vertex[u]]) \subseteq Range(r.vertex)
    <3>1. u \in 1..N /\ u \notin A[t]
      BY <1>10, <2>7
    <3>2. Range(cfg[r.vertex[u]]) \subseteq Range(s.vertex)
      BY <1>3, <1>7, <3>1
    <3>3. Range(s.vertex) \subseteq Range(r.vertex)
      BY <1>7, <1>10, <1>14
    <3> QED  BY <3>2, <3>3
  <2> QED  BY <1>7, <1>9, <2>2, <2>3, <2>4, <2>5, <2>6, <2>7 DEF Stacked
<1>18. Fuel(r) = Fuel(s) - 1
  <2>1. Fuel(r) = 2 * (n - (N + 1)) + (m + 1) /\ Fuel(s) = 2 * (n - N) + m
    BY <1>7, <1>9 DEF Fuel, N, m
  <2> QED  BY <2>1, <1>1, <1>2, <1>5
<1> QED  BY <1>16, <1>17, <1>18

LEMMA DescendKeeps ==
  ASSUME NEW n, Graph(cfg, n), Len(cfg) = n, NEW s, NEW A, Grown(s, A), Stacked(s, A),
         s.stack # <<>>
  PROVE  /\ \E B : Grown(Descend(s), B) /\ Stacked(Descend(s), B)
         /\ Fuel(Descend(s)) = Fuel(s) - 1
<1> DEFINE succs == cfg[s.vertex[OnTop(s)]]
           fresh == {k \in DOMAIN succs : succs[k] \notin Range(s.vertex)}
           first == CHOOSE k \in fresh : \A j \in fresh : k <= j
<1>1. Descend(s) = IF fresh = {} THEN [s EXCEPT !.stack = Front(@)]
                   ELSE [vertex |-> Append(s.vertex, succs[first]),
                         parent |-> Append(s.parent, OnTop(s)),
                         stack |-> Append(s.stack, Len(s.vertex) + 1)]
  BY DEF Descend, OnTop, Last
<1>2. succs \in Seq(1..n) /\ DOMAIN succs \subseteq Nat
  <2>1. s.vertex \in Seq(1..n) /\ s.stack \in Seq(Nat)
    BY DEF Grown
  <2>2. OnTop(s) \in 1..Len(s.vertex)
    BY <2>1 DEF Stacked, OnTop
  <2>3. s.vertex[OnTop(s)] \in 1..n
    BY <2>1, <2>2
  <2>4. succs \in Seq(1..n)
    BY <2>3, Edges
  <2> QED  BY <2>4
<1> HIDE DEF succs
<1>3. CASE fresh = {}
  <2>1. Range(succs) \subseteq Range(s.vertex)
    BY <1>3 DEF Range
  <2> QED  BY <1>1, <1>3, <2>1, LeaveKeeps DEF succs
<1>4. CASE fresh # {}
  <2>1. first \in fresh
    <3>1. fresh \in SUBSET Nat
      BY <1>2
    <3> HIDE DEF fresh
    <3> QED  BY <1>4, <3>1, Least
  <2>2. succs[first] \in Range(succs) /\ succs[first] \notin Range(s.vertex)
    BY <2>1 DEF Range
  <2> DEFINE c == succs[first]
             r == [vertex |-> Append(s.vertex, c), parent |-> Append(s.parent, OnTop(s)),
                   stack |-> Append(s.stack, Len(s.vertex) + 1)]
  <2>3. c \in Range(cfg[s.vertex[OnTop(s)]]) /\ c \notin Range(s.vertex)
    BY <2>2 DEF succs
  <2>4. Descend(s) = r
    BY <1>1, <1>4
  <2> HIDE DEF c, fresh, first
  <2>5. r = [vertex |-> Append(s.vertex, c), parent |-> Append(s.parent, OnTop(s)),
             stack |-> Append(s.stack, Len(s.vertex) + 1)]
    OBVIOUS
  <2> HIDE DEF r
  <2>6. (\E B : Grown(r, B) /\ Stacked(r, B)) /\ Fuel(r) = Fuel(s) - 1
    BY <2>3, <2>5, VisitKeeps
  <2> QED  BY <2>4, <2>6
<1> QED  BY <1>3, <1>4

\* There are no more numbers than blocks.
LEMMA Distinct ==
  ASSUME NEW n \in Nat, NEW N \in Nat, NEW V \in [1..N -> 1..n],
         \A i, j \in 1..N : V[i] = V[j] => i = j
  PROVE  N <= n
<1>1. V \in Injection(1..N, 1..n)
  BY DEF Injection, IsInjective
<1>2. /\ IsFiniteSet(1..n) /\ Cardinality(1..n) = n /\ Cardinality(1..N) = N
  <2>1. /\ Cardinality(1..n) = IF 1 > n THEN 0 ELSE n - 1 + 1
        /\ Cardinality(1..N) = IF 1 > N THEN 0 ELSE N - 1 + 1
        /\ IsFiniteSet(1..n)
    <3>1. 1 \in Int /\ n \in Int /\ N \in Int
      OBVIOUS
    <3> QED  BY <3>1, FS_Interval
  <2> QED  BY <2>1
<1> QED  BY <1>1, <1>2, FS_Injection

Seed == [vertex |-> <<1>>, parent |-> <<0>>, stack |-> <<1>>]
OneStep(s) == IF s.stack = <<>> THEN s ELSE Descend(s)
SearchRec(H) ==
  H = [k \in 0..(2 * Len(cfg)) |-> IF k = 0 THEN Seed ELSE OneStep(H[k - 1])]
Searching(s) == \E A : Grown(s, A) /\ Stacked(s, A)

LEMMA SeedSearching ==
  ASSUME NEW n, Graph(cfg, n), Len(cfg) = n
  PROVE  Searching(Seed) /\ Fuel(Seed) = 2 * n - 1
<1> DEFINE A == [v \in 1..1 |-> {1}]
<1>1. /\ Seed.vertex = <<1>> /\ Seed.parent = <<0>> /\ Seed.stack = <<1>>
      /\ Len(Seed.vertex) = 1 /\ Len(Seed.parent) = 1 /\ Len(Seed.stack) = 1
      /\ Seed.vertex[1] = 1 /\ Seed.parent[1] = 0 /\ Seed.stack[1] = 1
  BY DEF Seed
<1>2. n \in Nat /\ n >= 1 /\ 1 \in 1..n
  BY Edges DEF Graph
<1>3. 1..1 = {1} /\ 2..1 = {} /\ \A u \in 1..1 : u = 1
  OBVIOUS
<1>4. A \in [1..1 -> SUBSET (1..1)] /\ A[1] = {1}
  BY <1>3
<1> HIDE DEF A
<1>5. DFTree(Seed.parent, 1, A)
  BY <1>3, <1>4 DEF DFTree
<1>6. Seed \in [vertex : Seq(1..n), parent : Seq(Nat), stack : Seq(Nat)]
  BY <1>2 DEF Seed
<1>7. Grown(Seed, A)
  BY <1>1, <1>3, <1>5, <1>6 DEF Grown
<1>8. Stacked(Seed, A)
  <2>1. Open(Seed, A) = {1}
    BY <1>1, <1>4 DEF Open, OnTop
  <2> QED  BY <1>1, <1>3, <1>4, <2>1 DEF Stacked
<1>9. Fuel(Seed) = 2 * n - 1
  BY <1>1, <1>2 DEF Fuel
<1> QED  BY <1>7, <1>8, <1>9 DEF Searching

LEMMA OneStepKeeps ==
  ASSUME NEW n, Graph(cfg, n), Len(cfg) = n, NEW s, Searching(s)
  PROVE  /\ Searching(OneStep(s))
         /\ s.stack = <<>> => OneStep(s) = s
         /\ s.stack # <<>> => Fuel(OneStep(s)) = Fuel(s) - 1
         /\ Fuel(s) \in Nat
<1>1. PICK A : Grown(s, A) /\ Stacked(s, A)
  BY DEF Searching
<1>2. Fuel(s) \in Nat
  <2>1. /\ s.vertex \in Seq(1..n) /\ s.stack \in Seq(Nat) /\ n \in Nat
        /\ \A i, j \in 1..Len(s.vertex) : s.vertex[i] = s.vertex[j] => i = j
    BY <1>1, Edges DEF Grown
  <2>2. Len(s.vertex) \in Nat /\ s.vertex \in [1..Len(s.vertex) -> 1..n] /\ Len(s.stack) \in Nat
    BY <2>1
  <2>3. Len(s.vertex) <= n
    BY <2>1, <2>2, Distinct
  <2>4. n - Len(s.vertex) \in Nat
    BY <2>1, <2>2, <2>3
  <2>5. Fuel(s) = 2 * (n - Len(s.vertex)) + Len(s.stack)
    BY DEF Fuel
  <2> DEFINE j == n - Len(s.vertex)
             k == Len(s.stack)
  <2>6. j \in Nat /\ k \in Nat
    BY <2>2, <2>4
  <2> HIDE DEF j, k
  <2>7. 2 * j + k \in Nat
    BY <2>6
  <2> QED  BY <2>5, <2>7 DEF j, k
<1>3. CASE s.stack = <<>>
  BY <1>2, <1>3 DEF OneStep
<1>4. CASE s.stack # <<>>
  BY <1>1, <1>2, <1>4, DescendKeeps DEF OneStep, Searching
<1> QED  BY <1>3, <1>4

LEMMA SearchEnds ==
  ASSUME NEW n, Graph(cfg, n), Len(cfg) = n
  PROVE  Searching(Search) /\ Search.stack = <<>>
<1> DEFINE V == {s \in [vertex : Seq(1..n), parent : Seq(Nat), stack : Seq(Nat)] : Searching(s)}
           step == [p \in (1..(2 * n)) \X V |-> OneStep(p[2])]
<1>1. n \in Nat /\ 2 * n \in Nat /\ n >= 1
  BY DEF Graph
<1>2. \A s : s \in V <=> Searching(s)
  BY DEF Searching, Grown
<1>3. Seed \in V /\ \A s \in V : OneStep(s) \in V
  <2> HIDE DEF V
  <2> QED  BY <1>2, SeedSearching, OneStepKeeps
<1> HIDE DEF V
<1>4. step \in [(1..(2 * n)) \X V -> V]
  BY <1>3
<1>5. PICK F : Follows(F, 2 * n, V, Seed, step)
  <2> HIDE DEF step
  <2> QED  BY <1>1, <1>3, <1>4, Recursion
<1>6. /\ F \in [0..(2 * n) -> V] /\ F[0] = Seed
      /\ \A k \in 1..(2 * n) : F[k] = step[<<k, F[k - 1]>>]
  BY <1>5 DEF Follows
<1>7. \A k \in 1..(2 * n) : F[k] = OneStep(F[k - 1])
  <2> SUFFICES ASSUME NEW k \in 1..(2 * n) PROVE F[k] = OneStep(F[k - 1])
    OBVIOUS
  <2>1. k - 1 \in 0..(2 * n)
    BY <1>1
  <2>2. F[k - 1] \in V
    BY <1>6, <2>1
  <2> QED  BY <1>6, <2>2
<1> HIDE DEF step
<1>8. SearchRec(F)
  <2>1. \A k \in 0..(2 * n) : k = 0 \/ k \in 1..(2 * n)
    BY <1>1
  <2>2. F = [k \in 0..(2 * n) |-> F[k]]
    BY <1>6
  <2>3. \A k \in 0..(2 * n) : F[k] = IF k = 0 THEN Seed ELSE OneStep(F[k - 1])
    BY <1>6, <1>7, <2>1
  <2>4. F = [k \in 0..(2 * n) |-> IF k = 0 THEN Seed ELSE OneStep(F[k - 1])]
    BY <2>2, <2>3
  <2> QED  BY <2>4 DEF SearchRec
<1>9. Search = (CHOOSE H : SearchRec(H))[2 * n]
  BY DEF Search, SearchRec, Seed, OneStep
<1>10. PICK H : SearchRec(H) /\ Search = H[2 * n]
  BY <1>8, <1>9
<1>11. \A k \in 0..(2 * n) : H[k] = IF k = 0 THEN Seed ELSE OneStep(H[k - 1])
  BY <1>10 DEF SearchRec
<1>12. H[0] = Seed /\ \A k \in 1..(2 * n) : H[k] = OneStep(H[k - 1])
  <2>1. 0 \in 0..(2 * n) /\ \A k \in 1..(2 * n) : k \in 0..(2 * n) /\ k # 0
    BY <1>1
  <2> QED  BY <1>11, <2>1
<1> DEFINE Good == {k \in 0..(2 * n) : /\ Searching(H[k])
                                       /\ H[k].stack = <<>> \/ Fuel(H[k]) <= 2 * n - 1 - k}
<1>13. 0 \in Good
  <2>1. 0 \in 0..(2 * n) /\ 2 * n - 1 - 0 = 2 * n - 1 /\ 2 * n - 1 \in Int
    BY <1>1
  <2> QED  BY <1>12, <2>1, SeedSearching
<1>14. ASSUME NEW k \in 1..(2 * n), k - 1 \in Good PROVE k \in Good
  <2>1. /\ Searching(H[k - 1]) /\ k \in 0..(2 * n) /\ k \in Nat
        /\ H[k - 1].stack = <<>> \/ Fuel(H[k - 1]) <= 2 * n - 1 - (k - 1)
    BY <1>1, <1>14
  <2>2. H[k] = OneStep(H[k - 1])
    BY <1>12
  <2>3. /\ Searching(H[k])
        /\ H[k - 1].stack = <<>> => H[k] = H[k - 1]
        /\ H[k - 1].stack # <<>> => Fuel(H[k]) = Fuel(H[k - 1]) - 1
        /\ Fuel(H[k - 1]) \in Nat
    BY <2>1, <2>2, OneStepKeeps
  <2>4. CASE H[k - 1].stack = <<>>
    BY <2>1, <2>3, <2>4
  <2>5. CASE H[k - 1].stack # <<>>
    <3>1. Fuel(H[k]) <= 2 * n - 1 - k
      BY <1>1, <2>1, <2>3, <2>5
    <3> QED  BY <2>1, <2>3, <3>1
  <2> QED  BY <2>4, <2>5
<1> HIDE DEF Good
<1>15. 2 * n \in Good
  <2>1. \A k \in 0..(2 * n) : k \in Good
    BY <1>1, <1>13, <1>14, UpTo0
  <2> QED  BY <1>1, <2>1
<1>16. /\ Searching(Search)
       /\ Search.stack = <<>> \/ Fuel(Search) <= 2 * n - 1 - 2 * n
  BY <1>10, <1>15 DEF Good
<1>17. Fuel(Search) \in Nat
  BY <1>16, OneStepKeeps
<1> QED  BY <1>1, <1>16, <1>17

(* What the search leaves: a depth-first tree of the blocks that can be    *)
(* reached, by their numbers.                                              *)
EdgesOf(g, V, N) == {e \in (1..N) \X (1..N) : V[e[2]] \in Range(g[V[e[1]]])}

Searched(g, t, n, N, A) ==
  /\ N = Len(t.vertex) /\ t.vertex \in Seq(1..n)
  /\ t.dfnum \in [1..n -> 0..N]
  /\ \A b \in 1..n : t.dfnum[b] # 0 => t.vertex[t.dfnum[b]] = b
  /\ \A i \in 1..N : t.dfnum[t.vertex[i]] = i
  /\ DFTree(t.parent, N, A) /\ DFEdges(t.parent, N, A, EdgesOf(g, t.vertex, N))
  /\ NumbersReached(g, n, t.vertex, N, EdgesOf(g, t.vertex, N))

LEMMA NumberingFacts ==
  ASSUME NEW n, Graph(cfg, n), Len(cfg) = n
  PROVE  \E A : Searched(cfg, Numbering, n, Len(Numbering.vertex), A)
<1> DEFINE s == Search
           N == Len(s.vertex)
           V == s.vertex
<1>0. PICK A : Grown(s, A) /\ Stacked(s, A) /\ s.stack = <<>>
  BY SearchEnds DEF Searching
<1>1. /\ V \in Seq(1..n) /\ N >= 1 /\ V[1] = 1 /\ DFTree(s.parent, N, A)
      /\ \A i, j \in 1..N : V[i] = V[j] => i = j
      /\ \A v \in 2..N : V[v] \in Range(cfg[V[s.parent[v]]])
      /\ \A u, v \in 1..N : u < v /\ V[v] \in Range(cfg[V[u]]) => u \in A[v]
  BY <1>0 DEF Grown
<1>2. /\ N \in Nat /\ V \in [1..N -> 1..n] /\ DOMAIN V = 1..N
  BY <1>1
<1>3. \A u \in 1..N : Range(cfg[V[u]]) \subseteq Range(V)
  BY <1>0 DEF Stacked, Open
<1>4. \A x : x \in Range(V) <=> \E i \in 1..N : V[i] = x
  BY <1>1, RangeOf
<1> DEFINE t == Numbering
<1>5. /\ t.vertex = V /\ t.parent = s.parent
      /\ t.dfnum = [b \in DOMAIN cfg |->
                     IF b \in Range(V) THEN CHOOSE i \in DOMAIN V : V[i] = b ELSE 0]
  BY DEF Numbering
<1> HIDE DEF s, N, V, t
<1>6. DOMAIN cfg = 1..n /\ n \in Nat /\ 1 \in 1..n
  BY Edges
<1>7. \A b \in Range(V) : (CHOOSE i \in DOMAIN V : V[i] = b) \in 1..N
                          /\ V[CHOOSE i \in DOMAIN V : V[i] = b] = b
  BY <1>2, <1>4
<1>8. t.dfnum \in [1..n -> 0..N]
  <2>1. \A b \in 1..n : (IF b \in Range(V) THEN CHOOSE i \in DOMAIN V : V[i] = b ELSE 0) \in 0..N
    BY <1>2, <1>7
  <2> QED  BY <1>5, <1>6, <2>1
<1>9. \A b \in 1..n : t.dfnum[b] # 0 => b \in Range(V) /\ V[t.dfnum[b]] = b
  BY <1>5, <1>6, <1>7
<1>10. \A i \in 1..N : t.dfnum[V[i]] = i
  <2> SUFFICES ASSUME NEW i \in 1..N PROVE t.dfnum[V[i]] = i
    OBVIOUS
  <2>1. V[i] \in 1..n /\ V[i] \in Range(V)
    BY <1>2, <1>4
  <2>2. t.dfnum[V[i]] = CHOOSE j \in DOMAIN V : V[j] = V[i]
    BY <1>5, <1>6, <2>1
  <2>3. t.dfnum[V[i]] \in 1..N /\ V[t.dfnum[V[i]]] = V[i]
    BY <1>7, <2>1, <2>2
  <2> QED  BY <1>1, <2>3
<1>11. \A i, j \in 1..N : <<i, j>> \in EdgesOf(cfg, V, N) <=> V[j] \in Range(cfg[V[i]])
  BY DEF EdgesOf
<1>12. \A v \in 2..N : s.parent[v] \in 1..N /\ s.parent[v] < v /\ v \in 1..N
  BY <1>1, TreeFacts
<1>13. DFEdges(s.parent, N, A, EdgesOf(cfg, V, N))
  <2>1. \A v \in 2..N : <<s.parent[v], v>> \in EdgesOf(cfg, V, N)
    BY <1>1, <1>11, <1>12
  <2>2. \A u, v \in 1..N : <<u, v>> \in EdgesOf(cfg, V, N) /\ u < v => u \in A[v]
    BY <1>1, <1>11
  <2> QED  BY <2>1, <2>2 DEF DFEdges
<1>14. Reachable(cfg) \subseteq Range(V)
  <2>1. 1 \in Range(V)
    BY <1>1, <1>2, <1>4
  <2>2. \A b \in ReachedAvoiding(cfg, 0) :
          b \in Range(V) => \A c \in Range(cfg[b]) : c # 0 => c \in Range(V)
    BY <1>3, <1>4
  <2> QED  BY <2>1, <2>2, ReachLeast DEF Reachable
<1>15. \A i \in 1..N : V[i] \in Reachable(cfg)
  <2> SUFFICES ASSUME NEW T, T = {i \in 1..N : V[i] \notin Reachable(cfg)}, T # {} PROVE FALSE
    OBVIOUS
  <2>1. T \in SUBSET Nat
    BY <1>2
  <2>2. PICK m \in T : \A y \in T : m <= y
    BY <2>1, Least
  <2>3. 1 \in Reachable(cfg)
    BY ReachFacts DEF Reachable
  <2>4. m \in 1..N /\ V[m] \notin Reachable(cfg) /\ m # 1
    BY <1>1, <2>2, <2>3
  <2>5. m \in 2..N
    BY <1>2, <2>4
  <2>6. s.parent[m] \in 1..N /\ s.parent[m] \notin T
    BY <1>12, <1>2, <2>2, <2>5
  <2>7. V[s.parent[m]] \in Reachable(cfg) /\ V[m] \in Range(cfg[V[s.parent[m]]])
    BY <1>1, <2>5, <2>6
  <2>8. V[m] # 0
    BY <1>2, <2>4
  <2>9. V[m] \in Reachable(cfg)
    BY <2>7, <2>8, ReachFacts DEF Reachable
  <2> QED  BY <2>4, <2>9
<1>16. NumbersReached(cfg, n, V, N, EdgesOf(cfg, V, N))
  <2>1. \A b \in 1..n : b \in Reachable(cfg) <=> \E i \in 1..N : V[i] = b
    BY <1>4, <1>14, <1>15
  <2> QED  BY <1>1, <1>2, <1>11, <2>1 DEF NumbersReached
<1>17. Searched(cfg, t, n, N, A)
  <2>1. N = Len(t.vertex) /\ t.vertex = V /\ t.parent = s.parent
    BY <1>5 DEF N, V
  <2>2. \A b \in 1..n : t.dfnum[b] # 0 => t.vertex[t.dfnum[b]] = b
    BY <1>9, <2>1
  <2>3. \A i \in 1..N : t.dfnum[t.vertex[i]] = i
    BY <1>10, <2>1
  <2>4. t.vertex \in Seq(1..n) /\ DFTree(t.parent, N, A)
    BY <1>1, <2>1
  <2>5. DFEdges(t.parent, N, A, EdgesOf(cfg, t.vertex, N))
    BY <1>13, <2>1
  <2>6. NumbersReached(cfg, n, t.vertex, N, EdgesOf(cfg, t.vertex, N))
    BY <1>16, <2>1
  <2> QED  BY <1>8, <2>1, <2>2, <2>3, <2>4, <2>5, <2>6 DEF Searched
<1> QED  BY <1>5, <1>17 DEF t, N, V

-----------------------------------------------------------------------------
(* The forest.  Vertices above d are linked: what is noted for one is the  *)
(* vertex of least semidominator on the way from its ancestor up to it,    *)
(* all of which is linked.                                                 *)

Linked(f, A, d0, v) ==
  /\ f.ancestor[v] \in A[v] /\ f.ancestor[v] # v
  /\ f.label[v] \in A[v] /\ f.label[v] > f.ancestor[v]
  /\ \A x \in A[v] : x > f.ancestor[v] => x > d0 /\ f.semi[f.label[v]] <= f.semi[x]

ForestOf(N) ==
  [semi : [1..N -> 1..N], label : [1..N -> 1..N], ancestor : [1..N -> 0..N]]

Forest(f, N, A, d0) ==
  /\ f \in ForestOf(N)
  /\ \A v \in 1..N : v <= d0 => f.ancestor[v] = 0 /\ f.label[v] = v
  /\ \A v \in 1..N : v > d0 => Linked(f, A, d0, v)

\* A root, or right below one.
Rooted(f, d0, v) == v <= d0 \/ f.ancestor[v] <= d0

LEMMA ForestFacts ==
  ASSUME NEW f, NEW par, NEW N, NEW A, NEW d0 \in 1..N, DFTree(par, N, A), Forest(f, N, A, d0)
  PROVE  \A v \in 1..N :
           /\ f.semi[v] \in 1..N /\ f.label[v] \in 1..N /\ f.ancestor[v] \in 0..N
           /\ f.ancestor[v] = 0 <=> v <= d0
           /\ v > d0 => f.ancestor[v] \in 1..N /\ f.ancestor[v] < v /\ f.label[v] > d0
<1>0. /\ N \in Nat /\ \A v \in 1..N : A[v] \subseteq 1..N
      /\ \A v \in 1..N : \A u \in A[v] : u <= v
  BY TreeFacts DEF DFTree
<1>1. f \in ForestOf(N)
  BY DEF Forest
<1> SUFFICES ASSUME NEW v \in 1..N
    PROVE  /\ f.semi[v] \in 1..N /\ f.label[v] \in 1..N /\ f.ancestor[v] \in 0..N
           /\ f.ancestor[v] = 0 <=> v <= d0
           /\ v > d0 => f.ancestor[v] \in 1..N /\ f.ancestor[v] < v /\ f.label[v] > d0
  OBVIOUS
<1>2. f.semi[v] \in 1..N /\ f.label[v] \in 1..N /\ f.ancestor[v] \in 0..N
  BY <1>1 DEF ForestOf
<1>3. CASE v <= d0
  BY <1>0, <1>2, <1>3 DEF Forest
<1>4. CASE v > d0
  <2>1. /\ f.ancestor[v] \in A[v] /\ f.ancestor[v] # v
        /\ f.label[v] \in A[v] /\ f.label[v] > f.ancestor[v]
        /\ \A x \in A[v] : x > f.ancestor[v] => x > d0
    BY <1>4 DEF Forest, Linked
  <2>2. f.ancestor[v] \in 1..N /\ f.ancestor[v] <= v
    BY <1>0, <2>1
  <2> QED  BY <1>0, <1>2, <1>4, <2>1, <2>2
<1> QED  BY <1>0, <1>3, <1>4

LEMMA ShortcutKeeps ==
  ASSUME NEW f, NEW par, NEW N, NEW A, NEW d0 \in 1..N, DFTree(par, N, A), Forest(f, N, A, d0),
         NEW w \in 1..N, w > d0, f.ancestor[w] > d0,
         NEW g, g = Shortcut(f, w)
  PROVE  /\ Forest(g, N, A, d0) /\ g.semi = f.semi
         /\ g.ancestor[w] = f.ancestor[f.ancestor[w]]
         /\ \A x \in 1..N : x # w => g.ancestor[x] = f.ancestor[x]
<1> DEFINE a == f.ancestor[w]
           la == f.label[a]
           lw == f.label[w]
           least == IF f.semi[la] < f.semi[lw] THEN la ELSE lw
<1>0. /\ N \in Nat /\ \A v \in 1..N : A[v] \subseteq 1..N
      /\ \A v \in 1..N : \A u \in A[v] :
           u <= v /\ A[u] \subseteq A[v] /\ \A k \in u..v : u \in A[k]
  BY TreeFacts DEF DFTree
<1>1. \A v \in 1..N :
        /\ f.semi[v] \in 1..N /\ f.label[v] \in 1..N /\ f.ancestor[v] \in 0..N
        /\ v > d0 => f.ancestor[v] \in 1..N /\ f.ancestor[v] < v
  BY ForestFacts
<1>2. a \in 1..N /\ a < w /\ a > d0
  BY <1>1
<1>3. Linked(f, A, d0, w) /\ Linked(f, A, d0, a)
  BY <1>2 DEF Forest
<1>4. f \in ForestOf(N)
  BY DEF Forest
<1>5. /\ g.semi = f.semi
      /\ g.ancestor = [f.ancestor EXCEPT ![w] = f.ancestor[a]]
      /\ g.label = [f.label EXCEPT ![w] = least]
      /\ g = [semi |-> g.semi, label |-> g.label, ancestor |-> g.ancestor]
  BY <1>4 DEF Shortcut, ForestOf
<1>6. f.ancestor[a] \in 1..N /\ f.ancestor[a] < a /\ least \in 1..N /\ la \in 1..N /\ lw \in 1..N
  BY <1>1, <1>2
<1>7. /\ f.ancestor \in [1..N -> 0..N] /\ f.label \in [1..N -> 1..N] /\ f.semi \in [1..N -> 1..N]
  BY <1>4 DEF ForestOf
<1> HIDE DEF least, la, lw, a
<1>8. /\ g.ancestor \in [1..N -> 0..N] /\ g.label \in [1..N -> 1..N] /\ g.semi \in [1..N -> 1..N]
      /\ g.ancestor[w] = f.ancestor[a] /\ g.label[w] = least
      /\ \A x \in 1..N : x # w => g.ancestor[x] = f.ancestor[x] /\ g.label[x] = f.label[x]
  <2>1. f.ancestor[a] \in 0..N
    BY <1>0, <1>6
  <2>2. ASSUME NEW T, NEW h \in [1..N -> T], NEW e \in T
        PROVE  LET k == [h EXCEPT ![w] = e] IN
               k \in [1..N -> T] /\ k[w] = e /\ \A x \in 1..N : x # w => k[x] = h[x]
    OBVIOUS
  <2>3. /\ g.ancestor \in [1..N -> 0..N] /\ g.ancestor[w] = f.ancestor[a]
        /\ \A x \in 1..N : x # w => g.ancestor[x] = f.ancestor[x]
    BY <1>5, <1>7, <2>1, <2>2
  <2>4. /\ g.label \in [1..N -> 1..N] /\ g.label[w] = least
        /\ \A x \in 1..N : x # w => g.label[x] = f.label[x]
    <3>1. f.label \in [1..N -> 1..N] /\ least \in 1..N /\ g.label = [f.label EXCEPT ![w] = least]
      BY <1>5, <1>6, <1>7
    <3> QED  BY ONLY <2>2, <3>1
  <2> QED  BY <1>5, <1>7, <2>3, <2>4
<1>9. g \in ForestOf(N)
  BY <1>5, <1>8 DEF ForestOf
<1>10. Linked(g, A, d0, w)
  <2>1. /\ a \in A[w] /\ lw \in A[w] /\ lw > a
        /\ \A x \in A[w] : x > a => x > d0 /\ f.semi[lw] <= f.semi[x]
    BY <1>3 DEF Linked, a, lw
  <2>2. /\ f.ancestor[a] \in A[a] /\ la \in A[a] /\ la > f.ancestor[a]
        /\ \A x \in A[a] : x > f.ancestor[a] => x > d0 /\ f.semi[la] <= f.semi[x]
    BY <1>3 DEF Linked, la
  <2>3. A[a] \subseteq A[w]
    BY <1>0, <2>1
  <2>4. f.ancestor[a] \in A[w] /\ f.ancestor[a] # w
    BY <1>2, <1>6, <2>2, <2>3
  <2>5. least \in A[w] /\ least > f.ancestor[a]
    BY <1>2, <1>6, <2>1, <2>2, <2>3 DEF least
  <2>6. f.semi[la] \in 1..N /\ f.semi[lw] \in 1..N
        /\ f.semi[least] <= f.semi[la] /\ f.semi[least] <= f.semi[lw] /\ f.semi[least] \in 1..N
    BY <1>1, <1>6 DEF least
  <2>7. ASSUME NEW x \in A[w], x > f.ancestor[a] PROVE x > d0 /\ f.semi[least] <= f.semi[x]
    <3>1. x \in 1..N /\ f.semi[x] \in 1..N
      BY <1>0, <1>1
    <3>2. CASE x > a
      BY <2>1, <2>6, <3>1, <3>2
    <3>3. CASE x <= a
      <4>1. a \in x..w
        BY <1>2, <3>1, <3>3
      <4>2. x \in A[a]
        BY <1>0, <4>1
      <4>3. x > d0 /\ f.semi[la] <= f.semi[x]
        BY <2>2, <2>7, <4>2
      <4> QED  BY <2>6, <3>1, <4>3
    <3> QED  BY <1>2, <3>1, <3>2, <3>3
  <2> QED  BY <1>5, <1>8, <2>4, <2>5, <2>7 DEF Linked
<1>11. ASSUME NEW v \in 1..N, v > d0, v # w PROVE Linked(g, A, d0, v)
  <2>1. Linked(f, A, d0, v)
    BY <1>11 DEF Forest
  <2> QED  BY <1>5, <1>8, <1>11, <2>1 DEF Linked
<1>12. \A v \in 1..N : v <= d0 => g.ancestor[v] = 0 /\ g.label[v] = v
  <2>1. \A v \in 1..N : v <= d0 => v # w
    BY <1>0
  <2> QED  BY <1>8, <2>1 DEF Forest
<1>13. Forest(g, N, A, d0)
  BY <1>9, <1>10, <1>11, <1>12 DEF Forest
<1> QED  BY <1>5, <1>8, <1>13 DEF a

(* The path from a vertex up to its root.                                  *)
UpOne(f, u) == IF IsRoot(f, u) THEN u ELSE f.ancestor[u]
PathRec(f, v, U) == U = [k \in 0..v |-> IF k = 0 THEN v ELSE UpOne(f, U[k - 1])]

ClimbsTo(U, f, v, N, d0) ==
  /\ U \in [0..v -> 1..N] /\ U[0] = v /\ U[v] <= d0
  /\ \A k \in 1..v : IF U[k - 1] <= d0 THEN U[k] = U[k - 1]
                     ELSE U[k] = f.ancestor[U[k - 1]] /\ U[k] < U[k - 1]

LEMMA PathFacts ==
  ASSUME NEW f, NEW par, NEW N, NEW A, NEW d0 \in 1..N, DFTree(par, N, A), Forest(f, N, A, d0),
         NEW v \in 1..N
  PROVE  ClimbsTo(Path(f, v), f, v, N, d0)
<1> DEFINE V == 1..N
           step == [p \in (1..v) \X V |-> UpOne(f, p[2])]
<1>1. /\ N \in Nat /\ v \in Nat /\ v >= 1 /\ d0 \in Nat
      /\ \A u \in 1..N :
           IF u <= d0 THEN UpOne(f, u) = u
           ELSE UpOne(f, u) = f.ancestor[u] /\ UpOne(f, u) \in 1..N /\ UpOne(f, u) < u
  <2>1. N \in Nat
    BY TreeFacts
  <2>2. \A u \in 1..N : /\ f.ancestor[u] = 0 <=> u <= d0
                        /\ u > d0 => f.ancestor[u] \in 1..N /\ f.ancestor[u] < u
    BY ForestFacts
  <2> QED  BY <2>1, <2>2 DEF UpOne, IsRoot
<1>2. step \in [(1..v) \X V -> V]
  <2>1. \A u \in 1..N : UpOne(f, u) \in V
    BY <1>1
  <2> QED  BY <2>1
<1>3. PICK F : Follows(F, v, V, v, step)
  <2> HIDE DEF V, step
  <2>1. v \in V
    BY DEF V
  <2> QED  BY <1>1, <1>2, <2>1, Recursion
<1>4. /\ F \in [0..v -> V] /\ F[0] = v
      /\ \A k \in 1..v : F[k] = step[<<k, F[k - 1]>>]
  BY <1>3 DEF Follows
<1>5. \A k \in 1..v : F[k] = UpOne(f, F[k - 1])
  <2> SUFFICES ASSUME NEW k \in 1..v PROVE F[k] = UpOne(f, F[k - 1])
    OBVIOUS
  <2>1. k - 1 \in 0..v
    BY <1>1
  <2>2. F[k - 1] \in V
    BY <1>4, <2>1
  <2> QED  BY <1>4, <2>2
<1> HIDE DEF step
<1>6. PathRec(f, v, F)
  <2>1. \A k \in 0..v : k = 0 \/ k \in 1..v
    BY <1>1
  <2>2. F = [k \in 0..v |-> F[k]]
    BY <1>4
  <2>3. \A k \in 0..v : F[k] = IF k = 0 THEN v ELSE UpOne(f, F[k - 1])
    BY <1>4, <1>5, <2>1
  <2>4. F = [k \in 0..v |-> IF k = 0 THEN v ELSE UpOne(f, F[k - 1])]
    BY <2>2, <2>3
  <2> QED  BY <2>4 DEF PathRec
<1>7. Path(f, v) = CHOOSE U : PathRec(f, v, U)
  BY DEF Path, PathRec, UpOne
<1>8. PICK U : PathRec(f, v, U) /\ U = Path(f, v)
  BY <1>6, <1>7
<1>9. /\ \A k \in 0..v : U[k] = IF k = 0 THEN v ELSE UpOne(f, U[k - 1])
      /\ U = [k \in 0..v |-> U[k]]
  BY <1>8 DEF PathRec
<1>10. U[0] = v /\ \A k \in 1..v : U[k] = UpOne(f, U[k - 1])
  <2>1. 0 \in 0..v /\ \A k \in 1..v : k \in 0..v /\ k # 0
    BY <1>1
  <2> QED  BY <1>9, <2>1
<1> DEFINE Good == {k \in 0..v : U[k] \in 1..N /\ (U[k] <= d0 \/ U[k] <= v - k)}
<1>11. \A k \in 0..v : k \in Good
  <2>1. 0 \in Good
    BY <1>1, <1>10
  <2>2. ASSUME NEW k \in 1..v, k - 1 \in Good PROVE k \in Good
    <3>1. /\ U[k - 1] \in 1..N /\ (U[k - 1] <= d0 \/ U[k - 1] <= v - (k - 1))
          /\ U[k] = UpOne(f, U[k - 1])
      BY <1>10, <2>2
    <3>2. IF U[k - 1] <= d0 THEN U[k] = U[k - 1]
          ELSE U[k] \in 1..N /\ U[k] < U[k - 1]
      BY <1>1, <3>1
    <3>3. U[k] \in 1..N /\ k \in 0..v
      BY <1>1, <3>1, <3>2
    <3>4. U[k] <= d0 \/ U[k] <= v - k
      BY <1>1, <3>1, <3>2, <3>3
    <3> QED  BY <3>3, <3>4
  <2> HIDE DEF Good
  <2> QED  BY <1>1, <2>1, <2>2, UpTo0
<1>12. U \in [0..v -> 1..N]
  BY <1>9, <1>11
<1>13. U[v] <= d0
  <2>1. v \in 0..v /\ v - v = 0
    BY <1>1
  <2>2. U[v] \in 1..N /\ (U[v] <= d0 \/ U[v] <= 0)
    BY <1>11, <2>1
  <2> QED  BY <2>2
<1>14. ASSUME NEW k \in 1..v
       PROVE  IF U[k - 1] <= d0 THEN U[k] = U[k - 1]
              ELSE U[k] = f.ancestor[U[k - 1]] /\ U[k] < U[k - 1]
  <2>1. k - 1 \in 0..v
    BY <1>1
  <2>2. U[k - 1] \in 1..N
    BY <1>12, <2>1
  <2> QED  BY <1>1, <1>10, <2>2
<1> QED  BY <1>8, <1>10, <1>12, <1>13, <1>14 DEF ClimbsTo

CompressOne(g, w) ==
  IF IsRoot(g, w) \/ IsRoot(g, g.ancestor[w]) THEN g ELSE Shortcut(g, w)
CompressRec(f, U, v, H) ==
  H = [k \in 0..v |-> IF k = 0 THEN f ELSE CompressOne(H[k - 1], U[v - k])]

\* What compression leaves as it was.
Kindred(f, g, N, A, d0) ==
  /\ Forest(g, N, A, d0) /\ g.semi = f.semi
  /\ \A u \in 1..N : Rooted(f, d0, u) => Rooted(g, d0, u)

LEMMA CompressOneKeeps ==
  ASSUME NEW f, NEW par, NEW N, NEW A, NEW d0 \in 1..N, DFTree(par, N, A), Forest(f, N, A, d0),
         NEW w \in 1..N, NEW g, g = CompressOne(f, w)
  PROVE  /\ Kindred(f, g, N, A, d0)
         /\ \A x \in 1..N : x # w => g.ancestor[x] = f.ancestor[x]
         /\ w > d0 /\ Rooted(f, d0, f.ancestor[w]) => Rooted(g, d0, w)
<1>1. \A v \in 1..N : /\ f.ancestor[v] \in 0..N /\ f.ancestor[v] = 0 <=> v <= d0
                      /\ v > d0 => f.ancestor[v] \in 1..N
  BY ForestFacts
<1>2. N \in Nat /\ d0 \in Nat /\ w \in Nat
  BY TreeFacts
<1>3. CASE w <= d0 \/ f.ancestor[w] <= d0
  <2>1. IsRoot(f, w) \/ IsRoot(f, f.ancestor[w])
    BY <1>1, <1>2, <1>3 DEF IsRoot
  <2>2. g = f
    BY <2>1 DEF CompressOne
  <2> QED  BY <1>3, <2>2 DEF Kindred, Rooted
<1>4. CASE ~(w <= d0 \/ f.ancestor[w] <= d0)
  <2>1. f.ancestor[w] \in 1..N /\ w > d0 /\ f.ancestor[w] > d0
    BY <1>1, <1>2, <1>4
  <2>2. ~IsRoot(f, w) /\ ~IsRoot(f, f.ancestor[w])
    BY <1>1, <1>2, <2>1 DEF IsRoot
  <2>3. g = Shortcut(f, w)
    BY <2>2 DEF CompressOne
  <2>4. /\ Forest(g, N, A, d0) /\ g.semi = f.semi
        /\ g.ancestor[w] = f.ancestor[f.ancestor[w]]
        /\ \A x \in 1..N : x # w => g.ancestor[x] = f.ancestor[x]
    BY <2>1, <2>3, ShortcutKeeps
  <2>5. \A u \in 1..N : Rooted(f, d0, u) => Rooted(g, d0, u)
    BY <1>4, <2>4 DEF Rooted
  <2>6. Rooted(f, d0, f.ancestor[w]) => Rooted(g, d0, w)
    BY <1>4, <2>4 DEF Rooted
  <2> QED  BY <2>4, <2>5, <2>6 DEF Kindred
<1> QED  BY <1>3, <1>4

(* Compression brings a vertex right below its root.                       *)
LEMMA CompressKeeps ==
  ASSUME NEW f, NEW par, NEW N, NEW A, NEW d0 \in 1..N, DFTree(par, N, A), Forest(f, N, A, d0),
         NEW v \in 1..N
  PROVE  Kindred(f, Compress(f, v), N, A, d0) /\ Rooted(Compress(f, v), d0, v)
<1>1. PICK U : U = Path(f, v) /\ ClimbsTo(U, f, v, N, d0)
  BY PathFacts
<1>2. /\ N \in Nat /\ v \in Nat /\ v >= 1 /\ d0 \in Nat
      /\ U \in [0..v -> 1..N] /\ U[0] = v /\ U[v] <= d0
      /\ \A k \in 1..v : IF U[k - 1] <= d0 THEN U[k] = U[k - 1]
                         ELSE U[k] = f.ancestor[U[k - 1]] /\ U[k] < U[k - 1]
  BY <1>1, TreeFacts DEF ClimbsTo
<1>3. \A k \in 0..v : v - k \in 0..v /\ U[v - k] \in 1..N
  BY <1>2
<1> DEFINE V == {g \in ForestOf(N) : Forest(g, N, A, d0)}
           step == [p \in (1..v) \X V |-> CompressOne(p[2], U[v - p[1]])]
<1>4. \A g : g \in V <=> Forest(g, N, A, d0)
  BY DEF Forest
<1> HIDE DEF V
<1>5. step \in [(1..v) \X V -> V] /\ f \in V
  <2>1. ASSUME NEW k \in 1..v, NEW g \in V PROVE CompressOne(g, U[v - k]) \in V
    <3>1. U[v - k] \in 1..N /\ Forest(g, N, A, d0)
      BY <1>2, <1>3, <1>4
    <3>2. Forest(CompressOne(g, U[v - k]), N, A, d0)
      BY <3>1, CompressOneKeeps DEF Kindred
    <3> QED  BY <1>4, <3>2
  <2> QED  BY <1>4, <2>1
<1>6. PICK F : Follows(F, v, V, f, step)
  <2> HIDE DEF step
  <2> QED  BY <1>2, <1>5, Recursion
<1>7. /\ F \in [0..v -> V] /\ F[0] = f
      /\ \A k \in 1..v : F[k] = step[<<k, F[k - 1]>>]
  BY <1>6 DEF Follows
<1>8. \A k \in 1..v : F[k] = CompressOne(F[k - 1], U[v - k])
  <2> SUFFICES ASSUME NEW k \in 1..v PROVE F[k] = CompressOne(F[k - 1], U[v - k])
    OBVIOUS
  <2>1. k - 1 \in 0..v
    BY <1>2
  <2>2. F[k - 1] \in V
    BY <1>7, <2>1
  <2> QED  BY <1>7, <2>2
<1> HIDE DEF step
<1>9. CompressRec(f, U, v, F)
  <2>1. \A k \in 0..v : k = 0 \/ k \in 1..v
    BY <1>2
  <2>2. F = [k \in 0..v |-> F[k]]
    BY <1>7
  <2>3. \A k \in 0..v : F[k] = IF k = 0 THEN f ELSE CompressOne(F[k - 1], U[v - k])
    BY <1>7, <1>8, <2>1
  <2>4. F = [k \in 0..v |-> IF k = 0 THEN f ELSE CompressOne(F[k - 1], U[v - k])]
    BY <2>2, <2>3
  <2> QED  BY <2>4 DEF CompressRec
<1>10. Compress(f, v) = (CHOOSE H : CompressRec(f, U, v, H))[v]
  BY <1>1 DEF Compress, CompressRec, CompressOne
<1>11. PICK H : CompressRec(f, U, v, H) /\ Compress(f, v) = H[v]
  BY <1>9, <1>10
<1>12. \A k \in 0..v : H[k] = IF k = 0 THEN f ELSE CompressOne(H[k - 1], U[v - k])
  BY <1>11 DEF CompressRec
<1>13. H[0] = f /\ \A k \in 1..v : H[k] = CompressOne(H[k - 1], U[v - k])
  <2>1. 0 \in 0..v /\ \A k \in 1..v : k \in 0..v /\ k # 0
    BY <1>2
  <2> QED  BY <1>12, <2>1
<1> DEFINE Good == {k \in 0..v :
             /\ Kindred(f, H[k], N, A, d0) /\ Rooted(H[k], d0, U[v - k])
             /\ \A x \in 1..N : x > U[v - k] => H[k].ancestor[x] = f.ancestor[x]}
<1>14. 0 \in Good
  <2>1. v - 0 = v /\ 0 \in 0..v
    BY <1>2
  <2>2. Rooted(f, d0, U[v])
    BY <1>2 DEF Rooted
  <2> QED  BY <1>13, <2>1, <2>2 DEF Kindred
<1>15. ASSUME NEW k \in 1..v, k - 1 \in Good PROVE k \in Good
  <2> DEFINE w == U[v - k]
             a == U[v - (k - 1)]
             g == H[k - 1]
  <2>1. /\ Kindred(f, g, N, A, d0) /\ Rooted(g, d0, a)
        /\ \A x \in 1..N : x > a => g.ancestor[x] = f.ancestor[x]
    BY <1>15
  <2>2. /\ v - (k - 1) \in 1..v /\ (v - (k - 1)) - 1 = v - k /\ k \in 0..v /\ k - 1 \in 0..v
    BY <1>2
  <2>3. IF w <= d0 THEN a = w ELSE a = f.ancestor[w] /\ a < w
    BY <1>2, <2>2
  <2>4. w \in 1..N /\ a \in 1..N
    BY <1>3, <2>2
  <2>5. H[k] = CompressOne(g, w)
    BY <1>13
  <2> HIDE DEF w, a, g, Good
  <2>6. /\ Kindred(g, H[k], N, A, d0)
        /\ \A x \in 1..N : x # w => H[k].ancestor[x] = g.ancestor[x]
        /\ w > d0 /\ Rooted(g, d0, g.ancestor[w]) => Rooted(H[k], d0, w)
    BY <2>1, <2>4, <2>5, CompressOneKeeps DEF Kindred
  <2>7. Kindred(f, H[k], N, A, d0)
    BY <2>1, <2>6 DEF Kindred
  <2>8. ASSUME NEW x \in 1..N, x > w PROVE H[k].ancestor[x] = f.ancestor[x]
    <3>1. x > a /\ x # w
      BY <1>2, <2>3, <2>4, <2>8
    <3> QED  BY <2>1, <2>6, <3>1
  <2>9. Rooted(H[k], d0, w)
    <3>1. CASE w <= d0
      BY <3>1 DEF Rooted
    <3>2. CASE ~(w <= d0)
      <4>1. w > d0 /\ w > a
        BY <1>2, <2>3, <2>4, <3>2
      <4>2. g.ancestor[w] = a
        BY <2>1, <2>3, <2>4, <3>2, <4>1
      <4> QED  BY <2>1, <2>6, <4>1, <4>2
    <3> QED  BY <3>1, <3>2
  <2> QED  BY <2>2, <2>7, <2>8, <2>9 DEF Good, w
<1> HIDE DEF Good
<1>16. v \in Good
  <2>1. \A k \in 0..v : k \in Good
    BY <1>2, <1>14, <1>15, UpTo0
  <2> QED  BY <1>2, <2>1
<1>17. Kindred(f, H[v], N, A, d0) /\ Rooted(H[v], d0, U[v - v])
  BY <1>16 DEF Good
<1>18. U[v - v] = v
  BY <1>2
<1> QED  BY <1>11, <1>17, <1>18

-----------------------------------------------------------------------------
(* The semidominator of d0 itself, while its predecessors are gone through *)
(* one by one: done is the set of those seen so far.                       *)
SemiFrom(f, g, N, A, E, d0, done) ==
  /\ Forest(g, N, A, d0) /\ g.semi[d0] <= d0
  /\ \A x \in 1..N : x # d0 => g.semi[x] = f.semi[x]
  /\ \A u \in done : <<u, d0>> \in E =>
       (u <= d0 => g.semi[d0] <= u) /\ \A x \in A[u] : x > d0 => g.semi[d0] <= f.semi[x]
  /\ \/ g.semi[d0] = d0
     \/ \E u \in 1..N :
          /\ <<u, d0>> \in E
          /\ (u < d0 /\ g.semi[d0] = u) \/ \E x \in A[u] : x > d0 /\ g.semi[d0] = f.semi[x]

LEMMA SemiSet ==
  ASSUME NEW f, NEW par, NEW N, NEW A, NEW d0 \in 1..N, DFTree(par, N, A), Forest(f, N, A, d0),
         NEW h \in ForestOf(N), h.label = f.label, h.ancestor = f.ancestor,
         \A x \in 1..N : x # d0 => h.semi[x] = f.semi[x]
  PROVE  Forest(h, N, A, d0)
<1>1. \A v \in 1..N : v <= d0 => h.ancestor[v] = 0 /\ h.label[v] = v
  BY DEF Forest
<1>2. ASSUME NEW v \in 1..N, v > d0 PROVE Linked(h, A, d0, v)
  <2>1. Linked(f, A, d0, v) /\ A[v] \subseteq 1..N /\ N \in Nat
    BY <1>2, TreeFacts DEF Forest
  <2>2. f.label[v] \in 1..N /\ f.label[v] > d0
    BY <1>2, ForestFacts
  <2>3. h.semi[h.label[v]] = f.semi[f.label[v]]
    BY <2>1, <2>2
  <2>4. \A x \in A[v] : x > d0 => h.semi[x] = f.semi[x]
    BY <2>1
  <2> QED  BY <2>1, <2>3, <2>4 DEF Linked
<1> QED  BY <1>1, <1>2 DEF Forest

LEMMA LowerKeeps ==
  ASSUME NEW f, NEW g, NEW par, NEW N, NEW A, NEW E, NEW d0 \in 1..N, DFTree(par, N, A),
         NEW done \in SUBSET (1..N), SemiFrom(f, g, N, A, E, d0, done),
         f.semi \in [1..N -> 1..N], \A v \in 1..N : v < d0 => f.semi[v] = v,
         NEW p \in 1..N, <<p, d0>> \in E, NEW h, h = Lower(g, d0, p)
  PROVE  SemiFrom(f, h, N, A, E, d0, done \cup {p})
<1> DEFINE c == Compress(g, p)
           s == c.semi[c.label[p]]
           e == IF s < g.semi[d0] THEN s ELSE g.semi[d0]
<1>0. /\ N \in Nat /\ d0 \in Nat /\ \A v \in 1..N : A[v] \subseteq 1..N /\ v \in Nat
      /\ \A v \in 1..N : \A u \in A[v] : u <= v
  BY TreeFacts DEF DFTree
<1>1. Kindred(g, c, N, A, d0) /\ Rooted(c, d0, p)
  BY CompressKeeps DEF SemiFrom
<1> HIDE DEF c
<1>2. Forest(c, N, A, d0) /\ c.semi = g.semi
  BY <1>1 DEF Kindred
<1>3. /\ \A v \in 1..N : c.semi[v] \in 1..N /\ c.label[v] \in 1..N
      /\ \A v \in 1..N : v > d0 => c.label[v] > d0 /\ c.ancestor[v] \in 1..N
  BY <1>2, ForestFacts
<1>4. /\ g.semi[d0] <= d0
      /\ \A x \in 1..N : x # d0 => g.semi[x] = f.semi[x]
      /\ \A u \in done : <<u, d0>> \in E =>
           (u <= d0 => g.semi[d0] <= u) /\ \A x \in A[u] : x > d0 => g.semi[d0] <= f.semi[x]
      /\ \/ g.semi[d0] = d0
         \/ \E u \in 1..N :
              /\ <<u, d0>> \in E
              /\ (u < d0 /\ g.semi[d0] = u) \/ \E x \in A[u] : x > d0 /\ g.semi[d0] = f.semi[x]
  BY DEF SemiFrom
<1>5. h = [c EXCEPT !.semi[d0] = e]
  <2>1. h = [c EXCEPT !.semi[d0] = IF s < @ THEN s ELSE @]
    BY DEF Lower, c
  <2> QED  BY <1>2, <2>1 DEF Forest, ForestOf
<1>6. s \in 1..N /\ g.semi[d0] \in 1..N
  BY <1>2, <1>3
<1>7. s = c.semi[c.label[p]] /\ s = g.semi[c.label[p]]
  BY <1>2
<1> HIDE DEF s
<1>8. e \in 1..N /\ e <= s /\ e <= g.semi[d0] /\ (e = s \/ e = g.semi[d0])
  <2>1. ASSUME NEW a \in 1..N, NEW b \in 1..N
        PROVE  LET m == IF a < b THEN a ELSE b IN
               m \in 1..N /\ m <= a /\ m <= b /\ (m = a \/ m = b)
    OBVIOUS
  <2> QED  BY <1>6, <2>1
<1> HIDE DEF e
<1>9. Forest(h, N, A, d0) /\ h.semi[d0] = e /\ \A x \in 1..N : x # d0 => h.semi[x] = f.semi[x]
  <2>1. Forest(h, N, A, d0) /\ h.semi[d0] = e /\ \A x \in 1..N : x # d0 => h.semi[x] = c.semi[x]
    <3>1. c \in ForestOf(N)
      BY <1>2 DEF Forest
    <3>2. /\ h.semi = [c.semi EXCEPT ![d0] = e] /\ h.label = c.label /\ h.ancestor = c.ancestor
          /\ h = [semi |-> h.semi, label |-> h.label, ancestor |-> h.ancestor]
      BY <1>5, <3>1 DEF ForestOf
    <3>3. /\ c.semi \in [1..N -> 1..N] /\ c.label \in [1..N -> 1..N]
          /\ c.ancestor \in [1..N -> 0..N]
      BY <3>1 DEF ForestOf
    <3>4. /\ h.semi \in [1..N -> 1..N] /\ h.semi[d0] = e
          /\ \A x \in 1..N : x # d0 => h.semi[x] = c.semi[x]
      <4>1. ASSUME NEW F \in [1..N -> 1..N], NEW G, G = [F EXCEPT ![d0] = e]
            PROVE  /\ G \in [1..N -> 1..N] /\ G[d0] = e
                   /\ \A x \in 1..N : x # d0 => G[x] = F[x]
        BY <1>8, <4>1
      <4> QED  BY <3>2, <3>3, <4>1
    <3>5. h \in ForestOf(N)
      BY <3>2, <3>3, <3>4 DEF ForestOf
    <3>6. Forest(h, N, A, d0)
      <4>1. h.label = c.label /\ h.ancestor = c.ancestor
        BY <3>2
      <4>2. DFTree(par, N, A) /\ d0 \in 1..N /\ Forest(c, N, A, d0)
        BY <1>2
      <4>3. \A x \in 1..N : x # d0 => h.semi[x] = c.semi[x]
        BY <3>4
      <4> QED  BY ONLY <4>1, <4>2, <4>3, <3>5, SemiSet
    <3> QED  BY <3>4, <3>6
  <2> QED  BY <1>2, <1>4, <2>1
<1>10. /\ p <= d0 => s <= p
       /\ \A x \in A[p] : x > d0 => s <= f.semi[x]
       /\ \/ s = g.semi[d0]
          \/ (p < d0 /\ s = p)
          \/ \E x \in A[p] : x > d0 /\ s = f.semi[x]
  <2>1. CASE p <= d0
    <3>1. c.label[p] = p
      BY <1>2, <2>1 DEF Forest
    <3>2. s = g.semi[p]
      BY <1>7, <3>1
    <3>3. s <= p /\ (s = g.semi[d0] \/ (p < d0 /\ s = p))
      <4>1. CASE p = d0
        BY <1>4, <3>2, <4>1
      <4>2. CASE p # d0
        <5>1. p < d0 /\ s = f.semi[p]
          BY <1>0, <1>4, <2>1, <3>2, <4>2
        <5>2. s = p
          BY <5>1
        <5> QED  BY <1>0, <5>1, <5>2
      <4> QED  BY <4>1, <4>2
    <3>4. \A x \in A[p] : ~(x > d0)
      BY <1>0, <2>1
    <3> QED  BY <3>3, <3>4
  <2>2. CASE p > d0
    <3>1. Linked(c, A, d0, p) /\ c.ancestor[p] <= d0 /\ c.ancestor[p] \in 1..N
      <4>1. c.ancestor[p] \in 1..N
        BY <1>3, <2>2
      <4>2. c.ancestor[p] <= d0
        BY <1>0, <1>1, <2>2 DEF Rooted
      <4>3. Linked(c, A, d0, p)
        BY <1>2, <2>2 DEF Forest
      <4> QED  BY <4>1, <4>2, <4>3
    <3>2. /\ c.label[p] \in A[p] /\ c.label[p] > d0 /\ c.label[p] \in 1..N
          /\ \A x \in A[p] : x > c.ancestor[p] => s <= c.semi[x]
      BY <1>3, <1>7, <2>2, <3>1 DEF Linked
    <3>3. ASSUME NEW x \in A[p], x > d0 PROVE s <= f.semi[x]
      <4>1. x \in 1..N /\ x > c.ancestor[p] /\ x # d0
        <5>1. x \in 1..N /\ x \in Nat
          BY <1>0
        <5>2. c.ancestor[p] \in Nat
          BY <3>1
        <5>3. d0 \in Nat /\ x > d0 /\ c.ancestor[p] <= d0
          BY <1>0, <3>1, <3>3
        <5> QED  BY ONLY <5>1, <5>2, <5>3
      <4>2. c.semi[x] = f.semi[x]
        BY <1>2, <1>4, <4>1
      <4> QED  BY <3>2, <4>1, <4>2
    <3>4. s = f.semi[c.label[p]]
      <4>1. c.label[p] # d0
        BY <1>0, <3>2
      <4> QED  BY <1>4, <1>7, <3>2, <4>1
    <3>5. ~(p <= d0)
      BY <1>0, <2>2
    <3> QED  BY <3>2, <3>3, <3>4, <3>5
  <2> QED  BY <1>0, <2>1, <2>2
<1>11. ASSUME NEW u \in done \cup {p}, <<u, d0>> \in E
       PROVE  (u <= d0 => e <= u) /\ \A x \in A[u] : x > d0 => e <= f.semi[x]
  <2>1. u \in 1..N
    OBVIOUS
  <2>2. \A x \in A[u] : x \in 1..N /\ f.semi[x] \in 1..N
    BY <1>0, <2>1
  <2>3. CASE u = p
    <3>1. u <= d0 => e <= u
      BY <1>0, <1>6, <1>8, <1>10, <2>3
    <3>2. \A x \in A[u] : x > d0 => e <= f.semi[x]
      <4> SUFFICES ASSUME NEW x \in A[u], x > d0 PROVE e <= f.semi[x]
        OBVIOUS
      <4>1. s <= f.semi[x] /\ f.semi[x] \in 1..N
        BY <1>10, <2>2, <2>3
      <4> QED  BY <1>6, <1>8, <4>1
    <3> QED  BY <3>1, <3>2
  <2>4. CASE u \in done
    <3>1. (u <= d0 => g.semi[d0] <= u) /\ \A x \in A[u] : x > d0 => g.semi[d0] <= f.semi[x]
      BY <1>4, <1>11, <2>4
    <3>2. u <= d0 => e <= u
      BY <1>0, <1>6, <1>8, <2>1, <3>1
    <3>3. \A x \in A[u] : x > d0 => e <= f.semi[x]
      <4> SUFFICES ASSUME NEW x \in A[u], x > d0 PROVE e <= f.semi[x]
        OBVIOUS
      <4>1. g.semi[d0] <= f.semi[x] /\ f.semi[x] \in 1..N
        BY <2>2, <3>1
      <4> QED  BY <1>6, <1>8, <4>1
    <3> QED  BY <3>2, <3>3
  <2> QED  BY <2>3, <2>4
<1>12. e <= d0
  BY <1>0, <1>4, <1>6, <1>8
<1>13. \/ e = d0
       \/ \E u \in 1..N :
            /\ <<u, d0>> \in E
            /\ (u < d0 /\ e = u) \/ \E x \in A[u] : x > d0 /\ e = f.semi[x]
  <2>1. CASE e = g.semi[d0]
    BY <1>4, <2>1
  <2>2. CASE e = s /\ s # g.semi[d0]
    BY <1>10, <2>2
  <2> QED  BY <1>8, <2>1, <2>2
<1> QED  BY <1>9, <1>11, <1>12, <1>13 DEF SemiFrom

LowerAt(g, k, b) ==
  IF b \in Preds(cfg, dfs.vertex[k]) /\ dfs.dfnum[b] # 0 THEN Lower(g, k, dfs.dfnum[b]) ELSE g
SemiRec(k, H) ==
  H = [b \in 0..Len(cfg) |-> IF b = 0 THEN forest ELSE LowerAt(H[b - 1], k, b)]

LEMMA SearchedFacts ==
  ASSUME NEW g, NEW t, NEW n, NEW N, NEW A, Graph(g, n), Searched(g, t, n, N, A)
  PROVE  /\ DFTree(t.parent, N, A) /\ DFEdges(t.parent, N, A, EdgesOf(g, t.vertex, N))
         /\ N \in Nat /\ N >= 1 /\ n \in Nat /\ N = Len(t.vertex) /\ DOMAIN g = 1..n
         /\ \A u \in 1..N : t.vertex[u] \in 1..n /\ t.dfnum[t.vertex[u]] = u
         /\ \A b \in 1..n : t.dfnum[b] \in 0..N
         /\ \A b \in 1..n : t.dfnum[b] # 0 => t.dfnum[b] \in 1..N /\ t.vertex[t.dfnum[b]] = b
         /\ \A u, v \in 1..N : <<u, v>> \in EdgesOf(g, t.vertex, N) <=>
              t.vertex[u] \in Preds(g, t.vertex[v])
<1>1. /\ N = Len(t.vertex) /\ t.vertex \in Seq(1..n)
      /\ t.dfnum \in [1..n -> 0..N]
      /\ \A b \in 1..n : t.dfnum[b] # 0 => t.vertex[t.dfnum[b]] = b
      /\ \A i \in 1..N : t.dfnum[t.vertex[i]] = i
      /\ DFTree(t.parent, N, A) /\ DFEdges(t.parent, N, A, EdgesOf(g, t.vertex, N))
  BY DEF Searched
<1>2. N \in Nat /\ N >= 1 /\ n \in Nat /\ DOMAIN g = 1..n
  BY <1>1, TreeFacts, Edges
<1>3. \A u \in 1..N : t.vertex[u] \in 1..n
  <2>1. ASSUME NEW T, NEW q \in Seq(T), NEW u \in 1..Len(q) PROVE q[u] \in T
    OBVIOUS
  <2> QED  BY <1>1, <2>1
<1>4. \A b \in 1..n : t.dfnum[b] \in 0..N /\ (t.dfnum[b] # 0 => t.dfnum[b] \in 1..N)
  BY <1>1, <1>2
<1>5. \A u, v \in 1..N : <<u, v>> \in EdgesOf(g, t.vertex, N) <=>
        t.vertex[u] \in Preds(g, t.vertex[v])
  BY <1>2, <1>3 DEF EdgesOf, Preds
<1> QED  BY <1>1, <1>2, <1>3, <1>4, <1>5

LEMMA LowerAtKeeps ==
  ASSUME NEW n, Graph(cfg, n), NEW N, NEW A, Searched(cfg, dfs, n, N, A),
         NEW E, E = EdgesOf(cfg, dfs.vertex, N),
         NEW d0 \in 1..N, Forest(forest, N, A, d0), \A v \in 1..N : v <= d0 => forest.semi[v] = v,
         NEW g, NEW done \in SUBSET (1..N), SemiFrom(forest, g, N, A, E, d0, done),
         NEW b \in 1..n
  PROVE  SemiFrom(forest, LowerAt(g, d0, b), N, A, E, d0,
                  done \cup {u \in 1..N : dfs.vertex[u] = b})
<1>0. /\ DFTree(dfs.parent, N, A) /\ N \in Nat /\ d0 \in Nat
      /\ \A u \in 1..N : dfs.dfnum[dfs.vertex[u]] = u
      /\ dfs.dfnum[b] # 0 => dfs.dfnum[b] \in 1..N /\ dfs.vertex[dfs.dfnum[b]] = b
      /\ \A u, v \in 1..N : <<u, v>> \in E <=> dfs.vertex[u] \in Preds(cfg, dfs.vertex[v])
  BY SearchedFacts
<1>1. /\ forest.semi \in [1..N -> 1..N] /\ \A v \in 1..N : v < d0 => forest.semi[v] = v
  BY <1>0 DEF Forest, ForestOf
<1> DEFINE p == dfs.dfnum[b]
           S == {u \in 1..N : dfs.vertex[u] = b}
<1>2. CASE b \in Preds(cfg, dfs.vertex[d0]) /\ p # 0
  <2>1. p \in 1..N /\ <<p, d0>> \in E
    BY <1>0, <1>2
  <2>2. S = {p}
    BY <1>0, <2>1
  <2>3. LowerAt(g, d0, b) = Lower(g, d0, p)
    BY <1>2 DEF LowerAt
  <2> HIDE DEF p, S
  <2>4. SemiFrom(forest, Lower(g, d0, p), N, A, E, d0, done \cup {p})
    BY <1>0, <1>1, <2>1, LowerKeeps
  <2> QED  BY <2>2, <2>3, <2>4 DEF S
<1>3. CASE ~(b \in Preds(cfg, dfs.vertex[d0]) /\ p # 0)
  <2>1. LowerAt(g, d0, b) = g
    BY <1>3 DEF LowerAt
  <2>2. \A u \in S : <<u, d0>> \notin E
    BY <1>0, <1>3
  <2> HIDE DEF p, S
  <2>3. SemiFrom(forest, g, N, A, E, d0, done \cup S)
    BY <2>2 DEF SemiFrom
  <2> QED  BY <2>1, <2>3 DEF S
<1> QED  BY <1>2, <1>3

LEMMA SemidominatorFound ==
  ASSUME NEW n, Graph(cfg, n), Len(cfg) = n, NEW N, NEW A, Searched(cfg, dfs, n, N, A),
         NEW E, E = EdgesOf(cfg, dfs.vertex, N),
         NEW d0 \in 1..N, d0 # 1, Forest(forest, N, A, d0),
         \A v \in 1..N : v <= d0 => forest.semi[v] = v,
         NEW g, g = Semidominator(d0)
  PROVE  /\ Forest(g, N, A, d0) /\ Semi(N, A, E, g.semi, d0)
         /\ \A x \in 1..N : x # d0 => g.semi[x] = forest.semi[x]
<1> DEFINE seen(b) == {u \in 1..N : dfs.vertex[u] <= b}
           V == {h \in ForestOf(N) :
                   \E done \in SUBSET (1..N) : SemiFrom(forest, h, N, A, E, d0, done)}
           step == [p \in (1..n) \X V |-> LowerAt(p[2], d0, p[1])]
<1>0. /\ DFTree(dfs.parent, N, A) /\ DFEdges(dfs.parent, N, A, E)
      /\ N \in Nat /\ N >= 1 /\ d0 \in Nat /\ n \in Nat
      /\ \A u \in 1..N : dfs.vertex[u] \in 1..n
      /\ \A v \in 1..N : A[v] \subseteq 1..N
      /\ \A v \in 2..N : dfs.parent[v] \in 1..N /\ dfs.parent[v] < v
  BY SearchedFacts, TreeFacts
<1>1. SemiFrom(forest, forest, N, A, E, d0, {})
  BY <1>0 DEF SemiFrom
<1>2. \A h : h \in V <=> \E done \in SUBSET (1..N) : SemiFrom(forest, h, N, A, E, d0, done)
  BY DEF SemiFrom, Forest
<1> HIDE DEF V
<1>3. step \in [(1..n) \X V -> V] /\ forest \in V
  <2>1. ASSUME NEW b \in 1..n, NEW h \in V PROVE LowerAt(h, d0, b) \in V
    <3>1. PICK done \in SUBSET (1..N) : SemiFrom(forest, h, N, A, E, d0, done)
      BY <1>2
    <3>2. SemiFrom(forest, LowerAt(h, d0, b), N, A, E, d0,
                   done \cup {u \in 1..N : dfs.vertex[u] = b})
      BY <3>1, LowerAtKeeps
    <3>3. done \cup {u \in 1..N : dfs.vertex[u] = b} \in SUBSET (1..N)
      OBVIOUS
    <3> QED  BY <1>2, <3>2, <3>3
  <2>2. forest \in V
    BY <1>1, <1>2
  <2> QED  BY <2>1, <2>2
<1>4. PICK F : Follows(F, n, V, forest, step)
  <2> HIDE DEF step
  <2> QED  BY <1>0, <1>3, Recursion
<1>5. /\ F \in [0..n -> V] /\ F[0] = forest
      /\ \A b \in 1..n : F[b] = step[<<b, F[b - 1]>>]
  BY <1>4 DEF Follows
<1>6. \A b \in 1..n : F[b] = LowerAt(F[b - 1], d0, b)
  <2> SUFFICES ASSUME NEW b \in 1..n PROVE F[b] = LowerAt(F[b - 1], d0, b)
    OBVIOUS
  <2>1. b - 1 \in 0..n
    BY <1>0
  <2>2. F[b - 1] \in V
    BY <1>5, <2>1
  <2> QED  BY <1>5, <2>2
<1> HIDE DEF step
<1>7. SemiRec(d0, F)
  <2>1. \A b \in 0..n : b = 0 \/ b \in 1..n
    BY <1>0
  <2>2. F = [b \in 0..n |-> F[b]]
    BY <1>5
  <2>3. \A b \in 0..n : F[b] = IF b = 0 THEN forest ELSE LowerAt(F[b - 1], d0, b)
    BY <1>5, <1>6, <2>1
  <2>4. F = [b \in 0..n |-> IF b = 0 THEN forest ELSE LowerAt(F[b - 1], d0, b)]
    BY <2>2, <2>3
  <2> QED  BY <2>4 DEF SemiRec
<1>8. g = (CHOOSE H : SemiRec(d0, H))[n]
  BY DEF Semidominator, SemiRec, LowerAt
<1>9. PICK H : SemiRec(d0, H) /\ g = H[n]
  BY <1>7, <1>8
<1>10. \A b \in 0..n : H[b] = IF b = 0 THEN forest ELSE LowerAt(H[b - 1], d0, b)
  BY <1>9 DEF SemiRec
<1>11. H[0] = forest /\ \A b \in 1..n : H[b] = LowerAt(H[b - 1], d0, b)
  <2>1. 0 \in 0..n /\ \A b \in 1..n : b \in 0..n /\ b # 0
    BY <1>0
  <2> QED  BY <1>10, <2>1
<1> DEFINE Good == {b \in 0..n : SemiFrom(forest, H[b], N, A, E, d0, seen(b))}
<1>12. 0 \in Good
  <2>1. seen(0) = {}
    BY <1>0
  <2>2. 0 \in 0..n
    BY <1>0
  <2> QED  BY <1>1, <1>11, <2>1, <2>2
<1> HIDE DEF Good
<1>13. ASSUME NEW b \in 1..n, b - 1 \in Good PROVE b \in Good
  <2>1. SemiFrom(forest, H[b - 1], N, A, E, d0, seen(b - 1)) /\ b \in 0..n
    <3>1. b \in 0..n
      BY <1>0
    <3> QED  BY <1>13, <3>1 DEF Good
  <2>2. seen(b) = seen(b - 1) \cup {u \in 1..N : dfs.vertex[u] = b}
    <3>1. ASSUME NEW u \in 1..N
          PROVE  dfs.vertex[u] <= b <=> dfs.vertex[u] <= b - 1 \/ dfs.vertex[u] = b
      BY <1>0
    <3> QED  BY <3>1
  <2>3. H[b] = LowerAt(H[b - 1], d0, b) /\ seen(b - 1) \in SUBSET (1..N)
    BY <1>11
  <2> HIDE DEF seen
  <2>4. SemiFrom(forest, H[b], N, A, E, d0, seen(b - 1) \cup {u \in 1..N : dfs.vertex[u] = b})
    BY <2>1, <2>3, LowerAtKeeps
  <2> QED  BY <2>1, <2>2, <2>4 DEF Good
<1>14. n \in Good
  <2>1. \A b \in 0..n : b \in Good
    BY <1>0, <1>12, <1>13, UpTo0
  <2> QED  BY <1>0, <2>1
<1>15. seen(n) = 1..N
  BY <1>0
<1>16. SemiFrom(forest, g, N, A, E, d0, 1..N)
  BY <1>9, <1>14, <1>15 DEF Good
<1> HIDE DEF seen
<1>17. /\ Forest(g, N, A, d0) /\ g.semi[d0] <= d0
       /\ \A x \in 1..N : x # d0 => g.semi[x] = forest.semi[x]
       /\ \A u \in 1..N : <<u, d0>> \in E =>
            (u <= d0 => g.semi[d0] <= u) /\ \A x \in A[u] : x > d0 => g.semi[d0] <= forest.semi[x]
       /\ \/ g.semi[d0] = d0
          \/ \E u \in 1..N :
               /\ <<u, d0>> \in E
               /\ (u < d0 /\ g.semi[d0] = u) \/ \E x \in A[u] : x > d0 /\ g.semi[d0] = forest.semi[x]
  BY <1>16 DEF SemiFrom
<1>18. g.semi[d0] \in 1..N /\ g.semi[d0] # d0
  <2>1. dfs.parent[d0] \in 1..N /\ dfs.parent[d0] < d0 /\ <<dfs.parent[d0], d0>> \in E
    <3>1. d0 \in 2..N
      BY <1>0
    <3> QED  BY <1>0, <3>1 DEF DFEdges
  <2>2. g.semi[d0] <= dfs.parent[d0]
    BY <1>0, <1>17, <2>1
  <2>3. g.semi[d0] \in 1..N
    BY <1>0, <1>17, ForestFacts
  <2> QED  BY <1>0, <2>1, <2>2, <2>3
<1>19. \A u \in 1..N : \A x \in A[u] : x > d0 => g.semi[x] = forest.semi[x]
  <2> SUFFICES ASSUME NEW u \in 1..N, NEW x \in A[u], x > d0 PROVE g.semi[x] = forest.semi[x]
    OBVIOUS
  <2>1. x \in 1..N /\ x # d0
    BY <1>0
  <2> QED  BY <1>17, <2>1
<1>20. Semi(N, A, E, g.semi, d0)
  BY <1>17, <1>18, <1>19 DEF Semi
<1> QED  BY <1>17, <1>20

(* The vertex itself is linked to its parent.                              *)
LEMMA LinkKeeps ==
  ASSUME NEW f, NEW par, NEW N, NEW A, NEW d0 \in 1..N, d0 # 1, DFTree(par, N, A),
         Forest(f, N, A, d0), NEW h, h = Link(f, par[d0], d0)
  PROVE  Forest(h, N, A, d0 - 1) /\ h.semi = f.semi /\ d0 - 1 \in 1..N
<1>0. /\ N \in Nat /\ d0 \in Nat /\ d0 \in 2..N /\ d0 - 1 \in 1..N
      /\ \A v \in 1..N : A[v] \subseteq 1..N /\ v \in A[v]
      /\ par[d0] \in A[d0] /\ par[d0] \in 1..N /\ par[d0] < d0
      /\ \A u \in A[d0] : u # d0 => u <= par[d0]
  BY TreeFacts
<1>1. f \in ForestOf(N)
  BY DEF Forest
<1>2. /\ h.ancestor = [f.ancestor EXCEPT ![d0] = par[d0]] /\ h.label = f.label /\ h.semi = f.semi
      /\ h = [semi |-> h.semi, label |-> h.label, ancestor |-> h.ancestor]
  BY <1>1 DEF ForestOf, Link
<1>3. /\ f.semi \in [1..N -> 1..N] /\ f.label \in [1..N -> 1..N] /\ f.ancestor \in [1..N -> 0..N]
  BY <1>1 DEF ForestOf
<1>4. /\ h.ancestor \in [1..N -> 0..N] /\ h.ancestor[d0] = par[d0]
      /\ \A x \in 1..N : x # d0 => h.ancestor[x] = f.ancestor[x]
  <2>1. par[d0] \in 0..N
    BY <1>0
  <2> QED  BY <1>2, <1>3, <2>1
<1>5. h \in ForestOf(N)
  BY <1>2, <1>3, <1>4 DEF ForestOf
<1>6. \A v \in 1..N : v <= d0 => f.ancestor[v] = 0 /\ f.label[v] = v
  BY DEF Forest
<1>7. \A v \in 1..N : v <= d0 - 1 => h.ancestor[v] = 0 /\ h.label[v] = v
  <2> SUFFICES ASSUME NEW v \in 1..N, v <= d0 - 1 PROVE h.ancestor[v] = 0 /\ h.label[v] = v
    OBVIOUS
  <2>1. v <= d0 /\ v # d0
    BY <1>0
  <2> QED  BY <1>2, <1>4, <1>6, <2>1
<1>8. Linked(h, A, d0 - 1, d0)
  <2>1. h.label[d0] = d0
    BY <1>0, <1>2, <1>6
  <2>2. ASSUME NEW x \in A[d0], x > par[d0] PROVE x = d0
    <3>1. x \in 1..N
      BY <1>0
    <3> QED  BY <1>0, <2>2, <3>1
  <2>3. d0 > d0 - 1 /\ h.semi[d0] <= h.semi[d0]
    BY <1>0, <1>2, <1>3
  <2>4. par[d0] # d0 /\ d0 > par[d0]
    BY <1>0
  <2> QED  BY <1>0, <1>4, <2>1, <2>2, <2>3, <2>4 DEF Linked
<1>9. ASSUME NEW v \in 1..N, v > d0 - 1, v # d0 PROVE Linked(h, A, d0 - 1, v)
  <2>1. v > d0
    BY <1>0, <1>9
  <2>2. Linked(f, A, d0, v)
    BY <2>1 DEF Forest
  <2>3. \A x \in A[v] : x > d0 => x > d0 - 1
    BY <1>0
  <2> QED  BY <1>2, <1>4, <1>9, <2>2, <2>3 DEF Linked
<1> QED  BY <1>0, <1>2, <1>5, <1>7, <1>8, <1>9 DEF Forest

-----------------------------------------------------------------------------
(* A bucket is evaluated: all of it ends up right below roots.             *)
EvalAt(g, vs, v) == IF v \in vs THEN Compress(g, v) ELSE g
EvalRec(f, vs, count, H) ==
  H = [k \in 0..count |-> IF k = 0 THEN f ELSE EvalAt(H[k - 1], vs, count + 1 - k)]

LEMMA EvaluatedKeeps ==
  ASSUME NEW f, NEW par, NEW N, NEW A, NEW d0 \in 1..N, DFTree(par, N, A), Forest(f, N, A, d0),
         N = Len(dfs.vertex), NEW vs, NEW g, g = Evaluated(f, vs)
  PROVE  Kindred(f, g, N, A, d0) /\ \A v \in 1..N : v \in vs => Rooted(g, d0, v)
<1> DEFINE V == {h \in ForestOf(N) : Forest(h, N, A, d0)}
           step == [p \in (1..N) \X V |-> EvalAt(p[2], vs, N + 1 - p[1])]
<1>0. N \in Nat /\ \A k \in 1..N : N + 1 - k \in 1..N
  BY TreeFacts
<1>1. \A h : h \in V <=> Forest(h, N, A, d0)
  BY DEF Forest
<1> HIDE DEF V
<1>2. ASSUME NEW h, Forest(h, N, A, d0), NEW v \in 1..N
      PROVE  Kindred(h, EvalAt(h, vs, v), N, A, d0) /\ (v \in vs => Rooted(EvalAt(h, vs, v), d0, v))
  <2>1. CASE v \in vs
    BY <1>2, <2>1, CompressKeeps DEF EvalAt
  <2>2. CASE v \notin vs
    BY <1>2, <2>2 DEF EvalAt, Kindred
  <2> QED  BY <2>1, <2>2
<1>3. step \in [(1..N) \X V -> V] /\ f \in V
  <2>1. ASSUME NEW k \in 1..N, NEW h \in V PROVE EvalAt(h, vs, N + 1 - k) \in V
    BY <1>0, <1>1, <1>2 DEF Kindred
  <2> QED  BY <1>1, <2>1
<1>4. PICK F : Follows(F, N, V, f, step)
  <2> HIDE DEF step
  <2> QED  BY <1>0, <1>3, Recursion
<1>5. /\ F \in [0..N -> V] /\ F[0] = f
      /\ \A k \in 1..N : F[k] = step[<<k, F[k - 1]>>]
  BY <1>4 DEF Follows
<1>6. \A k \in 1..N : F[k] = EvalAt(F[k - 1], vs, N + 1 - k)
  <2> SUFFICES ASSUME NEW k \in 1..N PROVE F[k] = EvalAt(F[k - 1], vs, N + 1 - k)
    OBVIOUS
  <2>1. k - 1 \in 0..N
    BY <1>0
  <2>2. F[k - 1] \in V
    BY <1>5, <2>1
  <2> QED  BY <1>5, <2>2
<1> HIDE DEF step
<1>7. EvalRec(f, vs, N, F)
  <2>1. \A k \in 0..N : k = 0 \/ k \in 1..N
    BY <1>0
  <2>2. F = [k \in 0..N |-> F[k]]
    BY <1>5
  <2>3. \A k \in 0..N : F[k] = IF k = 0 THEN f ELSE EvalAt(F[k - 1], vs, N + 1 - k)
    BY <1>5, <1>6, <2>1
  <2>4. F = [k \in 0..N |-> IF k = 0 THEN f ELSE EvalAt(F[k - 1], vs, N + 1 - k)]
    BY <2>2, <2>3
  <2> QED  BY <2>4 DEF EvalRec
<1>8. g = (CHOOSE H : EvalRec(f, vs, N, H))[N]
  BY DEF Evaluated, EvalRec, EvalAt
<1>9. PICK H : EvalRec(f, vs, N, H) /\ g = H[N]
  BY <1>7, <1>8
<1>10. \A k \in 0..N : H[k] = IF k = 0 THEN f ELSE EvalAt(H[k - 1], vs, N + 1 - k)
  BY <1>9 DEF EvalRec
<1>11. H[0] = f /\ \A k \in 1..N : H[k] = EvalAt(H[k - 1], vs, N + 1 - k)
  <2>1. 0 \in 0..N /\ \A k \in 1..N : k \in 0..N /\ k # 0
    BY <1>0
  <2> QED  BY <1>10, <2>1
<1> DEFINE Good == {k \in 0..N :
             /\ Kindred(f, H[k], N, A, d0)
             /\ \A v \in 1..N : v > N - k /\ v \in vs => Rooted(H[k], d0, v)}
<1>12. 0 \in Good
  <2>1. 0 \in 0..N /\ \A v \in 1..N : ~(v > N - 0)
    BY <1>0
  <2> QED  BY <1>11, <2>1 DEF Kindred
<1>13. ASSUME NEW k \in 1..N, k - 1 \in Good PROVE k \in Good
  <2> DEFINE w == N + 1 - k
             h == H[k - 1]
  <2>1. /\ Kindred(f, h, N, A, d0)
        /\ \A v \in 1..N : v > N - (k - 1) /\ v \in vs => Rooted(h, d0, v)
    BY <1>13
  <2>2. /\ k \in 0..N /\ w \in 1..N
        /\ \A v \in 1..N : v > N - k => v = w \/ v > N - (k - 1)
    BY <1>0
  <2>3. H[k] = EvalAt(h, vs, w)
    BY <1>11
  <2> HIDE DEF w, h, Good
  <2>4. Kindred(h, H[k], N, A, d0) /\ (w \in vs => Rooted(H[k], d0, w))
    BY <1>2, <2>1, <2>2, <2>3 DEF Kindred
  <2>5. Kindred(f, H[k], N, A, d0)
    BY <2>1, <2>4 DEF Kindred
  <2>6. \A v \in 1..N : v > N - k /\ v \in vs => Rooted(H[k], d0, v)
    BY <2>1, <2>2, <2>4 DEF Kindred
  <2> QED  BY <2>2, <2>5, <2>6 DEF Good
<1>14. N \in Good
  <2> HIDE DEF Good
  <2>1. \A k \in 0..N : k \in Good
    BY <1>0, <1>12, <1>13, UpTo0
  <2> QED  BY <1>0, <2>1
<1>15. \A v \in 1..N : v > N - N
  BY <1>0
<1> QED  BY <1>9, <1>14, <1>15

-----------------------------------------------------------------------------
(* The loop: what is known of the vertices above d0, which it is done with.*)
(* A vertex waits in a bucket below a vertex the loop has yet to come to;  *)
(* once evaluated, what was noted for it is right.                         *)
Waiting(par, S, A, d0, b, v) ==
  v > d0 /\ S[v] = b /\ \E c \in A[v] : c <= d0 /\ c # 1 /\ par[c] = b
Right(A, S, D, d0, v) ==
  /\ \A x \in A[v] : x > S[v] => x > d0
  /\ \E u \in A[v] : LeastOnWay(A, S, v, u) /\ D[v] = IF S[u] < S[v] THEN u ELSE S[v]

Building(g, t, f, bk, dm, d0, n, N, A) ==
  /\ Graph(g, n) /\ Len(g) = n /\ Searched(g, t, n, N, A)
  /\ d0 \in 1..N /\ Forest(f, N, A, d0)
  /\ \A v \in 1..N : v <= d0 => f.semi[v] = v
  /\ \A k \in 1..N : k > d0 => Semi(N, A, EdgesOf(g, t.vertex, N), f.semi, k)
  /\ bk \in [1..N -> SUBSET (1..N)] /\ dm \in [1..N -> 0..N]
  /\ \A b \in 1..N : \A v \in bk[b] : Waiting(t.parent, f.semi, A, d0, b, v)
  /\ \A v \in 1..N : v > d0 => v \in bk[f.semi[v]] \/ Right(A, f.semi, dm, d0, v)

LEMMA ChildTowards ==
  ASSUME NEW par, NEW N, NEW A, DFTree(par, N, A), NEW v \in 1..N, NEW b \in A[v], b # v
  PROVE  \E c \in A[v] : c \in 2..N /\ par[c] = b
<1>0. /\ N \in Nat /\ N >= 1 /\ \A x \in 1..N : A[x] \subseteq 1..N /\ x \in A[x]
      /\ \A x \in 1..N : \A u \in A[x] : u <= x /\ A[u] \subseteq A[x] /\ \A k \in u..x : u \in A[k]
      /\ \A x \in 2..N : /\ par[x] \in A[x] /\ par[x] \in 1..N /\ par[x] < x
                         /\ \A u \in A[x] : u # x => u <= par[x]
  <2>1. /\ N \in Nat /\ N >= 1 /\ \A x \in 1..N : A[x] \subseteq 1..N
        /\ \A x \in 1..N : x \in A[x]
        /\ \A x \in 2..N : /\ par[x] \in A[x] /\ par[x] \in 1..N /\ par[x] < x
                           /\ \A u \in A[x] : u # x => u <= par[x]
    BY TreeFacts
  <2>2. \A x \in 1..N : \A u \in A[x] : u <= x /\ A[u] \subseteq A[x] /\ \A k \in u..x : u \in A[k]
    BY DEF DFTree
  <2> QED  BY <2>1, <2>2
<1> DEFINE T == {c \in A[v] : c > b}
<1>1. T \in SUBSET Nat /\ v \in T
  BY <1>0
<1>2. PICK c \in T : \A y \in T : c <= y
  <2> HIDE DEF T
  <2> QED  BY <1>1, Least
<1>3. c \in A[v] /\ c > b /\ c \in 2..N /\ c \in 1..N /\ c <= v /\ b \in 1..N
  BY <1>0
<1>4. par[c] \in A[v] /\ par[c] \in 1..N /\ par[c] < c
  BY <1>0, <1>3
<1>5. par[c] <= b
  <2>1. par[c] \notin T
    BY <1>2, <1>3, <1>4
  <2> QED  BY <1>3, <1>4, <2>1
<1>6. b \in A[c] /\ b # c
  <2>1. c \in b..v
    BY <1>0, <1>3
  <2> QED  BY <1>0, <1>3, <2>1
<1>7. b <= par[c]
  BY <1>0, <1>3, <1>6
<1> QED  BY <1>3, <1>4, <1>5, <1>7

\* What is above k alone decides whether k has its semidominator.
LEMMA SemiSame ==
  ASSUME NEW par, NEW N, NEW A, NEW E, NEW S, NEW S2, DFTree(par, N, A), NEW d0 \in 1..N,
         \A x \in 1..N : x # d0 => S2[x] = S[x],
         NEW k \in 1..N, k > d0, Semi(N, A, E, S, k)
  PROVE  Semi(N, A, E, S2, k)
<1>0. N \in Nat /\ \A v \in 1..N : A[v] \subseteq 1..N
  BY TreeFacts
<1>1. S2[k] = S[k] /\ \A u \in 1..N : \A x \in A[u] : x > k => S2[x] = S[x]
  <2>1. \A x \in 1..N : x > k => x # d0
    BY <1>0
  <2> QED  BY <1>0, <2>1
<1> QED  BY <1>1 DEF Semi

LEMMA BucketRight ==
  ASSUME NEW f, NEW par, NEW N, NEW A, NEW d0 \in 1..N, d0 # 1, DFTree(par, N, A),
         Forest(f, N, A, d0 - 1), NEW v \in 1..N, v = d0 \/ v > d0,
         f.semi[v] = par[d0], d0 \in A[v], Rooted(f, d0 - 1, v), NEW D,
         D[v] = IF f.semi[f.label[v]] < f.semi[v] THEN f.label[v] ELSE par[d0]
  PROVE  Right(A, f.semi, D, d0 - 1, v)
<1> DEFINE p == par[d0]
           r == f.ancestor[v]
           u == f.label[v]
<1>0. /\ N \in Nat /\ d0 \in Nat /\ d0 \in 2..N /\ d0 - 1 \in 1..N
      /\ \A x \in 1..N : A[x] \subseteq 1..N
      /\ p \in 1..N /\ p < d0 /\ \A x \in A[d0] : x # d0 => x <= p
      /\ \A x \in 1..N : \A y \in A[x] : \A k \in y..x : y \in A[k]
  BY TreeFacts DEF DFTree
<1>1. v > d0 - 1 /\ v >= d0 /\ ~(v <= d0 - 1)
  BY <1>0
<1>2. Linked(f, A, d0 - 1, v)
  BY <1>1 DEF Forest
<1>3. r \in A[v] /\ u \in A[v] /\ u > r /\ r <= d0 - 1
      /\ \A x \in A[v] : x > r => x > d0 - 1 /\ f.semi[u] <= f.semi[x]
  BY <1>1, <1>2 DEF Linked, Rooted
<1>4. r \in 1..N /\ u \in 1..N
  BY <1>0, <1>3
<1> HIDE DEF r, u, p
<1>5. r <= p
  <2>1. d0 \in r..v /\ r # d0
    BY <1>0, <1>1, <1>3, <1>4
  <2>2. r \in A[d0]
    BY <1>0, <1>3, <2>1
  <2> QED  BY <1>0, <2>1, <2>2
<1>6. ASSUME NEW x \in A[v], x > p PROVE x > d0 - 1 /\ f.semi[u] <= f.semi[x]
  <2>1. x \in 1..N /\ x > r
    BY <1>0, <1>4, <1>5, <1>6
  <2> QED  BY <1>3, <2>1
<1>7. u > p
  <2>1. u > d0 - 1
    BY <1>3
  <2> QED  BY <1>0, <1>4, <2>1
<1>8. f.semi[v] = p /\ D[v] = IF f.semi[u] < f.semi[v] THEN u ELSE f.semi[v]
  BY DEF p, u
<1> QED  BY <1>3, <1>6, <1>7, <1>8 DEF Right, LeastOnWay

LEMMA VertexStep ==
  ASSUME NEW n, NEW N, NEW A, Building(cfg, dfs, forest, bucket, dom, d, n, N, A), d # 1,
         NEW f2, NEW b2, NEW m2, f2 = forest', b2 = bucket', m2 = dom', Vertex
  PROVE  Building(cfg, dfs, f2, b2, m2, d - 1, n, N, A)
<1> DEFINE E == EdgesOf(cfg, dfs.vertex, N)
           par == dfs.parent
           p == par[d]
           semi == Semidominator(d)
           linked == Link(semi, p, d)
           S == f2.semi
           b == linked.semi[d]
           filled == [bucket EXCEPT ![b] = @ \cup {d}]
<1>1. /\ Graph(cfg, n) /\ Len(cfg) = n /\ Searched(cfg, dfs, n, N, A)
      /\ d \in 1..N /\ Forest(forest, N, A, d)
      /\ \A v \in 1..N : v <= d => forest.semi[v] = v
      /\ \A k \in 1..N : k > d => Semi(N, A, E, forest.semi, k)
      /\ bucket \in [1..N -> SUBSET (1..N)] /\ dom \in [1..N -> 0..N]
      /\ \A c \in 1..N : \A v \in bucket[c] : Waiting(par, forest.semi, A, d, c, v)
      /\ \A v \in 1..N : v > d => v \in bucket[forest.semi[v]] \/ Right(A, forest.semi, dom, d, v)
  BY DEF Building
<1>2. /\ DFTree(par, N, A) /\ DFEdges(par, N, A, E) /\ N \in Nat /\ N = Len(dfs.vertex)
  BY <1>1, SearchedFacts
<1>3. /\ d \in Nat /\ d \in 2..N /\ d - 1 \in 1..N
      /\ \A x \in 1..N : A[x] \subseteq 1..N /\ x \in A[x]
      /\ \A x \in 1..N : \A y \in A[x] : y <= x /\ \A k \in y..x : y \in A[k]
      /\ \A x \in 2..N : par[x] \in A[x] /\ par[x] \in 1..N /\ par[x] < x
      /\ \A x \in A[d] : x # d => x <= p
  <2>1. /\ N \in Nat /\ \A x \in 1..N : A[x] \subseteq 1..N
        /\ \A x \in 1..N : x \in A[x]
        /\ \A x \in 2..N : /\ par[x] \in A[x] /\ par[x] \in 1..N /\ par[x] < x
                           /\ \A u \in A[x] : u # x => u <= par[x]
    BY <1>2, TreeFacts
  <2>2. \A x \in 1..N : \A y \in A[x] : y <= x /\ \A k \in y..x : y \in A[k]
    BY <1>2 DEF DFTree
  <2>3. d \in Nat /\ d \in 2..N /\ d - 1 \in 1..N
    BY <1>1, <2>1
  <2> QED  BY <2>1, <2>2, <2>3
<1>4. /\ f2 = Evaluated(linked, filled[p])
      /\ b2 = [filled EXCEPT ![p] = {}]
      /\ m2 = [v \in DOMAIN dom |->
                 IF v \notin filled[p] THEN dom[v]
                 ELSE IF f2.semi[f2.label[v]] < f2.semi[v] THEN f2.label[v] ELSE p]
  <2>0. bucket' = [filled EXCEPT ![p] = {}]
    BY Zenon DEF Vertex
  <2>1. forest' = Evaluated(linked, filled[p])
    BY Zenon DEF Vertex
  <2>2. dom' = [v \in DOMAIN dom |->
                  IF v \notin filled[p] THEN dom[v]
                  ELSE IF Evaluated(linked, filled[p]).semi[Evaluated(linked, filled[p]).label[v]]
                            < Evaluated(linked, filled[p]).semi[v]
                       THEN Evaluated(linked, filled[p]).label[v] ELSE p]
    BY Zenon DEF Vertex
  <2> HIDE DEF linked, filled, p
  <2> QED  BY <2>0, <2>1, <2>2, Zenon
<1> HIDE DEF E
<1>5. /\ Forest(semi, N, A, d) /\ Semi(N, A, E, semi.semi, d)
      /\ \A x \in 1..N : x # d => semi.semi[x] = forest.semi[x]
  BY <1>1, SemidominatorFound DEF E
<1> HIDE DEF semi, par
<1>6. Forest(linked, N, A, d - 1) /\ linked.semi = semi.semi
  BY <1>1, <1>2, <1>5, LinkKeeps
<1> HIDE DEF linked, filled
<1>7. Kindred(linked, f2, N, A, d - 1) /\ \A v \in 1..N : v \in filled[p] => Rooted(f2, d - 1, v)
  BY <1>2, <1>3, <1>4, <1>6, EvaluatedKeeps
<1>8. Forest(f2, N, A, d - 1) /\ S = semi.semi /\ S = linked.semi
  BY <1>6, <1>7 DEF Kindred
<1>9. \A x \in 1..N : x # d => S[x] = forest.semi[x]
  BY <1>5, <1>8
<1>10. \A k \in 1..N : k > d - 1 => Semi(N, A, E, S, k)
  <2> SUFFICES ASSUME NEW k \in 1..N, k > d - 1 PROVE Semi(N, A, E, S, k)
    OBVIOUS
  <2>1. CASE k = d
    BY <1>5, <1>8, <2>1
  <2>2. CASE k # d
    <3>1. k > d
      BY <1>3, <2>2
    <3>2. Semi(N, A, E, forest.semi, k)
      BY <1>1, <3>1
    <3> QED  BY <1>1, <1>2, <1>9, <3>1, <3>2, SemiSame
  <2> QED  BY <2>1, <2>2
<1>11. \A k \in 1..N : k >= d => S[k] \in A[k] /\ S[k] < k /\ S[k] \in 1..N
  <2>1. \A k \in d..N : Semi(N, A, E, S, k)
    BY <1>3, <1>10
  <2>2. \A k \in d..N : S[k] \in A[k] /\ S[k] < k /\ S[k] \in 1..N
    <3> HIDE DEF S, p
    <3>1. d >= 2 /\ d \in Nat
      BY <1>3
    <3>2. DFTree(par, N, A) /\ DFEdges(par, N, A, E)
      BY <1>2
    <3> QED  BY ONLY <2>1, <3>1, <3>2, SemiAbove
  <2> QED  BY <1>2, <1>3, <2>2
<1>12. b = S[d] /\ b \in A[d] /\ b < d /\ b \in 1..N /\ p \in 1..N /\ p < d
  BY <1>1, <1>3, <1>8, <1>11
<1> HIDE DEF S, b, p
<1>13. /\ filled \in [1..N -> SUBSET (1..N)] /\ filled[b] = bucket[b] \cup {d}
       /\ \A c \in 1..N : c # b => filled[c] = bucket[c]
       /\ b2 \in [1..N -> SUBSET (1..N)] /\ b2[p] = {}
       /\ \A c \in 1..N : c # p => b2[c] = filled[c]
  <2>1. /\ filled \in [1..N -> SUBSET (1..N)] /\ filled[b] = bucket[b] \cup {d}
        /\ \A c \in 1..N : c # b => filled[c] = bucket[c]
    BY <1>1, <1>12 DEF filled
  <2> QED  BY <2>1, <1>4, <1>12
<1>14. \A c \in 1..N : \A v \in filled[c] :
         v \in 1..N /\ v >= d /\ S[v] = c /\ ((v = d /\ c = b) \/ v \in bucket[c])
  <2> SUFFICES ASSUME NEW c \in 1..N, NEW v \in filled[c]
      PROVE  v \in 1..N /\ v >= d /\ S[v] = c /\ ((v = d /\ c = b) \/ v \in bucket[c])
    OBVIOUS
  <2>1. v \in 1..N /\ ((v = d /\ c = b) \/ v \in bucket[c])
    BY <1>13
  <2>2. CASE v = d /\ c = b
    BY <1>3, <1>12, <2>1, <2>2
  <2>3. CASE v \in bucket[c]
    <3>1. v > d /\ forest.semi[v] = c
      BY <1>1, <2>3 DEF Waiting
    <3> QED  BY <1>3, <1>9, <2>1, <3>1
  <2> QED  BY <2>1, <2>2, <2>3
<1>15. ASSUME NEW c \in 1..N, NEW v \in b2[c] PROVE Waiting(par, S, A, d - 1, c, v)
  <2>1. c # p /\ v \in filled[c]
    BY <1>13, <1>15
  <2>2. v \in 1..N /\ v >= d /\ S[v] = c /\ ((v = d /\ c = b) \/ v \in bucket[c])
    BY <1>14, <2>1
  <2>3. v > d - 1
    BY <1>3, <2>2
  <2>4. CASE v = d /\ c = b
    <3>1. PICK e \in A[d] : e \in 2..N /\ par[e] = b
      <4>1. DFTree(par, N, A) /\ d \in 1..N /\ b \in A[d] /\ b # d
        BY <1>1, <1>2, <1>3, <1>12
      <4> QED  BY ONLY <4>1, ChildTowards
    <3>2. e # d
      BY <2>1, <2>4, <3>1 DEF p
    <3>3. e <= d - 1 /\ e # 1
      BY <1>1, <1>3, <3>1, <3>2
    <3> QED  BY <2>2, <2>3, <2>4, <3>1, <3>3 DEF Waiting
  <2>5. CASE v \in bucket[c]
    <3>1. PICK e \in A[v] : e <= d /\ e # 1 /\ par[e] = c
      BY <1>1, <2>5 DEF Waiting
    <3>2. e # d /\ e \in 1..N
      BY <1>3, <2>1, <2>2, <3>1 DEF p
    <3>3. e <= d - 1
      BY <1>3, <3>1, <3>2
    <3> QED  BY <2>2, <2>3, <3>1, <3>3 DEF Waiting
  <2> QED  BY <2>2, <2>4, <2>5
<1>16. DOMAIN dom = 1..N
  BY <1>1
<1>17. ASSUME NEW v \in 1..N, v > d - 1 PROVE v \in b2[S[v]] \/ Right(A, S, m2, d - 1, v)
  <2>1. v = d \/ v > d
    BY <1>3, <1>17
  <2>2. CASE v \in filled[p]
    <3>1. S[v] = p /\ ((v = d /\ p = b) \/ v \in bucket[p])
      BY <1>12, <1>14, <2>2
    <3>2. d \in A[v]
      <4>1. CASE v = d
        BY <1>3, <4>1
      <4>2. CASE v # d
        <5>1. PICK e \in A[v] : e <= d /\ e # 1 /\ par[e] = p
          BY <1>1, <1>12, <3>1, <4>2 DEF Waiting
        <5>2. e \in 1..N /\ e \in 2..N /\ p < e
          BY <1>3, <5>1
        <5>3. e = d
          <6> SUFFICES ASSUME e # d PROVE FALSE
            OBVIOUS
          <6>1. d \in e..v
            BY <1>3, <2>1, <5>1, <5>2
          <6>2. e \in A[d]
            BY <1>3, <5>1, <6>1
          <6>3. e <= p
            BY <1>3, <6>2
          <6> QED  BY <1>12, <5>2, <6>3
        <5> QED  BY <5>1, <5>3
      <4> QED  BY <4>1, <4>2
    <3>3. m2[v] = IF S[f2.label[v]] < S[v] THEN f2.label[v] ELSE p
      BY <1>4, <1>16, <2>2 DEF S
    <3>4. Rooted(f2, d - 1, v)
      BY <1>7, <2>2
    <3>5. Right(A, f2.semi, m2, d - 1, v)
      BY <1>1, <1>2, <1>8, <2>1, <3>1, <3>2, <3>3, <3>4, BucketRight DEF S, p
    <3> QED  BY <3>5 DEF S
  <2>3. CASE v \notin filled[p]
    <3>1. CASE v = d
      <4>1. v \in filled[b] /\ b # p
        BY <1>12, <1>13, <2>3, <3>1
      <4> QED  BY <1>12, <1>13, <3>1, <4>1
    <3>2. CASE v > d /\ v \in bucket[forest.semi[v]]
      <4>1. v # d /\ S[v] = forest.semi[v] /\ S[v] \in 1..N
        BY <1>3, <1>9, <1>11, <3>2
      <4>2. v \in filled[S[v]]
        BY <1>13, <3>2, <4>1
      <4> QED  BY <1>13, <2>3, <4>1, <4>2
    <3>3. CASE v > d /\ Right(A, forest.semi, dom, d, v)
      <4>1. v # d /\ S[v] = forest.semi[v] /\ m2[v] = dom[v]
        BY <1>3, <1>4, <1>9, <1>16, <2>3, <3>3
      <4>2. \A x \in A[v] : x > S[v] => x > d /\ x > d - 1 /\ S[x] = forest.semi[x]
        <5> SUFFICES ASSUME NEW x \in A[v], x > S[v]
            PROVE  x > d /\ x > d - 1 /\ S[x] = forest.semi[x]
          OBVIOUS
        <5>1. x > d /\ x \in 1..N
          BY <1>3, <3>3, <4>1 DEF Right
        <5>2. x # d /\ x > d - 1
          BY <1>3, <5>1
        <5> QED  BY <1>9, <5>1, <5>2
      <4>3. PICK u \in A[v] : /\ LeastOnWay(A, forest.semi, v, u)
                              /\ dom[v] = IF forest.semi[u] < forest.semi[v] THEN u
                                          ELSE forest.semi[v]
        BY <3>3 DEF Right
      <4>4. u > S[v] /\ S[u] = forest.semi[u]
        BY <4>1, <4>2, <4>3 DEF LeastOnWay
      <4>5. LeastOnWay(A, S, v, u)
        BY <4>1, <4>2, <4>3, <4>4 DEF LeastOnWay
      <4> QED  BY <4>1, <4>2, <4>3, <4>4, <4>5 DEF Right
    <3> QED  BY <1>1, <2>1, <3>1, <3>2, <3>3
  <2> QED  BY <2>2, <2>3
<1>18. m2 \in [1..N -> 0..N]
  <2>1. \A v \in 1..N : f2.label[v] \in 0..N /\ dom[v] \in 0..N /\ p \in 0..N
    <3>1. f2.label \in [1..N -> 1..N]
      BY <1>8 DEF Forest, ForestOf
    <3>2. 1..N \subseteq 0..N
      BY <1>2
    <3> QED  BY <1>1, <1>12, <3>1, <3>2
  <2> QED  BY <1>4, <1>16, <2>1
<1>19. \A v \in 1..N : v <= d - 1 => S[v] = v
  <2> SUFFICES ASSUME NEW v \in 1..N, v <= d - 1 PROVE S[v] = v
    OBVIOUS
  <2>1. v # d /\ v <= d
    BY <1>3
  <2> QED  BY <1>1, <1>9, <2>1
<1> QED
  BY <1>1, <1>3, <1>8, <1>10, <1>13, <1>15, <1>17, <1>18, <1>19 DEF Building, S, E, par

-----------------------------------------------------------------------------
(* In increasing number, what is noted for a vertex gives its dominator.   *)
Chase(h, S, v) == IF h[v] # S[v] THEN [h EXCEPT ![v] = h[h[v]]] ELSE h
ChaseRec(D0, S, N, H) ==
  H = [v \in 0..N |-> IF v = 0 THEN D0 ELSE Chase(H[v - 1], S, v)]

Chased(D0, S, N) == (CHOOSE H : ChaseRec(D0, S, N, H))[N]

Resolved(A, S, D, k) ==
  \A v \in 2..k : \E u \in A[v] : LeastOnWay(A, S, v, u) /\ D[v] = IF S[u] < S[v] THEN D[u] ELSE S[v]

Noted(N, A, S, D) ==
  \A v \in 2..N : \E u \in A[v] : LeastOnWay(A, S, v, u) /\ D[v] = IF S[u] < S[v] THEN u ELSE S[v]
AsNoted(N, D, D0, k) == \A v \in k..N : D[v] = D0[v]

LEMMA ResolveOne ==
  ASSUME NEW par, NEW N, NEW A, DFTree(par, N, A), NEW S, S \in [1..N -> 1..N], S[1] = 1,
         NEW D0 \in [1..N -> 1..N], NEW k \in 1..N, NEW D \in [1..N -> 1..N], D[1] = 1,
         Noted(N, A, S, D0), AsNoted(N, D, D0, k), Resolved(A, S, D, k - 1), NEW B, B = Chase(D, S, k)
  PROVE  /\ B \in [1..N -> 1..N] /\ B[1] = 1 /\ Resolved(A, S, B, k)
         /\ AsNoted(N, B, D0, k + 1)
<1>0. /\ N \in Nat /\ N >= 1 /\ k \in Nat /\ \A x \in 1..N : A[x] \subseteq 1..N
      /\ \A x \in 1..N : \A u \in A[x] : u <= x
  <2>1. N \in Nat /\ N >= 1 /\ \A x \in 1..N : A[x] \subseteq 1..N
    BY TreeFacts
  <2>2. \A x \in 1..N : \A u \in A[x] : u <= x
    BY DEF DFTree
  <2>3. k \in Nat
    BY <2>1
  <2> QED  BY <2>1, <2>2, <2>3
<1>1. /\ B \in [1..N -> 1..N] /\ \A x \in 1..N : x # k => B[x] = D[x]
      /\ B[k] = IF D[k] # S[k] THEN D[D[k]] ELSE D[k]
  BY DEF Chase
<1>2. B[1] = 1
  <2>1. 1 \in 1..N
    BY <1>0
  <2> QED  BY <1>1, <2>1
<1>3. \A v \in (k + 1)..N : B[v] = D0[v]
  <2>1. \A v \in (k + 1)..N : v \in 1..N /\ v # k /\ v \in k..N
    BY <1>0
  <2> QED  BY <1>1, <2>1 DEF AsNoted
<1>4. ASSUME NEW v \in 2..k
      PROVE  \E u \in A[v] : LeastOnWay(A, S, v, u) /\ B[v] = IF S[u] < S[v] THEN B[u] ELSE S[v]
  <2>0. v \in 1..N /\ v \in 2..N
    BY <1>0
  <2>1. CASE v = k
    <3>1. PICK u \in A[v] : LeastOnWay(A, S, v, u) /\ D0[v] = IF S[u] < S[v] THEN u ELSE S[v]
      BY <2>0 DEF Noted
    <3>2. u \in 1..N /\ S[u] \in 1..N /\ S[v] \in 1..N /\ D[v] = D0[v]
      <4>1. v \in k..N
        BY <1>0, <2>1
      <4> QED  BY <1>0, <2>0, <4>1 DEF AsNoted
    <3>3. u > S[v]
      BY <3>1 DEF LeastOnWay
    <3>4. CASE S[u] < S[v]
      <4>1. u # v /\ D[v] = u /\ u # S[v]
        BY <3>1, <3>2, <3>3, <3>4
      <4>2. B[v] = D[u] /\ B[u] = D[u]
        BY <1>1, <2>1, <3>2, <4>1
      <4> QED  BY <3>1, <3>4, <4>2
    <3>5. CASE ~(S[u] < S[v])
      <4>1. D[v] = S[v]
        BY <3>1, <3>2, <3>5
      <4>2. B[v] = S[v]
        BY <1>1, <2>1, <4>1
      <4> QED  BY <3>1, <3>5, <4>2
    <3> QED  BY <3>4, <3>5
  <2>2. CASE v # k
    <3>1. v \in 2..(k - 1)
      BY <1>0, <2>2
    <3>2. PICK u \in A[v] : LeastOnWay(A, S, v, u) /\ D[v] = IF S[u] < S[v] THEN D[u] ELSE S[v]
      BY <3>1 DEF Resolved
    <3>3. u \in 1..N /\ u # k
      <4>1. u \in 1..N /\ u <= v
        BY <1>0, <2>0
      <4> QED  BY ONLY <1>0, <3>1, <4>1
    <3>4. B[u] = D[u] /\ B[v] = D[v]
      BY <1>1, <2>0, <2>2, <3>3
    <3> QED  BY <3>2, <3>4
  <2> QED  BY <2>1, <2>2
<1> QED  BY <1>1, <1>2, <1>3, <1>4 DEF Resolved, AsNoted

LEMMA ResolveAll ==
  ASSUME NEW par, NEW N, NEW A, DFTree(par, N, A), NEW S, S \in [1..N -> 1..N], S[1] = 1,
         NEW D0 \in [1..N -> 1..N], D0[1] = 1,
         Noted(N, A, S, D0), NEW D, D = Chased(D0, S, N)
  PROVE  D \in [1..N -> 1..N] /\ D[1] = 1 /\ Implied(N, A, S, D)
<1> DEFINE V == [1..N -> 1..N]
           step == [p \in (1..N) \X V |-> Chase(p[2], S, p[1])]
<1>0. N \in Nat /\ N >= 1
  BY TreeFacts
<1>1. step \in [(1..N) \X V -> V]
  <2>1. ASSUME NEW k \in 1..N, NEW h \in V PROVE Chase(h, S, k) \in V
    BY DEF Chase
  <2> QED  BY <2>1
<1>2. D0 \in V
  OBVIOUS
<1>3. PICK F : Follows(F, N, V, D0, step)
  <2> HIDE DEF step, V
  <2> QED  BY <1>0, <1>1, <1>2, Recursion
<1>4. /\ F \in [0..N -> V] /\ F[0] = D0
      /\ \A k \in 1..N : F[k] = step[<<k, F[k - 1]>>]
  BY <1>3 DEF Follows
<1> HIDE DEF V
<1>5. \A k \in 1..N : F[k] = Chase(F[k - 1], S, k)
  <2> SUFFICES ASSUME NEW k \in 1..N PROVE F[k] = Chase(F[k - 1], S, k)
    OBVIOUS
  <2>1. k - 1 \in 0..N
    BY <1>0
  <2>2. F[k - 1] \in V
    BY <1>4, <2>1
  <2> QED  BY <1>4, <2>2
<1> HIDE DEF step
<1>6. ChaseRec(D0, S, N, F)
  <2>1. \A k \in 0..N : k = 0 \/ k \in 1..N
    BY <1>0
  <2>2. F = [k \in 0..N |-> F[k]]
    BY <1>4
  <2>3. \A k \in 0..N : F[k] = IF k = 0 THEN D0 ELSE Chase(F[k - 1], S, k)
    BY <1>4, <1>5, <2>1
  <2>4. F = [k \in 0..N |-> IF k = 0 THEN D0 ELSE Chase(F[k - 1], S, k)]
    BY <2>2, <2>3
  <2> QED  BY <2>4 DEF ChaseRec
<1>7. PICK H : ChaseRec(D0, S, N, H) /\ D = H[N]
  BY <1>6 DEF Chased
<1>8. \A k \in 0..N : H[k] = IF k = 0 THEN D0 ELSE Chase(H[k - 1], S, k)
  BY <1>7 DEF ChaseRec
<1>9. H[0] = D0 /\ \A k \in 1..N : H[k] = Chase(H[k - 1], S, k)
  <2>1. 0 \in 0..N /\ \A k \in 1..N : k \in 0..N /\ k # 0
    BY <1>0
  <2> QED  BY <1>8, <2>1
<1> DEFINE Good == {k \in 0..N : /\ H[k] \in [1..N -> 1..N] /\ H[k][1] = 1 /\ Resolved(A, S, H[k], k)
                                 /\ AsNoted(N, H[k], D0, k + 1)}
<1>10. 0 \in Good
  <2>1. 0 \in 0..N /\ 2..0 = {}
    BY <1>0
  <2> QED  BY <1>9, <2>1 DEF Resolved, AsNoted
<1>11. ASSUME NEW k \in 1..N, k - 1 \in Good PROVE k \in Good
  <2> DEFINE h == H[k - 1]
             g == H[k]
  <2>1. k \in 0..N /\ (k - 1) + 1 = k
    BY <1>0
  <2>2. /\ h \in [1..N -> 1..N] /\ h[1] = 1 /\ Resolved(A, S, h, k - 1)
        /\ AsNoted(N, h, D0, k) /\ g = Chase(h, S, k)
    BY <1>9, <1>11, <2>1
  <2>3. /\ Noted(N, A, S, D0) /\ DFTree(par, N, A) /\ S \in [1..N -> 1..N] /\ S[1] = 1
        /\ D0 \in [1..N -> 1..N] /\ k \in 1..N
    OBVIOUS
  <2> HIDE DEF h, g
  <2>4. /\ g \in [1..N -> 1..N] /\ g[1] = 1 /\ Resolved(A, S, g, k)
        /\ AsNoted(N, g, D0, k + 1)
    BY ONLY <2>2, <2>3, ResolveOne, ZenonT(40)
  <2> QED  BY <2>1, <2>4 DEF g
<1>12. N \in Good
  <2> HIDE DEF Good
  <2>1. \A k \in 0..N : k \in Good
    BY <1>0, <1>10, <1>11, UpTo0
  <2> QED  BY <1>0, <2>1
<1> QED  BY <1>7, <1>12 DEF Resolved, Implied

Immediate(g, im) ==
  /\ DOMAIN im = DOMAIN g /\ im[1] = 1
  /\ \A b \in DOMAIN g \ {1} :
       LET above == {a \in Reachable(g) \ {b} : Dominates(g, a, b)} IN
       IF b \notin Reachable(g) THEN im[b] = 0
       ELSE im[b] \in above /\ \A a \in above : Dominates(g, a, im[b])

LEMMA ImmediateFromNumbers ==
  ASSUME NEW g, NEW t, NEW n, NEW N, NEW A, Graph(g, n), Searched(g, t, n, N, A), NEW S,
         \A k \in 2..N : Semi(N, A, EdgesOf(g, t.vertex, N), S, k), NEW D, D[1] = 1,
         Implied(N, A, S, D),
         NEW im, im = [b \in DOMAIN g |-> IF t.dfnum[b] = 0 THEN 0 ELSE t.vertex[D[t.dfnum[b]]]]
  PROVE  Immediate(g, im)
<1> DEFINE V == t.vertex
           E == EdgesOf(g, V, N)
           num == t.dfnum
<1>1. /\ DFTree(t.parent, N, A) /\ DFEdges(t.parent, N, A, E)
      /\ N \in Nat /\ N >= 1 /\ n \in Nat /\ DOMAIN g = 1..n
      /\ \A i \in 1..N : V[i] \in 1..n /\ num[V[i]] = i
      /\ \A b \in 1..n : num[b] # 0 => num[b] \in 1..N /\ V[num[b]] = b
  BY SearchedFacts
<1>2. NumbersReached(g, n, V, N, E)
  BY DEF Searched
<1>3. /\ V[1] = 1 /\ \A b \in 1..n : b \in Reachable(g) <=> \E i \in 1..N : V[i] = b
  BY <1>2 DEF NumbersReached
<1>4. ASSUME NEW w \in 2..N
      PROVE  /\ D[w] \in 1..N /\ D[w] # w /\ Dominates(g, V[D[w]], V[w])
             /\ \A c \in 1..N : c # w /\ Dominates(g, V[c], V[w]) => Dominates(g, V[c], V[D[w]])
  <2>1. \A k \in 2..N : Semi(N, A, E, S, k)
    OBVIOUS
  <2> HIDE DEF E, V
  <2>2. Implied(N, A, S, D) /\ w \in 2..N
    OBVIOUS
  <2> QED  BY ONLY <1>1, <1>2, <2>1, <2>2, SemidominatorTheorem
<1> HIDE DEF E
<1>5. DOMAIN im = DOMAIN g /\ \A b \in 1..n : im[b] = IF num[b] = 0 THEN 0 ELSE V[D[num[b]]]
  BY <1>1
<1>6. 1 \in 1..N /\ 1 \in 1..n /\ num[1] = 1
  <2>1. 1 \in 1..N
    BY <1>1
  <2> QED  BY <1>1, <1>3, <2>1
<1>7. im[1] = 1
  BY <1>3, <1>5, <1>6
<1> HIDE DEF V, num
<1>8. ASSUME NEW b \in 1..n, b # 1, b \notin Reachable(g) PROVE im[b] = 0
  <2>1. num[b] = 0
    BY <1>1, <1>3, <1>8
  <2> QED  BY <1>5, <2>1
<1>9. ASSUME NEW b \in 1..n, b # 1, b \in Reachable(g)
      PROVE  /\ im[b] \in Reachable(g) \ {b} /\ Dominates(g, im[b], b)
             /\ \A a \in Reachable(g) \ {b} : Dominates(g, a, b) => Dominates(g, a, im[b])
  <2>1. PICK w \in 1..N : V[w] = b
    BY <1>3, <1>9
  <2>2. num[b] = w /\ w # 0 /\ w \in 2..N
    <3>1. num[b] = w /\ w # 1
      BY <1>1, <1>3, <1>9, <2>1
    <3> QED  BY <1>1, <3>1
  <2>3. im[b] = V[D[w]]
    BY <1>5, <2>2
  <2>4. /\ D[w] \in 1..N /\ D[w] # w /\ Dominates(g, V[D[w]], V[w])
        /\ \A c \in 1..N : c # w /\ Dominates(g, V[c], V[w]) => Dominates(g, V[c], V[D[w]])
    BY <1>4, <2>2
  <2>5. im[b] \in Reachable(g) /\ im[b] # b
    BY <1>1, <1>3, <2>1, <2>2, <2>3, <2>4
  <2>6. ASSUME NEW a \in Reachable(g) \ {b}, Dominates(g, a, b) PROVE Dominates(g, a, im[b])
    <3>1. a \in 1..n
      <4>1. Reachable(g) \subseteq 1..n
        BY ReachableFacts
      <4> QED  BY <4>1
    <3>2. PICK c \in 1..N : V[c] = a
      BY <1>3, <3>1
    <3> QED  BY <2>1, <2>3, <2>4, <2>6, <3>2
  <2> QED  BY <2>1, <2>3, <2>4, <2>5, <2>6
<1> QED  BY <1>1, <1>5, <1>7, <1>8, <1>9 DEF Immediate

LEMMA ExplicitRight ==
  ASSUME NEW n, NEW N, NEW A, Building(cfg, dfs, forest, bucket, dom, d, n, N, A), Explicit,
         NEW im, im = idom'
  PROVE  Immediate(cfg, im)
<1> DEFINE S == forest.semi
           D0 == [dom EXCEPT ![1] = 1]
           D == Chased(D0, S, N)
<1>1. /\ d = 1 /\ Graph(cfg, n) /\ Len(cfg) = n /\ Searched(cfg, dfs, n, N, A)
      /\ d \in 1..N /\ Forest(forest, N, A, d)
      /\ \A v \in 1..N : v <= d => S[v] = v
      /\ \A k \in 1..N : k > d => Semi(N, A, EdgesOf(cfg, dfs.vertex, N), S, k)
      /\ dom \in [1..N -> 0..N]
      /\ \A c \in 1..N : \A v \in bucket[c] : Waiting(dfs.parent, S, A, d, c, v)
      /\ \A v \in 1..N : v > d => v \in bucket[S[v]] \/ Right(A, S, dom, d, v)
  BY Zenon DEF Building, Explicit
<1>2. DFTree(dfs.parent, N, A) /\ N \in Nat /\ N >= 1 /\ N = Len(dfs.vertex) /\ DOMAIN cfg = 1..n
  BY <1>1, SearchedFacts
<1>3. /\ \A x \in 1..N : A[x] \subseteq 1..N
      /\ \A x \in 2..N : x \in 1..N /\ x > 1
  BY <1>2, TreeFacts
<1>4. im = [b \in DOMAIN cfg |-> IF dfs.dfnum[b] = 0 THEN 0 ELSE dfs.vertex[D[dfs.dfnum[b]]]]
  <2> DEFINE M == Len(dfs.vertex)
             C == Chased(D0, S, M)
  <2>1. idom' = [b \in DOMAIN cfg |-> IF dfs.dfnum[b] = 0 THEN 0 ELSE dfs.vertex[C[dfs.dfnum[b]]]]
    BY Zenon DEF Explicit, Chased, ChaseRec, Chase
  <2> QED  BY <1>2, <2>1, Zenon
<1> HIDE DEF D
<1>5. S \in [1..N -> 1..N] /\ S[1] = 1
  <2>1. S \in [1..N -> 1..N]
    BY <1>1 DEF Forest, ForestOf
  <2> QED  BY <1>1, <2>1
<1>6. ASSUME NEW v \in 2..N PROVE Right(A, S, dom, 1, v)
  <2>1. v \notin bucket[S[v]]
    <3> SUFFICES ASSUME v \in bucket[S[v]] PROVE FALSE
      OBVIOUS
    <3>1. S[v] \in 1..N
      BY <1>3, <1>5
    <3>2. PICK c \in A[v] : c <= 1 /\ c # 1
      BY <1>1, <3>1 DEF Waiting
    <3>3. c \in 1..N
      BY <1>3
    <3> QED  BY <1>2, <3>2, <3>3
  <2> QED  BY <1>1, <1>3, <2>1
<1>7. ASSUME NEW v \in 2..N
      PROVE  \E u \in A[v] : LeastOnWay(A, S, v, u) /\ D0[v] = IF S[u] < S[v] THEN u ELSE S[v]
  <2>1. PICK u \in A[v] : LeastOnWay(A, S, v, u) /\ dom[v] = IF S[u] < S[v] THEN u ELSE S[v]
    BY <1>6 DEF Right
  <2>2. D0[v] = dom[v]
    BY <1>1, <1>3
  <2> QED  BY <2>1, <2>2
<1>8. D0 \in [1..N -> 1..N] /\ D0[1] = 1
  <2>1. DOMAIN D0 = 1..N /\ D0[1] = 1 /\ \A v \in 2..N : D0[v] = dom[v]
    BY <1>1, <1>3
  <2>2. \A v \in 2..N : D0[v] \in 1..N
    BY <1>3, <1>5, <1>7
  <2>3. \A v \in 1..N : v = 1 \/ v \in 2..N
    BY <1>2
  <2>4. D0 = [v \in 1..N |-> D0[v]]
    BY <2>1
  <2>5. \A v \in 1..N : D0[v] \in 1..N
    BY <1>2, <2>1, <2>2, <2>3
  <2> HIDE DEF D0
  <2> QED  BY <2>1, <2>4, <2>5
<1> HIDE DEF D0
<1>9. Noted(N, A, S, D0)
  BY <1>7 DEF Noted
<1> HIDE DEF S
<1>10. D \in [1..N -> 1..N] /\ D[1] = 1 /\ Implied(N, A, S, D)
  <2>1. D = Chased(D0, S, N)
    BY DEF D
  <2> QED  BY ONLY <1>2, <1>5, <1>8, <1>9, <2>1, ResolveAll
<1>11. \A k \in 2..N : Semi(N, A, EdgesOf(cfg, dfs.vertex, N), S, k)
  BY <1>1, <1>3
<1> QED  BY ONLY <1>1, <1>4, <1>10, <1>11, ImmediateFromNumbers, Zenon

LEMMA NumberRight ==
  ASSUME NEW n, Graph(cfg, n), Len(cfg) = n, Number,
         NEW t, NEW f, NEW bk, NEW dm, NEW d1, NEW im,
         t = dfs', f = forest', bk = bucket', dm = dom', d1 = d', im = idom'
  PROVE  \/ d1 = 0 /\ Immediate(cfg, im)
         \/ im = idom /\ \E N, A : Building(cfg, t, f, bk, dm, d1, n, N, A)
<1> DEFINE N == Len(t.vertex)
<1>1. PICK A : Searched(cfg, t, n, N, A)
  <2>1. t = Numbering
    BY DEF Number
  <2> QED  BY <2>1, NumberingFacts
<1>2. /\ DFTree(t.parent, N, A) /\ N \in Nat /\ N >= 1 /\ n \in Nat /\ DOMAIN cfg = 1..n
  BY <1>1, SearchedFacts
<1>3. /\ f = [semi |-> [i \in 1..N |-> i], label |-> [i \in 1..N |-> i],
              ancestor |-> [i \in 1..N |-> 0]]
      /\ bk = [i \in 1..N |-> {}] /\ dm = [i \in 1..N |-> 0]
      /\ (N = 1 => d1 = 0 /\ im = [Fill EXCEPT ![1] = 1])
      /\ (N # 1 => d1 = N /\ im = idom)
  BY DEF Number
<1> HIDE DEF N
<1>4. CASE N = 1
  <2>1. /\ t.vertex[1] = 1
        /\ \A b \in 1..n : b \in Reachable(cfg) <=> \E i \in 1..N : t.vertex[i] = b
    BY <1>1 DEF Searched, NumbersReached
  <2>2. \A b \in 1..n : b # 1 => b \notin Reachable(cfg)
    <3>1. \A i \in 1..N : i = 1
      BY <1>4
    <3> QED  BY <2>1, <3>1
  <2>3. 1 \in 1..n
    BY DEF Graph
  <2>4. /\ DOMAIN im = DOMAIN cfg /\ im[1] = 1 /\ \A b \in 1..n : b # 1 => im[b] = 0
    BY <1>2, <1>3, <1>4, <2>3 DEF Fill
  <2>5. Immediate(cfg, im)
    BY <1>2, <2>2, <2>4 DEF Immediate
  <2> QED  BY <1>3, <1>4, <2>5
<1>5. CASE N # 1
  <2>1. /\ d1 = N /\ im = idom /\ d1 \in 1..N /\ \A v \in 1..N : ~(v > d1)
    BY <1>2, <1>3, <1>5
  <2>2. /\ \A v \in 1..N : f.semi[v] = v /\ f.label[v] = v /\ f.ancestor[v] = 0
        /\ f \in ForestOf(N)
    <3>1. \A v \in 1..N : v \in 1..N /\ 0 \in 0..N
      BY <1>2
    <3> QED  BY <1>3, <3>1 DEF ForestOf
  <2>3. Forest(f, N, A, d1)
    BY <2>1, <2>2 DEF Forest
  <2>4. bk \in [1..N -> SUBSET (1..N)] /\ dm \in [1..N -> 0..N] /\ \A b \in 1..N : bk[b] = {}
    <3>1. 0 \in 0..N
      BY <1>2
    <3> QED  BY <1>3, <3>1
  <2>5. Building(cfg, t, f, bk, dm, d1, n, N, A)
    BY <1>1, <2>1, <2>2, <2>3, <2>4 DEF Building
  <2> QED  BY <2>1, <2>5
<1> QED  BY <1>4, <1>5

LEMMA ImmediateHolds ==
  ASSUME cfg' = cfg, NEW im, im = idom', Immediate(cfg, im)
  PROVE  ImmediateDominators'
BY DEF Immediate, ImmediateDominators

-----------------------------------------------------------------------------
(* The tree, and the chains on it the frontiers are made of.               *)

LEMMA IdomFacts ==
  ASSUME NEW n, Graph(cfg, n), idom # <<>>, ImmediateDominators
  PROVE  /\ DOMAIN idom = 1..n /\ idom[1] = 1
         /\ \A b \in 1..n : idom[b] \in 0..n
         /\ \A b \in Reachable(cfg) : b # 1 =>
              /\ idom[b] \in Reachable(cfg) /\ idom[b] # b /\ idom[b] \in 1..n
              /\ Dominates(cfg, idom[b], b)
              /\ \A a : Dominates(cfg, a, b) /\ a # b => Dominates(cfg, a, idom[b])
         /\ \A b \in 1..n : b \notin Reachable(cfg) => idom[b] = 0
<1> DEFINE above(b) == {a \in Reachable(cfg) \ {b} : Dominates(cfg, a, b)}
<1>1. /\ DOMAIN cfg = 1..n /\ 1 \in 1..n /\ n \in Nat
      /\ Reachable(cfg) \subseteq 1..n /\ 1 \in Reachable(cfg)
  BY Edges, ReachableFacts
<1>2. /\ DOMAIN idom = 1..n /\ idom[1] = 1
      /\ \A b \in 1..n \ {1} :
           IF b \notin Reachable(cfg) THEN idom[b] = 0
           ELSE idom[b] \in above(b) /\ \A a \in above(b) : Dominates(cfg, a, idom[b])
  BY <1>1 DEF ImmediateDominators
<1>3. ASSUME NEW b \in Reachable(cfg), b # 1
      PROVE  /\ idom[b] \in Reachable(cfg) /\ idom[b] # b /\ idom[b] \in 1..n
             /\ Dominates(cfg, idom[b], b)
             /\ \A a : Dominates(cfg, a, b) /\ a # b => Dominates(cfg, a, idom[b])
  <2>1. idom[b] \in above(b) /\ \A a \in above(b) : Dominates(cfg, a, idom[b])
    BY <1>1, <1>2, <1>3
  <2>2. ASSUME NEW a, Dominates(cfg, a, b), a # b PROVE a \in above(b)
    BY <2>2, DomReached
  <2> QED  BY <1>1, <2>1, <2>2
<1>4. \A b \in 1..n : b \notin Reachable(cfg) => idom[b] = 0
  BY <1>1, <1>2
<1>5. \A b \in 1..n : idom[b] \in 0..n
  BY <1>1, <1>2, <1>3, <1>4
<1> QED  BY <1>2, <1>3, <1>4, <1>5

(* The chain from a block up the tree to one that dominates it.            *)
UpRec(b, stop, U) ==
  U = [k \in 0..Len(cfg) |->
         IF k = 0 THEN b
         ELSE IF U[k - 1] \in {0, stop} THEN 0 ELSE Idom(U[k - 1])]

Climbs(U, b, stop, n) ==
  /\ U \in [0..n -> 0..n] /\ U[0] = b
  /\ \A k \in 1..n : U[k] = IF U[k - 1] \in {0, stop} THEN 0 ELSE Idom(U[k - 1])
  /\ Chain(b, stop) = {U[k] : k \in 0..n} \ {0, stop}

Lineage(U, k, a, s) ==
  /\ U[0] = a /\ U[k] = s
  /\ \A j \in 0..(k - 1) : U[j + 1] = idom[U[j]]

LEMMA UpSteps ==
  ASSUME NEW n, Graph(cfg, n), idom # <<>>, ImmediateDominators,
         NEW b \in 1..n, NEW stop \in 0..n
  PROVE  \E U : Climbs(U, b, stop, n)
<1>1. n \in Nat /\ \A v \in 1..n : Idom(v) \in 0..n
  <2>1. n \in Nat /\ \A v \in 1..n : idom[v] \in 0..n
    BY IdomFacts DEF Graph
  <2> QED  BY <2>1 DEF Idom
<1>2. Len(cfg) = n
  BY DEF Graph
<1> DEFINE V == 0..n
           step == [p \in (1..n) \X V |-> IF p[2] \in {0, stop} THEN 0 ELSE Idom(p[2])]
<1>3. step \in [(1..n) \X V -> V] /\ b \in V
  <2>1. ASSUME NEW p \in (1..n) \X V
        PROVE  (IF p[2] \in {0, stop} THEN 0 ELSE Idom(p[2])) \in V
    <3>1. p[2] \in 0..n
      OBVIOUS
    <3>2. p[2] # 0 => p[2] \in 1..n
      BY <3>1, <1>1
    <3> QED  BY <3>2, <1>1
  <2> QED  BY <2>1, <1>1
<1>4. PICK F : Follows(F, n, V, b, step)
  <2> HIDE DEF V, step
  <2> QED  BY <1>1, <1>3, Recursion
<1>5. /\ F \in [0..n -> V] /\ F[0] = b
      /\ \A i \in 1..n : F[i] = step[<<i, F[i - 1]>>]
  BY <1>4 DEF Follows
<1>6. UpRec(b, stop, F)
  <2>1. ASSUME NEW k \in 1..n
        PROVE  F[k] = IF F[k - 1] \in {0, stop} THEN 0 ELSE Idom(F[k - 1])
    <3>1. k - 1 \in 0..n
      BY <1>1
    <3>2. F[k - 1] \in V
      BY <1>5, <3>1
    <3> QED  BY <3>2, <1>5
  <2> HIDE DEF V, step
  <2>2. \A k \in 0..n : k = 0 \/ k \in 1..n
    BY <1>1
  <2>3. F = [k \in 0..n |-> IF k = 0 THEN b ELSE IF F[k - 1] \in {0, stop} THEN 0
                            ELSE Idom(F[k - 1])]
    BY <2>1, <2>2, <1>5
  <2> QED  BY <2>3, <1>2 DEF UpRec
<1>7. Chain(b, stop) =
        LET U == CHOOSE U : UpRec(b, stop, U) IN {U[k] : k \in DOMAIN U} \ {0, stop}
  BY DEF Chain, UpRec
<1> HIDE DEF V, step
<1>8. PICK U : UpRec(b, stop, U) /\ Chain(b, stop) = {U[k] : k \in DOMAIN U} \ {0, stop}
  BY <1>6, <1>7
<1>9. /\ DOMAIN U = 0..n
      /\ \A k \in 0..n : U[k] = IF k = 0 THEN b ELSE IF U[k - 1] \in {0, stop} THEN 0
                            ELSE Idom(U[k - 1])
      /\ U = [k \in 0..n |-> U[k]]
  BY <1>8, <1>2 DEF UpRec
<1>10. /\ U[0] = b
       /\ \A k \in 1..n : U[k] = IF U[k - 1] \in {0, stop} THEN 0 ELSE Idom(U[k - 1])
  BY <1>1, <1>9
<1> DEFINE Typed == {k \in Nat : k <= n => U[k] \in 0..n}
<1>11. \A k \in 0..n : U[k] \in 0..n
  <2>1. 0 \in Typed
    BY <1>10
  <2>2. ASSUME NEW k \in Nat, k \in Typed PROVE k + 1 \in Typed
    <3> SUFFICES ASSUME k + 1 <= n PROVE U[k + 1] \in 0..n
      OBVIOUS
    <3>1. k + 1 \in 1..n /\ (k + 1) - 1 = k /\ U[k] \in 0..n
      BY <2>2, <1>1
    <3>2. U[k + 1] = IF U[k] \in {0, stop} THEN 0 ELSE Idom(U[k])
      BY <3>1, <1>10
    <3>3. U[k] # 0 => U[k] \in 1..n
      BY <3>1, <1>1
    <3> QED  BY <3>2, <3>3, <1>1
  <2> HIDE DEF Typed
  <2>3. \A k \in Nat : k \in Typed
    BY <2>1, <2>2, SetInduction
  <2> QED  BY <2>3 DEF Typed
<1>12. U \in [0..n -> 0..n]
  BY <1>9, <1>11
<1>13. Chain(b, stop) = {U[k] : k \in 0..n} \ {0, stop}
  BY <1>8, <1>9
<1>14. Climbs(U, b, stop, n)
  BY <1>10, <1>12, <1>13 DEF Climbs
<1> QED  BY <1>14

LEMMA ChainToDominator ==
  ASSUME NEW n, Graph(cfg, n), idom # <<>>, ImmediateDominators,
         NEW a \in Reachable(cfg), NEW s \in 1..n, Dominates(cfg, s, a)
  PROVE  \E k \in Nat : \E U :
           /\ Lineage(U, k, a, s)
           /\ \A j \in 0..(k - 1) : U[j] \in Chain(a, s) /\ U[j] \in 2..n
<1>1. /\ DOMAIN cfg = 1..n /\ n \in Nat /\ 1 \in 1..n
      /\ Reachable(cfg) \subseteq 1..n /\ 1 \in Reachable(cfg)
  BY Edges, ReachableFacts
<1>2. a \in 1..n /\ s \in 0..n /\ s # 0
  BY <1>1
<1>3. PICK U : Climbs(U, a, s, n)
  BY <1>2, UpSteps
<1>4. /\ U \in [0..n -> 0..n] /\ U[0] = a
      /\ \A k \in 1..n : U[k] = IF U[k - 1] \in {0, s} THEN 0 ELSE Idom(U[k - 1])
      /\ Chain(a, s) = {U[k] : k \in 0..n} \ {0, s}
  BY <1>3 DEF Climbs
<1>5. ASSUME NEW c \in Reachable(cfg), Dominates(cfg, s, c), c # s
      PROVE  /\ c # 1 /\ idom[c] \in Reachable(cfg) /\ Dominates(cfg, s, idom[c])
             /\ Dominates(cfg, idom[c], c) /\ idom[c] # c /\ Idom(c) = idom[c]
  <2>1. c # 1
    <3> SUFFICES ASSUME c = 1 PROVE FALSE
      OBVIOUS
    <3>1. Dominates(cfg, 1, s)
      BY EntryDominates
    <3> QED  BY <3>1, <1>5, DomAntisymmetric
  <2> QED  BY <2>1, <1>5, IdomFacts DEF Idom
<1> DEFINE Sound(k) ==
      (\A j \in 0..(k - 1) : U[j] # s) =>
        /\ U[k] \in Reachable(cfg) /\ Dominates(cfg, s, U[k])
        /\ \A j \in 0..(k - 1) : U[j] # U[k] /\ Dominates(cfg, U[k], U[j])
    Good == {k \in Nat : k <= n => Sound(k)}
<1>6. 0 \in Good
  BY <1>4
<1>7. ASSUME NEW k \in Nat, k \in Good PROVE k + 1 \in Good
  <2> SUFFICES ASSUME k + 1 <= n, \A j \in 0..k : U[j] # s
      PROVE  /\ U[k + 1] \in Reachable(cfg) /\ Dominates(cfg, s, U[k + 1])
             /\ \A j \in 0..k : U[j] # U[k + 1] /\ Dominates(cfg, U[k + 1], U[j])
    OBVIOUS
  <2>1. /\ Sound(k) /\ k + 1 \in 1..n /\ (k + 1) - 1 = k /\ k \in 0..k
        /\ \A j \in 0..(k - 1) : j \in 0..k
        /\ \A j \in 0..k : j = k \/ j \in 0..(k - 1)
    BY <1>1, <1>7
  <2>2. /\ U[k] \in Reachable(cfg) /\ Dominates(cfg, s, U[k])
        /\ \A j \in 0..(k - 1) : U[j] # U[k] /\ Dominates(cfg, U[k], U[j])
    BY <2>1
  <2>3. U[k] # s /\ U[k] # 0
    BY <2>1, <2>2, <1>1
  <2>4. U[k + 1] = Idom(U[k])
    BY <2>1, <2>3, <1>4
  <2>5. /\ U[k + 1] \in Reachable(cfg) /\ Dominates(cfg, s, U[k + 1])
        /\ Dominates(cfg, U[k + 1], U[k]) /\ U[k + 1] # U[k]
    BY <2>2, <2>3, <2>4, <1>5
  <2>6. ASSUME NEW j \in 0..k
        PROVE  U[j] # U[k + 1] /\ Dominates(cfg, U[k + 1], U[j])
    <3>1. CASE j = k
      BY <3>1, <2>5
    <3>2. CASE j \in 0..(k - 1)
      <4>1. Dominates(cfg, U[k], U[j]) /\ U[j] # U[k]
        BY <2>2, <3>2
      <4>2. Dominates(cfg, U[k + 1], U[j])
        BY <4>1, <2>5, DomTransitive
      <4>3. U[j] = U[k + 1] => U[k] = U[k + 1]
        BY <4>1, <2>5, <2>2, DomAntisymmetric
      <4> QED  BY <4>2, <4>3, <2>5
    <3> QED  BY <3>1, <3>2, <2>1
  <2> QED  BY <2>5, <2>6
<1>8. \A k \in 0..n : Sound(k)
  <2> HIDE DEF Sound
  <2>1. \A k \in Nat : k \in Good
    <3> HIDE DEF Good
    <3> QED  BY <1>6, <1>7, SetInduction
  <2> QED  BY <2>1
<1>9. \E k \in 0..n : U[k] = s
  <2> SUFFICES ASSUME \A k \in 0..n : U[k] # s PROVE FALSE
    OBVIOUS
  <2>1. ASSUME NEW k \in 0..n
        PROVE  U[k] \in 1..n /\ \A j \in 0..(k - 1) : U[j] # U[k]
    <3>1. \A j \in 0..(k - 1) : j \in 0..n
      BY <1>1
    <3> QED  BY <3>1, <1>1, <1>8
  <2>2. ASSUME NEW j \in 0..n, NEW k \in 0..n, U[j] = U[k] PROVE j = k
    <3>1. j \in 0..(k - 1) \/ k \in 0..(j - 1) \/ j = k
      OBVIOUS
    <3> QED  BY <3>1, <2>1, <2>2
  <2>3. U \in Injection(0..n, 1..n)
    BY <2>1, <2>2, <1>4 DEF Injection, IsInjective
  <2>4. Cardinality(0..n) = n - 0 + 1 /\ IsFiniteSet(1..n) /\ Cardinality(1..n) = n
    BY <1>1, FS_Interval, Edges
  <2>5. Cardinality(0..n) <= Cardinality(1..n)
    BY <2>3, <2>4, FS_Injection
  <2> QED  BY <2>4, <2>5, <1>1
<1>10. PICK k \in 0..n : U[k] = s /\ \A j \in 0..n : U[j] = s => k <= j
  <2> DEFINE At == {k \in 0..n : U[k] = s}
  <2>1. At \in SUBSET Nat /\ At # {}
    BY <1>1, <1>9
  <2>2. PICK k \in At : \A j \in At : k <= j
    <3> HIDE DEF At
    <3> QED  BY <2>1, Least
  <2> QED  BY <2>2
<1>11. ASSUME NEW j \in 0..(k - 1)
       PROVE  /\ U[j] \in Chain(a, s) /\ U[j] \in 2..n /\ U[j + 1] = idom[U[j]]
  <2>1. /\ j \in 0..n /\ j + 1 \in 1..n /\ (j + 1) - 1 = j
        /\ \A i \in 0..(j - 1) : i \in 0..n /\ ~(k <= i)
        /\ ~(k <= j)
    BY <1>1
  <2>2. U[j] # s /\ \A i \in 0..(j - 1) : U[i] # s
    BY <2>1, <1>10
  <2>3. U[j] \in Reachable(cfg) /\ Dominates(cfg, s, U[j])
    BY <2>1, <2>2, <1>8
  <2>4. U[j] # 0 /\ U[j] # 1 /\ Idom(U[j]) = idom[U[j]]
    BY <2>2, <2>3, <1>1, <1>5
  <2>5. U[j + 1] = Idom(U[j])
    BY <2>1, <2>2, <2>4, <1>4
  <2>6. U[j] \in 2..n
    <3>1. PICK c \in 1..n : c = U[j] /\ c # 1
      BY <2>3, <2>4, <1>1
    <3>2. c \in 2..n
      BY <3>1, <1>1
    <3> QED  BY <3>1, <3>2
  <2> QED  BY <2>1, <2>2, <2>4, <2>5, <2>6, <1>4
<1>12. Lineage(U, k, a, s)
  BY <1>4, <1>10, <1>11 DEF Lineage
<1> QED  BY <1>11, <1>12

(* The iterated frontier: it has the frontier of each of its blocks.       *)
Wider(frontier, D, S) == S \cup UNION {frontier[b] : b \in D \cup S}
GrowRec(frontier, D, F) ==
  F = [k \in 0..Len(cfg) |-> IF k = 0 THEN {} ELSE Wider(frontier, D, F[k - 1])]

LEMMA FrontierClosed ==
  ASSUME NEW n, Graph(cfg, n), NEW J \in SUBSET (1..n),
         NEW frontier \in [1..n -> SUBSET J], NEW D \in SUBSET (1..n)
  PROVE  /\ IteratedFrontier(frontier, D) \subseteq J
         /\ \A b \in D \cup IteratedFrontier(frontier, D) :
              frontier[b] \subseteq IteratedFrontier(frontier, D)
<1> DEFINE V == SUBSET J
           step == [p \in (1..n) \X V |-> Wider(frontier, D, p[2])]
           none == {}
<1>1. n \in Nat \ {0} /\ Len(cfg) = n
  BY DEF Graph
<1>2. \A S \in V : Wider(frontier, D, S) \in V /\ S \subseteq Wider(frontier, D, S)
  BY DEF Wider
<1>3. step \in [(1..n) \X V -> V] /\ none \in V
  BY <1>2
<1>4. PICK F : Follows(F, n, V, none, step)
  <2> HIDE DEF V, step, none
  <2> QED  BY <1>1, <1>3, Recursion
<1>5. /\ F \in [0..n -> V] /\ F[0] = none
      /\ \A i \in 1..n : F[i] = step[<<i, F[i - 1]>>]
  BY <1>4 DEF Follows
<1>6. GrowRec(frontier, D, F)
  <2>1. ASSUME NEW k \in 1..n PROVE F[k] = Wider(frontier, D, F[k - 1])
    <3>1. k - 1 \in 0..n
      BY <1>1
    <3>2. F[k - 1] \in V
      BY <1>5, <3>1
    <3> QED  BY <3>2, <1>5
  <2> HIDE DEF V, step
  <2>2. \A k \in 0..n : k = 0 \/ k \in 1..n
    BY <1>1
  <2>3. F = [k \in 0..n |-> IF k = 0 THEN {} ELSE Wider(frontier, D, F[k - 1])]
    BY <2>1, <2>2, <1>5 DEF none
  <2> QED  BY <2>3, <1>1 DEF GrowRec
<1>7. IteratedFrontier(frontier, D) = (CHOOSE G : GrowRec(frontier, D, G))[n]
  BY <1>1 DEF IteratedFrontier, GrowRec, Wider
<1> HIDE DEF V, step, none
<1>8. PICK H : GrowRec(frontier, D, H) /\ IteratedFrontier(frontier, D) = H[n]
  BY <1>6, <1>7
<1>9. \A k \in 0..n : H[k] = IF k = 0 THEN {} ELSE Wider(frontier, D, H[k - 1])
  BY <1>8, <1>1 DEF GrowRec
<1>10. 0 \in 0..n /\ n \in 0..n /\ \A k \in 1..n : k \in 0..n /\ k # 0
  BY <1>1
<1>11. H[0] = {} /\ \A k \in 1..n : H[k] = Wider(frontier, D, H[k - 1])
  BY <1>9, <1>10
<1> DEFINE Typed == {k \in Nat : k <= n => H[k] \in V}
<1>12. \A k \in 0..n : H[k] \in V
  <2>1. 0 \in Typed
    BY <1>11 DEF V
  <2>2. ASSUME NEW k \in Nat, k \in Typed PROVE k + 1 \in Typed
    <3>1. k + 1 <= n => k <= n /\ k + 1 \in 1..n /\ (k + 1) - 1 = k
      BY <1>1
    <3>2. k + 1 <= n => H[k + 1] = Wider(frontier, D, H[k])
      BY <3>1, <1>11
    <3> QED  BY <3>1, <3>2, <1>2, <2>2
  <2> HIDE DEF Typed
  <2>3. \A k \in Nat : k \in Typed
    BY <2>1, <2>2, SetInduction
  <2> QED  BY <2>3 DEF Typed
<1> DEFINE G == [S \in V |-> Wider(frontier, D, S)]
<1>13. \A S \in SUBSET J : S \subseteq G[S] /\ G[S] \in SUBSET J
  BY <1>2 DEF V
<1>14. \A k \in 1..n : H[k] = G[H[k - 1]]
  <2>1. \A k \in 1..n : k - 1 \in 0..n
    BY <1>1
  <2> QED  BY <2>1, <1>11, <1>12
<1>15. IsFiniteSet(J) /\ Cardinality(J) <= n
  <2> DEFINE A == 1..n
  <2>1. IsFiniteSet(A) /\ Cardinality(A) = n /\ J \in SUBSET A
    BY Edges
  <2> HIDE DEF A
  <2> QED  BY <2>1, FS_Subset
<1>16. G[H[n]] = H[n] /\ H[n] \in SUBSET J
  <2> HIDE DEF G
  <2> DEFINE A == J
  <2>1. n \in Nat
    BY <1>1
  <2>2. /\ IsFiniteSet(A) /\ Cardinality(A) <= n /\ H[0] \in SUBSET A
        /\ \A S \in SUBSET A : S \subseteq G[S] /\ G[S] \in SUBSET A
    BY <1>11, <1>13, <1>15
  <2> HIDE DEF A
  <2>3. G[H[n]] = H[n]
    BY ONLY <2>1, <2>2, <1>14, GrowthEnds
  <2> QED  BY <2>1, <2>3, <1>10, <1>12 DEF V
<1>17. Wider(frontier, D, H[n]) = H[n]
  BY <1>16 DEF V
<1> QED  BY <1>8, <1>16, <1>17 DEF Wider

(* Phis stand at joins only, never at the entry, and a block that stores   *)
(* the variable or has a phi of it has one at each block of its frontier.  *)
AtPass(n) ==
  /\ Graph(cfg, n) /\ Preds(cfg, 1) = {}
  /\ body = func.body /\ DOMAIN func.body = 1..n
  /\ idom # <<>> /\ ImmediateDominators

LEMMA PlacesFacts ==
  ASSUME NEW n, AtPass(n)
  PROVE  /\ PhiLocations \subseteq (2..n) \X Promotable
         /\ \A x \in Promotable : \A c \in 1..n :
              c \in DefBlocks(x) \/ <<c, x>> \in PhiLocations =>
                \A b \in Frontier[c] : <<b, x>> \in PhiLocations
<1> DEFINE J == {b \in 1..n : Cardinality(Preds(cfg, b)) >= 2}
           placed(x) == IteratedFrontier(Frontier, DefBlocks(x))
<1>1. Graph(cfg, n) /\ n \in Nat /\ DOMAIN cfg = 1..n
  BY Edges DEF AtPass
<1>2. J \in SUBSET (2..n) /\ J \in SUBSET (1..n)
  <2>1. Cardinality(Preds(cfg, 1)) = 0
    BY FS_EmptySet DEF AtPass
  <2>2. 1 \notin J
    BY <2>1
  <2>3. \A b \in 1..n : b = 1 \/ b \in 2..n
    BY <1>1
  <2> QED  BY <2>2, <2>3
<1>3. Frontier \in [1..n -> SUBSET J]
  BY <1>1 DEF Frontier
<1>4. ASSUME NEW x \in Promotable
      PROVE  /\ DefBlocks(x) \subseteq 1..n
             /\ placed(x) \subseteq J
             /\ \A b \in DefBlocks(x) \cup placed(x) : Frontier[b] \subseteq placed(x)
  <2>1. DefBlocks(x) \in SUBSET (1..n)
    BY DEF DefBlocks, AtPass
  <2> HIDE DEF J
  <2> QED  BY ONLY <2>1, <1>1, <1>2, <1>3, FrontierClosed
<1>5. PhiLocations = UNION {placed(x) \X {x} : x \in Promotable}
  BY DEF PhiLocations
<1> HIDE DEF J, placed
<1>6. \A b, x : <<b, x>> \in PhiLocations <=> x \in Promotable /\ b \in placed(x)
  BY <1>5
<1>7. \A p \in PhiLocations : \E x \in Promotable : \E b \in placed(x) : p = <<b, x>>
  BY <1>5
<1>8. PhiLocations \subseteq (2..n) \X Promotable
  <2> SUFFICES ASSUME NEW p \in PhiLocations PROVE p \in (2..n) \X Promotable
    OBVIOUS
  <2>1. PICK x \in Promotable : \E b \in placed(x) : p = <<b, x>>
    BY <1>7
  <2>2. placed(x) \subseteq 2..n
    BY <1>2, <1>4
  <2> QED  BY <2>1, <2>2
<1>9. ASSUME NEW x \in Promotable, NEW c \in 1..n,
             c \in DefBlocks(x) \/ <<c, x>> \in PhiLocations, NEW b \in Frontier[c]
      PROVE  <<b, x>> \in PhiLocations
  <2>1. c \in DefBlocks(x) \cup placed(x)
    BY <1>6, <1>9
  <2> QED  BY <2>1, <1>4, <1>6
<1> QED  BY <1>8, <1>9

(* From a predecessor of a block without a phi of the variable up to the   *)
(* block's parent in the tree, no block changes what the variable is.      *)
Quiet(c, x, places) ==
  /\ <<c, x>> \notin places
  /\ \A i \in Range(func.body[c]) : i.op = "store" => i.var # x

QuietWay(a, s, x, places) ==
  \E k \in Nat : \E U :
    /\ Lineage(U, k, a, s)
    /\ \A j \in 0..(k - 1) :
         U[j] \in DOMAIN func.body \ {1} /\ Quiet(U[j], x, places)

LEMMA PhisSuffice ==
  ASSUME NEW n, AtPass(n), NEW a \in Reachable(cfg), NEW b \in Range(cfg[a]),
         NEW x \in Promotable, <<b, x>> \notin PhiLocations
  PROVE  QuietWay(a, idom[b], x, PhiLocations)
<1>1. /\ Graph(cfg, n) /\ n \in Nat /\ DOMAIN cfg = 1..n /\ Preds(cfg, 1) = {}
      /\ Reachable(cfg) \subseteq 1..n /\ idom # <<>> /\ ImmediateDominators
      /\ body = func.body /\ DOMAIN func.body = 1..n
  BY Edges, ReachableFacts DEF AtPass
<1>2. a \in 1..n /\ a \in Preds(cfg, b) /\ b # 1 /\ b \in Reachable(cfg)
  BY <1>1, ReachableFacts DEF Preds
<1> DEFINE s == idom[b]
<1>3. /\ s \in 1..n /\ s # b /\ Dominates(cfg, s, b) /\ Idom(b) = s
      /\ \A c : Dominates(cfg, c, b) /\ c # b => Dominates(cfg, c, s)
  BY <1>1, <1>2, IdomFacts DEF Idom
<1>4. Dominates(cfg, s, a)
  BY <1>1, <1>3, DomBefore
<1> HIDE DEF s
<1>5. CASE Cardinality(Preds(cfg, b)) < 2
  <2>1. Preds(cfg, b) = {a}
    <3>1. IsFiniteSet(Preds(cfg, b))
      <4>1. Preds(cfg, b) \in SUBSET (1..n) /\ IsFiniteSet(1..n)
        BY <1>1, Edges DEF Preds
      <4> QED  BY <4>1, FS_Subset
    <3> DEFINE P == Preds(cfg, b)
    <3>2. IsFiniteSet(P) /\ a \in P /\ Cardinality(P) < 2
      BY <3>1, <1>2, <1>5
    <3> HIDE DEF P
    <3>3. /\ IsFiniteSet(P \ {a}) /\ Cardinality(P \ {a}) = Cardinality(P) - 1
          /\ Cardinality(P) \in Nat /\ Cardinality(P \ {a}) \in Nat
      BY <3>2, FS_RemoveElement, FS_CardinalityType
    <3>4. Cardinality(P \ {a}) = 0
      BY <3>2, <3>3
    <3>5. P \ {a} = {}
      BY <3>3, <3>4, FS_EmptySet
    <3> QED  BY <3>2, <3>5 DEF P
  <2>2. Dominates(cfg, a, b) /\ a # b
    <3>1. \A y \in Preds(cfg, b) : Dominates(cfg, a, y)
      BY <2>1, <1>1, DomReached
    <3> QED  BY <3>1, <1>1, <1>2, FirstArrival
  <2>3. Dominates(cfg, a, s)
    BY <2>2, <1>3
  <2>4. a = s
    BY <2>3, <1>1, <1>4, DomAntisymmetric
  <2> DEFINE U == [j \in 0..0 |-> a]
  <2>5. Lineage(U, 0, a, s) /\ \A j \in 0..(0 - 1) : FALSE
    BY <2>4 DEF Lineage
  <2> HIDE DEF U
  <2> QED  BY <2>5 DEF QuietWay, s
<1>6. CASE ~(Cardinality(Preds(cfg, b)) < 2)
  <2>0. PICK k \in Nat : \E U :
          /\ Lineage(U, k, a, s)
          /\ \A j \in 0..(k - 1) : U[j] \in Chain(a, s) /\ U[j] \in 2..n
    BY <1>1, <1>3, <1>4, ChainToDominator
  <2>1. PICK U :
          /\ Lineage(U, k, a, s)
          /\ \A j \in 0..(k - 1) : U[j] \in Chain(a, s) /\ U[j] \in 2..n
    BY <2>0
  <2>2. ASSUME NEW j \in 0..(k - 1)
        PROVE  U[j] \in DOMAIN func.body \ {1} /\ Quiet(U[j], x, PhiLocations)
    <3>1. U[j] \in Chain(a, s) /\ U[j] \in 1..n /\ U[j] # 1
      BY <2>1
    <3>2. Cardinality(Preds(cfg, b)) >= 2
      <4>1. Cardinality(Preds(cfg, b)) \in Nat
        <5>1. Preds(cfg, b) \in SUBSET (1..n) /\ IsFiniteSet(1..n)
          BY <1>1, Edges DEF Preds
        <5> QED  BY <5>1, FS_Subset, FS_CardinalityType
      <4> QED  BY <4>1, <1>6
    <3>3. b \in 1..n
      BY <1>1, <1>2
    <3>4. b \in Frontier[U[j]]
      BY <3>1, <3>2, <3>3, <1>1, <1>2, <1>3 DEF Frontier
    <3>5. U[j] \notin DefBlocks(x) /\ <<U[j], x>> \notin PhiLocations
      BY <3>1, <3>4, PlacesFacts
    <3>6. \A i \in Range(func.body[U[j]]) : i.op = "store" => i.var # x
      BY <3>1, <3>5, <1>1 DEF DefBlocks
    <3> QED  BY <3>1, <3>5, <3>6, <1>1 DEF Quiet
  <2> QED  BY <2>1, <2>2 DEF QuietWay, s
<1> QED  BY <1>5, <1>6

\* Numbered in their order, the phis have numbers of their own.
PhiNumbers == [p \in PhiLocations |-> ValueCount - 1 + Cardinality(UpTo(p))]

LEMMA NumbersFresh ==
  ASSUME NEW n, AtPass(n)
  PROVE  /\ \A p \in PhiLocations : PhiNumbers[p] \in Nat /\ PhiNumbers[p] >= ValueCount
         /\ \A p, q \in PhiLocations : PhiNumbers[p] = PhiNumbers[q] => p = q
<1>1. /\ n \in Nat /\ PhiLocations \subseteq (2..n) \X Promotable
      /\ Promotable \subseteq Var /\ Var \subseteq Nat /\ IsFiniteSet(Var)
      /\ ValueCount \in Nat \ {0}
  BY PlacesFacts, Edges, ConstantsAssumption DEF AtPass, Promotable
<1>2. IsFiniteSet(PhiLocations)
  <2>1. IsFiniteSet(2..n) /\ IsFiniteSet(Promotable)
    <3>1. IsFiniteSet(2..n)
      BY <1>1, FS_Interval
    <3>2. IsFiniteSet(Promotable)
      BY <1>1, FS_Subset
    <3> QED  BY <3>1, <3>2
  <2>2. IsFiniteSet((2..n) \X Promotable)
    BY <2>1, FS_Product
  <2> QED  BY <1>1, <2>2, FS_Subset
<1>3. \A p \in PhiLocations : /\ p[1] \in Nat /\ p[2] \in Nat /\ p = <<p[1], p[2]>>
                              /\ p \in UpTo(p)
                              /\ IsFiniteSet(UpTo(p)) /\ Cardinality(UpTo(p)) \in Nat
                              /\ Cardinality(UpTo(p)) >= 1
  <2> SUFFICES ASSUME NEW p \in PhiLocations
      PROVE  /\ p[1] \in Nat /\ p[2] \in Nat /\ p = <<p[1], p[2]>>
             /\ p \in UpTo(p)
             /\ IsFiniteSet(UpTo(p)) /\ Cardinality(UpTo(p)) \in Nat
             /\ Cardinality(UpTo(p)) >= 1
    OBVIOUS
  <2>1. p[1] \in Nat /\ p[2] \in Nat /\ p = <<p[1], p[2]>>
    <3>0. p \in (2..n) \X Promotable
      BY <1>1
    <3>1. PICK b \in 2..n, x \in Promotable : p = <<b, x>>
      BY <3>0
    <3>2. b \in Nat /\ x \in Nat
      BY <1>1
    <3> QED  BY <3>1, <3>2
  <2>2. p \in UpTo(p) /\ UpTo(p) \subseteq PhiLocations
    BY <2>1 DEF UpTo
  <2>3. IsFiniteSet(UpTo(p)) /\ Cardinality(UpTo(p)) \in Nat
    BY <2>2, <1>2, FS_Subset, FS_CardinalityType
  <2>4. Cardinality(UpTo(p)) >= 1
    BY <2>2, <2>3, Counts
  <2> QED  BY <2>1, <2>2, <2>3, <2>4
<1>4. ASSUME NEW p \in PhiLocations, NEW q \in PhiLocations, p # q, q \notin UpTo(p)
      PROVE  Cardinality(UpTo(p)) < Cardinality(UpTo(q))
  <2>1. /\ p[1] \in Nat /\ p[2] \in Nat /\ q[1] \in Nat /\ q[2] \in Nat
        /\ ~(q[1] < p[1] \/ (q[1] = p[1] /\ q[2] <= p[2]))
    BY <1>3, <1>4 DEF UpTo
  <2>2. UpTo(p) \subseteq UpTo(q)
    <3> SUFFICES ASSUME NEW r \in UpTo(p) PROVE r \in UpTo(q)
      OBVIOUS
    <3>1. /\ r \in PhiLocations /\ r[1] \in Nat /\ r[2] \in Nat
          /\ r[1] < p[1] \/ (r[1] = p[1] /\ r[2] <= p[2])
      BY <1>3 DEF UpTo
    <3>2. r[1] < q[1] \/ (r[1] = q[1] /\ r[2] <= q[2])
      BY <2>1, <3>1
    <3> QED  BY <3>1, <3>2 DEF UpTo
  <2>3. UpTo(p) # UpTo(q)
    BY <1>3, <1>4
  <2>4. /\ IsFiniteSet(UpTo(q)) /\ Cardinality(UpTo(p)) \in Nat
        /\ Cardinality(UpTo(q)) \in Nat
    BY <1>3
  <2>5. /\ Cardinality(UpTo(p)) <= Cardinality(UpTo(q))
        /\ Cardinality(UpTo(p)) # Cardinality(UpTo(q))
    BY <2>2, <2>3, <2>4, FS_Subset
  <2> QED  BY <2>4, <2>5
<1>5. \A p, q \in PhiLocations : q \notin UpTo(p) \/ p \notin UpTo(q) \/ p = q
  <2> SUFFICES ASSUME NEW p \in PhiLocations, NEW q \in PhiLocations,
                      q \in UpTo(p), p \in UpTo(q)
      PROVE  p = q
    OBVIOUS
  <2>1. /\ p[1] \in Nat /\ p[2] \in Nat /\ q[1] \in Nat /\ q[2] \in Nat
        /\ q[1] < p[1] \/ (q[1] = p[1] /\ q[2] <= p[2])
        /\ p[1] < q[1] \/ (p[1] = q[1] /\ p[2] <= q[2])
    BY <1>3 DEF UpTo
  <2>2. p[1] = q[1] /\ p[2] = q[2]
    BY <2>1
  <2> QED  BY <2>2, <1>3
<1>6. \A p \in PhiLocations : PhiNumbers[p] = ValueCount - 1 + Cardinality(UpTo(p))
  BY DEF PhiNumbers
<1>7. \A p \in PhiLocations : PhiNumbers[p] \in Nat /\ PhiNumbers[p] >= ValueCount
  BY <1>1, <1>3, <1>6
<1>8. ASSUME NEW p \in PhiLocations, NEW q \in PhiLocations,
             PhiNumbers[p] = PhiNumbers[q], p # q
      PROVE  FALSE
  <2>1. /\ Cardinality(UpTo(p)) \in Nat /\ Cardinality(UpTo(q)) \in Nat
        /\ Cardinality(UpTo(p)) = Cardinality(UpTo(q))
    BY <1>1, <1>3, <1>6, <1>8
  <2>2. CASE q \notin UpTo(p)
    BY <2>1, <2>2, <1>4, <1>8
  <2>3. CASE p \notin UpTo(q)
    BY <2>1, <2>3, <1>4, <1>8
  <2> QED  BY <2>2, <2>3, <1>5, <1>8
<1> QED  BY <1>7, <1>8

-----------------------------------------------------------------------------
(* What the lowering hands over, and one walk over a block of it.          *)

LEMMA InstrForm ==
  ASSUME NEW i \in Instr
  PROVE  /\ i.op \in {"load", "store", "call", "def"} /\ i.val \in Value
         /\ i.op # "def" => i.var \in Var
         /\ \A op : Of(i, op) <=> i.op = op /\ i.var \in Promotable
         /\ Stays(i) <=> ~(i.op \in {"load", "store"} /\ i.var \in Promotable)
BY DEF Instr, Of, Stays

LEMMA FuncFacts ==
  ASSUME func \in Inputs
  PROVE  LET n == Len(func.succ) IN
         /\ Graph(func.succ, n) /\ Preds(func.succ, 1) = {} /\ n \in Nat
         /\ DOMAIN func.succ = 1..n /\ DOMAIN func.body = 1..n
         /\ \A b \in 1..n : func.body[b] \in Seq(Instr) /\ DOMAIN func.body[b] = 1..Len(func.body[b])
         /\ \A b \in 1..n : \A k \in 1..Len(func.body[b]) : func.body[b][k] \in Instr
<1>1. FromLowering(func)
  BY InputsAssumption
<1> DEFINE n == Len(func.succ)
<1>2. /\ func.succ # <<>> /\ func.succ \in Seq(Seq(1..n)) /\ Preds(func.succ, 1) = {}
      /\ DOMAIN func.body = DOMAIN func.succ
      /\ \A b \in DOMAIN func.body : func.body[b] \in Seq(Instr)
  BY <1>1 DEF FromLowering
<1>3. n \in Nat \ {0} /\ func.succ \in [1..n -> Seq(1..n)]
  BY <1>2
<1> QED  BY <1>2, <1>3 DEF Graph

(* An instruction of a function stands in one place, and what it stores    *)
(* was computed before.                                                    *)
LEMMA OneDefinition ==
  ASSUME func \in Inputs, NEW b \in DOMAIN func.body, NEW k \in DOMAIN func.body[b]
  PROVE  /\ \A v : Defines(func.body[b][k], v) => v \in Value /\ v # Undef
         /\ \A v : Defines(func.body[b][k], v) =>
              \A a \in DOMAIN func.body : \A j \in DOMAIN func.body[a] :
                Defines(func.body[a][j], v) => a = b /\ j = k
         /\ func.body[b][k].op = "store" =>
              \/ func.body[b][k].val = Undef
              \/ DefinedBefore(func, func.body[b][k].val, b, k)
<1> DEFINE i == func.body[b][k]
<1>1. FromLowering(func)
  BY InputsAssumption
<1>2. /\ i.op \in {"load", "def"} =>
           /\ i.val # Undef
           /\ \A a \in DOMAIN func.body : \A j \in DOMAIN func.body[a] :
                Defines(func.body[a][j], i.val) => a = b /\ j = k
      /\ i.op = "store" => i.val = Undef \/ DefinedBefore(func, i.val, b, k)
  BY <1>1 DEF FromLowering
<1>3. i \in Instr
  BY FuncFacts
<1>4. i.val \in Value
  BY <1>3, InstrForm
<1> QED  BY <1>2, <1>4 DEF Defines

Stands(v, b, k) ==
  b \in DOMAIN func.body /\ k \in DOMAIN func.body[b] /\ Defines(func.body[b][k], v)

LEMMA StandsOnce ==
  ASSUME func \in Inputs, NEW v, NEW b, NEW k, Stands(v, b, k)
  PROVE  /\ v \in Value /\ v # Undef
         /\ \A a, j : Stands(v, a, j) => a = b /\ j = k
<1>1. b \in DOMAIN func.body /\ k \in DOMAIN func.body[b] /\ Defines(func.body[b][k], v)
  BY DEF Stands
<1>2. \A w : Defines(func.body[b][k], w) => w \in Value /\ w # Undef
  BY <1>1, OneDefinition
<1>3. \A w : Defines(func.body[b][k], w) =>
        \A a \in DOMAIN func.body : \A j \in DOMAIN func.body[a] :
          Defines(func.body[a][j], w) => a = b /\ j = k
  BY <1>1, OneDefinition
<1>4. \A a \in DOMAIN func.body : \A j \in DOMAIN func.body[a] :
        Defines(func.body[a][j], v) => a = b /\ j = k
  BY <1>1, <1>3
<1> QED  BY <1>1, <1>2, <1>4 DEF Stands

LEMMA StoredBefore ==
  ASSUME func \in Inputs, NEW b \in DOMAIN func.body, NEW k \in DOMAIN func.body[b],
         func.body[b][k].op = "store", func.body[b][k].val # Undef
  PROVE  \E a, j : /\ Stands(func.body[b][k].val, a, j)
                   /\ IF a = b THEN j < k ELSE Dominates(func.succ, a, b)
<1> DEFINE v == func.body[b][k].val
<1>1. DefinedBefore(func, v, b, k)
  BY OneDefinition
<1>2. PICK a \in DOMAIN func.body : \E j \in DOMAIN func.body[a] :
        /\ Defines(func.body[a][j], v)
        /\ IF a = b THEN j < k ELSE Dominates(func.succ, a, b)
  BY <1>1 DEF DefinedBefore
<1>3. PICK j \in DOMAIN func.body[a] :
        /\ Defines(func.body[a][j], v)
        /\ IF a = b THEN j < k ELSE Dominates(func.succ, a, b)
  BY <1>2
<1>4. Stands(v, a, j)
  BY <1>3 DEF Stands
<1> QED  BY <1>3, <1>4

Partial == UNION {[D -> Nat] : D \in SUBSET Value}
Stacks == [Promotable -> Seq(Nat)]
Tops(stacks) == [x \in Promotable |-> CurrentDef(stacks, x)]
Extends(s, t) ==
  \A x \in Promotable : /\ Len(t[x]) <= Len(s[x])
                        /\ \A j \in 1..Len(t[x]) : s[x][j] = t[x][j]

LEMMA PartialFacts ==
  ASSUME NEW r \in Partial
  PROVE  /\ DOMAIN r \subseteq Value /\ \A v \in DOMAIN r : r[v] \in Nat
         /\ \A v \in Value : Resolve(r, v) \in Nat
<1>1. PICK D \in SUBSET Value : r \in [D -> Nat]
  BY DEF Partial
<1>2. Value \subseteq Nat
  BY ConstantsAssumption DEF Value
<1> QED  BY <1>1, <1>2 DEF Resolve

\* One instruction: what it does to the stacks and to the replacements.
LEMMA WalkOneFacts ==
  ASSUME NEW i \in Instr, NEW s \in [defs : Stacks, repl : Partial]
  PROVE  LET w == WalkOne(s, i) IN
         /\ w \in [defs : Stacks, repl : Partial]
         /\ Of(i, "load") =>
              /\ w.defs = s.defs /\ DOMAIN w.repl = DOMAIN s.repl \cup {i.val}
              /\ w.repl[i.val] = CurrentDef(s.defs, i.var)
              /\ \A v \in DOMAIN s.repl : v # i.val => w.repl[v] = s.repl[v]
         /\ ~Of(i, "load") => w.repl = s.repl
         /\ Of(i, "store") =>
              \A x \in Promotable :
                w.defs[x] = IF x = i.var THEN Append(s.defs[x], Resolve(s.repl, i.val))
                            ELSE s.defs[x]
         /\ Stays(i) => w.defs = s.defs
<1> DEFINE w == WalkOne(s, i)
<1>1. /\ i.val \in Value /\ s.defs \in Stacks /\ s.repl \in Partial
      /\ s = [defs |-> s.defs, repl |-> s.repl]
      /\ DOMAIN s.repl \subseteq Value /\ \A v \in DOMAIN s.repl : s.repl[v] \in Nat
      /\ Resolve(s.repl, i.val) \in Nat
  BY InstrForm, PartialFacts
<1>2. ~(Of(i, "load") /\ Of(i, "store"))
  BY InstrForm
<1>3. \A x \in Promotable : s.defs[x] \in Seq(Nat) /\ CurrentDef(s.defs, x) \in Nat
  <2> SUFFICES ASSUME NEW x \in Promotable
      PROVE  s.defs[x] \in Seq(Nat) /\ CurrentDef(s.defs, x) \in Nat
    OBVIOUS
  <2>1. s.defs[x] \in Seq(Nat)
    BY <1>1 DEF Stacks
  <2> QED  BY <2>1 DEF CurrentDef, Last, Undef
<1>4. CASE Of(i, "load")
  <2> DEFINE r == [v \in DOMAIN s.repl \cup {i.val} |->
                     IF v = i.val THEN CurrentDef(s.defs, i.var) ELSE s.repl[v]]
  <2>1. w = [defs |-> s.defs, repl |-> r]
    BY <1>1, <1>4 DEF WalkOne
  <2>2. r \in [DOMAIN s.repl \cup {i.val} -> Nat] /\ DOMAIN s.repl \cup {i.val} \subseteq Value
    <3>1. CurrentDef(s.defs, i.var) \in Nat
      BY <1>3, <1>4 DEF Of
    <3> QED  BY <3>1, <1>1
  <2>3. r \in Partial
    BY <2>2 DEF Partial
  <2>4. ~Stays(i)
    BY <1>4 DEF Stays
  <2> HIDE DEF r
  <2>5. w.defs = s.defs /\ w.repl = r /\ w \in [defs : Stacks, repl : Partial]
    BY <2>1, <2>3, <1>1
  <2> HIDE DEF w
  <2>6. /\ DOMAIN w.repl = DOMAIN s.repl \cup {i.val}
        /\ w.repl[i.val] = CurrentDef(s.defs, i.var)
        /\ \A v \in DOMAIN s.repl : v # i.val => w.repl[v] = s.repl[v]
    BY <2>5 DEF r
  <2> QED  BY <2>4, <2>5, <2>6, <1>2, <1>4 DEF w
<1>5. CASE Of(i, "store")
  <2> DEFINE t == [s.defs EXCEPT ![i.var] = Append(@, Resolve(s.repl, i.val))]
  <2>1. w = [defs |-> t, repl |-> s.repl]
    BY <1>1, <1>2, <1>5 DEF WalkOne
  <2>2. /\ i.var \in Promotable /\ DOMAIN s.defs = Promotable
    BY <1>1, <1>5 DEF Of, Stacks
  <2>3. \A x \in Promotable :
          t[x] = IF x = i.var THEN Append(s.defs[x], Resolve(s.repl, i.val)) ELSE s.defs[x]
    BY <2>2
  <2>4. \A x \in Promotable : t[x] \in Seq(Nat)
    BY <2>3, <1>1, <1>3
  <2>5. t \in Stacks
    BY <2>2, <2>4 DEF Stacks
  <2>6. ~Stays(i)
    BY <1>5 DEF Stays
  <2> HIDE DEF t
  <2>7. w.defs = t /\ w.repl = s.repl /\ w \in [defs : Stacks, repl : Partial]
    BY <2>1, <2>5, <1>1
  <2> QED  BY <2>3, <2>6, <2>7, <1>2, <1>5
<1>6. CASE ~Of(i, "load") /\ ~Of(i, "store")
  <2>1. w = s
    BY <1>6 DEF WalkOne
  <2> QED  BY <2>1, <1>6
<1> QED  BY <1>4, <1>5, <1>6

WalkRec(stacks, block, F) ==
  F = [k \in 0..Len(block) |-> IF k = 0 THEN [defs |-> stacks, repl |-> replacements]
                               ELSE WalkOne(F[k - 1], block[k])]

Traced(F, stacks, block) ==
  /\ F \in [0..Len(block) -> [defs : Stacks, repl : Partial]]
  /\ F[0] = [defs |-> stacks, repl |-> replacements]
  /\ \A k \in 1..Len(block) : F[k] = WalkOne(F[k - 1], block[k])
  /\ Walk(stacks, block) = F[Len(block)]

LEMMA WalkSteps ==
  ASSUME NEW block \in Seq(Instr), NEW stacks \in Stacks, replacements \in Partial
  PROVE  \E F : Traced(F, stacks, block)
<1> DEFINE n == Len(block)
           V == [defs : Stacks, repl : Partial]
           base == [defs |-> stacks, repl |-> replacements]
           step == [p \in (1..n) \X V |-> WalkOne(p[2], block[p[1]])]
<1>1. n \in Nat /\ \A k \in 1..n : block[k] \in Instr
  OBVIOUS
<1>2. \A i \in Instr, s \in V : WalkOne(s, i) \in V
  BY WalkOneFacts
<1>3. step \in [(1..n) \X V -> V] /\ base \in V
  BY <1>1, <1>2
<1>4. PICK F : Follows(F, n, V, base, step)
  <2> HIDE DEF V, step, base, n
  <2> QED  BY <1>1, <1>3, Recursion
<1>5. /\ F \in [0..n -> V] /\ F[0] = base
      /\ \A i \in 1..n : F[i] = step[<<i, F[i - 1]>>]
  BY <1>4 DEF Follows
<1>6. WalkRec(stacks, block, F)
  <2>1. ASSUME NEW k \in 1..n PROVE F[k] = WalkOne(F[k - 1], block[k])
    <3>1. k - 1 \in 0..n
      BY <1>1
    <3>2. F[k - 1] \in V
      BY <1>5, <3>1
    <3> QED  BY <3>2, <1>5
  <2> HIDE DEF V, step, base
  <2>2. \A k \in 0..n : k = 0 \/ k \in 1..n
    BY <1>1
  <2>3. F = [k \in 0..n |-> IF k = 0 THEN base ELSE WalkOne(F[k - 1], block[k])]
    BY <2>1, <2>2, <1>5
  <2> QED  BY <2>3 DEF WalkRec, base
<1>7. Walk(stacks, block) = (CHOOSE G : WalkRec(stacks, block, G))[n]
  BY DEF Walk, WalkRec
<1> HIDE DEF V, step, base
<1>8. PICK H : WalkRec(stacks, block, H) /\ Walk(stacks, block) = H[n]
  BY <1>6, <1>7
<1>9. /\ H = [k \in 0..n |-> H[k]]
      /\ \A k \in 0..n : H[k] = IF k = 0 THEN base ELSE WalkOne(H[k - 1], block[k])
  BY <1>8 DEF WalkRec, base
<1>10. 0 \in 0..n /\ \A k \in 1..n : k \in 0..n /\ k # 0
  BY <1>1
<1>11. H[0] = base /\ \A k \in 1..n : H[k] = WalkOne(H[k - 1], block[k])
  BY <1>9, <1>10
<1> DEFINE Typed == {k \in Nat : k <= n => H[k] \in V}
<1>12. \A k \in 0..n : H[k] \in V
  <2>1. 0 \in Typed
    BY <1>3, <1>11
  <2>2. ASSUME NEW k \in Nat, k \in Typed PROVE k + 1 \in Typed
    <3>1. k + 1 <= n => k <= n /\ k + 1 \in 1..n /\ (k + 1) - 1 = k
      BY <1>1
    <3>2. k + 1 <= n => H[k + 1] = WalkOne(H[k], block[k + 1])
      BY <3>1, <1>11
    <3> QED  BY <3>1, <3>2, <1>1, <1>2, <2>2
  <2> HIDE DEF Typed
  <2>3. \A k \in Nat : k \in Typed
    BY <2>1, <2>2, SetInduction
  <2> QED  BY <2>3 DEF Typed
<1>13. H \in [0..n -> V]
  BY <1>9, <1>12
<1>14. Traced(H, stacks, block)
  BY <1>8, <1>11, <1>13 DEF Traced, V, base
<1> QED  BY <1>14

(* What the walk leaves behind for a block: what each variable is after    *)
(* each instruction, as the replacements and the stores have it.           *)
Loads(b, k) == {func.body[b][j].val : j \in {i \in 1..k : Of(func.body[b][i], "load")}}

BlockSolved(b, c, r) ==
  /\ c \in [0..Len(func.body[b]) -> [Promotable -> Nat]]
  /\ \A k \in 1..Len(func.body[b]) :
       /\ Of(func.body[b][k], "load") =>
            /\ func.body[b][k].val \in DOMAIN r
            /\ r[func.body[b][k].val] = c[k - 1][func.body[b][k].var]
       /\ \A x \in Promotable :
            c[k][x] = IF Of(func.body[b][k], "store") /\ x = func.body[b][k].var
                      THEN Resolve(r, func.body[b][k].val) ELSE c[k - 1][x]

Walked(b, stacks, w) ==
  /\ w \in [defs : Stacks, repl : Partial]
  /\ Extends(w.defs, stacks)
  /\ DOMAIN w.repl = DOMAIN replacements \cup Loads(b, Len(func.body[b]))
  /\ \A v \in DOMAIN replacements : w.repl[v] = replacements[v]

LEMMA TopOfAppend ==
  ASSUME NEW s \in Seq(Nat), NEW v \in Nat
  PROVE  Append(s, v) # <<>> /\ Last(Append(s, v)) = v
BY DEF Last

LEMMA AppendKeeps ==
  ASSUME NEW s \in Seq(Nat), NEW t \in Seq(Nat), NEW v \in Nat,
         Len(t) <= Len(s), \A j \in 1..Len(t) : s[j] = t[j]
  PROVE  /\ Len(t) <= Len(Append(s, v))
         /\ \A j \in 1..Len(t) : Append(s, v)[j] = t[j]
OBVIOUS

LEMMA WalkBlock ==
  ASSUME func \in Inputs, NEW b \in DOMAIN func.body, NEW stacks \in Stacks,
         replacements \in Partial,
         Loads(b, Len(func.body[b])) \cap DOMAIN replacements = {}
  PROVE  LET w == Walk(stacks, func.body[b]) IN
         /\ Walked(b, stacks, w)
         /\ \E c : /\ BlockSolved(b, c, w.repl) /\ c[0] = Tops(stacks)
                   /\ c[Len(func.body[b])] = Tops(w.defs)
<1> DEFINE block == func.body[b]
           n == Len(block)
           w == Walk(stacks, block)
<1>1. /\ block \in Seq(Instr) /\ n \in Nat /\ DOMAIN block = 1..n
      /\ \A k \in 1..n : block[k] \in Instr
  BY FuncFacts
<1>2. PICK F : Traced(F, stacks, block)
  BY <1>1, WalkSteps
<1>3. /\ F \in [0..n -> [defs : Stacks, repl : Partial]]
      /\ F[0] = [defs |-> stacks, repl |-> replacements]
      /\ \A k \in 1..n : F[k] = WalkOne(F[k - 1], block[k])
      /\ w = F[n]
  BY <1>2 DEF Traced
<1> HIDE DEF w
<1>4. ASSUME NEW k \in 1..n
      PROVE  LET i == block[k] s == F[k - 1] t == F[k] IN
             /\ k - 1 \in 0..n /\ k \in 0..n
             /\ Of(i, "load") =>
                  /\ t.defs = s.defs /\ DOMAIN t.repl = DOMAIN s.repl \cup {i.val}
                  /\ t.repl[i.val] = CurrentDef(s.defs, i.var)
                  /\ \A v \in DOMAIN s.repl : v # i.val => t.repl[v] = s.repl[v]
             /\ ~Of(i, "load") => t.repl = s.repl
             /\ Of(i, "store") =>
                  \A x \in Promotable :
                    t.defs[x] = IF x = i.var THEN Append(s.defs[x], Resolve(s.repl, i.val))
                                ELSE s.defs[x]
             /\ Stays(i) => t.defs = s.defs
  <2>1. k - 1 \in 0..n /\ k \in 0..n
    BY <1>1
  <2>2. F[k - 1] \in [defs : Stacks, repl : Partial] /\ block[k] \in Instr
    BY <2>1, <1>1, <1>3
  <2> QED  BY <2>1, <2>2, <1>3, WalkOneFacts
<1> DEFINE c == [k \in 0..n |-> Tops(F[k].defs)]
           Kept1(k) ==
             /\ Extends(F[k].defs, stacks)
             /\ DOMAIN F[k].repl = DOMAIN replacements \cup Loads(b, k)
             /\ \A v \in DOMAIN replacements : F[k].repl[v] = replacements[v]
             /\ \A j \in 1..k : Of(block[j], "load") =>
                  F[k].repl[block[j].val] = CurrentDef(F[j - 1].defs, block[j].var)
           Good == {k \in Nat : k <= n => Kept1(k)}
<1>5. \A k \in 0..n : \A x \in Promotable :
         /\ F[k].defs[x] \in Seq(Nat) /\ F[k].defs \in Stacks /\ F[k].repl \in Partial
  BY <1>3 DEF Stacks
<1>6. 0 \in Good
  <2>1. 0 \in 0..n /\ Loads(b, 0) = {}
    BY <1>1 DEF Loads
  <2>2. Extends(stacks, stacks)
    BY DEF Extends
  <2> QED  BY <2>1, <2>2, <1>3
<1>7. ASSUME NEW k \in Nat, k \in Good PROVE k + 1 \in Good
  <2> SUFFICES ASSUME k + 1 <= n PROVE Kept1(k + 1)
    OBVIOUS
  <2> DEFINE i == block[k + 1]
             s == F[k]
             t == F[k + 1]
  <2>1. /\ k + 1 \in 1..n /\ (k + 1) - 1 = k /\ k \in 0..n /\ k + 1 \in 0..n /\ k <= n
        /\ \A j \in 1..(k + 1) : j \in 1..k \/ j = k + 1
        /\ \A j \in 1..k : j \in 1..n /\ j # k + 1
    BY <1>1
  <2>2. Kept1(k)
    BY <2>1, <1>7
  <2>3. /\ Of(i, "load") =>
             /\ t.defs = s.defs /\ DOMAIN t.repl = DOMAIN s.repl \cup {i.val}
             /\ t.repl[i.val] = CurrentDef(s.defs, i.var)
             /\ \A v \in DOMAIN s.repl : v # i.val => t.repl[v] = s.repl[v]
        /\ ~Of(i, "load") => t.repl = s.repl
        /\ Of(i, "store") =>
             \A x \in Promotable :
               t.defs[x] = IF x = i.var THEN Append(s.defs[x], Resolve(s.repl, i.val))
                           ELSE s.defs[x]
        /\ Stays(i) => t.defs = s.defs
    BY <2>1, <1>4
  <2>4. Loads(b, k + 1) = Loads(b, k) \cup (IF Of(i, "load") THEN {i.val} ELSE {})
    BY <2>1 DEF Loads
  <2>5. Extends(t.defs, stacks)
    <3>1. CASE Of(i, "load") \/ Stays(i)
      BY <3>1, <2>2, <2>3
    <3>2. CASE Of(i, "store")
      <4>0. i \in Instr /\ s.repl \in Partial /\ F[k] \in [defs : Stacks, repl : Partial]
        BY <2>1, <1>1, <1>3
      <4>1. /\ i.val \in Value
            /\ \A x \in Promotable : s.defs[x] \in Seq(Nat) /\ stacks[x] \in Seq(Nat)
        BY <4>0, InstrForm DEF Stacks
      <4>2. Resolve(s.repl, i.val) \in Nat
        BY <4>0, <4>1, PartialFacts
      <4> SUFFICES ASSUME NEW x \in Promotable
          PROVE  /\ Len(stacks[x]) <= Len(t.defs[x])
                 /\ \A j \in 1..Len(stacks[x]) : t.defs[x][j] = stacks[x][j]
        BY DEF Extends
      <4>3. /\ Len(stacks[x]) <= Len(s.defs[x])
            /\ \A j \in 1..Len(stacks[x]) : s.defs[x][j] = stacks[x][j]
        BY <2>2 DEF Extends
      <4>4. t.defs[x] = s.defs[x] \/ t.defs[x] = Append(s.defs[x], Resolve(s.repl, i.val))
        BY <2>3, <3>2
      <4>5. /\ Len(stacks[x]) <= Len(Append(s.defs[x], Resolve(s.repl, i.val)))
            /\ \A j \in 1..Len(stacks[x]) :
                 Append(s.defs[x], Resolve(s.repl, i.val))[j] = stacks[x][j]
        <5> HIDE DEF i, s, t
        <5> QED  BY <4>1, <4>2, <4>3, AppendKeeps
      <4> HIDE DEF i, s, t
      <4> QED  BY <4>3, <4>4, <4>5
    <3> QED  BY <3>1, <3>2 DEF Stays
  <2>6. /\ DOMAIN t.repl = DOMAIN replacements \cup Loads(b, k + 1)
        /\ \A v \in DOMAIN replacements : t.repl[v] = replacements[v]
    <3>1. CASE Of(i, "load")
      <4>1. i.val \in Loads(b, n)
        BY <2>1, <3>1 DEF Loads
      <4> QED  BY <4>1, <3>1, <2>2, <2>3, <2>4
    <3>2. CASE ~Of(i, "load")
      BY <3>2, <2>2, <2>3, <2>4
    <3> QED  BY <3>1, <3>2
  <2>7. ASSUME NEW j \in 1..(k + 1), Of(block[j], "load")
        PROVE  t.repl[block[j].val] = CurrentDef(F[j - 1].defs, block[j].var)
    <3>1. CASE j = k + 1
      BY <3>1, <2>1, <2>3, <2>7
    <3>2. CASE j \in 1..k
      <4>1. s.repl[block[j].val] = CurrentDef(F[j - 1].defs, block[j].var)
        BY <3>2, <2>2, <2>7
      <4>2. block[j].val \in DOMAIN s.repl
        BY <3>2, <2>2, <2>7 DEF Loads
      <4>3. CASE Of(i, "load")
        <5>1. /\ Stands(i.val, b, k + 1) /\ Stands(block[j].val, b, j)
              /\ j # k + 1
          BY <4>3, <3>2, <2>1, <2>7, <1>1 DEF Of, Defines, Stands
        <5>2. i.val # block[j].val
          <6> HIDE DEF i, block
          <6> QED  BY <5>1, StandsOnce
        <5> QED  BY <5>2, <4>1, <4>2, <4>3, <2>3
      <4>4. CASE ~Of(i, "load")
        BY <4>1, <4>4, <2>3
      <4> QED  BY <4>3, <4>4
    <3> QED  BY <3>1, <3>2, <2>1
  <2> QED  BY <2>5, <2>6, <2>7
<1>8. \A k \in 0..n : Kept1(k)
  <2> HIDE DEF Kept1
  <2>1. \A k \in Nat : k \in Good
    <3> HIDE DEF Good
    <3> QED  BY <1>6, <1>7, SetInduction
  <2> QED  BY <2>1
<1>9. Walked(b, stacks, w)
  <2>1. n \in 0..n /\ w \in [defs : Stacks, repl : Partial] /\ Kept1(n)
    BY <1>1, <1>3, <1>8, SMTT(30)
  <2> QED  BY <2>1, <1>3 DEF Walked
<1>10. c \in [0..n -> [Promotable -> Nat]]
  <2>1. ASSUME NEW k \in 0..n, NEW x \in Promotable PROVE CurrentDef(F[k].defs, x) \in Nat
    <3>1. F[k].defs[x] \in Seq(Nat)
      BY <1>5
    <3> QED  BY <3>1 DEF CurrentDef, Last, Undef
  <2> QED  BY <2>1 DEF Tops
<1>11. ASSUME NEW k \in 1..n, block[k].op = "store"
       PROVE  Resolve(F[k - 1].repl, block[k].val) = Resolve(w.repl, block[k].val)
  <2> DEFINE v == block[k].val
  <2>1. Kept1(k - 1) /\ Kept1(n) /\ k - 1 \in 0..n /\ \A j \in 1..(k - 1) : j \in 1..n
    BY <1>1, <1>4, <1>8, SMTT(30)
  <2>2. CASE v \in DOMAIN F[k - 1].repl
    <3>1. CASE v \in DOMAIN replacements
      BY <3>1, <2>1, <2>2, <1>3 DEF Resolve
    <3>2. CASE v \in Loads(b, k - 1)
      <4>1. PICK j \in 1..(k - 1) : Of(block[j], "load") /\ v = block[j].val
        BY <3>2 DEF Loads
      <4>2. F[k - 1].repl[v] = F[n].repl[v]
        <5>1. j \in 1..n /\ v = block[j].val /\ Of(block[j], "load")
          BY <4>1, <2>1
        <5>2. /\ F[k - 1].repl[block[j].val] = CurrentDef(F[j - 1].defs, block[j].var)
              /\ F[n].repl[block[j].val] = CurrentDef(F[j - 1].defs, block[j].var)
          BY <4>1, <5>1, <2>1
        <5> QED  BY <5>1, <5>2
      <4>3. v \in DOMAIN F[n].repl
        BY <4>1, <2>1 DEF Loads
      <4> QED  BY <4>2, <4>3, <2>2, <1>3 DEF Resolve
    <3> QED  BY <3>1, <3>2, <2>1, <2>2
  <2>3. CASE v \notin DOMAIN F[k - 1].repl
    <3>1. v \notin DOMAIN F[n].repl
      <4> SUFFICES ASSUME v \in DOMAIN F[n].repl PROVE FALSE
        OBVIOUS
      <4>1. v \in Loads(b, n) /\ v \notin Loads(b, k - 1)
        BY <2>1, <2>3
      <4>2. PICK j \in 1..n : Of(block[j], "load") /\ v = block[j].val
        BY <4>1 DEF Loads
      <4>3. ~(j < k)
        <5> SUFFICES ASSUME j < k PROVE FALSE
          OBVIOUS
        <5>1. j \in 1..(k - 1)
          BY <1>1
        <5> QED  BY <5>1, <4>1, <4>2 DEF Loads
      <4>4. Stands(v, b, j)
        BY <4>2, <1>1 DEF Of, Defines, Stands
      <4>5. v # Undef
        BY <4>4, StandsOnce
      <4>6. PICK a, h : Stands(v, a, h) /\ IF a = b THEN h < k ELSE Dominates(func.succ, a, b)
        BY <4>5, <1>1, <1>11, StoredBefore
      <4>7. a = b /\ h = j
        BY <4>4, <4>6, StandsOnce
      <4> QED  BY <4>3, <4>6, <4>7
    <3> QED  BY <3>1, <2>3, <1>3 DEF Resolve
  <2> QED  BY <2>2, <2>3
<1>12. ASSUME NEW k \in 1..n
       PROVE  /\ Of(block[k], "load") =>
                   /\ block[k].val \in DOMAIN w.repl
                   /\ w.repl[block[k].val] = c[k - 1][block[k].var]
              /\ \A x \in Promotable :
                   c[k][x] = IF Of(block[k], "store") /\ x = block[k].var
                             THEN Resolve(w.repl, block[k].val) ELSE c[k - 1][x]
  <2> DEFINE i == block[k]
             s == F[k - 1]
             t == F[k]
  <2>1. /\ k - 1 \in 0..n /\ k \in 0..n /\ Kept1(n) /\ n \in 0..n
        /\ c[k] = Tops(t.defs) /\ c[k - 1] = Tops(s.defs)
    BY <1>1, <1>4, <1>8, SMTT(30)
  <2>2. /\ Of(i, "load") =>
             /\ t.defs = s.defs /\ DOMAIN t.repl = DOMAIN s.repl \cup {i.val}
             /\ t.repl[i.val] = CurrentDef(s.defs, i.var)
        /\ Of(i, "store") =>
             \A x \in Promotable :
               t.defs[x] = IF x = i.var THEN Append(s.defs[x], Resolve(s.repl, i.val))
                           ELSE s.defs[x]
        /\ Stays(i) => t.defs = s.defs
    BY <1>4
  <2>3. Of(i, "load") => /\ i.val \in DOMAIN w.repl
                         /\ w.repl[i.val] = c[k - 1][i.var]
    <3> SUFFICES ASSUME Of(i, "load")
        PROVE  i.val \in DOMAIN w.repl /\ w.repl[i.val] = c[k - 1][i.var]
      OBVIOUS
    <3>1. i.val \in DOMAIN F[n].repl /\ F[n].repl[i.val] = CurrentDef(s.defs, i.var)
      BY <2>1 DEF Loads
    <3>2. i.var \in Promotable
      BY DEF Of
    <3> QED  BY <3>1, <3>2, <2>1, <1>3, Zenon DEF Tops
  <2>4. ASSUME NEW x \in Promotable
        PROVE  c[k][x] = IF Of(i, "store") /\ x = i.var
                         THEN Resolve(w.repl, i.val) ELSE c[k - 1][x]
    <3>0. c[k][x] = CurrentDef(t.defs, x) /\ c[k - 1][x] = CurrentDef(s.defs, x)
      BY <2>1 DEF Tops
    <3> HIDE DEF c
    <3>1. CASE Of(i, "store") /\ x = i.var
      <4>1. t.defs[x] = Append(s.defs[x], Resolve(s.repl, i.val))
        BY <3>1, <2>2, Zenon
      <4>2. s.defs[x] \in Seq(Nat) /\ Resolve(s.repl, i.val) \in Nat
        BY <2>1, <1>1, <1>5, InstrForm, PartialFacts
      <4>3. CurrentDef(t.defs, x) = Resolve(s.repl, i.val)
        BY <4>1, <4>2, TopOfAppend DEF CurrentDef
      <4>4. Resolve(s.repl, i.val) = Resolve(w.repl, i.val)
        BY <3>1, <1>11 DEF Of
      <4> QED  BY <3>0, <3>1, <4>3, <4>4, Zenon
    <3>2. CASE ~(Of(i, "store") /\ x = i.var)
      <4>1. t.defs[x] = s.defs[x]
        BY <3>2, <2>2 DEF Stays
      <4> QED  BY <3>0, <3>2, <4>1 DEF CurrentDef
    <3> QED  BY <3>1, <3>2
  <2> QED  BY <2>3, <2>4
<1>13. BlockSolved(b, c, w.repl)
  BY <1>10, <1>12 DEF BlockSolved
<1>14. c[0] = Tops(stacks) /\ c[n] = Tops(w.defs)
  BY <1>1, <1>3
<1> HIDE DEF c
<1> QED  BY <1>9, <1>13, <1>14 DEF w

-----------------------------------------------------------------------------
(* What the walk over the tree settles.  A place is a block and the number *)
(* of an instruction of it; the phis of a block stand at its place 0.      *)

Given == func \in Inputs /\ cfg = func.succ

LEMMA GivenFacts ==
  ASSUME Given
  PROVE  /\ Graph(cfg, Len(cfg)) /\ Preds(cfg, 1) = {} /\ Len(cfg) \in Nat
         /\ DOMAIN cfg = 1..Len(cfg) /\ DOMAIN func.body = 1..Len(cfg)
         /\ 1 \in 1..Len(cfg) /\ 1 \in Reachable(cfg) /\ Reachable(cfg) \subseteq 1..Len(cfg)
         /\ \A a \in Reachable(cfg) : \A b \in Range(cfg[a]) : b \in Reachable(cfg)
         /\ \A b \in 1..Len(cfg) :
              /\ func.body[b] \in Seq(Instr) /\ Len(func.body[b]) \in Nat
              /\ DOMAIN func.body[b] = 1..Len(func.body[b])
         /\ \A b \in 1..Len(cfg) : \A k \in 1..Len(func.body[b]) :
              func.body[b][k] \in Instr
<1> DEFINE n == Len(func.succ)
<1>1. /\ Graph(func.succ, n) /\ Preds(func.succ, 1) = {} /\ n \in Nat
      /\ DOMAIN func.succ = 1..n /\ DOMAIN func.body = 1..n
      /\ \A b \in 1..n : func.body[b] \in Seq(Instr) /\ DOMAIN func.body[b] = 1..Len(func.body[b])
      /\ \A b \in 1..n : \A k \in 1..Len(func.body[b]) : func.body[b][k] \in Instr
  BY FuncFacts DEF Given
<1>2. /\ 1 \in 1..n /\ 1 \in Reachable(func.succ) /\ Reachable(func.succ) \subseteq 1..n
      /\ \A a \in Reachable(func.succ) : \A b \in Range(func.succ[a]) :
           b \in Reachable(func.succ)
  BY <1>1, ReachableFacts, Edges
<1>3. \A b \in 1..n : Len(func.body[b]) \in Nat
  BY <1>1
<1> QED  BY <1>1, <1>2, <1>3 DEF Given

Size(b) == Len(func.body[b])
EndOf(cur, b) == cur[b][Size(b)]

Before(a, j, b, k) == IF a = b THEN j <= k ELSE Dominates(cfg, a, b)

LEMMA BeforeTransitive ==
  ASSUME Given, NEW a, NEW b, NEW c \in Reachable(cfg),
         NEW j \in Int, NEW k \in Int, NEW l \in Int,
         Before(a, j, b, k), Before(b, k, c, l)
  PROVE  Before(a, j, c, l)
<1>1. Graph(cfg, Len(cfg))
  BY GivenFacts
<1>2. CASE a = b
  BY <1>2 DEF Before
<1>3. CASE a # b /\ b = c
  BY <1>3 DEF Before
<1>4. CASE a # b /\ b # c
  <2>1. Dominates(cfg, a, b) /\ Dominates(cfg, b, c)
    BY <1>4 DEF Before
  <2>2. Dominates(cfg, a, c)
    BY <2>1, <1>1, DomTransitive
  <2>3. a # c
    BY <2>1, <1>1, <1>4, DomAntisymmetric
  <2> QED  BY <2>2, <2>3 DEF Before
<1> QED  BY <1>2, <1>3, <1>4

(* A value that may be used at a place: every way it comes about is before *)
(* it, and it is not the result of a promoted load, which goes.            *)
Avail(u, b, k) ==
  \/ \E p \in DOMAIN phiOf : u = phiOf[p] /\ Before(p[1], 0, b, k)
  \/ /\ u \in Value
     /\ \A a, j : Stands(u, a, j) =>
          ~Of(func.body[a][j], "load") /\ Before(a, j, b, k)

Real(u) ==
  u = Undef \/ (\E p \in DOMAIN phiOf : u = phiOf[p]) \/ \E a, j : Stands(u, a, j)

InScope(v, b, k) == v \in Value /\ \A a, j : Stands(v, a, j) => Before(a, j, b, k)

LEMMA StandsFacts ==
  ASSUME Given, NEW v, NEW a, NEW j, Stands(v, a, j)
  PROVE  /\ a \in 1..Len(cfg) /\ j \in 1..Size(a) /\ j \in Nat /\ v # Undef
         /\ func.body[a][j] \in Instr /\ func.body[a][j].val = v
         /\ func.body[a][j].op \in {"load", "def"}
<1>1. /\ a \in DOMAIN func.body /\ j \in DOMAIN func.body[a]
      /\ func.body[a][j].op \in {"load", "def"} /\ func.body[a][j].val = v
  BY DEF Stands, Defines
<1>2. v # Undef
  BY StandsOnce DEF Given
<1>3. a \in 1..Len(cfg)
  BY <1>1, GivenFacts
<1>4. j \in 1..Size(a)
  BY <1>1, <1>3, GivenFacts DEF Size
<1>5. func.body[a][j] \in Instr
  BY <1>3, <1>4, GivenFacts DEF Size
<1> QED  BY <1>1, <1>2, <1>3, <1>4, <1>5

LEMMA AvailLater ==
  ASSUME Given, NEW u, NEW b, NEW c \in Reachable(cfg), NEW k \in Int, NEW l \in Int,
         DOMAIN phiOf \subseteq Nat \X Nat,
         Avail(u, b, k), Before(b, k, c, l)
  PROVE  Avail(u, c, l)
<1>1. CASE \E p \in DOMAIN phiOf : u = phiOf[p] /\ Before(p[1], 0, b, k)
  <2>1. PICK p \in DOMAIN phiOf : u = phiOf[p] /\ Before(p[1], 0, b, k)
    BY <1>1
  <2>2. Before(p[1], 0, c, l)
    BY <2>1, BeforeTransitive
  <2> QED  BY <2>1, <2>2 DEF Avail
<1>2. CASE /\ u \in Value
           /\ \A a, j : Stands(u, a, j) =>
                ~Of(func.body[a][j], "load") /\ Before(a, j, b, k)
  <2>1. ASSUME NEW a, NEW j, Stands(u, a, j) PROVE Before(a, j, c, l)
    <3>1. j \in Int
      BY <2>1, StandsFacts
    <3>2. Before(a, j, b, k)
      BY <1>2, <2>1
    <3> QED  BY <3>1, <3>2, BeforeTransitive
  <2> QED  BY <1>2, <2>1 DEF Avail
<1> QED  BY <1>1, <1>2 DEF Avail

\* What a store stores is in scope just before it.
LEMMA StoredInScope ==
  ASSUME Given, NEW b \in 1..Len(cfg), NEW k \in 1..Size(b),
         func.body[b][k].op = "store"
  PROVE  InScope(func.body[b][k].val, b, k - 1) /\ Real(func.body[b][k].val)
<1> DEFINE v == func.body[b][k].val
<1>1. b \in DOMAIN func.body /\ k \in DOMAIN func.body[b] /\ k \in Int
  BY GivenFacts DEF Size
<1>2. v \in Value
  BY GivenFacts, InstrForm DEF Size
<1>3. CASE v = Undef
  BY <1>2, <1>3, StandsFacts DEF InScope, Real
<1>4. CASE v # Undef
  <2>1. PICK a, j : Stands(v, a, j) /\ IF a = b THEN j < k ELSE Dominates(func.succ, a, b)
    BY <1>1, <1>4, StoredBefore DEF Given
  <2>2. j \in Int /\ \A c, h : Stands(v, c, h) => c = a /\ h = j
    BY <2>1, StandsFacts, StandsOnce DEF Given
  <2>3. Before(a, j, b, k - 1)
    BY <2>1, <2>2, <1>1 DEF Before, Given
  <2> QED  BY <1>2, <2>1, <2>2, <2>3 DEF InScope, Real
<1> QED  BY <1>3, <1>4

(* The blocks walked, with those that dominate them; what each variable is *)
(* all through them, and that it may be used there.                        *)
Closed(V) ==
  V \subseteq Reachable(cfg) /\ \A b \in V : \A a : Dominates(cfg, a, b) => a \in V

Holds(V, cur, r) ==
  /\ r \in Partial /\ DOMAIN r = UNION {Loads(b, Size(b)) : b \in V}
  /\ \A b \in V : BlockSolved(b, cur[b], r)

ValuedAt(cur, b, k) ==
  \A x \in Promotable : Avail(cur[b][k][x], b, k) /\ Real(cur[b][k][x])

Valued(cur, b) == \A k \in 0..Size(b) : ValuedAt(cur, b, k)

LEMMA LoadsFacts ==
  ASSUME Given, NEW b \in 1..Len(cfg), NEW k \in 0..Size(b), NEW v
  PROVE  v \in Loads(b, k) <=>
           \E j \in 1..k : Stands(v, b, j) /\ Of(func.body[b][j], "load")
<1>1. \A j \in 1..k : j \in 1..Size(b)
  BY GivenFacts DEF Size
<1>2. ASSUME NEW j \in 1..k, Of(func.body[b][j], "load"), v = func.body[b][j].val
      PROVE  Stands(v, b, j)
  BY <1>1, <1>2, GivenFacts DEF Stands, Size, Of, Defines
<1>3. ASSUME NEW j \in 1..k, Stands(v, b, j) PROVE v = func.body[b][j].val
  BY <1>3 DEF Stands, Defines
<1> QED  BY <1>2, <1>3 DEF Loads

\* A load of a block walked is noted, and it stands for what the variable was.
LEMMA NotedLoads ==
  ASSUME Given, NEW V, NEW cur, NEW r, Closed(V), Holds(V, cur, r), NEW v
  PROVE  /\ \A a, j : a \in V /\ Stands(v, a, j) /\ Of(func.body[a][j], "load") =>
              v \in DOMAIN r /\ r[v] = cur[a][j - 1][func.body[a][j].var]
         /\ v \in DOMAIN r =>
              \E a, j : a \in V /\ Stands(v, a, j) /\ Of(func.body[a][j], "load")
<1>1. V \subseteq 1..Len(cfg) /\ DOMAIN func.body = 1..Len(cfg)
  BY GivenFacts DEF Closed
<1>2. ASSUME NEW a, NEW j, a \in V, Stands(v, a, j), Of(func.body[a][j], "load")
      PROVE  v \in DOMAIN r /\ r[v] = cur[a][j - 1][func.body[a][j].var]
  <2>1. j \in 1..Size(a) /\ func.body[a][j].val = v
    BY <1>2, StandsFacts
  <2> QED  BY <2>1, <1>2 DEF Holds, BlockSolved, Size
<1>3. ASSUME v \in DOMAIN r
      PROVE  \E a, j : a \in V /\ Stands(v, a, j) /\ Of(func.body[a][j], "load")
  <2>1. PICK a \in V : v \in Loads(a, Size(a))
    BY <1>3 DEF Holds
  <2>2. a \in 1..Len(cfg) /\ Size(a) \in 0..Size(a)
    BY <1>1, GivenFacts DEF Size
  <2> QED  BY <2>1, <2>2, LoadsFacts
<1> QED  BY <1>2, <1>3

(* What is in scope at a place of a block walked is replaced by what may   *)
(* be used there, as soon as that holds of the places before it.           *)
LEMMA ResolveAvail ==
  ASSUME Given, DOMAIN phiOf \subseteq Nat \X Nat,
         NEW V, NEW cur, NEW r, Closed(V), Holds(V, cur, r),
         NEW b \in V, NEW k \in Int,
         \A a \in V : \A j \in 0..Size(a) : (a = b => j < k) => ValuedAt(cur, a, j),
         NEW v, InScope(v, b, k)
  PROVE  Avail(Resolve(r, v), b, k) /\ (Real(v) => Real(Resolve(r, v)))
<1>1. b \in Reachable(cfg) /\ \A a : Dominates(cfg, a, b) => a \in V
  BY DEF Closed
<1>2. CASE v \notin DOMAIN r
  <2>1. Resolve(r, v) = v
    BY <1>2 DEF Resolve
  <2>2. ASSUME NEW a, NEW j, Stands(v, a, j)
        PROVE  ~Of(func.body[a][j], "load") /\ Before(a, j, b, k)
    <3>1. Before(a, j, b, k)
      BY <2>2 DEF InScope
    <3>2. a \in V
      BY <3>1, <1>1, Zenon DEF Before
    <3> QED  BY <2>2, <3>1, <3>2, <1>2, NotedLoads
  <2> QED  BY <2>1, <2>2 DEF Avail, InScope
<1>3. CASE v \in DOMAIN r
  <2>1. PICK a, j : a \in V /\ Stands(v, a, j) /\ Of(func.body[a][j], "load")
    BY <1>3, NotedLoads
  <2> DEFINE x == func.body[a][j].var
             u == cur[a][j - 1][x]
  <2>2. r[v] = u
    BY <2>1, NotedLoads
  <2>3. Before(a, j, b, k) /\ j \in 1..Size(a) /\ Size(a) \in Nat
    <3>1. a \in 1..Len(cfg)
      BY <2>1, StandsFacts
    <3> QED  BY <2>1, <3>1, StandsFacts, GivenFacts DEF InScope, Size
  <2>4. j - 1 \in 0..Size(a) /\ (a = b => j - 1 < k)
    BY <2>3 DEF Before
  <2>5. ValuedAt(cur, a, j - 1) /\ x \in Promotable
    BY <2>1, <2>4 DEF Of
  <2>6. Avail(u, a, j - 1) /\ Real(u)
    BY <2>5 DEF ValuedAt
  <2>7. Before(a, j - 1, b, k)
    BY <2>3 DEF Before
  <2>8. Avail(u, b, k)
    <3> HIDE DEF u
    <3>1. j - 1 \in Int /\ b \in Reachable(cfg)
      BY <2>3, <1>1
    <3> QED  BY <3>1, <2>6, <2>7, AvailLater
  <2> QED  BY <2>2, <2>6, <2>8, <1>3, Zenon DEF Resolve
<1> QED  BY <1>2, <1>3

LEMMA BlockValued ==
  ASSUME Given, DOMAIN phiOf \subseteq Nat \X Nat,
         NEW V, NEW cur, NEW r, Closed(V), Holds(V, cur, r),
         NEW b \in V, \A a \in V : a # b => Valued(cur, a), ValuedAt(cur, b, 0)
  PROVE  Valued(cur, b)
<1>1. b \in 1..Len(cfg) /\ b \in Reachable(cfg) /\ Size(b) \in Nat
  BY GivenFacts DEF Closed, Size
<1> DEFINE Good(m) == \A k \in 0..m : k <= Size(b) => ValuedAt(cur, b, k)
           Upto == {m \in Nat : Good(m)}
<1>2. 0 \in Upto
  OBVIOUS
<1>3. ASSUME NEW m \in Nat, m \in Upto PROVE m + 1 \in Upto
  <2> SUFFICES ASSUME m + 1 <= Size(b) PROVE ValuedAt(cur, b, m + 1)
    BY <1>3
  <2> DEFINE k == m + 1
             i == func.body[b][k]
  <2>1. /\ k \in 1..Size(b) /\ k \in Int /\ k - 1 = m /\ m <= Size(b) /\ m \in 0..m
        /\ \A j \in Int : 0 <= j /\ j < k => j \in 0..m
    BY <1>1
  <2>2. ValuedAt(cur, b, m)
    BY <2>1, <1>3
  <2>3. /\ \A x \in Promotable :
             cur[b][k][x] = IF Of(i, "store") /\ x = i.var
                            THEN Resolve(r, i.val) ELSE cur[b][m][x]
    BY <2>1, SMTT(30) DEF Holds, BlockSolved, Size
  <2>4. \A a \in V : \A j \in 0..Size(a) : (a = b => j < k) => ValuedAt(cur, a, j)
    <3> SUFFICES ASSUME NEW a \in V, NEW j \in 0..Size(a), a = b => j < k
        PROVE  ValuedAt(cur, a, j)
      OBVIOUS
    <3>1. CASE a # b
      BY <3>1 DEF Valued
    <3>2. CASE a = b
      BY <3>2, <2>1, <1>1, <1>3
    <3> QED  BY <3>1, <3>2
  <2>5. Before(b, m, b, k)
    BY <2>1 DEF Before
  <2> SUFFICES ASSUME NEW x \in Promotable
      PROVE  Avail(cur[b][k][x], b, k) /\ Real(cur[b][k][x])
    BY DEF ValuedAt
  <2>6. CASE Of(i, "store") /\ x = i.var
    <3>1. i.op = "store"
      BY <2>6 DEF Of
    <3>2. InScope(i.val, b, m) /\ Real(i.val)
      BY <3>1, <2>1, <1>1, StoredInScope
    <3>3. InScope(i.val, b, k)
      <4>1. ASSUME NEW a, NEW j, Stands(i.val, a, j) PROVE Before(a, j, b, k)
        <5>1. Before(a, j, b, m) /\ j \in Int
          BY <4>1, <3>2, StandsFacts DEF InScope
        <5> QED  BY <5>1, <2>1 DEF Before
      <4> QED  BY <4>1, <3>2 DEF InScope
    <3>4. Avail(Resolve(r, i.val), b, k) /\ Real(Resolve(r, i.val))
      <4> HIDE DEF i, k
      <4> QED  BY <3>2, <3>3, <2>4, <2>1, ResolveAvail
    <3> QED  BY <3>4, <2>3, <2>6
  <2>7. CASE ~(Of(i, "store") /\ x = i.var)
    <3>1. Avail(cur[b][m][x], b, m) /\ Real(cur[b][m][x])
      BY <2>2 DEF ValuedAt
    <3>2. Avail(cur[b][m][x], b, k)
      BY <3>1, <2>1, <2>5, <1>1, AvailLater
    <3> QED  BY <3>1, <3>2, <2>3, <2>7
  <2> QED  BY <2>6, <2>7
<1>4. \A m \in Nat : m \in Upto
  <2> HIDE DEF Upto
  <2> QED  BY <1>2, <1>3, SetInduction
<1>5. Good(Size(b)) /\ \A k \in 0..Size(b) : k <= Size(b)
  BY <1>1, <1>4
<1> QED  BY <1>5 DEF Valued

(* What a variable is where a block starts: its phi there, or what it was  *)
(* where the block's parent in the tree ended.                             *)
Starts(V, cur) ==
  \A b \in V : \A x \in Promotable :
    cur[b][0][x] = IF <<b, x>> \in DOMAIN phiOf THEN phiOf[<<b, x>>]
                   ELSE IF b = 1 THEN Undef ELSE EndOf(cur, idom[b])[x]

LEMMA QuietBlock ==
  ASSUME Given, NEW c \in 1..Len(cfg), NEW s, NEW r, BlockSolved(c, s, r),
         NEW x \in Promotable, Quiet(c, x, DOMAIN phiOf)
  PROVE  s[Size(c)][x] = s[0][x]
<1>1. Size(c) \in Nat /\ DOMAIN func.body[c] = 1..Size(c)
  BY GivenFacts DEF Size
<1> DEFINE Same == {k \in Nat : k <= Size(c) => s[k][x] = s[0][x]}
<1>2. 0 \in Same
  OBVIOUS
<1>3. ASSUME NEW k \in Nat, k \in Same PROVE k + 1 \in Same
  <2> SUFFICES ASSUME k + 1 <= Size(c) PROVE s[k + 1][x] = s[0][x]
    OBVIOUS
  <2>1. k + 1 \in 1..Size(c) /\ (k + 1) - 1 = k /\ s[k][x] = s[0][x]
    BY <1>1, <1>3
  <2> DEFINE i == func.body[c][k + 1]
  <2>2. s[k + 1][x] = IF Of(i, "store") /\ x = i.var THEN Resolve(r, i.val) ELSE s[k][x]
    <3>1. \A h \in 1..Size(c) :
            s[h][x] = IF Of(func.body[c][h], "store") /\ x = func.body[c][h].var
                      THEN Resolve(r, func.body[c][h].val) ELSE s[h - 1][x]
      BY DEF BlockSolved, Size
    <3> QED  BY <3>1, <2>1
  <2>3. ~(Of(i, "store") /\ x = i.var)
    <3>1. i \in Range(func.body[c])
      BY <1>1, <2>1 DEF Range
    <3> QED  BY <3>1 DEF Quiet, Of
  <2> QED  BY <2>1, <2>2, <2>3
<1>4. \A k \in Nat : k \in Same
  <2> HIDE DEF Same
  <2> QED  BY <1>2, <1>3, SetInduction
<1> QED  BY <1>1, <1>4

\* Along a quiet way up the tree the variable does not change.
LEMMA Unchanging ==
  ASSUME Given, idom # <<>>, ImmediateDominators,
         NEW V, NEW cur, NEW r, Closed(V), Holds(V, cur, r), Starts(V, cur),
         NEW a \in V, NEW s, NEW x \in Promotable, QuietWay(a, s, x, DOMAIN phiOf)
  PROVE  EndOf(cur, a)[x] = EndOf(cur, s)[x]
<1>1. PICK k \in Nat : \E U :
        /\ Lineage(U, k, a, s)
        /\ \A j \in 0..(k - 1) :
             U[j] \in DOMAIN func.body \ {1} /\ Quiet(U[j], x, DOMAIN phiOf)
  BY DEF QuietWay
<1>2. PICK U :
        /\ Lineage(U, k, a, s)
        /\ \A j \in 0..(k - 1) :
             U[j] \in DOMAIN func.body \ {1} /\ Quiet(U[j], x, DOMAIN phiOf)
  BY <1>1
<1>3. U[0] = a /\ U[k] = s /\ \A j \in 0..(k - 1) : U[j + 1] = idom[U[j]]
  BY <1>2 DEF Lineage
<1>4. ASSUME NEW c \in V, c # 1
      PROVE  idom[c] \in V
  <2>1. Graph(cfg, Len(cfg)) /\ c \in Reachable(cfg) /\ \A d1 : Dominates(cfg, d1, c) => d1 \in V
    BY GivenFacts DEF Closed
  <2>2. Dominates(cfg, idom[c], c)
    BY <2>1, <1>4, IdomFacts
  <2> QED  BY <2>1, <2>2
<1> DEFINE Same == {j \in Nat : j <= k => U[j] \in V /\ EndOf(cur, U[j])[x] = EndOf(cur, a)[x]}
<1>5. 0 \in Same
  BY <1>3
<1>6. ASSUME NEW j \in Nat, j \in Same PROVE j + 1 \in Same
  <2> SUFFICES ASSUME j + 1 <= k
      PROVE  U[j + 1] \in V /\ EndOf(cur, U[j + 1])[x] = EndOf(cur, a)[x]
    OBVIOUS
  <2> DEFINE c == U[j]
  <2>1. j \in 0..(k - 1) /\ c \in V /\ EndOf(cur, c)[x] = EndOf(cur, a)[x]
    BY <1>6
  <2>2. c # 1 /\ Quiet(c, x, DOMAIN phiOf) /\ U[j + 1] = idom[c]
    BY <2>1, <1>2, <1>3
  <2>3. c \in 1..Len(cfg) /\ BlockSolved(c, cur[c], r)
    BY <2>1, GivenFacts DEF Closed, Holds
  <2> HIDE DEF c
  <2>4. EndOf(cur, c)[x] = cur[c][0][x]
    BY <2>2, <2>3, QuietBlock DEF EndOf
  <2>5. cur[c][0][x] = EndOf(cur, idom[c])[x]
    BY <2>1, <2>2 DEF Starts, Quiet
  <2> QED  BY <2>1, <2>2, <2>4, <2>5, <1>4
<1>7. k \in Same
  <2> HIDE DEF Same
  <2> QED  BY <1>5, <1>6, SetInduction
<1> QED  BY <1>3, <1>7

-----------------------------------------------------------------------------
(* The walk over the tree: one more block.                                 *)

Entry == [pred : Nat, val : Nat]

Numbered ==
  /\ DOMAIN phiOf \subseteq (2..Len(cfg)) \X Promotable
  /\ \A p \in DOMAIN phiOf : phiOf[p] \in Nat /\ phiOf[p] >= ValueCount
  /\ \A p, q \in DOMAIN phiOf : phiOf[p] = phiOf[q] => p = q

(* The entries of the phi of a block and a variable: one for each block    *)
(* walked that goes there, with what the variable is where that one ends.  *)
Filled(V, cur, p, entries) ==
  /\ entries \in Seq(Entry)
  /\ \A k \in 1..Len(entries) :
       /\ entries[k].pred \in V /\ p[1] \in Range(cfg[entries[k].pred])
       /\ entries[k].val = EndOf(cur, entries[k].pred)[p[2]]
  /\ \A k, m \in 1..Len(entries) : entries[k].pred = entries[m].pred => k = m
  /\ \A a \in V : p[1] \in Range(cfg[a]) =>
       \E k \in 1..Len(entries) : entries[k].pred = a

Progress(V, cur, r, entriesOf) ==
  /\ Closed(V) /\ Holds(V, cur, r) /\ Starts(V, cur)
  /\ \A b \in V : Valued(cur, b)
  /\ \A p \in DOMAIN phiOf : Filled(V, cur, p, entriesOf[phiOf[p]])

LEMMA NumberedFacts ==
  ASSUME Numbered
  PROVE  DOMAIN phiOf \subseteq Nat \X Nat
<1>1. Promotable \subseteq Nat
  BY ConstantsAssumption DEF Promotable
<1>2. \A b \in 2..Len(cfg) : b \in Nat
  OBVIOUS
<1> QED  BY <1>1, <1>2 DEF Numbered

LEMMA OneMoreBlock ==
  ASSUME Given, idom # <<>>, ImmediateDominators, NEW V, Closed(V),
         NEW b \in Reachable(cfg), b = 1 \/ idom[b] \in V
  PROVE  Closed(V \cup {b})
<1>1. Graph(cfg, Len(cfg))
  BY GivenFacts
<1>2. ASSUME NEW a, Dominates(cfg, a, b), a # b PROVE a \in V
  <2>1. CASE b = 1
    BY <2>1, <1>1, <1>2, EntryDominates, DomAntisymmetric
  <2>2. CASE b # 1
    <3>1. Dominates(cfg, a, idom[b])
      BY <2>2, <1>1, <1>2, IdomFacts
    <3> QED  BY <3>1, <2>2 DEF Closed
  <2> QED  BY <2>1, <2>2
<1> QED  BY <1>2 DEF Closed

\* What was settled for a block stays so when the loads of another are noted.
LEMMA SolvedStays ==
  ASSUME Given, NEW V, Closed(V), NEW r \in Partial, NEW t \in Partial,
         NEW b \in 1..Len(cfg), b \notin V,
         DOMAIN t = DOMAIN r \cup Loads(b, Size(b)),
         \A v \in DOMAIN r : t[v] = r[v],
         NEW a \in V, NEW s, BlockSolved(a, s, r)
  PROVE  BlockSolved(a, s, t)
<1>1. /\ a \in 1..Len(cfg) /\ a \in Reachable(cfg) /\ Size(b) \in 0..Size(b)
      /\ \A c : Dominates(cfg, c, a) => c \in V
  BY GivenFacts DEF Closed, Size
<1>2. ASSUME NEW k \in 1..Size(a), func.body[a][k].op = "store"
      PROVE  Resolve(t, func.body[a][k].val) = Resolve(r, func.body[a][k].val)
  <2> DEFINE v == func.body[a][k].val
  <2>1. InScope(v, a, k - 1)
    BY <1>1, <1>2, StoredInScope
  <2>2. v \notin Loads(b, Size(b))
    <3> SUFFICES ASSUME v \in Loads(b, Size(b)) PROVE FALSE
      OBVIOUS
    <3> HIDE DEF v
    <3>1. PICK j : Stands(v, b, j)
      BY <1>1, LoadsFacts
    <3>2. Before(b, j, a, k - 1)
      BY <3>1, <2>1 DEF InScope
    <3> QED  BY <3>2, <1>1 DEF Before
  <2> QED  BY <2>2 DEF Resolve
<1>3. ASSUME NEW k \in 1..Size(a)
      PROVE  /\ Of(func.body[a][k], "load") =>
                  /\ func.body[a][k].val \in DOMAIN t
                  /\ t[func.body[a][k].val] = s[k - 1][func.body[a][k].var]
             /\ \A x \in Promotable :
                  s[k][x] = IF Of(func.body[a][k], "store") /\ x = func.body[a][k].var
                            THEN Resolve(t, func.body[a][k].val) ELSE s[k - 1][x]
  <2>1. /\ Of(func.body[a][k], "load") =>
             /\ func.body[a][k].val \in DOMAIN r
             /\ r[func.body[a][k].val] = s[k - 1][func.body[a][k].var]
        /\ \A x \in Promotable :
             s[k][x] = IF Of(func.body[a][k], "store") /\ x = func.body[a][k].var
                       THEN Resolve(r, func.body[a][k].val) ELSE s[k - 1][x]
    BY DEF BlockSolved, Size
  <2>2. Of(func.body[a][k], "store") => func.body[a][k].op = "store"
    BY DEF Of
  <2> QED  BY <2>1, <2>2, <1>2
<1> QED  BY <1>3 DEF BlockSolved, Size

\* One more entry, for the block just walked, in the phis of its successors.
LEMMA OneMoreEntry ==
  ASSUME NEW V, NEW cur, NEW p, NEW entries, Filled(V, cur, p, entries),
         NEW b \in Nat, b \notin V,
         NEW cur2, \A a \in V : EndOf(cur2, a) = EndOf(cur, a),
         NEW val \in Nat, val = EndOf(cur2, b)[p[2]],
         NEW more, more = IF p[1] \in Range(cfg[b])
                          THEN Append(entries, [pred |-> b, val |-> val]) ELSE entries
  PROVE  Filled(V \cup {b}, cur2, p, more)
<1>1. /\ entries \in Seq(Entry) /\ Len(entries) \in Nat
      /\ \A k \in 1..Len(entries) :
           /\ entries[k].pred \in V /\ p[1] \in Range(cfg[entries[k].pred])
           /\ entries[k].val = EndOf(cur, entries[k].pred)[p[2]]
      /\ \A k, m \in 1..Len(entries) : entries[k].pred = entries[m].pred => k = m
      /\ \A a \in V : p[1] \in Range(cfg[a]) =>
           \E k \in 1..Len(entries) : entries[k].pred = a
  BY DEF Filled
<1>2. \A a \in V : EndOf(cur2, a) = EndOf(cur, a) /\ a # b
  OBVIOUS
<1>3. CASE p[1] \notin Range(cfg[b])
  BY <1>1, <1>2, <1>3 DEF Filled
<1>4. CASE p[1] \in Range(cfg[b])
  <2> DEFINE e == [pred |-> b, val |-> val]
             n == Len(entries)
  <2>1. more = Append(entries, e) /\ e \in Entry /\ e.pred = b /\ e.val = val
    BY <1>4 DEF Entry
  <2> HIDE DEF e
  <2>2. /\ more \in Seq(Entry) /\ Len(more) = n + 1 /\ more[n + 1] = e
        /\ \A k \in 1..n : more[k] = entries[k]
    BY <2>1, <1>1
  <2>3. \A k \in 1..Len(more) : k \in 1..n \/ k = n + 1
    BY <2>2, <1>1
  <2>4. \A k \in 1..n : k \in 1..Len(more)
    BY <2>2, <1>1
  <2>5. n + 1 \in 1..Len(more)
    BY <2>2, <1>1
  <2>6. ASSUME NEW k \in 1..Len(more)
        PROVE  /\ more[k].pred \in V \cup {b} /\ p[1] \in Range(cfg[more[k].pred])
               /\ more[k].val = EndOf(cur2, more[k].pred)[p[2]]
    <3>1. CASE k = n + 1
      <4>1. more[k].pred = b /\ more[k].val = val
        BY <3>1, <2>1, <2>2
      <4> QED  BY <4>1, <1>4
    <3>2. CASE k \in 1..n
      <4>1. /\ more[k] = entries[k] /\ entries[k].pred \in V
            /\ p[1] \in Range(cfg[entries[k].pred])
            /\ entries[k].val = EndOf(cur, entries[k].pred)[p[2]]
        BY <3>2, <2>2, <1>1
      <4> QED  BY <4>1, <1>2
    <3> QED  BY <3>1, <3>2, <2>3
  <2>7. ASSUME NEW k \in 1..Len(more), NEW m \in 1..Len(more), more[k].pred = more[m].pred
        PROVE  k = m
    BY <2>1, <2>2, <2>3, <2>7, <1>1, <1>2
  <2>8. ASSUME NEW a \in V \cup {b}, p[1] \in Range(cfg[a])
        PROVE  \E k \in 1..Len(more) : more[k].pred = a
    <3>1. CASE a = b
      BY <3>1, <2>1, <2>2, <2>5
    <3>2. CASE a \in V
      BY <3>2, <2>2, <2>4, <2>8, <1>1
    <3> QED  BY <3>1, <3>2
  <2> QED  BY <2>2, <2>6, <2>7, <2>8 DEF Filled
<1> QED  BY <1>3, <1>4

PhisPushed(b) ==
  [x \in Promotable |-> IF <<b, x>> \in DOMAIN phiOf
                        THEN Append(reachingDefs[x], phiOf[<<b, x>>])
                        ELSE reachingDefs[x]]

Advanced(V, cur, b, w, cur2) ==
  /\ Progress(V \cup {b}, cur2, w.repl, FillSuccessorPhis(w.defs, b))
  /\ \A a \in V : EndOf(cur2, a) = EndOf(cur, a)
  /\ EndOf(cur2, b) = Tops(w.defs)

LEMMA PushedFacts ==
  ASSUME Numbered, reachingDefs \in Stacks, NEW b
  PROVE  /\ PhisPushed(b) \in Stacks /\ Extends(PhisPushed(b), reachingDefs)
         /\ \A x \in Promotable :
              CurrentDef(PhisPushed(b), x) =
                IF <<b, x>> \in DOMAIN phiOf THEN phiOf[<<b, x>>]
                ELSE CurrentDef(reachingDefs, x)
<1> DEFINE p == PhisPushed(b)
<1>1. \A x \in Promotable :
        /\ reachingDefs[x] \in Seq(Nat)
        /\ p[x] = IF <<b, x>> \in DOMAIN phiOf THEN Append(reachingDefs[x], phiOf[<<b, x>>])
                  ELSE reachingDefs[x]
        /\ <<b, x>> \in DOMAIN phiOf => phiOf[<<b, x>>] \in Nat
  BY DEF PhisPushed, Stacks, Numbered
<1>2. DOMAIN p = Promotable /\ p = [x \in Promotable |-> p[x]]
  BY DEF PhisPushed
<1> HIDE DEF p
<1>3. ASSUME NEW x \in Promotable
      PROVE  /\ p[x] \in Seq(Nat) /\ Len(reachingDefs[x]) <= Len(p[x])
             /\ \A j \in 1..Len(reachingDefs[x]) : p[x][j] = reachingDefs[x][j]
             /\ CurrentDef(p, x) = IF <<b, x>> \in DOMAIN phiOf THEN phiOf[<<b, x>>]
                                   ELSE CurrentDef(reachingDefs, x)
  <2>1. CASE <<b, x>> \in DOMAIN phiOf
    <3>1. /\ reachingDefs[x] \in Seq(Nat) /\ phiOf[<<b, x>>] \in Nat
          /\ p[x] = Append(reachingDefs[x], phiOf[<<b, x>>])
      BY <1>1, <2>1
    <3>2. p[x] # <<>> /\ Last(p[x]) = phiOf[<<b, x>>]
      BY <3>1, TopOfAppend
    <3> QED  BY <3>1, <3>2, <2>1 DEF CurrentDef
  <2>2. CASE <<b, x>> \notin DOMAIN phiOf
    BY <1>1, <2>2 DEF CurrentDef
  <2> QED  BY <2>1, <2>2
<1>4. p \in Stacks
  BY <1>2, <1>3 DEF Stacks
<1>5. Extends(p, reachingDefs)
  BY <1>3 DEF Extends
<1> QED  BY <1>3, <1>4, <1>5 DEF p

LEMMA ExtendsTransitive ==
  ASSUME NEW r \in Stacks, NEW s \in Stacks, NEW t \in Stacks,
         Extends(r, s), Extends(s, t)
  PROVE  Extends(r, t)
<1> SUFFICES ASSUME NEW x \in Promotable
    PROVE  /\ Len(t[x]) <= Len(r[x])
           /\ \A j \in 1..Len(t[x]) : r[x][j] = t[x][j]
  BY DEF Extends
<1>1. Len(r[x]) \in Nat /\ Len(s[x]) \in Nat /\ Len(t[x]) \in Nat
  BY DEF Stacks
<1>2. /\ Len(t[x]) <= Len(s[x]) /\ Len(s[x]) <= Len(r[x])
      /\ \A j \in 1..Len(t[x]) : s[x][j] = t[x][j]
      /\ \A j \in 1..Len(s[x]) : r[x][j] = s[x][j]
  BY DEF Extends
<1> QED  BY <1>1, <1>2

\* Noting the entries of a block in the phis of its successors.
LEMMA FillFacts ==
  ASSUME Numbered, DOMAIN incoming = {phiOf[p] : p \in DOMAIN phiOf},
         NEW defs, NEW b, NEW p \in DOMAIN phiOf
  PROVE  FillSuccessorPhis(defs, b)[phiOf[p]] =
           IF p[1] \in Range(cfg[b])
           THEN Append(incoming[phiOf[p]], [pred |-> b, val |-> CurrentDef(defs, p[2])])
           ELSE incoming[phiOf[p]]
<1>1. phiOf[p] \in DOMAIN incoming
  OBVIOUS
<1>2. (CHOOSE q \in DOMAIN phiOf : phiOf[q] = phiOf[p]) = p
  BY DEF Numbered
<1> QED  BY <1>1, <1>2 DEF FillSuccessorPhis

LEMMA NextBlock ==
  ASSUME Given, Numbered, idom # <<>>, ImmediateDominators,
         DOMAIN incoming = {phiOf[p] : p \in DOMAIN phiOf},
         NEW V, NEW cur, Progress(V, cur, replacements, incoming),
         NEW b \in Reachable(cfg), b \notin V, b = 1 \/ idom[b] \in V,
         reachingDefs \in Stacks,
         \A x \in Promotable : CurrentDef(reachingDefs, x) =
           IF b = 1 THEN Undef ELSE EndOf(cur, idom[b])[x]
  PROVE  LET w == Walk(PhisPushed(b), func.body[b]) IN
         /\ w.defs \in Stacks /\ Extends(w.defs, reachingDefs)
         /\ \E cur2 : Advanced(V, cur, b, w, cur2)
<1> DEFINE w == Walk(PhisPushed(b), func.body[b])
           W == V \cup {b}
<1>1. /\ Closed(V) /\ Holds(V, cur, replacements) /\ Starts(V, cur)
      /\ \A a \in V : Valued(cur, a)
      /\ \A p \in DOMAIN phiOf : Filled(V, cur, p, incoming[phiOf[p]])
  BY DEF Progress
<1>2. /\ b \in 1..Len(cfg) /\ b \in DOMAIN func.body /\ Size(b) \in Nat /\ b \in Nat
      /\ Graph(cfg, Len(cfg)) /\ V \subseteq 1..Len(cfg)
  BY <1>1, GivenFacts DEF Closed, Size
<1>3. /\ PhisPushed(b) \in Stacks /\ Extends(PhisPushed(b), reachingDefs)
      /\ \A x \in Promotable :
           CurrentDef(PhisPushed(b), x) =
             IF <<b, x>> \in DOMAIN phiOf THEN phiOf[<<b, x>>]
             ELSE CurrentDef(reachingDefs, x)
  BY PushedFacts
<1>4. replacements \in Partial /\ DOMAIN replacements = UNION {Loads(a, Size(a)) : a \in V}
  BY <1>1 DEF Holds
<1>5. Loads(b, Size(b)) \cap DOMAIN replacements = {}
  <2> SUFFICES ASSUME NEW v \in Loads(b, Size(b)), v \in DOMAIN replacements PROVE FALSE
    OBVIOUS
  <2>1. Size(b) \in 0..Size(b)
    BY <1>2
  <2>2. \E j : Stands(v, b, j)
    BY <2>1, <1>2, LoadsFacts
  <2>3. \E a, j : a \in V /\ Stands(v, a, j)
    BY <1>1, NotedLoads
  <2> QED  BY <2>2, <2>3, StandsOnce DEF Given
<1>6. /\ Walked(b, PhisPushed(b), w)
      /\ \E c : /\ BlockSolved(b, c, w.repl) /\ c[0] = Tops(PhisPushed(b))
                /\ c[Size(b)] = Tops(w.defs)
  <2>1. func \in Inputs
    BY DEF Given
  <2> QED  BY <2>1, <1>2, <1>3, <1>4, <1>5, WalkBlock DEF Size
<1> HIDE DEF w
<1>7. /\ w.defs \in Stacks /\ w.repl \in Partial /\ Extends(w.defs, PhisPushed(b))
      /\ DOMAIN w.repl = DOMAIN replacements \cup Loads(b, Size(b))
      /\ \A v \in DOMAIN replacements : w.repl[v] = replacements[v]
  BY <1>6 DEF Walked, Size
<1>8. Extends(w.defs, reachingDefs)
  BY <1>3, <1>7, ExtendsTransitive
<1>9. PICK c : /\ BlockSolved(b, c, w.repl) /\ c[0] = Tops(PhisPushed(b))
               /\ c[Size(b)] = Tops(w.defs)
  BY <1>6
<1> DEFINE cur2 == [a \in V \cup {b} |-> IF a = b THEN c ELSE cur[a]]
<1>10. /\ cur2[b] = c /\ \A a \in V : cur2[a] = cur[a] /\ a # b
       /\ EndOf(cur2, b) = Tops(w.defs) /\ \A a \in V : EndOf(cur2, a) = EndOf(cur, a)
  BY <1>9 DEF EndOf
<1>11. Closed(W)
  BY <1>1, OneMoreBlock
<1>12. Holds(W, cur2, w.repl)
  <2>1. \A a \in V : BlockSolved(a, cur[a], w.repl)
    <3>1. \A a \in V : BlockSolved(a, cur[a], replacements)
      BY <1>1 DEF Holds
    <3> QED  BY <3>1, <1>1, <1>2, <1>4, <1>7, SolvedStays
  <2>2. \A a \in W : BlockSolved(a, cur2[a], w.repl)
    <3> HIDE DEF cur2
    <3> QED  BY <2>1, <1>9, <1>10
  <2>3. DOMAIN w.repl = UNION {Loads(a, Size(a)) : a \in W}
    BY <1>4, <1>7
  <2> QED  BY <2>2, <2>3, <1>7 DEF Holds
<1> HIDE DEF cur2
<1>13. Starts(W, cur2)
  <2>1. ASSUME NEW x \in Promotable
        PROVE  cur2[b][0][x] = IF <<b, x>> \in DOMAIN phiOf THEN phiOf[<<b, x>>]
                               ELSE IF b = 1 THEN Undef ELSE EndOf(cur2, idom[b])[x]
    <3>1. cur2[b][0][x] = CurrentDef(PhisPushed(b), x)
      BY <1>9, <1>10 DEF Tops
    <3>2. b # 1 => EndOf(cur2, idom[b]) = EndOf(cur, idom[b])
      BY <1>10
    <3> QED  BY <3>1, <3>2, <1>3
  <2>2. ASSUME NEW a \in V, NEW x \in Promotable
        PROVE  cur2[a][0][x] = IF <<a, x>> \in DOMAIN phiOf THEN phiOf[<<a, x>>]
                               ELSE IF a = 1 THEN Undef ELSE EndOf(cur2, idom[a])[x]
    <3>1. cur[a][0][x] = IF <<a, x>> \in DOMAIN phiOf THEN phiOf[<<a, x>>]
                         ELSE IF a = 1 THEN Undef ELSE EndOf(cur, idom[a])[x]
      BY <1>1 DEF Starts
    <3>2. a # 1 => idom[a] \in V
      <4>1. a \in Reachable(cfg) /\ \A e : Dominates(cfg, e, a) => e \in V
        BY <1>1 DEF Closed
      <4> QED  BY <4>1, <1>2, IdomFacts
    <3> QED  BY <3>1, <3>2, <1>10
  <2> QED  BY <2>1, <2>2, Zenon DEF Starts
<1>14. \A a \in V : Valued(cur2, a)
  BY <1>1, <1>10 DEF Valued, ValuedAt
<1>15. ValuedAt(cur2, b, 0)
  <2> SUFFICES ASSUME NEW x \in Promotable
      PROVE  Avail(cur2[b][0][x], b, 0) /\ Real(cur2[b][0][x])
    BY DEF ValuedAt
  <2>1. cur2[b][0][x] = IF <<b, x>> \in DOMAIN phiOf THEN phiOf[<<b, x>>]
                        ELSE IF b = 1 THEN Undef ELSE EndOf(cur2, idom[b])[x]
    BY <1>13 DEF Starts
  <2>2. CASE <<b, x>> \in DOMAIN phiOf
    <3>1. Before(<<b, x>>[1], 0, b, 0)
      BY DEF Before
    <3> QED  BY <3>1, <2>1, <2>2 DEF Avail, Real
  <2>3. CASE <<b, x>> \notin DOMAIN phiOf /\ b = 1
    <3>1. cur2[b][0][x] = Undef /\ Undef \in Value
      BY <2>1, <2>3, ConstantsAssumption DEF Undef, Value
    <3>2. \A a, j : ~Stands(Undef, a, j)
      BY StandsFacts
    <3> QED  BY <3>1, <3>2 DEF Avail, Real
  <2>4. CASE <<b, x>> \notin DOMAIN phiOf /\ b # 1
    <3> DEFINE a == idom[b]
    <3>1. a \in V /\ Dominates(cfg, a, b) /\ a # b /\ cur2[b][0][x] = EndOf(cur2, a)[x]
      BY <2>1, <2>4, <1>2, IdomFacts
    <3>2. Size(a) \in Nat
      BY <3>1, <1>2, GivenFacts DEF Size
    <3>3. Avail(EndOf(cur2, a)[x], a, Size(a)) /\ Real(EndOf(cur2, a)[x])
      BY <3>1, <3>2, <1>14 DEF Valued, ValuedAt, EndOf
    <3>4. Before(a, Size(a), b, 0)
      BY <3>1 DEF Before
    <3> HIDE DEF a
    <3>5. Avail(EndOf(cur2, a)[x], b, 0)
      <4>1. Size(a) \in Int /\ 0 \in Int
        BY <3>2
      <4> QED  BY <4>1, <3>3, <3>4, AvailLater, NumberedFacts
    <3> QED  BY <3>1, <3>3, <3>5
  <2> QED  BY <2>2, <2>3, <2>4
<1>16. Valued(cur2, b)
  <2>1. b \in W /\ \A a \in W : a # b => Valued(cur2, a)
    BY <1>14
  <2> HIDE DEF W
  <2> QED  BY <2>1, <1>11, <1>12, <1>15, BlockValued, NumberedFacts
<1>17. ASSUME NEW p \in DOMAIN phiOf
       PROVE  Filled(W, cur2, p, FillSuccessorPhis(w.defs, b)[phiOf[p]])
  <2> DEFINE val == CurrentDef(w.defs, p[2])
             more == FillSuccessorPhis(w.defs, b)[phiOf[p]]
  <2>1. p[2] \in Promotable
    BY DEF Numbered
  <2>2. val = EndOf(cur2, b)[p[2]]
    BY <2>1, <1>10 DEF Tops
  <2>3. val \in Nat
    <3>1. w.defs[p[2]] \in Seq(Nat)
      BY <2>1, <1>7 DEF Stacks
    <3> QED  BY <3>1 DEF CurrentDef, Last, Undef
  <2>4. more = IF p[1] \in Range(cfg[b])
               THEN Append(incoming[phiOf[p]], [pred |-> b, val |-> val])
               ELSE incoming[phiOf[p]]
    BY FillFacts
  <2>5. \A a \in V : EndOf(cur2, a) = EndOf(cur, a)
    BY <1>10
  <2>6. Filled(V, cur, p, incoming[phiOf[p]])
    BY <1>1
  <2> HIDE DEF val, more
  <2>7. Filled(V \cup {b}, cur2, p, more)
    BY <2>2, <2>3, <2>4, <2>5, <2>6, <1>2, OneMoreEntry
  <2> QED  BY <2>7 DEF more
<1>18. Advanced(V, cur, b, w, cur2)
  <2>1. \A a \in W : Valued(cur2, a)
    BY <1>14, <1>16
  <2>2. Progress(W, cur2, w.repl, FillSuccessorPhis(w.defs, b))
    BY <2>1, <1>11, <1>12, <1>13, <1>17 DEF Progress
  <2> QED  BY <2>2, <1>10 DEF Advanced
<1>19. \E cur3 : Advanced(V, cur, b, w, cur3)
  BY <1>18
<1> QED  BY <1>7, <1>8, <1>19 DEF w

-----------------------------------------------------------------------------
(* The calls that are open: the path down the tree, what each has still to *)
(* visit, and the depths its caller's stacks had.                          *)

FrameSet == [todo : SUBSET Nat, saved : [Promotable -> Nat]]
TopAt(s, depth) == IF depth = 0 THEN Undef ELSE s[depth]

Pending(V, path, fr) ==
  /\ path \in Seq(V) /\ fr \in Seq(FrameSet) /\ Len(path) = Len(fr)
  /\ \A i, j \in 1..Len(path) : path[i] = path[j] => i = j
  /\ \A i \in 1..Len(path) : fr[i].todo \subseteq Children(path[i]) \ V
  /\ \A b \in V : \A c \in Children(b) :
       c \in V \/ \E i \in 1..Len(path) : path[i] = b /\ c \in fr[i].todo

Depths(cur, path, fr, st) ==
  /\ st \in Stacks
  /\ \A i \in 1..Len(fr) : \A x \in Promotable : fr[i].saved[x] <= Len(st[x])
  /\ \A i, j \in 1..Len(fr) : i <= j =>
       \A x \in Promotable : fr[i].saved[x] <= fr[j].saved[x]
  /\ \A i \in 2..Len(fr) : \A x \in Promotable :
       TopAt(st[x], fr[i].saved[x]) = EndOf(cur, path[i - 1])[x]
  /\ fr # <<>> => \A x \in Promotable :
       TopAt(st[x], Len(st[x])) = EndOf(cur, path[Len(fr)])[x]

\* A child is taken from the call on top and gets a call of its own.
LEMMA PendingChild ==
  ASSUME NEW V, NEW path, NEW fr, Pending(V, path, fr), fr # <<>>,
         NEW c \in fr[Len(fr)].todo, Children(c) \cap V = {}, Children(c) \subseteq Nat,
         NEW saved \in [Promotable -> Nat]
  PROVE  Pending(V \cup {c}, Append(path, c),
                 Append([fr EXCEPT ![Len(fr)].todo = @ \ {c}],
                        [todo |-> Children(c), saved |-> saved]))
<1> DEFINE n == Len(fr)
           W == V \cup {c}
           p == Append(path, c)
           mid == [fr EXCEPT ![n].todo = @ \ {c}]
           top == [todo |-> Children(c), saved |-> saved]
           new == Append(mid, top)
<1>1. /\ path \in Seq(V) /\ fr \in Seq(FrameSet) /\ Len(path) = n
      /\ \A i, j \in 1..n : path[i] = path[j] => i = j
      /\ \A i \in 1..n : fr[i].todo \subseteq Children(path[i]) \ V
      /\ \A b \in V : \A d1 \in Children(b) :
           d1 \in V \/ \E i \in 1..n : path[i] = b /\ d1 \in fr[i].todo
  BY DEF Pending
<1>2. n \in Nat \ {0} /\ n \in 1..n /\ \A i \in 1..n : fr[i] \in FrameSet
  BY <1>1
<1>3. /\ mid \in Seq(FrameSet) /\ Len(mid) = n /\ mid[n].todo = fr[n].todo \ {c}
      /\ \A i \in 1..n : i # n => mid[i] = fr[i]
  <2>1. [fr[n] EXCEPT !.todo = @ \ {c}] \in FrameSet
    BY <1>2 DEF FrameSet
  <2>2. mid = [fr EXCEPT ![n] = [fr[n] EXCEPT !.todo = @ \ {c}]]
    BY <1>1, <1>2
  <2> DEFINE e == [fr[n] EXCEPT !.todo = @ \ {c}]
  <2>3. e \in FrameSet /\ e.todo = fr[n].todo \ {c} /\ mid = [fr EXCEPT ![n] = e]
    BY <2>1, <2>2, <1>2 DEF FrameSet
  <2> HIDE DEF e, mid
  <2>4. mid \in Seq(FrameSet) /\ Len(mid) = n
    BY <2>3, <1>1, <1>2
  <2>5. mid[n] = e /\ \A i \in 1..n : i # n => mid[i] = fr[i]
    BY <2>3, <1>1, <1>2
  <2> QED  BY <2>3, <2>4, <2>5
<1>4. top \in FrameSet /\ top.todo = Children(c)
  BY DEF FrameSet
<1> HIDE DEF mid, top
<1>5. /\ new \in Seq(FrameSet) /\ Len(new) = n + 1 /\ new[n + 1] = top
      /\ \A i \in 1..n : new[i] = mid[i]
  BY <1>2, <1>3, <1>4
<1>6. p \in Seq(W) /\ Len(p) = n + 1 /\ p[n + 1] = c /\ \A i \in 1..n : p[i] = path[i]
  BY <1>1, <1>2
<1> HIDE DEF p, new
<1>7. /\ \A i \in 1..(n + 1) : i \in 1..n \/ i = n + 1
      /\ \A i \in 1..n : i \in 1..(n + 1) /\ n + 1 \in 1..(n + 1)
  BY <1>2
<1>8. c \notin V /\ c \in Children(path[n]) /\ \A i \in 1..n : path[i] \in V /\ path[i] # c
  BY <1>1, <1>2
<1>9. \A i, j \in 1..(n + 1) : p[i] = p[j] => i = j
  <2> SUFFICES ASSUME NEW i \in 1..(n + 1), NEW j \in 1..(n + 1), p[i] = p[j] PROVE i = j
    OBVIOUS
  <2>1. CASE i \in 1..n /\ j \in 1..n
    BY <2>1, <1>1, <1>6
  <2>2. CASE i \in 1..n /\ j = n + 1
    BY <2>2, <1>6, <1>8
  <2>3. CASE i = n + 1 /\ j \in 1..n
    BY <2>3, <1>6, <1>8
  <2> QED  BY <2>1, <2>2, <2>3, <1>7
<1>10. ASSUME NEW i \in 1..n, i # n PROVE c \notin fr[i].todo
  <2> SUFFICES ASSUME c \in fr[i].todo PROVE FALSE
    OBVIOUS
  <2>1. idom[c] = path[i] /\ idom[c] = path[n]
    BY <1>1, <1>8 DEF Children
  <2> QED  BY <2>1, <1>1, <1>2, <1>10
<1>11. ASSUME NEW i \in 1..(n + 1) PROVE new[i].todo \subseteq Children(p[i]) \ W
  <2>1. CASE i = n + 1
    <3>1. c \notin Children(c)
      BY DEF Children
    <3> QED  BY <2>1, <3>1, <1>4, <1>5, <1>6
  <2>2. CASE i = n
    BY <2>2, <1>1, <1>2, <1>3, <1>5, <1>6
  <2>3. CASE i \in 1..n /\ i # n
    BY <2>3, <1>1, <1>3, <1>5, <1>6, <1>10
  <2> QED  BY <2>1, <2>2, <2>3, <1>7
<1>12. ASSUME NEW b \in W, NEW d1 \in Children(b), d1 \notin W
       PROVE  \E i \in 1..(n + 1) : p[i] = b /\ d1 \in new[i].todo
  <2>1. CASE b = c
    BY <2>1, <1>4, <1>5, <1>6, <1>7
  <2>2. CASE b \in V
    <3>1. PICK i \in 1..n : path[i] = b /\ d1 \in fr[i].todo
      BY <2>2, <1>1, <1>12
    <3>2. d1 \in mid[i].todo
      BY <3>1, <1>3, <1>12
    <3> QED  BY <3>1, <3>2, <1>5, <1>6, <1>7
  <2> QED  BY <2>1, <2>2
<1>13. Len(p) = n + 1 /\ Len(new) = n + 1
  BY <1>5, <1>6
<1>14. Pending(W, p, new)
  BY <1>5, <1>6, <1>9, <1>11, <1>12, <1>13 DEF Pending
<1> QED  BY <1>14 DEF p, new, mid, top

LEMMA DepthsChild ==
  ASSUME NEW V, NEW cur, NEW path, NEW fr, NEW st,
         Pending(V, path, fr), Depths(cur, path, fr, st), fr # <<>>,
         NEW c, NEW st2 \in Stacks, Extends(st2, st),
         NEW cur2, \A a \in V : EndOf(cur2, a) = EndOf(cur, a), EndOf(cur2, c) = Tops(st2),
         NEW T
  PROVE  Depths(cur2, Append(path, c),
                Append([fr EXCEPT ![Len(fr)].todo = @ \ {c}],
                       [todo |-> T, saved |-> [x \in Promotable |-> Len(st[x])]]), st2)
<1> DEFINE n == Len(fr)
           p == Append(path, c)
           saved == [x \in Promotable |-> Len(st[x])]
           mid == [fr EXCEPT ![n].todo = @ \ {c}]
           top == [todo |-> T, saved |-> saved]
           new == Append(mid, top)
<1>1. /\ path \in Seq(V) /\ fr \in Seq(FrameSet) /\ Len(path) = n
  BY DEF Pending
<1>2. n \in Nat \ {0} /\ n \in 1..n /\ \A i \in 1..n : fr[i] \in FrameSet /\ path[i] \in V
  BY <1>1
<1>3. /\ Len(mid) = n /\ \A i \in 1..n : mid[i].saved = fr[i].saved
      /\ \A m : Append(mid, m)[n + 1] = m /\ Len(Append(mid, m)) = n + 1
                 /\ \A i \in 1..n : Append(mid, m)[i] = mid[i]
  <2> DEFINE e == [fr[n] EXCEPT !.todo = @ \ {c}]
  <2>1. mid = [fr EXCEPT ![n] = e]
    BY <1>1, <1>2
  <2>2. e.saved = fr[n].saved
    BY <1>2 DEF FrameSet
  <2> HIDE DEF e, mid
  <2> DEFINE A == FrameSet \cup {e}
  <2>3. fr \in Seq(A) /\ e \in A
    BY <1>1
  <2>4. mid \in Seq(A) /\ Len(mid) = n
    BY <2>1, <2>3, <1>2
  <2>5. mid[n] = e /\ \A i \in 1..n : i # n => mid[i] = fr[i]
    BY <2>1, <1>1, <1>2
  <2>6. ASSUME NEW m
        PROVE  Append(mid, m)[n + 1] = m /\ Len(Append(mid, m)) = n + 1
                 /\ \A i \in 1..n : Append(mid, m)[i] = mid[i]
    <3> DEFINE B == A \cup {m}
    <3>1. mid \in Seq(B) /\ m \in B
      BY <2>4
    <3> HIDE DEF B
    <3> QED  BY <3>1, <2>4, <1>2
  <2> QED  BY <2>2, <2>4, <2>5, <2>6
<1> HIDE DEF mid
<1>4. /\ Len(new) = n + 1 /\ new[n + 1].saved = saved
      /\ \A i \in 1..n : new[i].saved = fr[i].saved
  BY <1>3
<1>5. Len(p) = n + 1 /\ p[n + 1] = c /\ \A i \in 1..n : p[i] = path[i]
  BY <1>1, <1>2
<1> HIDE DEF p, new
<1>6. \A x \in Promotable :
        /\ st[x] \in Seq(Nat) /\ st2[x] \in Seq(Nat) /\ Len(st[x]) \in Nat /\ Len(st2[x]) \in Nat
        /\ saved[x] = Len(st[x]) /\ Len(st[x]) <= Len(st2[x])
        /\ \A j \in 1..Len(st[x]) : st2[x][j] = st[x][j]
        /\ \A i \in 1..n : fr[i].saved[x] \in Nat /\ fr[i].saved[x] <= Len(st[x])
  <2>1. st \in Stacks /\ \A i \in 1..n : \A x \in Promotable : fr[i].saved[x] <= Len(st[x])
    BY DEF Depths
  <2>2. \A i \in 1..n : \A x \in Promotable : fr[i].saved[x] \in Nat
    BY <1>2 DEF FrameSet
  <2> QED  BY <2>1, <2>2 DEF Stacks, Extends
<1>7. /\ \A i \in 1..(n + 1) : i \in 1..n \/ i = n + 1
      /\ \A i \in 2..(n + 1) : i - 1 \in 1..n /\ (i \in 2..n \/ i = n + 1)
  BY <1>2
<1>8. ASSUME NEW x \in Promotable, NEW k \in Nat, k <= Len(st[x])
      PROVE  TopAt(st2[x], k) = TopAt(st[x], k)
  BY <1>6, <1>8 DEF TopAt
<1>9. \A i \in 1..(n + 1) : \A x \in Promotable : new[i].saved[x] <= Len(st2[x])
  <2> SUFFICES ASSUME NEW i \in 1..(n + 1), NEW x \in Promotable
      PROVE  new[i].saved[x] <= Len(st2[x])
    OBVIOUS
  <2>1. CASE i = n + 1
    BY <2>1, <1>4, <1>6
  <2>2. CASE i \in 1..n
    <3>1. new[i].saved[x] = fr[i].saved[x]
      BY <2>2, <1>4
    <3>2. fr[i].saved[x] \in Nat /\ fr[i].saved[x] <= Len(st[x])
      BY <2>2, <1>6
    <3> QED  BY <3>1, <3>2, <1>6
  <2> QED  BY <2>1, <2>2, <1>7
<1>10. ASSUME NEW i \in 1..(n + 1), NEW j \in 1..(n + 1), i <= j, NEW x \in Promotable
       PROVE  new[i].saved[x] <= new[j].saved[x]
  <2>1. CASE j \in 1..n
    <3>1. i \in 1..n
      BY <2>1, <1>10, <1>2
    <3> QED  BY <2>1, <3>1, <1>4, <1>10 DEF Depths
  <2>2. CASE j = n + 1 /\ i = n + 1
    BY <2>2, <1>4, <1>6
  <2>3. CASE j = n + 1 /\ i \in 1..n
    BY <2>3, <1>4, <1>6
  <2> QED  BY <2>1, <2>2, <2>3, <1>7
<1>11. ASSUME NEW i \in 2..(n + 1), NEW x \in Promotable
       PROVE  TopAt(st2[x], new[i].saved[x]) = EndOf(cur2, p[i - 1])[x]
  <2>1. i - 1 \in 1..n /\ p[i - 1] = path[i - 1] /\ path[i - 1] \in V
    BY <1>2, <1>5, <1>7
  <2>2. EndOf(cur2, p[i - 1]) = EndOf(cur, path[i - 1])
    BY <2>1
  <2>3. CASE i \in 2..n
    <3>1. i \in 1..n
      BY <2>3
    <3>2. /\ new[i].saved = fr[i].saved /\ fr[i].saved[x] \in Nat
          /\ fr[i].saved[x] <= Len(st[x])
      BY <3>1, <1>4, <1>6
    <3>3. TopAt(st[x], fr[i].saved[x]) = EndOf(cur, path[i - 1])[x]
      BY <2>3 DEF Depths
    <3> QED  BY <3>2, <3>3, <2>2, <1>8
  <2>4. CASE i = n + 1
    <3>1. new[i].saved[x] = Len(st[x]) /\ i - 1 = n
      BY <2>4, <1>2, <1>4, <1>6
    <3>2. TopAt(st[x], Len(st[x])) = EndOf(cur, path[n])[x]
      BY DEF Depths
    <3>3. Len(st[x]) \in Nat /\ Len(st[x]) <= Len(st[x])
      BY <1>6
    <3>4. TopAt(st2[x], Len(st[x])) = TopAt(st[x], Len(st[x]))
      BY <3>3, <1>8
    <3> QED  BY <3>1, <3>2, <3>4, <2>2
  <2> QED  BY <2>3, <2>4, <1>7
<1>12. ASSUME NEW x \in Promotable
       PROVE  TopAt(st2[x], Len(st2[x])) = EndOf(cur2, p[n + 1])[x]
  <2>1. EndOf(cur2, p[n + 1])[x] = CurrentDef(st2, x)
    BY <1>5 DEF Tops
  <2>2. st2[x] \in Seq(Nat)
    BY <1>6
  <2> QED  BY <2>1, <2>2 DEF CurrentDef, TopAt, Last
<1>13. Depths(cur2, p, new, st2)
  BY <1>4, <1>9, <1>10, <1>11, <1>12 DEF Depths
<1> QED  BY <1>13 DEF p, new, mid

\* The call on top is done and returns.
LEMMA PendingBack ==
  ASSUME NEW V, NEW path, NEW fr, Pending(V, path, fr), fr # <<>>, fr[Len(fr)].todo = {}
  PROVE  Pending(V, Front(path), Front(fr))
<1> DEFINE n == Len(fr)
           p == Front(path)
           new == Front(fr)
<1>1. /\ path \in Seq(V) /\ fr \in Seq(FrameSet) /\ Len(path) = n
      /\ \A i, j \in 1..n : path[i] = path[j] => i = j
      /\ \A i \in 1..n : fr[i].todo \subseteq Children(path[i]) \ V
      /\ \A b \in V : \A c \in Children(b) :
           c \in V \/ \E i \in 1..n : path[i] = b /\ c \in fr[i].todo
  BY DEF Pending
<1>2. n \in Nat \ {0} /\ path # <<>>
  BY <1>1
<1>3. /\ new \in Seq(FrameSet) /\ Len(new) = n - 1 /\ \A i \in 1..(n - 1) : new[i] = fr[i]
      /\ p \in Seq(V) /\ Len(p) = n - 1 /\ \A i \in 1..(n - 1) : p[i] = path[i]
  BY <1>1, <1>2, FrontFacts
<1> HIDE DEF p, new
<1>4. \A i \in 1..n : i = n \/ i \in 1..(n - 1)
  BY <1>2
<1>5. \A i \in 1..(n - 1) : i \in 1..n
  BY <1>2
<1>6. ASSUME NEW b \in V, NEW c \in Children(b), c \notin V
      PROVE  \E i \in 1..(n - 1) : p[i] = b /\ c \in new[i].todo
  <2>1. PICK i \in 1..n : path[i] = b /\ c \in fr[i].todo
    BY <1>1, <1>6
  <2>2. i \in 1..(n - 1)
    BY <2>1, <1>4
  <2> QED  BY <2>1, <2>2, <1>3
<1>7. Pending(V, p, new)
  BY <1>1, <1>3, <1>5, <1>6 DEF Pending
<1> QED  BY <1>7 DEF p, new

LEMMA TruncateFacts ==
  ASSUME NEW s \in Seq(Nat), NEW k \in Nat, k <= Len(s)
  PROVE  /\ Truncate(s, k) \in Seq(Nat) /\ Len(Truncate(s, k)) = k
         /\ \A d1 \in Nat : d1 <= k => TopAt(Truncate(s, k), d1) = TopAt(s, d1)
<1>1. Truncate(s, k) = SubSeq(s, 1, k)
  BY DEF Truncate
<1>2. SubSeq(s, 1, k) \in Seq(Nat) /\ Len(SubSeq(s, 1, k)) = k
  OBVIOUS
<1>3. \A j \in 1..k : SubSeq(s, 1, k)[j] = s[j]
  OBVIOUS
<1> QED  BY <1>1, <1>2, <1>3 DEF TopAt

LEMMA DepthsBack ==
  ASSUME NEW V, NEW cur, NEW path, NEW fr, NEW st,
         Pending(V, path, fr), Depths(cur, path, fr, st), fr # <<>>,
         NEW st2, st2 = [x \in Promotable |-> Truncate(st[x], fr[Len(fr)].saved[x])]
  PROVE  Depths(cur, Front(path), Front(fr), st2)
<1> DEFINE n == Len(fr)
           p == Front(path)
           new == Front(fr)
<1>1. /\ path \in Seq(V) /\ fr \in Seq(FrameSet) /\ Len(path) = n
  BY DEF Pending
<1>2. n \in Nat \ {0} /\ n \in 1..n /\ path # <<>> /\ \A i \in 1..n : fr[i] \in FrameSet
  BY <1>1
<1>3. /\ new \in Seq(FrameSet) /\ Len(new) = n - 1 /\ \A i \in 1..(n - 1) : new[i] = fr[i]
      /\ p \in Seq(V) /\ Len(p) = n - 1 /\ \A i \in 1..(n - 1) : p[i] = path[i]
  BY <1>1, <1>2, FrontFacts
<1> HIDE DEF p, new
<1>4. \A x \in Promotable :
        /\ st[x] \in Seq(Nat)
        /\ \A i \in 1..n : fr[i].saved[x] \in Nat /\ fr[i].saved[x] <= fr[n].saved[x]
        /\ fr[n].saved[x] <= Len(st[x])
  <2>1. st \in Stacks /\ \A i \in 1..n : \A x \in Promotable : fr[i].saved[x] <= Len(st[x])
    BY DEF Depths
  <2>2. \A i \in 1..n : \A x \in Promotable : fr[i].saved[x] \in Nat
    BY <1>2 DEF FrameSet
  <2>3. \A i \in 1..n : i <= n
    BY <1>2
  <2>4. \A i \in 1..n : \A x \in Promotable : fr[i].saved[x] <= fr[n].saved[x]
    BY <2>3, <1>2 DEF Depths
  <2> QED  BY <2>1, <2>2, <2>4, <1>2 DEF Stacks
<1>5. \A x \in Promotable :
        /\ st2[x] \in Seq(Nat) /\ Len(st2[x]) = fr[n].saved[x]
        /\ \A k \in Nat : k <= fr[n].saved[x] => TopAt(st2[x], k) = TopAt(st[x], k)
  <2> SUFFICES ASSUME NEW x \in Promotable
      PROVE  /\ st2[x] \in Seq(Nat) /\ Len(st2[x]) = fr[n].saved[x]
             /\ \A k \in Nat : k <= fr[n].saved[x] => TopAt(st2[x], k) = TopAt(st[x], k)
    OBVIOUS
  <2>1. st2[x] = Truncate(st[x], fr[n].saved[x])
    OBVIOUS
  <2>2. st[x] \in Seq(Nat) /\ fr[n].saved[x] \in Nat /\ fr[n].saved[x] <= Len(st[x])
    BY <1>2, <1>4
  <2> QED  BY <2>1, <2>2, TruncateFacts
<1>6. st2 \in Stacks
  <2>1. st2 = [x \in Promotable |-> st2[x]]
    OBVIOUS
  <2> QED  BY <2>1, <1>5 DEF Stacks
<1>7. \A i \in 1..(n - 1) : i \in 1..n
  BY <1>2
<1>8. \A i \in 1..(n - 1) : \A x \in Promotable : new[i].saved[x] <= Len(st2[x])
  BY <1>3, <1>4, <1>5, <1>7
<1>9. ASSUME NEW i \in 1..(n - 1), NEW j \in 1..(n - 1), i <= j, NEW x \in Promotable
      PROVE  new[i].saved[x] <= new[j].saved[x]
  BY <1>3, <1>7, <1>9 DEF Depths
<1>10. ASSUME NEW i \in 2..(n - 1), NEW x \in Promotable
       PROVE  TopAt(st2[x], new[i].saved[x]) = EndOf(cur, p[i - 1])[x]
  <2>1. i \in 1..(n - 1) /\ i \in 2..n /\ i - 1 \in 1..(n - 1)
    BY <1>2
  <2>2. TopAt(st[x], fr[i].saved[x]) = EndOf(cur, path[i - 1])[x]
    BY <2>1 DEF Depths
  <2>3. TopAt(st2[x], fr[i].saved[x]) = TopAt(st[x], fr[i].saved[x])
    BY <2>1, <1>4, <1>5, <1>7
  <2> QED  BY <2>1, <2>2, <2>3, <1>3
<1>11. ASSUME new # <<>>, NEW x \in Promotable
       PROVE  TopAt(st2[x], Len(st2[x])) = EndOf(cur, p[n - 1])[x]
  <2>1. n - 1 \in 1..(n - 1) /\ n \in 2..n
    <3>1. Len(new) # 0
      BY <1>3, <1>11
    <3>2. n # 1
      BY <3>1, <1>3
    <3> HIDE DEF n
    <3> QED  BY <3>2, <1>2
  <2>2. TopAt(st[x], fr[n].saved[x]) = EndOf(cur, path[n - 1])[x]
    BY <2>1 DEF Depths
  <2>3. fr[n].saved[x] \in Nat /\ fr[n].saved[x] <= fr[n].saved[x]
    BY <1>2, <1>4
  <2>4. TopAt(st2[x], Len(st2[x])) = TopAt(st[x], fr[n].saved[x])
    BY <2>3, <1>5
  <2> QED  BY <2>1, <2>2, <2>4, <1>3
<1>12. Depths(cur, p, new, st2)
  BY <1>3, <1>6, <1>8, <1>9, <1>10, <1>11 DEF Depths
<1> QED  BY <1>12 DEF p, new

-----------------------------------------------------------------------------
(* Nothing above depends on more than the function, the tree and the phis, *)
(* which the walk leaves as they are.                                      *)

Frozen == UNCHANGED <<func, cfg, idom, phiOf>>

LEMMA FrozenFunction ==
  ASSUME Frozen
  PROVE  /\ Given' <=> Given
         /\ Promotable' = Promotable
         /\ \A i, op : Of(i, op)' <=> Of(i, op)
         /\ \A b : Size(b)' = Size(b)
         /\ \A v, b, k : Stands(v, b, k)' <=> Stands(v, b, k)
         /\ \A a, j, b, k : Before(a, j, b, k)' <=> Before(a, j, b, k)
         /\ Numbered' <=> Numbered
         /\ \A V : Closed(V)' <=> Closed(V)
         /\ \A b : Children(b)' = Children(b)
<1>1. func' = func /\ cfg' = cfg /\ idom' = idom /\ phiOf' = phiOf
  BY DEF Frozen
<1>2. Given' <=> Given
  BY <1>1 DEF Given
<1>3. Promotable' = Promotable
  BY <1>1 DEF Promotable
<1>4. \A i, op : Of(i, op)' <=> Of(i, op)
  BY <1>3 DEF Of
<1>5. \A b : Size(b)' = Size(b)
  BY <1>1 DEF Size
<1>6. \A v, b, k : Stands(v, b, k)' <=> Stands(v, b, k)
  BY <1>1 DEF Stands
<1>7. \A a, j, b, k : Before(a, j, b, k)' <=> Before(a, j, b, k)
  BY <1>1 DEF Before
<1>8. Numbered' <=> Numbered
  BY <1>1, <1>3 DEF Numbered
<1>9. \A V : Closed(V)' <=> Closed(V)
  BY <1>1 DEF Closed
<1>10. \A b : Children(b)' = Children(b)
  BY <1>1 DEF Children
<1> QED  BY <1>2, <1>3, <1>4, <1>5, <1>6, <1>7, <1>8, <1>9, <1>10

LEMMA FrozenWalk ==
  ASSUME Frozen
  PROVE  /\ \A b, k : Loads(b, k)' = Loads(b, k)
         /\ \A b, c, r : BlockSolved(b, c, r)' <=> BlockSolved(b, c, r)
         /\ \A u, b, k : Avail(u, b, k)' <=> Avail(u, b, k)
         /\ \A u : Real(u)' <=> Real(u)
         /\ \A cur, b : EndOf(cur, b)' = EndOf(cur, b)
         /\ \A cur, b : Valued(cur, b)' <=> Valued(cur, b)
         /\ \A V, cur, r : Holds(V, cur, r)' <=> Holds(V, cur, r)
         /\ \A V, cur : Starts(V, cur)' <=> Starts(V, cur)
         /\ \A V, cur, p, e : Filled(V, cur, p, e)' <=> Filled(V, cur, p, e)
         /\ Stacks' = Stacks
<1>1. /\ func' = func /\ cfg' = cfg /\ idom' = idom /\ phiOf' = phiOf
      /\ Promotable' = Promotable
      /\ \A i, op : Of(i, op)' <=> Of(i, op)
      /\ \A b : Size(b)' = Size(b)
      /\ \A v, b, k : Stands(v, b, k)' <=> Stands(v, b, k)
      /\ \A a, j, b, k : Before(a, j, b, k)' <=> Before(a, j, b, k)
      /\ \A V : Closed(V)' <=> Closed(V)
  BY FrozenFunction DEF Frozen
<1>2. \A b, k : Loads(b, k)' = Loads(b, k)
  BY <1>1 DEF Loads
<1>3. \A b, c, r : BlockSolved(b, c, r)' <=> BlockSolved(b, c, r)
  BY <1>1 DEF BlockSolved
<1>4. \A u, b, k : Avail(u, b, k)' <=> Avail(u, b, k)
  BY <1>1 DEF Avail
<1>5. \A u : Real(u)' <=> Real(u)
  BY <1>1 DEF Real
<1>6. \A cur, b : EndOf(cur, b)' = EndOf(cur, b)
  BY <1>1 DEF EndOf
<1>7. \A cur, b, k : ValuedAt(cur, b, k)' <=> ValuedAt(cur, b, k)
  BY <1>1, <1>4, <1>5 DEF ValuedAt
<1>8. \A cur, b : Valued(cur, b)' <=> Valued(cur, b)
  BY <1>1, <1>7 DEF Valued
<1>9. \A V, cur, r : Holds(V, cur, r)' <=> Holds(V, cur, r)
  BY <1>1, <1>2, <1>3 DEF Holds
<1>10. \A V, cur : Starts(V, cur)' <=> Starts(V, cur)
  BY <1>1, <1>6 DEF Starts
<1>11. \A V, cur, p, e : Filled(V, cur, p, e)' <=> Filled(V, cur, p, e)
  BY <1>1, <1>6 DEF Filled
<1>12. Stacks' = Stacks
  BY <1>1 DEF Stacks
<1> QED  BY <1>2, <1>3, <1>4, <1>5, <1>6, <1>8, <1>9, <1>10, <1>11, <1>12

LEMMA FrozenProgress ==
  ASSUME Frozen, NEW V, NEW cur, NEW r, NEW e, r = replacements', e = incoming',
         Progress(V, cur, r, e)
  PROVE  Progress(V, cur, replacements, incoming)'
<1>1. Progress(V, cur, r, e)'
  <2>1. phiOf' = phiOf
    BY DEF Frozen
  <2> QED  BY <2>1, FrozenFunction, FrozenWalk DEF Progress
<1> QED  BY <1>1 DEF Progress

LEMMA FrozenCalls ==
  ASSUME Frozen
  PROVE  /\ \A V, path, fr : Pending(V, path, fr)' <=> Pending(V, path, fr)
         /\ \A cur, path, fr, st : Depths(cur, path, fr, st)' <=> Depths(cur, path, fr, st)
<1>1. /\ Promotable' = Promotable /\ Stacks' = Stacks
      /\ \A b : Children(b)' = Children(b)
      /\ \A cur, b : EndOf(cur, b)' = EndOf(cur, b)
  BY FrozenFunction, FrozenWalk
<1>2. FrameSet' = FrameSet
  BY <1>1 DEF FrameSet
<1> QED  BY <1>1, <1>2 DEF Pending, Depths

LEMMA FrozenWay ==
  ASSUME func' = func, idom' = idom
  PROVE  \A a, s, x, places : QuietWay(a, s, x, places)' <=> QuietWay(a, s, x, places)
<1>1. \A c, x, places : Quiet(c, x, places)' <=> Quiet(c, x, places)
  BY DEF Quiet
<1>2. \A U, k, a, s : Lineage(U, k, a, s)' <=> Lineage(U, k, a, s)
  BY DEF Lineage
<1> QED  BY <1>1, <1>2 DEF QuietWay

-----------------------------------------------------------------------------
(* The walk over the tree, step by step.                                   *)

Ways ==
  \A a \in Reachable(cfg) : \A b \in Range(cfg[a]) : \A x \in Promotable :
    <<b, x>> \notin DOMAIN phiOf => QuietWay(a, idom[b], x, DOMAIN phiOf)

Placed ==
  /\ Given /\ idom # <<>> /\ Numbered /\ Ways
  /\ DOMAIN incoming = {phiOf[p] : p \in DOMAIN phiOf}

Walking(V, cur, path) ==
  /\ Progress(V, cur, replacements, incoming)
  /\ Pending(V, path, frames) /\ Depths(cur, path, frames, reachingDefs)
  /\ frames # <<>> => 1 \in V
  /\ frames = <<>> => V = {} /\ \A x \in Promotable : reachingDefs[x] = <<>>

Unwalked ==
  /\ phiOf = <<>> /\ incoming = <<>> /\ frames = <<>> /\ replacements = <<>>
  /\ reachingDefs = [x \in Promotable |-> <<>>] /\ body = func.body

LEMMA PhisPlaced ==
  ASSUME Given, Unwalked, ImmediateDominators, InsertPhis
  PROVE  Placed' /\ \E V, cur, path : Walking(V, cur, path)'
<1> DEFINE n == Len(cfg)
<1>1. /\ func' = func /\ cfg' = cfg /\ idom' = idom /\ body' = body /\ idom # <<>>
      /\ reachingDefs' = reachingDefs /\ replacements' = replacements /\ frames' = frames
      /\ phiOf' = PhiNumbers
      /\ incoming' = [v \in {phiOf'[p] : p \in DOMAIN phiOf'} |-> <<>>]
  BY DEF InsertPhis, treeVars, tree, PhiNumbers
<1>2. AtPass(n)
  BY <1>1, GivenFacts DEF AtPass, Unwalked
<1>3. /\ DOMAIN phiOf' = PhiLocations /\ PhiLocations \subseteq (2..n) \X Promotable
      /\ \A p \in PhiLocations : phiOf'[p] \in Nat /\ phiOf'[p] >= ValueCount
      /\ \A p, q \in PhiLocations : phiOf'[p] = phiOf'[q] => p = q
  <2>1. DOMAIN phiOf' = PhiLocations
    BY <1>1 DEF PhiNumbers
  <2> QED  BY <2>1, <1>1, <1>2, PlacesFacts, NumbersFresh
<1>4. Promotable' = Promotable
  BY <1>1 DEF Promotable
<1>5. Given' /\ Numbered'
  BY <1>1, <1>3, <1>4 DEF Given, Numbered
<1>6. Ways'
  <2>1. PICK P : P = PhiLocations
    OBVIOUS
  <2>2. \A a \in Reachable(cfg) : \A b \in Range(cfg[a]) : \A x \in Promotable :
          <<b, x>> \notin P => QuietWay(a, idom[b], x, P)
    BY <2>1, <1>2, PhisSuffice
  <2>3. \A a \in Reachable(cfg) : \A b \in Range(cfg[a]) : \A x \in Promotable :
          <<b, x>> \notin P => QuietWay(a, idom[b], x, P)'
    BY <2>2, <1>1, FrozenWay
  <2> QED  BY <2>1, <2>3, <1>1, <1>3, <1>4 DEF Ways
<1>7. /\ \A p \in DOMAIN phiOf' : incoming'[phiOf'[p]] = <<>>
      /\ DOMAIN incoming' = {phiOf'[p] : p \in DOMAIN phiOf'}
  BY <1>1
<1>8. Placed'
  BY <1>1, <1>5, <1>6, <1>7 DEF Placed
<1> DEFINE none == <<>>
<1>9. Walking({}, none, none)'
  <2>1. Progress({}, none, replacements, incoming)'
    <3>1. Closed({})' /\ Starts({}, none)'
      BY DEF Closed, Starts
    <3>2. Holds({}, none, replacements)'
      <4>1. replacements' = <<>> /\ DOMAIN replacements' = {}
        BY <1>1 DEF Unwalked
      <4>2. replacements' \in [{} -> Nat] /\ {} \in SUBSET Value
        BY <4>1
      <4>3. replacements' \in Partial
        BY <4>2 DEF Partial
      <4> QED  BY <4>1, <4>3 DEF Holds
    <3>3. ASSUME NEW p PROVE Filled({}, none, p, <<>>)'
      BY DEF Filled
    <3> QED  BY <3>1, <3>2, <3>3, <1>7 DEF Progress
  <2>2. frames' = <<>> /\ reachingDefs' = [x \in Promotable' |-> <<>>]
    BY <1>1, <1>4 DEF Unwalked
  <2>3. Pending({}, none, frames)'
    BY <2>2 DEF Pending
  <2>4. Depths(none, none, frames, reachingDefs)'
    <3>1. reachingDefs' \in Stacks'
      BY <2>2 DEF Stacks
    <3> QED  BY <2>2, <3>1 DEF Depths
  <2> QED  BY <2>1, <2>2, <2>3, <2>4 DEF Walking
<1> HIDE DEF none
<1> QED  BY <1>8, <1>9

LEMMA PlacedStays ==
  ASSUME Placed, Frozen, DOMAIN incoming' = DOMAIN incoming
  PROVE  Placed'
<1>1. /\ func' = func /\ cfg' = cfg /\ idom' = idom /\ phiOf' = phiOf
      /\ Promotable' = Promotable /\ Given' /\ Numbered'
  BY FrozenFunction DEF Frozen, Placed
<1>2. Ways'
  <2>1. \A a, s, x, places : QuietWay(a, s, x, places)' <=> QuietWay(a, s, x, places)
    BY <1>1, FrozenWay
  <2> QED  BY <1>1, <2>1 DEF Ways, Placed
<1> QED  BY <1>1, <1>2 DEF Placed

LEMMA BlockStep ==
  ASSUME Placed, ImmediateDominators, body = func.body,
         UNCHANGED <<func, treeVars, phiOf>>,
         NEW b, RenameBlock(b)
  PROVE  /\ Frozen /\ Placed'
         /\ \E w : /\ w = Walk(PhisPushed(b), func.body[b])
                   /\ reachingDefs' = w.defs /\ replacements' = w.repl
                   /\ incoming' = FillSuccessorPhis(w.defs, b)
<1>1. Frozen
  BY DEF Frozen, treeVars, tree
<1> DEFINE w == Walk(PhisPushed(b), func.body[b])
<1>2. /\ reachingDefs' = w.defs /\ replacements' = w.repl
      /\ incoming' = FillSuccessorPhis(w.defs, b)
  BY DEF RenameBlock, PhisPushed
<1>3. DOMAIN incoming' = DOMAIN incoming
  BY <1>2 DEF FillSuccessorPhis
<1> QED  BY <1>1, <1>2, <1>3, PlacedStays

LEMMA WalkingNext ==
  ASSUME Frozen, NEW V, NEW cur, NEW path, NEW r, NEW e, NEW fr, NEW st,
         r = replacements', e = incoming', fr = frames', st = reachingDefs',
         Progress(V, cur, r, e), Pending(V, path, fr), Depths(cur, path, fr, st),
         fr # <<>>, 1 \in V
  PROVE  Walking(V, cur, path)'
<1>1. Progress(V, cur, replacements, incoming)'
  BY FrozenProgress
<1>2. Pending(V, path, fr)' /\ Depths(cur, path, fr, st)'
  BY FrozenCalls
<1> QED  BY <1>1, <1>2 DEF Walking

LEMMA EntryStep ==
  ASSUME Placed, ImmediateDominators, body = func.body,
         NEW V, NEW cur, NEW path, Walking(V, cur, path), RenameEntry
  PROVE  Placed' /\ \E V2, cur2, path2 : Walking(V2, cur2, path2)'
<1>1. /\ frames = <<>> /\ RenameBlock(1) /\ frames' = <<Frame(1)>>
      /\ UNCHANGED <<func, treeVars, phiOf>>
  BY DEF RenameEntry
<1>2. Frozen /\ Placed'
  BY <1>1, BlockStep
<1>3. PICK w : /\ w = Walk(PhisPushed(1), func.body[1])
               /\ reachingDefs' = w.defs /\ replacements' = w.repl
               /\ incoming' = FillSuccessorPhis(w.defs, 1)
  BY <1>1, BlockStep
<1>4. V = {} /\ \A x \in Promotable : reachingDefs[x] = <<>>
  BY <1>1 DEF Walking
<1>5. /\ Progress(V, cur, replacements, incoming) /\ reachingDefs \in Stacks
      /\ Given /\ Numbered /\ idom # <<>>
      /\ DOMAIN incoming = {phiOf[p] : p \in DOMAIN phiOf}
  BY DEF Walking, Depths, Placed
<1>6. 1 \in Reachable(cfg) /\ 1 \in 1..Len(cfg)
  BY <1>5, GivenFacts
<1>7. \A x \in Promotable : CurrentDef(reachingDefs, x) = Undef
  BY <1>4 DEF CurrentDef
<1>8. w.defs \in Stacks /\ \E cur2 : Advanced(V, cur, 1, w, cur2)
  BY <1>3, <1>4, <1>5, <1>6, <1>7, NextBlock
<1>9. PICK cur2 : Advanced(V, cur, 1, w, cur2)
  BY <1>8
<1> DEFINE W == {1}
           path2 == <<1>>
<1>10. /\ Progress(W, cur2, w.repl, FillSuccessorPhis(w.defs, 1))
       /\ EndOf(cur2, 1) = Tops(w.defs)
  BY <1>9, <1>4 DEF Advanced
<1>11. Progress(W, cur2, replacements, incoming)'
  BY <1>2, <1>3, <1>10, FrozenProgress
<1> DEFINE top == Frame(1)
           fr == <<top>>
<1>12. /\ top \in FrameSet /\ top.todo = Children(1) /\ 1 \notin Children(1)
       /\ \A x \in Promotable : top.saved[x] = 0
  <2>1. Children(1) \in SUBSET Nat
    BY <1>5, GivenFacts DEF Children
  <2>2. \A x \in Promotable : Len(reachingDefs[x]) = 0
    BY <1>4
  <2> QED  BY <2>1, <2>2 DEF Frame, FrameSet, Children
<1> HIDE DEF top
<1>13. Pending(W, path2, fr)
  BY <1>12 DEF Pending
<1>14. Depths(cur2, path2, fr, w.defs)
  <2>1. \A x \in Promotable : w.defs[x] \in Seq(Nat) /\ Len(w.defs[x]) \in Nat
    BY <1>8 DEF Stacks
  <2>2. \A x \in Promotable : TopAt(w.defs[x], Len(w.defs[x])) = EndOf(cur2, 1)[x]
    <3>1. ASSUME NEW x \in Promotable
          PROVE  TopAt(w.defs[x], Len(w.defs[x])) = CurrentDef(w.defs, x)
      BY <2>1 DEF TopAt, CurrentDef, Last
    <3> QED  BY <3>1, <1>10 DEF Tops
  <2>3. Len(fr) = 1 /\ fr[1] = top /\ path2[1] = 1
    OBVIOUS
  <2>4. /\ \A i \in 1..Len(fr) : i = 1
        /\ \A i \in 2..Len(fr) : FALSE
    BY <2>3
  <2> HIDE DEF fr, path2
  <2> QED  BY <2>1, <2>2, <2>3, <2>4, <1>8, <1>12 DEF Depths
<1>15. frames' = fr /\ reachingDefs' = w.defs
  BY <1>1, <1>3 DEF top
<1>16. fr # <<>> /\ 1 \in W
  OBVIOUS
<1> HIDE DEF W, path2, fr
<1>17. Walking(W, cur2, path2)'
  BY <1>2, <1>3, <1>10, <1>13, <1>14, <1>15, <1>16, WalkingNext
<1> QED  BY <1>2, <1>17

LEMMA TopIsCurrent ==
  ASSUME NEW st \in Stacks, NEW x \in Promotable
  PROVE  TopAt(st[x], Len(st[x])) = CurrentDef(st, x)
<1>1. st[x] \in Seq(Nat)
  BY DEF Stacks
<1> QED  BY <1>1 DEF TopAt, CurrentDef, Last

LEMMA ChildFacts ==
  ASSUME Given, idom # <<>>, ImmediateDominators, NEW V, Closed(V),
         NEW a \in V, NEW c \in Children(a), c \notin V
  PROVE  /\ c \in Reachable(cfg) /\ c # 1 /\ idom[c] = a
         /\ Children(c) \cap V = {} /\ Children(c) \subseteq Nat
<1>1. /\ Graph(cfg, Len(cfg)) /\ DOMAIN cfg = 1..Len(cfg)
      /\ Reachable(cfg) \subseteq 1..Len(cfg)
      /\ V \subseteq Reachable(cfg) /\ \A b \in V : \A d1 : Dominates(cfg, d1, b) => d1 \in V
  BY GivenFacts DEF Closed
<1>2. idom[1] = 1 /\ \A b \in 1..Len(cfg) : b \notin Reachable(cfg) => idom[b] = 0
  BY <1>1, IdomFacts
<1>3. c \in 1..Len(cfg) /\ idom[c] = a /\ c # a
  BY <1>1 DEF Children
<1>4. c # 1 /\ c \in Reachable(cfg)
  BY <1>1, <1>2, <1>3
<1>5. ASSUME NEW e \in Children(c), e \in V PROVE FALSE
  <2>1. idom[e] = c /\ e # c /\ e # 1
    BY <1>2, <1>5 DEF Children
  <2>2. e \in Reachable(cfg) /\ Graph(cfg, Len(cfg))
    BY <1>1, <1>5
  <2>3. Dominates(cfg, idom[e], e)
    BY <2>1, <2>2, IdomFacts
  <2> QED  BY <2>1, <2>3, <1>1, <1>5
<1>6. Children(c) \subseteq Nat
  BY <1>1 DEF Children
<1> QED  BY <1>3, <1>4, <1>5, <1>6

LEMMA ChildStep ==
  ASSUME Placed, ImmediateDominators, body = func.body,
         NEW V, NEW cur, NEW path, Walking(V, cur, path), RenameChild
  PROVE  Placed' /\ \E V2, cur2, path2 : Walking(V2, cur2, path2)'
<1> DEFINE n == Len(frames)
           todo == frames[n].todo
           c == CHOOSE c \in todo : \A o \in todo : c <= o
<1>1. /\ frames # <<>> /\ todo # {} /\ RenameBlock(c)
      /\ frames' = Append([frames EXCEPT ![n].todo = @ \ {c}], Frame(c))
      /\ UNCHANGED <<func, treeVars, phiOf>>
  BY DEF RenameChild, Last
<1>2. /\ Progress(V, cur, replacements, incoming)
      /\ Pending(V, path, frames) /\ Depths(cur, path, frames, reachingDefs) /\ 1 \in V
      /\ Given /\ Numbered /\ idom # <<>> /\ reachingDefs \in Stacks
      /\ DOMAIN incoming = {phiOf[p] : p \in DOMAIN phiOf} /\ Closed(V)
  BY <1>1 DEF Walking, Placed, Progress, Depths
<1>3. /\ frames \in Seq(FrameSet) /\ Len(path) = n /\ path \in Seq(V)
      /\ \A i \in 1..n : frames[i].todo \subseteq Children(path[i]) \ V
  BY <1>2 DEF Pending
<1>4. n \in 1..n /\ path[n] \in V /\ todo \in SUBSET Nat
  <2>1. n \in Nat \ {0}
    BY <1>1, <1>3
  <2>2. frames[n] \in FrameSet /\ path[n] \in V
    BY <2>1, <1>3
  <2> QED  BY <2>1, <2>2 DEF FrameSet
<1>5. c \in todo
  <2>1. \E x \in todo : \A y \in todo : x <= y
    <3> HIDE DEF todo
    <3> QED  BY <1>1, <1>4, Least
  <2> QED  BY <2>1
<1> HIDE DEF c
<1>6. c \in Children(path[n]) /\ c \notin V
  BY <1>3, <1>4, <1>5
<1>7. /\ c \in Reachable(cfg) /\ c # 1 /\ idom[c] = path[n]
      /\ Children(c) \cap V = {} /\ Children(c) \subseteq Nat
  BY <1>2, <1>4, <1>6, ChildFacts
<1>8. Frozen /\ Placed'
  BY <1>1, BlockStep
<1>9. PICK w : /\ w = Walk(PhisPushed(c), func.body[c])
               /\ reachingDefs' = w.defs /\ replacements' = w.repl
               /\ incoming' = FillSuccessorPhis(w.defs, c)
  BY <1>1, BlockStep
<1>10. \A x \in Promotable : CurrentDef(reachingDefs, x) = EndOf(cur, idom[c])[x]
  <2>1. \A x \in Promotable :
          TopAt(reachingDefs[x], Len(reachingDefs[x])) = EndOf(cur, path[n])[x]
    BY <1>1, <1>2 DEF Depths
  <2> QED  BY <2>1, <1>2, <1>7, TopIsCurrent
<1>11. /\ w.defs \in Stacks /\ Extends(w.defs, reachingDefs)
       /\ \E cur2 : Advanced(V, cur, c, w, cur2)
  <2>1. idom[c] \in V
    BY <1>4, <1>7
  <2> QED  BY <2>1, <1>2, <1>6, <1>7, <1>9, <1>10, NextBlock
<1>12. PICK cur2 : Advanced(V, cur, c, w, cur2)
  BY <1>11
<1> DEFINE W == V \cup {c}
           path2 == Append(path, c)
           saved == [x \in Promotable |-> Len(reachingDefs[x])]
           fr == Append([frames EXCEPT ![Len(frames)].todo = @ \ {c}],
                        [todo |-> Children(c), saved |-> saved])
<1>13. /\ Progress(W, cur2, w.repl, FillSuccessorPhis(w.defs, c))
       /\ EndOf(cur2, c) = Tops(w.defs) /\ \A a \in V : EndOf(cur2, a) = EndOf(cur, a)
  BY <1>12 DEF Advanced
<1>14. saved \in [Promotable -> Nat]
  <2>1. \A x \in Promotable : Len(reachingDefs[x]) \in Nat
    BY <1>2 DEF Stacks
  <2> QED  BY <2>1
<1>15. Pending(W, path2, fr)
  <2> HIDE DEF saved
  <2> QED  BY <1>1, <1>2, <1>5, <1>7, <1>14, PendingChild
<1>16. Depths(cur2, path2, fr, w.defs)
  BY <1>1, <1>2, <1>11, <1>13, DepthsChild, SMTT(30)
<1>17. frames' = fr
  BY <1>1 DEF Frame
<1>18. fr # <<>> /\ 1 \in W
  <2>1. Len(fr) = Len(path2) /\ Len(path2) = n + 1
    BY <1>3, <1>4, <1>15 DEF Pending
  <2>2. n \in Nat
    BY <1>3
  <2> HIDE DEF fr, path2
  <2> QED  BY <2>1, <2>2, <1>2
<1> HIDE DEF W, path2, fr
<1>19. PICK V2, p2, f2, r, e, st :
         /\ V2 = W /\ p2 = path2 /\ f2 = fr
         /\ r = w.repl /\ e = FillSuccessorPhis(w.defs, c) /\ st = w.defs
  OBVIOUS
<1>20. Walking(V2, cur2, p2)'
  <2>1. Progress(V2, cur2, r, e) /\ Pending(V2, p2, f2) /\ Depths(cur2, p2, f2, st)
    BY <1>13, <1>15, <1>16, <1>19
  <2>2. /\ r = replacements' /\ e = incoming' /\ st = reachingDefs' /\ f2 = frames'
        /\ f2 # <<>> /\ 1 \in V2
    BY <1>9, <1>17, <1>18, <1>19
  <2> QED  BY <2>1, <2>2, <1>8, WalkingNext
<1> QED  BY <1>8, <1>20

\* Once no child is left, every block that is reached was walked.
LEMMA AllWalked ==
  ASSUME Given, idom # <<>>, ImmediateDominators, NEW V, Closed(V), 1 \in V,
         \A b \in V : Children(b) \subseteq V
  PROVE  V = Reachable(cfg)
<1> DEFINE n == Len(cfg)
           P == {b \in Reachable(cfg) : \A a : Dominates(cfg, a, b) => a \in V}
<1>1. /\ Graph(cfg, n) /\ DOMAIN cfg = 1..n /\ 1 \in Reachable(cfg)
      /\ Reachable(cfg) \subseteq 1..n
      /\ \A b \in Reachable(cfg) : \A c \in Range(cfg[b]) : c \in Reachable(cfg)
      /\ V \subseteq Reachable(cfg) /\ \A b \in V : \A a : Dominates(cfg, a, b) => a \in V
  BY GivenFacts DEF Closed
<1>2. 1 \in P
  BY <1>1
<1>3. ASSUME NEW b \in P, NEW c \in Range(cfg[b]) PROVE c \in P
  <2>1. b \in Reachable(cfg) /\ c \in Reachable(cfg)
    BY <1>1
  <2>2. ASSUME NEW a, Dominates(cfg, a, c), a # c PROVE a \in V
    <3>1. Dominates(cfg, a, b)
      BY <2>2, <1>1, DomBefore
    <3> QED  BY <3>1
  <2>3. c \in V
    <3>1. CASE c = 1
      BY <3>1
    <3>2. CASE c # 1
      <4>1. Dominates(cfg, idom[c], c) /\ idom[c] # c
        BY <3>2, <2>1, <1>1, IdomFacts
      <4>2. idom[c] \in V
        BY <4>1, <2>2
      <4>3. c \in Children(idom[c])
        BY <4>1, <2>1, <1>1 DEF Children
      <4> QED  BY <4>2, <4>3
    <3> QED  BY <3>1, <3>2
  <2> QED  BY <2>1, <2>2, <2>3
<1>4. Reachable(cfg) \subseteq P
  <2>1. \A b \in ReachedAvoiding(cfg, 0) : b \in P => \A c \in Range(cfg[b]) : c # 0 => c \in P
    BY <1>3
  <2> HIDE DEF P
  <2> QED  BY <2>1, <1>1, <1>2, ReachLeast DEF Reachable
<1>5. \A b \in Reachable(cfg) : b \in V
  BY <1>1, <1>4, DomReached
<1> QED  BY <1>1, <1>5

LEMMA BackStep ==
  ASSUME Placed, ImmediateDominators,
         NEW V, NEW cur, NEW path, Walking(V, cur, path), RestoreStacks
  PROVE  /\ Placed'
         /\ Len(frames) # 1 => \E V2, cur2, path2 : Walking(V2, cur2, path2)'
         /\ Len(frames) = 1 => \E V2, cur2 :
              (V2 = Reachable(cfg) /\ Progress(V2, cur2, replacements, incoming))'
<1> DEFINE n == Len(frames)
           fr == Front(frames)
           path2 == Front(path)
           st == [x \in Promotable |-> Truncate(reachingDefs[x], frames[n].saved[x])]
<1>1. /\ frames # <<>> /\ frames[n].todo = {} /\ frames' = fr /\ reachingDefs' = st
      /\ incoming' = incoming /\ replacements' = replacements
      /\ UNCHANGED <<func, treeVars, phiOf>>
  BY DEF RestoreStacks, Last
<1>2. Frozen /\ Placed'
  <2>1. Frozen
    BY <1>1 DEF Frozen, treeVars, tree
  <2> QED  BY <2>1, <1>1, PlacedStays
<1>3. /\ Progress(V, cur, replacements, incoming)
      /\ Pending(V, path, frames) /\ Depths(cur, path, frames, reachingDefs) /\ 1 \in V
      /\ Given /\ idom # <<>> /\ Closed(V)
  BY <1>1 DEF Walking, Placed, Progress
<1>4. Pending(V, path2, fr)
  BY <1>1, <1>3, PendingBack
<1>5. Depths(cur, path2, fr, st)
  BY <1>1, <1>3, DepthsBack
<1>6. Len(fr) = n - 1 /\ n \in Nat
  <2>1. frames \in Seq(FrameSet)
    BY <1>3 DEF Pending
  <2> QED  BY <2>1, <1>1, FrontFacts
<1> HIDE DEF fr, path2, st
<1>7. PICK f, p, s, r, e :
        /\ f = fr /\ p = path2 /\ s = st /\ r = replacements /\ e = incoming
  OBVIOUS
<1>8. ASSUME n # 1 PROVE Walking(V, cur, p)'
  <2>1. Progress(V, cur, r, e) /\ Pending(V, p, f) /\ Depths(cur, p, f, s)
    BY <1>3, <1>4, <1>5, <1>7
  <2>2. r = replacements' /\ e = incoming' /\ s = reachingDefs' /\ f = frames'
    BY <1>1, <1>7
  <2>3. f # <<>>
    BY <1>6, <1>7, <1>8
  <2> QED  BY <2>1, <2>2, <2>3, <1>2, <1>3, WalkingNext
<1>9. ASSUME n = 1
      PROVE  (V = Reachable(cfg) /\ Progress(V, cur, replacements, incoming))'
  <2>1. Len(path2) = 0
    BY <1>4, <1>6, <1>9 DEF Pending
  <2>2. \A b \in V : Children(b) \subseteq V
    <3>1. \A i \in 1..Len(path2) : FALSE
      BY <2>1
    <3> QED  BY <3>1, <1>4 DEF Pending
  <2>3. V = Reachable(cfg)
    BY <2>2, <1>3, AllWalked
  <2>4. Progress(V, cur, r, e) /\ r = replacements' /\ e = incoming'
    BY <1>1, <1>3, <1>7
  <2>5. Progress(V, cur, replacements, incoming)'
    BY <2>4, <1>2, FrozenProgress
  <2>6. cfg' = cfg
    BY <1>2 DEF Frozen
  <2> QED  BY <2>3, <2>5, <2>6
<1> QED  BY <1>2, <1>8, <1>9

-----------------------------------------------------------------------------
(* What the pass leaves behind.                                            *)

(* Where an edge is taken to a block without a phi of the variable, the    *)
(* variable is at its start what it was where the block before it ended.   *)
Flowing(cur) ==
  \A a \in Reachable(cfg) : \A b \in Range(cfg[a]) : \A x \in Promotable :
    <<b, x>> \notin DOMAIN phiOf =>
      cur[b][0][x] = EndOf(cur, a)[x] /\ Avail(cur[b][0][x], b, -1)

Solution(cur) ==
  Progress(Reachable(cfg), cur, replacements, incoming) /\ Flowing(cur)

Promoted ==
  /\ Given /\ Numbered /\ DOMAIN incoming = {phiOf[p] : p \in DOMAIN phiOf}
  /\ DOMAIN body = DOMAIN func.body
  /\ \A b \in DOMAIN func.body : body[b] = Rewritten(replacements, func.body[b])
  /\ \E cur : Solution(cur)

LEMMA WalkSolves ==
  ASSUME Placed, ImmediateDominators,
         NEW cur, Progress(Reachable(cfg), cur, replacements, incoming)
  PROVE  Flowing(cur)
<1> DEFINE V == Reachable(cfg)
<1>1. /\ Given /\ idom # <<>> /\ Numbered /\ Ways /\ DOMAIN phiOf \subseteq Nat \X Nat
      /\ Graph(cfg, Len(cfg)) /\ V \subseteq 1..Len(cfg) /\ Preds(cfg, 1) = {}
      /\ \A a \in V : \A b \in Range(cfg[a]) : b \in V
      /\ DOMAIN cfg = 1..Len(cfg)
  BY GivenFacts, NumberedFacts DEF Placed
<1>2. /\ Closed(V) /\ Holds(V, cur, replacements) /\ Starts(V, cur)
      /\ \A b \in V : Valued(cur, b)
  BY DEF Progress
<1> SUFFICES ASSUME NEW a \in V, NEW b \in Range(cfg[a]), NEW x \in Promotable,
                    <<b, x>> \notin DOMAIN phiOf
    PROVE  cur[b][0][x] = EndOf(cur, a)[x] /\ Avail(cur[b][0][x], b, -1)
  BY DEF Flowing
<1> DEFINE s == idom[b]
<1>3. b \in V /\ b # 1
  BY <1>1 DEF Preds
<1>4. s \in V /\ s # b /\ Dominates(cfg, s, b)
  BY <1>1, <1>3, IdomFacts
<1>5. cur[b][0][x] = EndOf(cur, s)[x]
  BY <1>2, <1>3 DEF Starts
<1>6. QuietWay(a, s, x, DOMAIN phiOf)
  BY <1>1 DEF Ways
<1>7. EndOf(cur, a)[x] = EndOf(cur, s)[x]
  <2> HIDE DEF V, s
  <2> QED  BY <1>1, <1>2, <1>6, Unchanging
<1>8. Size(s) \in Nat
  BY <1>1, <1>4, GivenFacts DEF Size
<1>9. Avail(EndOf(cur, s)[x], s, Size(s))
  BY <1>2, <1>4, <1>8 DEF Valued, ValuedAt, EndOf
<1>10. Before(s, Size(s), b, -1)
  BY <1>4 DEF Before
<1>11. Avail(EndOf(cur, s)[x], b, -1)
  <2> HIDE DEF s
  <2>1. Size(s) \in Int /\ -1 \in Int
    BY <1>8
  <2> QED  BY <2>1, <1>1, <1>3, <1>9, <1>10, AvailLater
<1> QED  BY <1>5, <1>7, <1>11

\* What a phi takes from a block is not the result of a load that went.
LEMMA NotNoted ==
  ASSUME Given, Numbered, NEW V, NEW cur, NEW r, Closed(V), Holds(V, cur, r),
         NEW u, NEW b, NEW k, Avail(u, b, k)
  PROVE  u \notin DOMAIN r
<1>1. DOMAIN r \subseteq Value
  BY PartialFacts DEF Holds
<1>2. ASSUME NEW p \in DOMAIN phiOf PROVE phiOf[p] \notin Value
  BY ConstantsAssumption DEF Numbered, Value
<1>3. u \in DOMAIN r => \E a, j : Stands(u, a, j) /\ Of(func.body[a][j], "load")
  BY NotedLoads
<1> QED  BY <1>1, <1>2, <1>3 DEF Avail

LEMMA Untouched ==
  ASSUME NEW s \in Seq(Entry), NEW r,
         \A k \in 1..Len(s) : s[k].val \notin DOMAIN r
  PROVE  [k \in DOMAIN s |-> [s[k] EXCEPT !.val = Resolve(r, @)]] = s
<1>1. DOMAIN s = 1..Len(s) /\ \A k \in 1..Len(s) : s[k] \in Entry
  OBVIOUS
<1>2. ASSUME NEW k \in DOMAIN s PROVE [s[k] EXCEPT !.val = Resolve(r, @)] = s[k]
  <2>1. Resolve(r, s[k].val) = s[k].val
    BY <1>1 DEF Resolve
  <2>2. [s[k] EXCEPT !.val = s[k].val] = s[k]
    BY <1>1 DEF Entry
  <2> QED  BY <2>1, <2>2
<1>3. s = [k \in DOMAIN s |-> s[k]]
  OBVIOUS
<1> QED  BY <1>2, <1>3

LEMMA FinishStep ==
  ASSUME Placed, ImmediateDominators, body = func.body,
         NEW cur, Progress(Reachable(cfg), cur, replacements, incoming), ReplaceAndRemove
  PROVE  Promoted'
<1>1. /\ incoming' = [v \in DOMAIN incoming |->
                        [k \in DOMAIN incoming[v] |->
                           [incoming[v][k] EXCEPT !.val = Resolve(replacements, @)]]]
      /\ body' = [b \in DOMAIN body |-> Rewritten(replacements, body[b])]
      /\ replacements' = replacements /\ Frozen
  BY DEF ReplaceAndRemove, Frozen, treeVars, tree
<1> DEFINE V == Reachable(cfg)
<1>2. /\ Given /\ Numbered /\ DOMAIN incoming = {phiOf[p] : p \in DOMAIN phiOf}
      /\ V \subseteq 1..Len(cfg)
  BY GivenFacts DEF Placed
<1>3. /\ Closed(V) /\ Holds(V, cur, replacements) /\ Starts(V, cur)
      /\ \A b \in V : Valued(cur, b)
      /\ \A p \in DOMAIN phiOf : Filled(V, cur, p, incoming[phiOf[p]])
  BY DEF Progress
<1>4. ASSUME NEW p \in DOMAIN phiOf PROVE incoming'[phiOf[p]] = incoming[phiOf[p]]
  <2> DEFINE s == incoming[phiOf[p]]
  <2>1. /\ s \in Seq(Entry) /\ p[2] \in Promotable
        /\ \A k \in 1..Len(s) : s[k].pred \in V /\ s[k].val = EndOf(cur, s[k].pred)[p[2]]
    BY <1>2, <1>3 DEF Filled, Numbered
  <2>2. ASSUME NEW k \in 1..Len(s) PROVE s[k].val \notin DOMAIN replacements
    <3>1. /\ s[k].pred \in V /\ s[k].val = EndOf(cur, s[k].pred)[p[2]]
          /\ Size(s[k].pred) \in Nat
      BY <2>1, <1>2, GivenFacts DEF Size
    <3>2. Avail(s[k].val, s[k].pred, Size(s[k].pred))
      <4>1. PICK a, u : a = s[k].pred /\ u = s[k].val
        OBVIOUS
      <4>2. a \in V /\ u = EndOf(cur, a)[p[2]] /\ Size(a) \in 0..Size(a)
        BY <3>1, <4>1
      <4>3. ValuedAt(cur, a, Size(a))
        BY <4>2, <1>3 DEF Valued
      <4>4. Avail(u, a, Size(a))
        BY <4>2, <4>3, <2>1 DEF ValuedAt, EndOf
      <4> QED  BY <4>1, <4>4
    <3> HIDE DEF s, V
    <3> QED  BY <3>2, <1>2, <1>3, NotNoted
  <2>3. incoming'[phiOf[p]] = [k \in DOMAIN s |-> [s[k] EXCEPT !.val = Resolve(replacements, @)]]
    BY <1>1, <1>2
  <2> HIDE DEF s
  <2>4. incoming'[phiOf[p]] = s
    BY <2>1, <2>2, <2>3, Untouched
  <2> QED  BY <2>4 DEF s
<1>5. PICK r, e, W : r = replacements /\ e = incoming' /\ W = V
  OBVIOUS
<1>6. Progress(W, cur, r, e)
  BY <1>3, <1>4, <1>5 DEF Progress
<1>7. Progress(W, cur, replacements, incoming)'
  BY <1>1, <1>5, <1>6, FrozenProgress
<1>8. Flowing(cur)'
  <2>1. Flowing(cur)
    BY WalkSolves
  <2>2. cfg' = cfg /\ phiOf' = phiOf
    BY <1>1 DEF Frozen
  <2> QED  BY <2>1, <2>2, <1>1, FrozenFunction, FrozenWalk DEF Flowing
<1>9. Solution(cur)'
  <2>1. W = Reachable(cfg')
    BY <1>1, <1>5 DEF Frozen
  <2> QED  BY <2>1, <1>7, <1>8 DEF Solution
<1>10. Given' /\ Numbered'
  BY <1>1, <1>2, FrozenFunction
<1>11. DOMAIN incoming' = {phiOf'[p] : p \in DOMAIN phiOf'} /\ func' = func
  BY <1>1, <1>2 DEF Frozen
<1>12. /\ DOMAIN body' = DOMAIN func'.body
       /\ (\A b \in DOMAIN func.body : body[b] = Rewritten(replacements, func.body[b]))'
  <2>1. \A r2, block : Rewritten(r2, block)' = Rewritten(r2, block)
    <3>1. \A i : Stays(i)' <=> Stays(i)
      BY <1>1, FrozenFunction DEF Stays
    <3> QED  BY <3>1 DEF Rewritten
  <2> QED  BY <2>1, <1>1, <1>11
<1>13. \E cur2 : Solution(cur2)'
  BY <1>9
<1> QED  BY <1>10, <1>11, <1>12, <1>13 DEF Promoted

LEMMA NothingNoted ==
  ASSUME replacements = <<>>
  PROVE  replacements \in Partial /\ DOMAIN replacements = {}
<1>1. replacements \in [{} -> Nat] /\ {} \in SUBSET Value
  OBVIOUS
<1> QED  BY <1>1 DEF Partial

LEMMA EntryAlone ==
  ASSUME Given, Len(cfg) = 1
  PROVE  /\ Reachable(cfg) = {1} /\ Closed({1})
         /\ \A a \in Reachable(cfg) : Range(cfg[a]) = {}
<1>1. /\ Graph(cfg, 1) /\ Preds(cfg, 1) = {} /\ DOMAIN cfg = 1..1 /\ 1 \in Reachable(cfg)
      /\ Reachable(cfg) \subseteq 1..1
      /\ \A a \in Reachable(cfg) : \A b \in Range(cfg[a]) : b \in Reachable(cfg)
  BY GivenFacts
<1>2. Reachable(cfg) = {1}
  BY <1>1
<1>3. \A a : Dominates(cfg, a, 1) => a = 1
  BY <1>1, EntryDominates, DomAntisymmetric
<1>4. Range(cfg[1]) = {}
  BY <1>1, <1>2 DEF Preds
<1> QED  BY <1>2, <1>3, <1>4 DEF Closed

LEMMA SingleStep ==
  ASSUME Given, Unwalked, PromoteSingleBlock
  PROVE  Promoted'
<1> DEFINE w == Walk(reachingDefs, func.body[1])
           V == {1}
<1>1. /\ replacements' = w.repl /\ body' = <<Rewritten(w.repl, func.body[1])>>
      /\ phiOf' = <<>> /\ incoming' = <<>> /\ phiOf = <<>> /\ replacements = <<>>
      /\ reachingDefs = [x \in Promotable |-> <<>>] /\ Len(cfg) = 1 /\ Frozen
  BY DEF PromoteSingleBlock, Unwalked, Frozen, treeVars, tree
<1>2. /\ DOMAIN func.body = 1..1 /\ 1 \in DOMAIN func.body /\ Size(1) \in Nat
      /\ V = Reachable(cfg) /\ Closed(V) /\ \A a \in Reachable(cfg) : Range(cfg[a]) = {}
  <2>1. DOMAIN func.body = 1..1 /\ Size(1) \in Nat
    BY <1>1, GivenFacts DEF Size
  <2> QED  BY <2>1, <1>1, EntryAlone, SMTT(30)
<1>3. /\ reachingDefs \in Stacks /\ \A x \in Promotable : CurrentDef(reachingDefs, x) = Undef
  BY <1>1 DEF Stacks, CurrentDef
<1>4. replacements \in Partial /\ DOMAIN replacements = {}
  BY <1>1, NothingNoted
<1>5. /\ Walked(1, reachingDefs, w)
      /\ \E c : BlockSolved(1, c, w.repl) /\ c[0] = Tops(reachingDefs)
  <2>1. func \in Inputs /\ Loads(1, Len(func.body[1])) \cap DOMAIN replacements = {}
    BY <1>4 DEF Given
  <2> QED  BY <2>1, <1>2, <1>3, <1>4, WalkBlock
<1>6. PICK c : BlockSolved(1, c, w.repl) /\ c[0] = Tops(reachingDefs)
  BY <1>5
<1> DEFINE cur == [b \in V |-> c]
<1> HIDE DEF w
<1>7. Holds(V, cur, w.repl)
  <2>1. w.repl \in Partial /\ DOMAIN w.repl = Loads(1, Size(1))
    BY <1>4, <1>5 DEF Walked, Size
  <2> QED  BY <2>1, <1>6 DEF Holds
<1>8. /\ cur[1] = c /\ \A x \in Promotable : cur[1][0][x] = Undef
  BY <1>3, <1>6 DEF Tops
<1> HIDE DEF cur
<1>9. Starts(V, cur)
  BY <1>1, <1>8 DEF Starts
<1>10. \A b \in V : Valued(cur, b)
  <2>1. ValuedAt(cur, 1, 0)
    <3>1. Undef \in Value /\ \A a, j : ~Stands(Undef, a, j)
      BY StandsFacts, ConstantsAssumption DEF Undef, Value
    <3>2. Avail(Undef, 1, 0) /\ Real(Undef)
      BY <3>1 DEF Avail, Real
    <3> QED  BY <3>2, <1>8 DEF ValuedAt
  <2>2. Valued(cur, 1)
    <3>1. DOMAIN phiOf \subseteq Nat \X Nat /\ 1 \in V /\ \A a \in V : a # 1 => Valued(cur, a)
      BY <1>1
    <3> HIDE DEF V
    <3> QED  BY <2>1, <3>1, <1>2, <1>7, BlockValued
  <2> QED  BY <2>2
<1>11. Progress(V, cur, w.repl, incoming')
  BY <1>1, <1>2, <1>7, <1>9, <1>10 DEF Progress
<1>12. PICK r, e, W, s : r = w.repl /\ e = incoming' /\ W = Reachable(cfg) /\ s = cur
  OBVIOUS
<1>13. Progress(W, s, replacements, incoming)'
  <2>1. Progress(W, s, r, e) /\ r = replacements' /\ e = incoming'
    BY <1>1, <1>2, <1>11, <1>12
  <2> QED  BY <2>1, <1>1, FrozenProgress
<1>14. Flowing(s)'
  <2>1. cfg' = cfg
    BY <1>1 DEF Frozen
  <2> QED  BY <2>1, <1>2 DEF Flowing
<1>15. Solution(s)'
  <2>1. W = Reachable(cfg')
    BY <1>1, <1>12 DEF Frozen
  <2> QED  BY <2>1, <1>13, <1>14 DEF Solution
<1>16. Given' /\ Numbered' /\ DOMAIN incoming' = {phiOf'[p] : p \in DOMAIN phiOf'}
  BY <1>1, FrozenFunction DEF Numbered
<1>17. /\ DOMAIN body' = DOMAIN func'.body
       /\ (\A b \in DOMAIN func.body : body[b] = Rewritten(replacements, func.body[b]))'
  <2>1. \A r2, block : Rewritten(r2, block)' = Rewritten(r2, block)
    <3>1. \A i : Stays(i)' <=> Stays(i)
      BY <1>1, FrozenFunction DEF Stays
    <3> QED  BY <3>1 DEF Rewritten
  <2>2. func' = func
    BY <1>1 DEF Frozen
  <2>3. [b \in 1..1 |-> Rewritten(w.repl, func.body[b])] = <<Rewritten(w.repl, func.body[1])>>
    OBVIOUS
  <2> QED  BY <2>1, <2>2, <2>3, <1>1, <1>2
<1> QED  BY <1>15, <1>16, <1>17 DEF Promoted

LEMMA KeptAll ==
  ASSUME NEW A, NEW list \in Seq(A), NEW S, \A i \in 1..Len(list) : list[i] \in S
  PROVE  Kept(list, S) = list
<1>1. PICK F : KeptSoFar(F, A, list, S)
  BY KeptDef
<1>2. /\ F \in [0..Len(list) -> Seq(A)]
      /\ Kept(list, S) = F[Len(list)]
      /\ F[0] = <<>>
      /\ \A i \in 1..Len(list) : F[i] = Append(F[i - 1], list[i])
  BY <1>1 DEF KeptSoFar
<1> DEFINE n == Len(list)
           Same == {k \in Nat : k <= n => Len(F[k]) = k /\ \A j \in 1..k : F[k][j] = list[j]}
<1>3. 0 \in Same
  BY <1>2
<1>4. ASSUME NEW k \in Nat, k \in Same PROVE k + 1 \in Same
  <2> SUFFICES ASSUME k + 1 <= n
      PROVE  Len(F[k + 1]) = k + 1 /\ \A j \in 1..(k + 1) : F[k + 1][j] = list[j]
    OBVIOUS
  <2>1. k + 1 \in 1..n /\ (k + 1) - 1 = k /\ k \in 0..n /\ n \in Nat
    OBVIOUS
  <2>2. F[k + 1] = Append(F[k], list[k + 1]) /\ F[k] \in Seq(A) /\ list[k + 1] \in A
    <3>1. F[k + 1] = Append(F[(k + 1) - 1], list[k + 1])
      BY <2>1, <1>2
    <3>2. F[k] \in Seq(A)
      BY <2>1, <1>2
    <3> QED  BY <3>1, <3>2, <2>1
  <2>3. Len(F[k]) = k /\ \A j \in 1..k : F[k][j] = list[j]
    BY <1>4
  <2> QED  BY <2>2, <2>3
<1>5. n \in Nat
  OBVIOUS
<1>6. n \in Same
  <2> HIDE DEF Same
  <2> QED  BY <1>3, <1>4, <1>5, SetInduction
<1>7. F[n] \in Seq(A) /\ Len(F[n]) = n /\ \A j \in 1..n : F[n][j] = list[j]
  BY <1>2, <1>5, <1>6
<1>8. F[n] = list
  BY <1>7
<1> QED  BY <1>2, <1>8

LEMMA NoneStep ==
  ASSUME Given, Unwalked, NothingToPromote
  PROVE  Promoted'
<1>1. /\ replacements' = <<>> /\ body' = func.body /\ replacements = <<>>
      /\ phiOf' = <<>> /\ incoming' = <<>> /\ phiOf = <<>> /\ Promotable = {} /\ Frozen
  BY DEF NothingToPromote, Unwalked, Frozen, treeVars, tree, renaming
<1> DEFINE V == Reachable(cfg)
           c(b) == [k \in 0..Size(b) |-> [x \in {} |-> 0]]
           cur == [b \in V |-> c(b)]
<1>2. /\ V \subseteq 1..Len(cfg) /\ DOMAIN func.body = 1..Len(cfg)
      /\ Graph(cfg, Len(cfg))
  BY GivenFacts
<1>3. replacements \in Partial /\ DOMAIN replacements = {}
  BY <1>1, NothingNoted
<1>4. Closed(V)
  BY <1>2, DomReached DEF Closed
<1>5. \A i, op : ~Of(i, op)
  BY <1>1 DEF Of
<1>6. Holds(V, cur, replacements)
  <2>1. \A b, k : Loads(b, k) = {}
    BY <1>5 DEF Loads
  <2>2. ASSUME NEW b \in V PROVE BlockSolved(b, cur[b], replacements)
    <3>1. cur[b] \in [0..Size(b) -> [Promotable -> Nat]]
      BY <1>1
    <3> QED  BY <3>1, <1>1, <1>5 DEF BlockSolved, Size
  <2> QED  BY <2>1, <2>2, <1>3 DEF Holds
<1> HIDE DEF cur
<1>7. Starts(V, cur) /\ \A b \in V : Valued(cur, b)
  BY <1>1 DEF Starts, Valued, ValuedAt
<1>8. Progress(V, cur, replacements, incoming')
  BY <1>1, <1>4, <1>6, <1>7 DEF Progress
<1>9. PICK r, e, W, s : r = replacements /\ e = incoming' /\ W = Reachable(cfg) /\ s = cur
  OBVIOUS
<1>10. Progress(W, s, replacements, incoming)'
  <2>1. Progress(W, s, r, e) /\ r = replacements' /\ e = incoming'
    BY <1>1, <1>8, <1>9
  <2> QED  BY <2>1, <1>1, FrozenProgress
<1>11. Flowing(s)'
  <2>1. Promotable' = {}
    BY <1>1, FrozenFunction
  <2> QED  BY <2>1 DEF Flowing
<1>12. Solution(s)'
  <2>1. W = Reachable(cfg')
    BY <1>1, <1>9 DEF Frozen
  <2> QED  BY <2>1, <1>10, <1>11 DEF Solution
<1>13. Given' /\ Numbered' /\ DOMAIN incoming' = {phiOf'[p] : p \in DOMAIN phiOf'}
  BY <1>1, FrozenFunction DEF Numbered
<1>14. /\ DOMAIN body' = DOMAIN func'.body
       /\ (\A b \in DOMAIN func.body : body[b] = Rewritten(replacements, func.body[b]))'
  <2>1. \A r2, block : Rewritten(r2, block)' = Rewritten(r2, block)
    <3>1. \A i : Stays(i)' <=> Stays(i)
      BY <1>1, FrozenFunction DEF Stays
    <3> QED  BY <3>1 DEF Rewritten
  <2>2. func' = func
    BY <1>1 DEF Frozen
  <2>3. ASSUME NEW b \in DOMAIN func.body PROVE Rewritten(replacements, func.body[b]) = func.body[b]
    <3> DEFINE block == func.body[b]
               S == {i \in Instr : Stays(i)}
    <3>1. block \in Seq(Instr) /\ \A k \in 1..Len(block) : block[k] \in S
      BY <2>3, <1>2, <1>5, GivenFacts DEF Stays
    <3>2. Kept(block, S) = block
      <4> HIDE DEF S
      <4> QED  BY <3>1, KeptAll
    <3>3. \A v : Resolve(replacements, v) = v
      BY <1>3 DEF Resolve
    <3>4. ASSUME NEW k \in DOMAIN block, block[k].op = "store"
          PROVE  [block[k] EXCEPT !.val = block[k].val] = block[k]
      BY <3>1, <3>4 DEF Instr
    <3>5. block = [k \in DOMAIN block |-> block[k]]
      BY <3>1
    <3>6. Rewritten(replacements, block) =
            [k \in DOMAIN block |->
               IF block[k].op = "store" THEN [block[k] EXCEPT !.val = Resolve(replacements, @)]
               ELSE block[k]]
      BY <3>2 DEF Rewritten
    <3> HIDE DEF block
    <3>7. ASSUME NEW k \in DOMAIN block
          PROVE  (IF block[k].op = "store"
                  THEN [block[k] EXCEPT !.val = Resolve(replacements, @)]
                  ELSE block[k]) = block[k]
      BY <3>3, <3>4
    <3>8. Rewritten(replacements, block) = block
      BY <3>5, <3>6, <3>7
    <3> QED  BY <3>8 DEF block
  <2> QED  BY <2>1, <2>2, <2>3, <1>1
<1> QED  BY <1>12, <1>13, <1>14 DEF Promoted

\* Rewriting leaves every definition that stays, and makes no other.
LEMMA RewrittenDefines ==
  ASSUME NEW block \in Seq(Instr), NEW r, NEW u
  PROVE  (\E i \in Range(Rewritten(r, block)) : Defines(i, u)) <=>
           (\E j \in 1..Len(block) : Defines(block[j], u) /\ Stays(block[j]))
<1> DEFINE S == {i \in Instr : Stays(i)}
           kept == Kept(block, S)
           new == Rewritten(r, block)
<1>1. /\ kept \in Seq(Instr)
      /\ \A i \in 1..Len(kept) :
           kept[i] \in S /\ \E p \in 1..Len(block) : kept[i] = block[p]
      /\ \A p \in 1..Len(block) :
           block[p] \in S => \E i \in 1..Len(kept) : kept[i] = block[p]
  <2> HIDE DEF S
  <2> QED  BY KeptProperties
<1>2. new = [k \in DOMAIN kept |->
               IF kept[k].op = "store" THEN [kept[k] EXCEPT !.val = Resolve(r, @)]
               ELSE kept[k]]
  BY DEF Rewritten
<1> HIDE DEF kept, new
<1>3. DOMAIN new = 1..Len(kept) /\ DOMAIN kept = 1..Len(kept)
  BY <1>1, <1>2
<1>4. ASSUME NEW k \in 1..Len(kept)
      PROVE  Defines(new[k], u) <=> Defines(kept[k], u)
  <2>1. kept[k] \in Instr
    BY <1>1
  <2>2. CASE kept[k].op = "store"
    <3>1. new[k] = [kept[k] EXCEPT !.val = Resolve(r, @)]
      BY <1>2, <1>3, <2>2
    <3>2. new[k].op = "store"
      BY <2>1, <2>2, <3>1 DEF Instr
    <3> QED  BY <3>2, <2>2 DEF Defines
  <2>3. CASE kept[k].op # "store"
    <3>1. new[k] = kept[k]
      BY <1>2, <1>3, <2>3
    <3> QED  BY <3>1
  <2> QED  BY <2>2, <2>3
<1>5. (\E i \in Range(new) : Defines(i, u)) <=> (\E k \in 1..Len(kept) : Defines(kept[k], u))
  BY <1>3, <1>4 DEF Range
<1>6. \A j \in 1..Len(block) : block[j] \in Instr
  OBVIOUS
<1>7. (\E k \in 1..Len(kept) : Defines(kept[k], u)) <=>
        (\E j \in 1..Len(block) : Defines(block[j], u) /\ Stays(block[j]))
  BY <1>1, <1>6
<1> QED  BY <1>5, <1>7 DEF new

LEMMA NewDefinition ==
  ASSUME Given, DOMAIN body = DOMAIN func.body, NEW r,
         \A b \in DOMAIN func.body : body[b] = Rewritten(r, func.body[b]),
         NEW u, NEW b \in DOMAIN body
  PROVE  (\E i \in Range(body[b]) : Defines(i, u)) <=>
           (\E j : Stands(u, b, j) /\ Stays(func.body[b][j]))
<1>1. /\ func.body[b] \in Seq(Instr) /\ DOMAIN func.body[b] = 1..Len(func.body[b])
      /\ body[b] = Rewritten(r, func.body[b])
  BY GivenFacts
<1>2. (\E i \in Range(body[b]) : Defines(i, u)) <=>
        (\E j \in 1..Len(func.body[b]) :
           Defines(func.body[b][j], u) /\ Stays(func.body[b][j]))
  BY <1>1, RewrittenDefines
<1> QED  BY <1>1, <1>2 DEF Stands

LEMMA ReadyComplete ==
  ASSUME Promoted
  PROVE  PhisComplete
<1>1. /\ Given /\ Numbered /\ DOMAIN incoming = {phiOf[p] : p \in DOMAIN phiOf}
      /\ DOMAIN body = DOMAIN func.body
      /\ \A b \in DOMAIN func.body : body[b] = Rewritten(replacements, func.body[b])
  BY DEF Promoted
<1> DEFINE V == Reachable(cfg)
<1>2. PICK cur : Progress(V, cur, replacements, incoming)
  BY DEF Promoted, Solution
<1>3. /\ V \subseteq 1..Len(cfg) /\ DOMAIN cfg = 1..Len(cfg) /\ DOMAIN func.body = 1..Len(cfg)
      /\ Graph(cfg, Len(cfg))
  BY <1>1, GivenFacts
<1>4. /\ \A b \in V : Valued(cur, b)
      /\ \A p \in DOMAIN phiOf : Filled(V, cur, p, incoming[phiOf[p]])
  BY <1>2 DEF Progress
<1>5. ASSUME NEW u, NEW a \in V, Avail(u, a, Size(a)), Real(u)
      PROVE  StillDefined(u) /\ Dominates(cfg, NewDefBlock(u), a)
  <2>1. ASSUME NEW c, NEW j, Before(c, j, a, Size(a)) PROVE Dominates(cfg, c, a)
    BY <2>1, <1>3, DomReached DEF Before
  <2>2. CASE \E q \in DOMAIN phiOf : u = phiOf[q] /\ Before(q[1], 0, a, Size(a))
    <3>1. PICK q \in DOMAIN phiOf : u = phiOf[q] /\ Before(q[1], 0, a, Size(a))
      BY <2>2
    <3>2. u \in DOMAIN incoming /\ (CHOOSE p \in DOMAIN phiOf : phiOf[p] = u) = q
      BY <3>1, <1>1 DEF Numbered
    <3>3. NewDefBlock(u) = q[1]
      BY <3>2 DEF NewDefBlock
    <3> QED  BY <3>1, <3>2, <3>3, <2>1 DEF StillDefined
  <2>3. CASE /\ u \in Value
             /\ \A c, j : Stands(u, c, j) =>
                  ~Of(func.body[c][j], "load") /\ Before(c, j, a, Size(a))
    <3>1. u \notin DOMAIN incoming /\ \A p \in DOMAIN phiOf : u # phiOf[p]
      <4>1. \A p \in DOMAIN phiOf : phiOf[p] \notin Value
        BY <1>1, ConstantsAssumption DEF Numbered, Value
      <4> QED  BY <4>1, <2>3, <1>1
    <3>2. NewDefBlock(u) = DefBlock([body |-> body], u)
      BY <3>1 DEF NewDefBlock
    <3> DEFINE Here(b) == \E i \in Range(body[b]) : Defines(i, u)
    <3>3. NewDefBlock(u) = IF \E b \in DOMAIN body : Here(b)
                           THEN CHOOSE b \in DOMAIN body : Here(b) ELSE 1
      BY <3>2 DEF DefBlock
    <3>4. \A b \in DOMAIN body : Here(b) <=> \E j : Stands(u, b, j) /\ Stays(func.body[b][j])
      BY <1>1, NewDefinition
    <3> HIDE DEF Here
    <3>5. CASE u = Undef
      <4>1. \A b \in DOMAIN body : ~Here(b)
        BY <3>4, <3>5, <1>1, StandsFacts
      <4>2. NewDefBlock(u) = 1
        BY <3>3, <4>1
      <4> QED  BY <3>5, <4>2, <1>3, EntryDominates DEF StillDefined
    <3>6. CASE u # Undef
      <4>1. PICK c, j : Stands(u, c, j)
        BY <1>5, <3>1, <3>6 DEF Real
      <4>2. /\ c \in DOMAIN body /\ func.body[c][j] \in Instr
            /\ func.body[c][j].op \in {"load", "def"}
        BY <4>1, <1>1, <1>3, StandsFacts
      <4>3. Stays(func.body[c][j])
        BY <4>1, <4>2, <2>3 DEF Stays, Of
      <4>4. Here(c)
        BY <4>1, <4>2, <4>3, <3>4
      <4>5. \A b \in DOMAIN body : Here(b) => b = c
        BY <4>1, <3>4, <1>1, StandsOnce DEF Given
      <4>6. NewDefBlock(u) = c
        BY <4>2, <4>4, <4>5, <3>3
      <4>7. StillDefined(u)
        BY <4>2, <4>4 DEF StillDefined, Here
      <4> QED  BY <4>1, <4>6, <4>7, <2>1, <2>3
    <3> QED  BY <3>5, <3>6
  <2> QED  BY <2>2, <2>3, <1>5 DEF Avail
<1>6. ASSUME NEW p \in DOMAIN phiOf
      PROVE  LET entries == incoming[phiOf[p]] IN
             /\ {n.pred : n \in Range(entries)} = Preds(cfg, p[1]) \cap V
             /\ \A k, m \in DOMAIN entries : k # m => entries[k].pred # entries[m].pred
             /\ \A n \in Range(entries) :
                  StillDefined(n.val) /\ Dominates(cfg, NewDefBlock(n.val), n.pred)
  <2> DEFINE s == incoming[phiOf[p]]
  <2>1. /\ s \in Seq(Entry) /\ p[2] \in Promotable
        /\ \A k \in 1..Len(s) :
             /\ s[k].pred \in V /\ p[1] \in Range(cfg[s[k].pred])
             /\ s[k].val = EndOf(cur, s[k].pred)[p[2]]
        /\ \A k, m \in 1..Len(s) : s[k].pred = s[m].pred => k = m
        /\ \A a \in V : p[1] \in Range(cfg[a]) => \E k \in 1..Len(s) : s[k].pred = a
    BY <1>1, <1>4 DEF Filled, Numbered
  <2> HIDE DEF s
  <2>2. DOMAIN s = 1..Len(s) /\ Range(s) = {s[k] : k \in 1..Len(s)}
    BY <2>1 DEF Range
  <2>3. {n.pred : n \in Range(s)} = Preds(cfg, p[1]) \cap V
    BY <2>1, <2>2, <1>3 DEF Preds
  <2>4. ASSUME NEW k \in 1..Len(s)
        PROVE  StillDefined(s[k].val) /\ Dominates(cfg, NewDefBlock(s[k].val), s[k].pred)
    <3> DEFINE a == s[k].pred
    <3>1. a \in V /\ s[k].val = EndOf(cur, a)[p[2]] /\ p[2] \in Promotable
      BY <2>1
    <3>2. Size(a) \in Nat
      BY <3>1, <1>1, <1>3, GivenFacts DEF Size
    <3>3. Avail(s[k].val, a, Size(a)) /\ Real(s[k].val)
      BY <3>1, <3>2, <1>4 DEF Valued, ValuedAt, EndOf
    <3> QED  BY <3>1, <3>3, <1>5
  <2> QED  BY <2>1, <2>2, <2>3, <2>4 DEF s
<1> QED  BY <1>6 DEF PhisComplete

-----------------------------------------------------------------------------
(* Both functions side by side.  Instructions over any set of values: the  *)
(* ones given use Value, the ones rewritten may store a phi too.           *)

Data == Token \cup {Undef}

InstrOver(E) ==
  [op : {"load", "store", "call"}, var : Var, val : E] \cup [op : {"def"}, val : E]

State(E) == [m : [Var -> Data], e : [E -> Data]]

LEMMA ExecuteOneFacts ==
  ASSUME NEW E, NEW s \in State(E), NEW i \in InstrOver(E), NEW t \in Token
  PROVE  LET n == ExecuteOne(s, i, t) IN
         /\ n \in State(E)
         /\ i.op \in {"load", "def"} =>
              /\ n.m = s.m
              /\ \A v \in E : n.e[v] = IF v # i.val THEN s.e[v]
                                       ELSE IF i.op = "def" THEN t ELSE s.m[i.var]
         /\ i.op \in {"store", "call"} =>
              /\ n.e = s.e
              /\ \A x \in Var : n.m[x] = IF x # i.var THEN s.m[x]
                                         ELSE IF i.op = "call" THEN t ELSE s.e[i.val]
<1> DEFINE n == ExecuteOne(s, i, t)
<1>1. /\ s.m \in [Var -> Data] /\ s.e \in [E -> Data] /\ s = [m |-> s.m, e |-> s.e]
      /\ t \in Data /\ i.val \in E /\ i.op \in {"load", "store", "call", "def"}
      /\ i.op # "def" => i.var \in Var
  BY DEF State, InstrOver, Data
<1>2. CASE i.op \in {"load", "def"}
  <2> DEFINE w == IF i.op = "def" THEN t ELSE s.m[i.var]
             e2 == [s.e EXCEPT ![i.val] = w]
  <2>1. w \in Data
    BY <1>1, <1>2
  <2>2. e2 \in [E -> Data] /\ \A v \in E : e2[v] = IF v # i.val THEN s.e[v] ELSE w
    BY <2>1, <1>1
  <2>3. n = [m |-> s.m, e |-> e2]
    BY <1>1, <1>2 DEF ExecuteOne
  <2> HIDE DEF e2
  <2>4. n.m = s.m /\ n.e = e2 /\ n \in State(E)
    BY <2>2, <2>3, <1>1 DEF State
  <2> QED  BY <2>2, <2>4, <1>2
<1>3. CASE i.op \in {"store", "call"}
  <2> DEFINE w == IF i.op = "call" THEN t ELSE s.e[i.val]
             m2 == [s.m EXCEPT ![i.var] = w]
  <2>1. w \in Data
    BY <1>1, <1>3
  <2>2. m2 \in [Var -> Data] /\ \A x \in Var : m2[x] = IF x # i.var THEN s.m[x] ELSE w
    BY <2>1, <1>1
  <2>3. n = [m |-> m2, e |-> s.e]
    BY <1>1, <1>3 DEF ExecuteOne
  <2> HIDE DEF m2
  <2>4. n.e = s.e /\ n.m = m2 /\ n \in State(E)
    BY <2>2, <2>3, <1>1 DEF State
  <2> QED  BY <2>2, <2>4, <1>3
<1> QED  BY <1>1, <1>2, <1>3

RunRec(block, m, e, t, F) ==
  F = [k \in 0..Len(block) |-> IF k = 0 THEN [m |-> m, e |-> e]
                               ELSE ExecuteOne(F[k - 1], block[k], t)]

Ran(F, E, block, m, e, t) ==
  /\ F \in [0..Len(block) -> State(E)]
  /\ F[0] = [m |-> m, e |-> e]
  /\ \A k \in 1..Len(block) : F[k] = ExecuteOne(F[k - 1], block[k], t)
  /\ Execute(block, m, e, t) = F[Len(block)]

LEMMA ExecuteSteps ==
  ASSUME NEW E, NEW block \in Seq(InstrOver(E)), NEW t \in Token,
         NEW m \in [Var -> Data], NEW e \in [E -> Data]
  PROVE  \E F : Ran(F, E, block, m, e, t)
<1> DEFINE n == Len(block)
           V == State(E)
           base == [m |-> m, e |-> e]
           step == [p \in (1..n) \X V |-> ExecuteOne(p[2], block[p[1]], t)]
<1>1. n \in Nat /\ \A k \in 1..n : block[k] \in InstrOver(E)
  OBVIOUS
<1>2. \A i \in InstrOver(E), s \in V : ExecuteOne(s, i, t) \in V
  BY ExecuteOneFacts
<1>3. step \in [(1..n) \X V -> V] /\ base \in V
  <2>1. base \in V
    BY DEF State
  <2> HIDE DEF V, base
  <2> QED  BY <2>1, <1>1, <1>2
<1>4. PICK F : Follows(F, n, V, base, step)
  <2> HIDE DEF V, step, base, n
  <2> QED  BY <1>1, <1>3, Recursion
<1>5. /\ F \in [0..n -> V] /\ F[0] = base
      /\ \A i \in 1..n : F[i] = step[<<i, F[i - 1]>>]
  BY <1>4 DEF Follows
<1>6. RunRec(block, m, e, t, F)
  <2>1. ASSUME NEW k \in 1..n PROVE F[k] = ExecuteOne(F[k - 1], block[k], t)
    <3>1. k - 1 \in 0..n
      BY <1>1
    <3>2. F[k - 1] \in V
      BY <1>5, <3>1
    <3> HIDE DEF V
    <3> QED  BY <3>2, <1>5
  <2> HIDE DEF V, step, base
  <2>2. \A k \in 0..n : k = 0 \/ k \in 1..n
    BY <1>1
  <2>3. F = [k \in 0..n |-> IF k = 0 THEN base ELSE ExecuteOne(F[k - 1], block[k], t)]
    BY <2>1, <2>2, <1>5
  <2> QED  BY <2>3 DEF RunRec, base
<1>7. Execute(block, m, e, t) = (CHOOSE G : RunRec(block, m, e, t, G))[n]
  BY DEF Execute, RunRec
<1> HIDE DEF V, step, base
<1>8. PICK H : RunRec(block, m, e, t, H) /\ Execute(block, m, e, t) = H[n]
  BY <1>6, <1>7
<1>9. /\ H = [k \in 0..n |-> H[k]]
      /\ \A k \in 0..n : H[k] = IF k = 0 THEN base ELSE ExecuteOne(H[k - 1], block[k], t)
  BY <1>8 DEF RunRec, base
<1>10. 0 \in 0..n /\ \A k \in 1..n : k \in 0..n /\ k # 0
  BY <1>1
<1>11. H[0] = base /\ \A k \in 1..n : H[k] = ExecuteOne(H[k - 1], block[k], t)
  BY <1>9, <1>10
<1> DEFINE Typed == {k \in Nat : k <= n => H[k] \in V}
<1>12. \A k \in 0..n : H[k] \in V
  <2>1. 0 \in Typed
    BY <1>3, <1>11
  <2>2. ASSUME NEW k \in Nat, k \in Typed PROVE k + 1 \in Typed
    <3>1. k + 1 <= n => k <= n /\ k + 1 \in 1..n /\ (k + 1) - 1 = k
      BY <1>1
    <3>2. k + 1 <= n => H[k + 1] = ExecuteOne(H[k], block[k + 1], t)
      BY <3>1, <1>11
    <3> QED  BY <3>1, <3>2, <1>1, <1>2, <2>2
  <2> HIDE DEF Typed
  <2>3. \A k \in Nat : k \in Typed
    BY <2>1, <2>2, SetInduction
  <2> QED  BY <2>3 DEF Typed
<1>13. H \in [0..n -> V]
  BY <1>9, <1>12
<1>14. Ran(H, E, block, m, e, t)
  BY <1>8, <1>11, <1>13 DEF Ran, V, base
<1> QED  BY <1>14

(* Where the elements kept so far end in the list of all that are kept.    *)
Keeps(L, list, S) ==
  /\ L \in [0..Len(list) -> Nat]
  /\ L[0] = 0 /\ L[Len(list)] = Len(Kept(list, S))
  /\ \A k \in 1..Len(list) :
       IF list[k] \in S
       THEN /\ L[k] = L[k - 1] + 1 /\ L[k] <= Len(Kept(list, S))
            /\ Kept(list, S)[L[k]] = list[k]
       ELSE L[k] = L[k - 1]

LEMMA KeptCount ==
  ASSUME NEW A, NEW list \in Seq(A), NEW S
  PROVE  \E L : Keeps(L, list, S)
<1> DEFINE n == Len(list)
<1>1. PICK F : KeptSoFar(F, A, list, S)
  BY KeptDef
<1>2. /\ F \in [0..n -> Seq(A)]
      /\ Kept(list, S) = F[n] /\ F[0] = <<>>
      /\ \A i \in 1..n :
           F[i] = IF list[i] \in S THEN Append(F[i - 1], list[i]) ELSE F[i - 1]
  BY <1>1 DEF KeptSoFar
<1>3. n \in Nat /\ \A i \in 1..n : list[i] \in A /\ i - 1 \in 0..n /\ i \in 0..n
  OBVIOUS
<1>4. ASSUME NEW i \in 1..n
      PROVE  /\ F[i - 1] \in Seq(A) /\ F[i] \in Seq(A) /\ Len(F[i - 1]) <= Len(F[i])
             /\ \A j \in 1..Len(F[i - 1]) : F[i][j] = F[i - 1][j]
             /\ list[i] \in S => Len(F[i]) = Len(F[i - 1]) + 1 /\ F[i][Len(F[i])] = list[i]
             /\ list[i] \notin S => Len(F[i]) = Len(F[i - 1])
  <2>1. PICK s \in Seq(A), a \in A :
          s = F[i - 1] /\ a = list[i] /\ F[i] = IF a \in S THEN Append(s, a) ELSE s
    BY <1>2, <1>3
  <2> QED  BY <2>1
<1> DEFINE Prefix(j, k) == /\ Len(F[j]) <= Len(F[k])
                           /\ \A h \in 1..Len(F[j]) : F[k][h] = F[j][h]
           Good == {d1 \in Nat : \A j \in 0..n : j + d1 <= n => Prefix(j, j + d1)}
<1>5. 0 \in Good
  <2>1. \A j \in 0..n : F[j] \in Seq(A) /\ j + 0 = j
    BY <1>2
  <2> QED  BY <2>1
<1>6. ASSUME NEW d1 \in Nat, d1 \in Good PROVE d1 + 1 \in Good
  <2> SUFFICES ASSUME NEW j \in 0..n, j + (d1 + 1) <= n PROVE Prefix(j, j + (d1 + 1))
    <3> HIDE DEF Prefix
    <3> QED  OBVIOUS
  <2>1. /\ j + (d1 + 1) \in 1..n /\ (j + (d1 + 1)) - 1 = j + d1 /\ j + d1 <= n
        /\ F[j] \in Seq(A)
    BY <1>2, <1>3
  <2>2. Prefix(j, j + d1)
    BY <2>1, <1>6
  <2>3. PICK s \in Seq(A), u \in Seq(A), w \in Seq(A) :
          /\ s = F[j] /\ u = F[j + d1] /\ w = F[j + (d1 + 1)]
          /\ Len(u) <= Len(w) /\ \A h \in 1..Len(u) : w[h] = u[h]
    BY <2>1, <1>4
  <2>4. Len(s) <= Len(u) /\ \A h \in 1..Len(s) : u[h] = s[h]
    BY <2>2, <2>3
  <2>5. Len(s) <= Len(w)
    BY <2>3, <2>4
  <2>6. ASSUME NEW h \in 1..Len(s) PROVE w[h] = s[h]
    <3>1. h \in 1..Len(u)
      BY <2>3, <2>4
    <3> QED  BY <3>1, <2>3, <2>4
  <2> QED  BY <2>3, <2>5, <2>6
<1>7. \A d1 \in Nat : d1 \in Good
  <2> HIDE DEF Good
  <2> QED  BY <1>5, <1>6, SetInduction
<1>8. ASSUME NEW j \in 0..n PROVE Prefix(j, n)
  <2>1. n - j \in Nat /\ j + (n - j) = n /\ j + (n - j) <= n
    BY <1>3
  <2>2. n - j \in Good
    BY <2>1, <1>7
  <2> HIDE DEF Prefix
  <2>3. Prefix(j, j + (n - j))
    BY <2>1, <2>2
  <2> QED  BY <2>1, <2>3
<1> HIDE DEF Good
<1> DEFINE L == [k \in 0..n |-> Len(F[k])]
<1>9. L \in [0..n -> Nat] /\ L[0] = 0 /\ L[n] = Len(Kept(list, S))
  <2>1. \A k \in 0..n : Len(F[k]) \in Nat
    BY <1>2
  <2> QED  BY <2>1, <1>2, <1>3
<1>10. ASSUME NEW k \in 1..n
       PROVE  IF list[k] \in S
              THEN /\ L[k] = L[k - 1] + 1 /\ L[k] <= Len(Kept(list, S))
                   /\ Kept(list, S)[L[k]] = list[k]
              ELSE L[k] = L[k - 1]
  <2>1. L[k] = Len(F[k]) /\ L[k - 1] = Len(F[k - 1]) /\ Prefix(k, n)
    BY <1>3, <1>8
  <2>2. list[k] \in S => Len(F[k]) \in 1..Len(F[k])
    <3>1. Len(F[k - 1]) \in Nat
      BY <1>2, <1>3
    <3> QED  BY <3>1, <1>4
  <2> HIDE DEF L
  <2>3. list[k] \in S => /\ L[k] <= Len(F[n]) /\ F[n][L[k]] = list[k]
                         /\ L[k] = L[k - 1] + 1
    BY <2>1, <2>2, <1>4
  <2>4. list[k] \notin S => L[k] = L[k - 1]
    BY <2>1, <1>4
  <2> QED  BY <2>3, <2>4, <1>2
<1>11. Keeps(L, list, S)
  <2> HIDE DEF L
  <2> QED  BY <1>9, <1>10 DEF Keeps
<1> QED  BY <1>11

RewriteOf(r, i) == IF i.op = "store" THEN [i EXCEPT !.val = Resolve(r, @)] ELSE i

LEMMA RewriteForm ==
  ASSUME NEW E, Value \subseteq E, NEW i \in Instr, NEW r,
         i.op = "store" => Resolve(r, i.val) \in E
  PROVE  /\ RewriteOf(r, i) \in InstrOver(E) /\ RewriteOf(r, i).op = i.op
         /\ i.op # "def" => RewriteOf(r, i).var = i.var
         /\ RewriteOf(r, i).val = IF i.op = "store" THEN Resolve(r, i.val) ELSE i.val
<1>1. CASE i.op = "store"
  <2>1. i \in [op : {"load", "store", "call"}, var : Var, val : Value]
    BY <1>1 DEF Instr
  <2>2. RewriteOf(r, i) = [op |-> i.op, var |-> i.var, val |-> Resolve(r, i.val)]
    BY <1>1, <2>1 DEF RewriteOf
  <2> QED  BY <2>1, <2>2, <1>1 DEF InstrOver
<1>2. CASE i.op # "store"
  <2>1. RewriteOf(r, i) = i
    BY <1>2 DEF RewriteOf
  <2>2. i \in InstrOver(E)
    <3>1. CASE i \in [op : {"load", "store", "call"}, var : Var, val : Value]
      BY <3>1 DEF InstrOver
    <3>2. CASE i \in [op : {"def"}, val : Value]
      BY <3>2 DEF InstrOver
    <3> QED  BY <3>1, <3>2 DEF Instr
  <2> QED  BY <2>1, <2>2, <1>2
<1> QED  BY <1>1, <1>2

(* The rewritten block, run: where the block given has an instruction that *)
(* stays, the rewritten one of it; where it has one that goes, nothing.    *)
RanAlong(N, E, block, r, m, e, t) ==
  /\ N \in [0..Len(block) -> State(E)]
  /\ N[0] = [m |-> m, e |-> e]
  /\ \A k \in 1..Len(block) :
       N[k] = IF Stays(block[k]) THEN ExecuteOne(N[k - 1], RewriteOf(r, block[k]), t)
              ELSE N[k - 1]
  /\ Execute(Rewritten(r, block), m, e, t) = N[Len(block)]

LEMMA RewrittenRuns ==
  ASSUME NEW E, Value \subseteq E, NEW block \in Seq(Instr), NEW r, NEW t \in Token,
         NEW m \in [Var -> Data], NEW e \in [E -> Data],
         \A k \in 1..Len(block) :
           Stays(block[k]) /\ block[k].op = "store" => Resolve(r, block[k].val) \in E
  PROVE  \E N : RanAlong(N, E, block, r, m, e, t)
<1> DEFINE n == Len(block)
           S == {i \in Instr : Stays(i)}
           kept == Kept(block, S)
           new == Rewritten(r, block)
<1>1. /\ kept \in Seq(Instr)
      /\ \A i \in 1..Len(kept) :
           kept[i] \in S /\ \E p \in 1..Len(block) : kept[i] = block[p]
  <2> HIDE DEF S
  <2>1. Kept(block, S) \in Seq(Instr)
    BY KeptProperties
  <2>2. \A i \in 1..Len(Kept(block, S)) :
          Kept(block, S)[i] \in S /\ \E p \in 1..Len(block) : Kept(block, S)[i] = block[p]
    BY KeptProperties
  <2> QED  BY <2>1, <2>2
<1>2. new = [k \in DOMAIN kept |-> RewriteOf(r, kept[k])]
  BY DEF Rewritten, RewriteOf
<1>3. PICK L : Keeps(L, block, S)
  <2> HIDE DEF S
  <2> QED  BY KeptCount
<1> HIDE DEF kept, new
<1>4. DOMAIN kept = 1..Len(kept) /\ Len(kept) \in Nat /\ n \in Nat
  BY <1>1
<1>5. ASSUME NEW k \in 1..Len(kept) PROVE RewriteOf(r, kept[k]) \in InstrOver(E)
  <2>1. /\ kept[k] \in Instr /\ Stays(kept[k])
        /\ kept[k].op = "store" => Resolve(r, kept[k].val) \in E
    BY <1>1
  <2> QED  BY <2>1, RewriteForm
<1>6. /\ new \in Seq(InstrOver(E)) /\ Len(new) = Len(kept)
      /\ \A k \in 1..Len(kept) : new[k] = RewriteOf(r, kept[k])
  <2>1. new \in [1..Len(kept) -> InstrOver(E)]
    BY <1>2, <1>4, <1>5
  <2> QED  BY <2>1, <1>2, <1>4
<1>7. PICK G : Ran(G, E, new, m, e, t)
  BY <1>6, ExecuteSteps
<1>8. /\ G \in [0..Len(kept) -> State(E)] /\ G[0] = [m |-> m, e |-> e]
      /\ \A k \in 1..Len(kept) : G[k] = ExecuteOne(G[k - 1], new[k], t)
      /\ Execute(new, m, e, t) = G[Len(kept)]
  BY <1>6, <1>7 DEF Ran
<1>9. /\ L \in [0..n -> Nat] /\ L[0] = 0 /\ L[n] = Len(kept)
      /\ \A k \in 1..n :
           IF block[k] \in S
           THEN L[k] = L[k - 1] + 1 /\ L[k] <= Len(kept) /\ kept[L[k]] = block[k]
           ELSE L[k] = L[k - 1]
  BY <1>3 DEF Keeps, kept
<1>10. \A k \in 1..n : block[k] \in S <=> Stays(block[k])
  OBVIOUS
<1> HIDE DEF S
<1> DEFINE Low == {k \in Nat : k <= n => L[k] <= Len(kept)}
<1>11. \A k \in 0..n : L[k] \in 0..Len(kept)
  <2>1. 0 \in Low
    BY <1>4, <1>9
  <2>2. ASSUME NEW k \in Nat, k \in Low PROVE k + 1 \in Low
    <3>1. k + 1 <= n => k + 1 \in 1..n /\ (k + 1) - 1 = k /\ k <= n
      BY <1>4
    <3>2. k + 1 <= n => L[k + 1] <= Len(kept) \/ L[k + 1] = L[k]
      BY <3>1, <1>9
    <3> QED  BY <3>1, <3>2, <2>2
  <2> HIDE DEF Low
  <2>3. \A k \in Nat : k \in Low
    BY <2>1, <2>2, SetInduction
  <2> QED  BY <2>3, <1>4, <1>9 DEF Low
<1> DEFINE N == [k \in 0..n |-> G[L[k]]]
<1>12. N \in [0..n -> State(E)]
  BY <1>8, <1>11
<1>13. \A k \in 0..n : N[k] = G[L[k]]
  OBVIOUS
<1> HIDE DEF N
<1>14. ASSUME NEW k \in 1..n
       PROVE  N[k] = IF Stays(block[k])
                     THEN ExecuteOne(N[k - 1], RewriteOf(r, block[k]), t) ELSE N[k - 1]
  <2>1. k \in 0..n /\ k - 1 \in 0..n
    BY <1>4
  <2>2. N[k] = G[L[k]] /\ N[k - 1] = G[L[k - 1]]
    BY <2>1, <1>13
  <2>3. CASE Stays(block[k])
    <3>1. L[k] = L[k - 1] + 1 /\ L[k] <= Len(kept) /\ kept[L[k]] = block[k]
      BY <2>3, <1>9, <1>10
    <3>2. L[k] \in 1..Len(kept) /\ L[k] - 1 = L[k - 1]
      <4>1. L[k - 1] \in 0..Len(kept)
        BY <2>1, <1>11
      <4> QED  BY <4>1, <3>1, <1>4
    <3>3. G[L[k]] = ExecuteOne(G[L[k] - 1], new[L[k]], t) /\ new[L[k]] = RewriteOf(r, kept[L[k]])
      BY <3>2, <1>6, <1>8
    <3> QED  BY <3>1, <3>2, <3>3, <2>2, <2>3
  <2>4. CASE ~Stays(block[k])
    BY <2>2, <2>4, <1>9, <1>10
  <2> QED  BY <2>3, <2>4
<1>15. N[0] = [m |-> m, e |-> e] /\ Execute(new, m, e, t) = N[n]
  <2>1. 0 \in 0..n /\ n \in 0..n
    BY <1>4
  <2> QED  BY <2>1, <1>8, <1>9, <1>13
<1>16. RanAlong(N, E, block, r, m, e, t)
  BY <1>12, <1>14, <1>15 DEF RanAlong, new
<1> QED  BY <1>16

(* The two agree at a place: each promoted variable is what the solution   *)
(* says of it, each value in scope is what it stands for now, and what     *)
(* stayed in memory is the same.                                           *)
Lock(cur, r, b, k, s, n) ==
  /\ \A x \in Promotable : s.m[x] = n.e[cur[b][k][x]]
  /\ \A v : InScope(v, b, k) => s.e[v] = n.e[Resolve(r, v)]
  /\ \A x \in Var \ Promotable : s.m[x] = n.m[x]

\* The instructions of the function given, and what each leaves of its variable.
Settled(cur, r) ==
  /\ Given /\ Numbered /\ Closed(Reachable(cfg)) /\ Holds(Reachable(cfg), cur, r)
  /\ \A b \in Reachable(cfg) : Valued(cur, b)

AllValues == Value \cup {phiOf[p] : p \in DOMAIN phiOf}

LEMMA SettledFacts ==
  ASSUME NEW cur, NEW r, Settled(cur, r), NEW b \in Reachable(cfg)
  PROVE  /\ b \in 1..Len(cfg) /\ Size(b) \in Nat /\ func.body[b] \in Seq(Instr)
         /\ \A k \in 0..Size(b) : \A x \in Promotable :
              Avail(cur[b][k][x], b, k)
         /\ \A k \in -1..Size(b) : \A v : InScope(v, b, k) => Avail(Resolve(r, v), b, k)
         /\ \A u, k : Avail(u, b, k) => u \in AllValues
<1>1. /\ Given /\ DOMAIN phiOf \subseteq Nat \X Nat /\ b \in 1..Len(cfg) /\ Size(b) \in Nat
      /\ func.body[b] \in Seq(Instr)
  BY GivenFacts, NumberedFacts DEF Settled, Size
<1>2. \A k \in 0..Size(b) : \A x \in Promotable : Avail(cur[b][k][x], b, k)
  BY DEF Settled, Valued, ValuedAt
<1>3. ASSUME NEW k \in -1..Size(b), NEW v, InScope(v, b, k)
      PROVE  Avail(Resolve(r, v), b, k)
  <2>1. \A a \in Reachable(cfg) : \A j \in 0..Size(a) : ValuedAt(cur, a, j)
    BY DEF Settled, Valued
  <2>2. k \in Int
    OBVIOUS
  <2> QED  BY <2>1, <2>2, <1>1, <1>3, ResolveAvail DEF Settled
<1>4. ASSUME NEW u, NEW k, Avail(u, b, k) PROVE u \in AllValues
  BY <1>4 DEF Avail, AllValues
<1> QED  BY <1>1, <1>2, <1>3, <1>4

\* What may be used before an instruction is not what the instruction defines.
LEMMA NotDefined ==
  ASSUME Given, Numbered, NEW b, NEW k \in Int, NEW v, Stands(v, b, k),
         NEW u, Avail(u, b, k - 1)
  PROVE  u # v
<1>1. v \in Value
  BY StandsOnce DEF Given
<1>2. \A p \in DOMAIN phiOf : phiOf[p] \notin Value
  BY ConstantsAssumption DEF Numbered, Value
<1>3. ~Before(b, k, b, k - 1)
  BY DEF Before
<1> QED  BY <1>1, <1>2, <1>3 DEF Avail

LEMMA ScopeBack ==
  ASSUME Given, NEW b, NEW k \in Int, NEW v, InScope(v, b, k), ~Stands(v, b, k)
  PROVE  InScope(v, b, k - 1)
<1>1. ASSUME NEW a, NEW j, Stands(v, a, j) PROVE Before(a, j, b, k - 1)
  <2>1. Before(a, j, b, k) /\ j \in Int
    BY <1>1, StandsFacts DEF InScope
  <2>2. a = b => j # k
    BY <1>1
  <2> QED  BY <2>1, <2>2 DEF Before
<1> QED  BY <1>1 DEF InScope

(* One instruction, run in both.                                           *)
LEMMA LockLoad ==
  ASSUME NEW cur, NEW r, Settled(cur, r), NEW b \in Reachable(cfg), NEW k \in 1..Size(b),
         Of(func.body[b][k], "load"), NEW t \in Token,
         NEW s \in State(Value), NEW n \in State(AllValues), Lock(cur, r, b, k - 1, s, n)
  PROVE  Lock(cur, r, b, k, ExecuteOne(s, func.body[b][k], t), n)
<1> DEFINE i == func.body[b][k]
           s2 == ExecuteOne(s, i, t)
<1>1. /\ b \in 1..Len(cfg) /\ Size(b) \in Nat /\ i \in Instr /\ k \in Int /\ k - 1 \in 0..Size(b)
      /\ Given
  BY SettledFacts, GivenFacts DEF Settled, Size
<1>2. i.op = "load" /\ i.var \in Promotable /\ i.val \in Value
  BY <1>1, InstrForm DEF Of
<1>3. i \in InstrOver(Value)
  BY <1>1 DEF Instr, InstrOver
<1>4. s2.m = s.m /\ \A v \in Value : s2.e[v] = IF v # i.val THEN s.e[v] ELSE s.m[i.var]
  BY <1>2, <1>3, ExecuteOneFacts
<1>5. /\ i.val \in DOMAIN r /\ r[i.val] = cur[b][k - 1][i.var]
      /\ \A x \in Promotable : cur[b][k][x] = cur[b][k - 1][x]
  <2>1. ~Of(i, "store")
    BY <1>2 DEF Of
  <2> QED  BY <2>1 DEF Settled, Holds, BlockSolved, Size
<1>6. Stands(i.val, b, k)
  BY <1>1, <1>2, GivenFacts DEF Stands, Defines, Size
<1> HIDE DEF s2
<1>7. ASSUME NEW v, InScope(v, b, k) PROVE s2.e[v] = n.e[Resolve(r, v)]
  <2>1. v \in Value
    BY <1>7, Zenon DEF InScope
  <2>2. CASE v = i.val
    <3>1. s.m[i.var] = n.e[cur[b][k - 1][i.var]]
      BY <1>2, Zenon DEF Lock
    <3>2. Resolve(r, v) = cur[b][k - 1][i.var]
      BY <2>2, <1>5 DEF Resolve
    <3> QED  BY <3>1, <3>2, <2>1, <2>2, <1>4, Zenon
  <2>3. CASE v # i.val
    <3>1. ~Stands(v, b, k)
      BY <2>3 DEF Stands, Defines
    <3>2. InScope(v, b, k - 1)
      BY <3>1, <1>1, <1>7, ScopeBack
    <3> QED  BY <3>2, <2>1, <2>3, <1>4 DEF Lock
  <2> QED  BY <2>2, <2>3
<1>8. \A x \in Promotable : s2.m[x] = n.e[cur[b][k][x]]
  BY <1>4, <1>5 DEF Lock
<1>9. \A x \in Var \ Promotable : s2.m[x] = n.m[x]
  BY <1>4 DEF Lock
<1>10. Lock(cur, r, b, k, s2, n)
  BY <1>7, <1>8, <1>9 DEF Lock
<1> QED  BY <1>10 DEF s2

LEMMA LockStore ==
  ASSUME NEW cur, NEW r, Settled(cur, r), NEW b \in Reachable(cfg), NEW k \in 1..Size(b),
         Of(func.body[b][k], "store"), NEW t \in Token,
         NEW s \in State(Value), NEW n \in State(AllValues), Lock(cur, r, b, k - 1, s, n)
  PROVE  Lock(cur, r, b, k, ExecuteOne(s, func.body[b][k], t), n)
<1> DEFINE i == func.body[b][k]
           s2 == ExecuteOne(s, i, t)
<1>1. /\ b \in 1..Len(cfg) /\ Size(b) \in Nat /\ i \in Instr /\ k \in Int /\ k - 1 \in 0..Size(b)
      /\ Given
  BY SettledFacts, GivenFacts DEF Settled, Size
<1>2. i.op = "store" /\ i.var \in Promotable
  BY <1>1, InstrForm DEF Of
<1>3. i \in InstrOver(Value)
  BY <1>1 DEF Instr, InstrOver
<1>4. s2.e = s.e /\ \A x \in Var : s2.m[x] = IF x # i.var THEN s.m[x] ELSE s.e[i.val]
  BY <1>2, <1>3, ExecuteOneFacts
<1>5. \A x \in Promotable :
        cur[b][k][x] = IF x = i.var THEN Resolve(r, i.val) ELSE cur[b][k - 1][x]
  BY DEF Settled, Holds, BlockSolved, Size
<1>6. InScope(i.val, b, k - 1)
  BY <1>1, <1>2, StoredInScope
<1> HIDE DEF s2
<1>7. ASSUME NEW v, InScope(v, b, k) PROVE s2.e[v] = n.e[Resolve(r, v)]
  <2>1. ~Stands(v, b, k)
    BY <1>2 DEF Stands, Defines
  <2>2. InScope(v, b, k - 1)
    BY <2>1, <1>1, <1>7, ScopeBack
  <2> QED  BY <2>2, <1>4 DEF Lock
<1>8. Promotable \subseteq Var
  BY DEF Promotable
<1>9. \A x \in Promotable : s2.m[x] = n.e[cur[b][k][x]]
  BY <1>4, <1>5, <1>6, <1>8 DEF Lock
<1>10. \A x \in Var \ Promotable : s2.m[x] = n.m[x]
  BY <1>2, <1>4 DEF Lock
<1>11. Lock(cur, r, b, k, s2, n)
  BY <1>7, <1>9, <1>10 DEF Lock
<1> QED  BY <1>11 DEF s2

LEMMA StoredKnown ==
  ASSUME NEW cur, NEW r, Settled(cur, r), NEW b \in Reachable(cfg), NEW k \in 1..Size(b),
         func.body[b][k].op = "store"
  PROVE  Resolve(r, func.body[b][k].val) \in AllValues
<1>1. b \in 1..Len(cfg) /\ Size(b) \in Nat /\ k - 1 \in -1..Size(b) /\ Given
  BY SettledFacts DEF Settled
<1>2. InScope(func.body[b][k].val, b, k - 1)
  BY <1>1, StoredInScope
<1>3. Avail(Resolve(r, func.body[b][k].val), b, k - 1)
  BY <1>1, <1>2, SettledFacts
<1> QED  BY <1>3, SettledFacts

LEMMA LockStays ==
  ASSUME NEW cur, NEW r, Settled(cur, r), NEW b \in Reachable(cfg), NEW k \in 1..Size(b),
         Stays(func.body[b][k]), NEW t \in Token,
         NEW s \in State(Value), NEW n \in State(AllValues), Lock(cur, r, b, k - 1, s, n)
  PROVE  Lock(cur, r, b, k, ExecuteOne(s, func.body[b][k], t),
              ExecuteOne(n, RewriteOf(r, func.body[b][k]), t))
<1> DEFINE i == func.body[b][k]
           i2 == RewriteOf(r, i)
           s2 == ExecuteOne(s, i, t)
           n2 == ExecuteOne(n, i2, t)
<1>1. /\ b \in 1..Len(cfg) /\ Size(b) \in Nat /\ i \in Instr /\ k \in Int /\ k - 1 \in 0..Size(b)
      /\ k - 1 \in -1..Size(b) /\ Given /\ Numbered /\ i \in Range(func.body[b])
      /\ b \in DOMAIN func.body
  <2>1. b \in 1..Len(cfg) /\ Size(b) \in Nat /\ Given /\ Numbered
    BY SettledFacts DEF Settled
  <2>2. i \in Instr /\ DOMAIN func.body[b] = 1..Size(b) /\ b \in DOMAIN func.body
    BY <2>1, GivenFacts DEF Size
  <2> QED  BY <2>1, <2>2 DEF Range
<1>2. /\ i.op \in {"load", "store", "call", "def"} /\ i.val \in Value
      /\ i.op # "def" => i.var \in Var \ Promotable
  <2>1. i.op = "call" => i.var \notin Promotable
    BY <1>1 DEF Promotable
  <2> QED  BY <2>1, <1>1, InstrForm
<1>3. i \in InstrOver(Value) /\ Value \subseteq AllValues
  BY <1>1 DEF Instr, InstrOver, AllValues
<1>4. i.op = "store" => Resolve(r, i.val) \in AllValues /\ InScope(i.val, b, k - 1)
  BY <1>1, StoredKnown, StoredInScope
<1>5. /\ i2 \in InstrOver(AllValues) /\ i2.op = i.op
      /\ i.op # "def" => i2.var = i.var
      /\ i2.val = IF i.op = "store" THEN Resolve(r, i.val) ELSE i.val
  BY <1>1, <1>3, <1>4, RewriteForm, SMTT(30)
<1>6. /\ i.op \in {"load", "def"} =>
           /\ s2.m = s.m
           /\ \A v \in Value : s2.e[v] = IF v # i.val THEN s.e[v]
                                         ELSE IF i.op = "def" THEN t ELSE s.m[i.var]
      /\ i.op \in {"store", "call"} =>
           /\ s2.e = s.e
           /\ \A x \in Var : s2.m[x] = IF x # i.var THEN s.m[x]
                                       ELSE IF i.op = "call" THEN t ELSE s.e[i.val]
  BY <1>3, ExecuteOneFacts
<1> HIDE DEF i2
<1>7. /\ i.op \in {"load", "def"} =>
           /\ n2.m = n.m
           /\ \A v \in AllValues : n2.e[v] = IF v # i.val THEN n.e[v]
                                             ELSE IF i.op = "def" THEN t ELSE n.m[i.var]
      /\ i.op \in {"store", "call"} =>
           /\ n2.e = n.e
           /\ \A x \in Var : n2.m[x] = IF x # i.var THEN n.m[x]
                                       ELSE IF i.op = "call" THEN t ELSE n.e[Resolve(r, i.val)]
  <2>1. /\ i2.op \in {"load", "def"} =>
             /\ n2.m = n.m
             /\ \A v \in AllValues : n2.e[v] = IF v # i2.val THEN n.e[v]
                                               ELSE IF i2.op = "def" THEN t ELSE n.m[i2.var]
        /\ i2.op \in {"store", "call"} =>
             /\ n2.e = n.e
             /\ \A x \in Var : n2.m[x] = IF x # i2.var THEN n.m[x]
                                         ELSE IF i2.op = "call" THEN t ELSE n.e[i2.val]
    <3>1. PICK j \in InstrOver(AllValues) : j = i2
      BY <1>5
    <3>2. PICK w : w = ExecuteOne(n, j, t)
      OBVIOUS
    <3>3. /\ j.op \in {"load", "def"} =>
               /\ w.m = n.m
               /\ \A v \in AllValues : w.e[v] = IF v # j.val THEN n.e[v]
                                                ELSE IF j.op = "def" THEN t ELSE n.m[j.var]
          /\ j.op \in {"store", "call"} =>
               /\ w.e = n.e
               /\ \A x \in Var : w.m[x] = IF x # j.var THEN n.m[x]
                                          ELSE IF j.op = "call" THEN t ELSE n.e[j.val]
      BY <3>2, ExecuteOneFacts
    <3>4. w = n2
      BY <3>1, <3>2
    <3> HIDE DEF n2
    <3> QED  BY <3>1, <3>3, <3>4
  <2> HIDE DEF n2, i
  <2> QED  BY <2>1, <1>5
<1>8. \A x \in Promotable :
        /\ cur[b][k][x] = cur[b][k - 1][x] /\ Avail(cur[b][k - 1][x], b, k - 1)
        /\ cur[b][k - 1][x] \in AllValues
  <2>1. ~Of(i, "store")
    BY DEF Stays
  <2>2. \A x \in Promotable : cur[b][k][x] = cur[b][k - 1][x]
    BY <2>1 DEF Settled, Holds, BlockSolved, Size
  <2>3. \A x \in Promotable : Avail(cur[b][k - 1][x], b, k - 1)
    BY <1>1, SettledFacts
  <2> QED  BY <2>2, <2>3, SettledFacts
<1>9. Promotable \subseteq Var
  BY DEF Promotable
<1>10. i.op \in {"load", "def"} => Stands(i.val, b, k)
  BY <1>1, GivenFacts DEF Stands, Defines, Size
<1> HIDE DEF s2, n2
<1>11. ASSUME NEW u, u \in AllValues, Avail(u, b, k - 1) PROVE n2.e[u] = n.e[u]
  <2>1. i.op \in {"load", "def"} => u # i.val
    BY <1>1, <1>10, <1>11, NotDefined
  <2> HIDE DEF i
  <2> QED  BY <2>1, <1>2, <1>7, <1>11
<1>12. \A x \in Promotable : s2.m[x] = n2.e[cur[b][k][x]]
  <2> SUFFICES ASSUME NEW x \in Promotable PROVE s2.m[x] = n2.e[cur[b][k][x]]
    OBVIOUS
  <2>1. s.m[x] = n.e[cur[b][k - 1][x]]
    BY DEF Lock
  <2>2. n2.e[cur[b][k - 1][x]] = n.e[cur[b][k - 1][x]]
    BY <1>8, <1>11
  <2>3. s2.m[x] = s.m[x]
    <3> HIDE DEF i
    <3> QED  BY <1>2, <1>6, <1>9
  <2> QED  BY <2>1, <2>2, <2>3, <1>8
<1>13. \A x \in Var \ Promotable : s2.m[x] = n2.m[x]
  <2>1. \A x \in Var \ Promotable : s.m[x] = n.m[x]
    BY DEF Lock
  <2>2. i.op = "store" => s.e[i.val] = n.e[Resolve(r, i.val)]
    BY <1>4 DEF Lock
  <2> HIDE DEF i
  <2> QED  BY <2>1, <2>2, <1>2, <1>6, <1>7
<1>14. ASSUME NEW v, InScope(v, b, k) PROVE s2.e[v] = n2.e[Resolve(r, v)]
  <2>1. v \in Value
    BY <1>14 DEF InScope
  <2>2. CASE Stands(v, b, k)
    <3>1. v = i.val /\ i.op \in {"load", "def"}
      BY <2>2 DEF Stands, Defines
    <3>2. v \notin DOMAIN r
      <4>1. ASSUME v \in DOMAIN r PROVE FALSE
        <5>1. PICK a, j : Stands(v, a, j) /\ Of(func.body[a][j], "load")
          BY <4>1, <1>1, NotedLoads DEF Settled
        <5>2. a = b /\ j = k
          BY <5>1, <2>2, <1>1, StandsOnce DEF Given
        <5> QED  BY <5>1, <5>2 DEF Stays
      <4> QED  BY <4>1
    <3>3. Resolve(r, v) = v
      BY <3>2 DEF Resolve
    <3>4. i.op = "load" => s.m[i.var] = n.m[i.var]
      BY <1>2 DEF Lock
    <3> HIDE DEF i
    <3> QED  BY <2>1, <3>1, <3>3, <3>4, <1>3, <1>6, <1>7
  <2>3. CASE ~Stands(v, b, k)
    <3>1. InScope(v, b, k - 1)
      BY <2>3, <1>1, <1>14, ScopeBack
    <3>2. s.e[v] = n.e[Resolve(r, v)]
      BY <3>1 DEF Lock
    <3>3. Avail(Resolve(r, v), b, k - 1) /\ Resolve(r, v) \in AllValues
      BY <3>1, <1>1, SettledFacts
    <3>4. n2.e[Resolve(r, v)] = n.e[Resolve(r, v)]
      BY <3>3, <1>11
    <3>5. s2.e[v] = s.e[v]
      <4>1. i.op \in {"load", "def"} => v # i.val
        BY <2>3, <1>10
      <4> HIDE DEF i
      <4> QED  BY <4>1, <2>1, <1>2, <1>6
    <3> QED  BY <3>2, <3>4, <3>5
  <2> QED  BY <2>2, <2>3
<1>15. Lock(cur, r, b, k, s2, n2)
  BY <1>12, <1>13, <1>14 DEF Lock
<1> QED  BY <1>15 DEF s2, n2, i2

(* A block, run in both.                                                   *)
LEMMA LockBlock ==
  ASSUME NEW cur, NEW r, Settled(cur, r), NEW b \in Reachable(cfg), NEW t \in Token,
         NEW m \in [Var -> Data], NEW e \in [Value -> Data],
         NEW m2 \in [Var -> Data], NEW e2 \in [AllValues -> Data],
         Lock(cur, r, b, 0, [m |-> m, e |-> e], [m |-> m2, e |-> e2])
  PROVE  LET old == Execute(func.body[b], m, e, t)
             new == Execute(Rewritten(r, func.body[b]), m2, e2, t)
         IN  /\ old \in State(Value) /\ new \in State(AllValues)
             /\ Lock(cur, r, b, Size(b), old, new)
<1> DEFINE block == func.body[b]
           n == Size(b)
<1>1. block \in Seq(Instr) /\ n \in Nat /\ n = Len(block)
  BY SettledFacts DEF Size
<1>2. block \in Seq(InstrOver(Value)) /\ Value \subseteq AllValues
  BY <1>1 DEF Instr, InstrOver, AllValues
<1>3. PICK F : Ran(F, Value, block, m, e, t)
  <2> HIDE DEF block
  <2> QED  BY <1>2, ExecuteSteps
<1>4. \A k \in 1..Len(block) :
        Stays(block[k]) /\ block[k].op = "store" => Resolve(r, block[k].val) \in AllValues
  BY <1>1, StoredKnown
<1>5. PICK N : RanAlong(N, AllValues, block, r, m2, e2, t)
  <2> HIDE DEF block
  <2> QED  BY <1>1, <1>2, <1>4, RewrittenRuns
<1>6. /\ F \in [0..n -> State(Value)] /\ F[0] = [m |-> m, e |-> e]
      /\ \A k \in 1..n : F[k] = ExecuteOne(F[k - 1], block[k], t)
      /\ Execute(block, m, e, t) = F[n]
  BY <1>1, <1>3 DEF Ran
<1>7. /\ N \in [0..n -> State(AllValues)] /\ N[0] = [m |-> m2, e |-> e2]
      /\ \A k \in 1..n :
           N[k] = IF Stays(block[k]) THEN ExecuteOne(N[k - 1], RewriteOf(r, block[k]), t)
                  ELSE N[k - 1]
      /\ Execute(Rewritten(r, block), m2, e2, t) = N[n]
  BY <1>1, <1>5 DEF RanAlong
<1> DEFINE Same == {k \in Nat : k <= n => Lock(cur, r, b, k, F[k], N[k])}
<1>8. 0 \in Same
  BY <1>6, <1>7
<1>9. ASSUME NEW h \in Nat, h \in Same PROVE h + 1 \in Same
  <2> SUFFICES ASSUME h + 1 <= n PROVE Lock(cur, r, b, h + 1, F[h + 1], N[h + 1])
    OBVIOUS
  <2>1. PICK k \in 1..Size(b) : k = h + 1 /\ k - 1 = h /\ h \in 0..n
    BY <1>1
  <2>2. Lock(cur, r, b, k - 1, F[k - 1], N[k - 1])
    BY <2>1, <1>9
  <2>3. F[k - 1] \in State(Value) /\ N[k - 1] \in State(AllValues)
    BY <2>1, <1>6, <1>7
  <2>4. F[k] = ExecuteOne(F[k - 1], func.body[b][k], t)
    BY <2>1, <1>6
  <2>5. CASE Stays(block[k])
    <3>1. N[k] = ExecuteOne(N[k - 1], RewriteOf(r, func.body[b][k]), t)
      BY <2>1, <2>5, <1>7
    <3>2. Lock(cur, r, b, k, F[k], N[k])
      BY <3>1, <2>2, <2>3, <2>4, <2>5, LockStays
    <3> QED  BY <3>2, <2>1
  <2>6. CASE Of(block[k], "load")
    <3>1. N[k] = N[k - 1]
      BY <2>1, <2>6, <1>7 DEF Stays
    <3>2. Lock(cur, r, b, k, F[k], N[k])
      BY <3>1, <2>2, <2>3, <2>4, <2>6, LockLoad
    <3> QED  BY <3>2, <2>1
  <2>7. CASE Of(block[k], "store")
    <3>1. N[k] = N[k - 1]
      BY <2>1, <2>7, <1>7 DEF Stays
    <3>2. Lock(cur, r, b, k, F[k], N[k])
      BY <3>1, <2>2, <2>3, <2>4, <2>7, LockStore
    <3> QED  BY <3>2, <2>1
  <2> QED  BY <2>5, <2>6, <2>7 DEF Stays
<1>10. \A k \in Nat : k \in Same
  <2> HIDE DEF Same
  <2> QED  BY <1>8, <1>9, SetInduction
<1>11. Lock(cur, r, b, n, F[n], N[n])
  BY <1>1, <1>10
<1>12. F[n] \in State(Value) /\ N[n] \in State(AllValues)
  BY <1>1, <1>6, <1>7
<1> QED  BY <1>6, <1>7, <1>11, <1>12

(* Where a block is entered: its phis take what the variables were, and    *)
(* nothing that may be used there otherwise is one of them.                *)
PhiOfBlock(v, b) == \E x \in Promotable : <<b, x>> \in DOMAIN phiOf /\ phiOf[<<b, x>>] = v

LEMMA NotPhi ==
  ASSUME Given, Numbered, NEW b, NEW u, Avail(u, b, -1)
  PROVE  ~PhiOfBlock(u, b)
<1> SUFFICES ASSUME NEW x \in Promotable, <<b, x>> \in DOMAIN phiOf, phiOf[<<b, x>>] = u
    PROVE  FALSE
  BY DEF PhiOfBlock
<1>1. u \notin Value
  BY ConstantsAssumption DEF Numbered, Value
<1>2. PICK p \in DOMAIN phiOf : u = phiOf[p] /\ Before(p[1], 0, b, -1)
  BY <1>1 DEF Avail
<1>3. p = <<b, x>>
  BY <1>2 DEF Numbered
<1> QED  BY <1>2, <1>3 DEF Before

LEMMA LockEntry ==
  ASSUME Numbered, DOMAIN incoming = {phiOf[p] : p \in DOMAIN phiOf},
         NEW cur, Solution(cur), NEW a \in Reachable(cfg), a = at, NEW b \in Range(cfg[a]),
         memory \in [Var -> Data], env \in [Value -> Data],
         newMemory \in [Var -> Data], newEnv \in [AllValues -> Data],
         Settled(cur, replacements),
         Lock(cur, replacements, a, Size(a), [m |-> memory, e |-> env],
              [m |-> newMemory, e |-> newEnv])
  PROVE  /\ AfterPhis(b) \in [AllValues -> Data] /\ b \in Reachable(cfg)
         /\ Lock(cur, replacements, b, 0, [m |-> memory, e |-> env],
                 [m |-> newMemory, e |-> AfterPhis(b)])
<1> DEFINE r == replacements
           e2 == AfterPhis(b)
           V == Reachable(cfg)
<1>1. /\ Given /\ Graph(cfg, Len(cfg)) /\ b \in V /\ Size(a) \in Nat /\ Size(b) \in Nat
      /\ \A x \in Promotable : Avail(EndOf(cur, a)[x], a, Size(a))
      /\ \A u, k : Avail(u, a, k) => u \in AllValues
  <2>1. Given /\ Graph(cfg, Len(cfg)) /\ b \in V
    BY GivenFacts DEF Settled
  <2>2. Size(a) \in Nat /\ \A k \in 0..Size(a) : \A x \in Promotable : Avail(cur[a][k][x], a, k)
    BY SettledFacts
  <2>3. \A x \in Promotable : Avail(EndOf(cur, a)[x], a, Size(a))
    BY <2>2 DEF EndOf
  <2>4. Size(b) \in Nat
    BY <2>1, SettledFacts
  <2> QED  BY <2>1, <2>2, <2>3, <2>4, SettledFacts
<1>2. \A x \in Promotable : memory[x] = newEnv[EndOf(cur, a)[x]]
  BY DEF Lock, EndOf
<1>3. \A v : InScope(v, a, Size(a)) => env[v] = newEnv[Resolve(r, v)]
  BY DEF Lock
<1>4. e2 = [v \in AllValues |->
              IF v \in DOMAIN incoming /\ PhiOfBlock(v, b)
              THEN newEnv[(CHOOSE n \in Range(incoming[v]) : n.pred = at).val]
              ELSE newEnv[v]]
  BY DEF AfterPhis, PhiOfBlock
<1>5. ASSUME NEW x \in Promotable, <<b, x>> \in DOMAIN phiOf
      PROVE  /\ phiOf[<<b, x>>] \in AllValues /\ phiOf[<<b, x>>] \in DOMAIN incoming
             /\ newEnv[(CHOOSE n \in Range(incoming[phiOf[<<b, x>>]]) : n.pred = at).val]
                  = newEnv[EndOf(cur, a)[x]]
             /\ newEnv[EndOf(cur, a)[x]] \in Data
  <2>1. PICK p, s : /\ p = <<b, x>> /\ s = incoming[phiOf[p]]
                    /\ p \in DOMAIN phiOf /\ p[1] = b /\ p[2] = x
    BY <1>5
  <2>2. /\ s \in Seq(Entry)
        /\ \A k \in 1..Len(s) : s[k].val = EndOf(cur, s[k].pred)[x]
        /\ \A k, m \in 1..Len(s) : s[k].pred = s[m].pred => k = m
        /\ \E k \in 1..Len(s) : s[k].pred = a
    <3>1. Filled(Reachable(cfg), cur, p, s)
      BY <2>1 DEF Solution, Progress
    <3> QED  BY <2>1, <3>1 DEF Filled
  <2>3. DOMAIN s = 1..Len(s) /\ Range(s) = {s[k] : k \in 1..Len(s)}
    <3>1. DOMAIN s = 1..Len(s)
      BY <2>2
    <3> QED  BY <3>1 DEF Range
  <2>4. \E n \in Range(s) : n.pred = at
    BY <2>2, <2>3
  <2>5. PICK n \in Range(s) : n = (CHOOSE o \in Range(s) : o.pred = at) /\ n.pred = at
    BY <2>4
  <2>6. n.val = EndOf(cur, a)[x]
    BY <2>2, <2>3, <2>5
  <2>7. EndOf(cur, a)[x] \in AllValues
    BY <1>1
  <2> QED  BY <2>1, <2>5, <2>6, <2>7 DEF AllValues
<1>6. e2 \in [AllValues -> Data]
  <2>1. ASSUME NEW v \in AllValues, v \in DOMAIN incoming, PhiOfBlock(v, b)
        PROVE  newEnv[(CHOOSE n \in Range(incoming[v]) : n.pred = at).val] \in Data
    BY <2>1, <1>5 DEF PhiOfBlock
  <2> QED  BY <2>1, <1>4
<1>7. ASSUME NEW u, Avail(u, b, -1)
      PROVE  u \in AllValues /\ e2[u] = newEnv[u]
  <2>1. u \in AllValues
    BY <1>1, <1>7, SettledFacts
  <2>2. ~PhiOfBlock(u, b)
    BY <1>1, <1>7, NotPhi
  <2> QED  BY <2>1, <2>2, <1>4
<1> HIDE DEF e2
<1>8. ASSUME NEW x \in Promotable PROVE memory[x] = e2[cur[b][0][x]]
  <2>1. CASE <<b, x>> \in DOMAIN phiOf
    <3>1. cur[b][0][x] = phiOf[<<b, x>>]
      BY <2>1, <1>1 DEF Solution, Progress, Starts
    <3>2. PhiOfBlock(phiOf[<<b, x>>], b)
      BY <2>1 DEF PhiOfBlock
    <3>3. e2[phiOf[<<b, x>>]] = newEnv[EndOf(cur, a)[x]]
      BY <2>1, <3>2, <1>4, <1>5
    <3> QED  BY <3>1, <3>3, <1>2
  <2>2. CASE <<b, x>> \notin DOMAIN phiOf
    <3>1. cur[b][0][x] = EndOf(cur, a)[x] /\ Avail(cur[b][0][x], b, -1)
      BY <2>2 DEF Solution, Flowing
    <3> QED  BY <3>1, <1>2, <1>7
  <2> QED  BY <2>1, <2>2
<1>9. ASSUME NEW v, InScope(v, b, 0) PROVE env[v] = e2[Resolve(r, v)]
  <2>1. ASSUME NEW c, NEW j, Stands(v, c, j)
        PROVE  Before(c, j, b, -1) /\ Before(c, j, a, Size(a))
    <3>1. Before(c, j, b, 0) /\ j \in 1..Size(c)
      BY <2>1, <1>1, <1>9, StandsFacts DEF InScope
    <3>2. c # b /\ Dominates(cfg, c, b)
      BY <3>1 DEF Before
    <3>3. Dominates(cfg, c, a)
      BY <3>2, <1>1, DomBefore
    <3> QED  BY <3>1, <3>2, <3>3, <1>1 DEF Before
  <2>2. InScope(v, b, -1) /\ InScope(v, a, Size(a))
    BY <2>1, <1>9 DEF InScope
  <2>3. Avail(Resolve(r, v), b, -1)
    BY <2>2, <1>1, SettledFacts
  <2> QED  BY <2>2, <2>3, <1>3, <1>7
<1>10. \A x \in Var \ Promotable : memory[x] = newMemory[x]
  BY DEF Lock
<1>11. Lock(cur, r, b, 0, [m |-> memory, e |-> env], [m |-> newMemory, e |-> e2])
  BY <1>8, <1>9, <1>10 DEF Lock
<1> QED  BY <1>1, <1>6, <1>11 DEF e2

-----------------------------------------------------------------------------
(* Running both functions.                                                 *)

Agreed(cur) ==
  /\ Solution(cur) /\ at \in Reachable(cfg)
  /\ memory \in [Var -> Data] /\ env \in [Value -> Data]
  /\ newMemory \in [Var -> Data] /\ newEnv \in [AllValues -> Data]
  /\ Lock(cur, replacements, at, Size(at), [m |-> memory, e |-> env],
          [m |-> newMemory, e |-> newEnv])

LEMMA FrozenLock ==
  ASSUME Frozen
  PROVE  /\ AllValues' = AllValues
         /\ \A cur, r, b, k, s, n : Lock(cur, r, b, k, s, n)' <=> Lock(cur, r, b, k, s, n)
<1>1. Promotable' = Promotable /\ phiOf' = phiOf
  BY FrozenFunction DEF Frozen
<1>2. \A v, b, k : InScope(v, b, k)' <=> InScope(v, b, k)
  BY FrozenFunction DEF InScope
<1>3. AllValues' = AllValues
  BY <1>1 DEF AllValues
<1> QED  BY <1>1, <1>2, <1>3 DEF Lock

LEMMA SolutionStays ==
  ASSUME UNCHANGED <<func, treeVars, renaming, body>>, NEW cur, Solution(cur)
  PROVE  Solution(cur)'
<1>1. Frozen /\ replacements' = replacements /\ incoming' = incoming
  BY DEF Frozen, treeVars, tree, renaming
<1>2. PICK W, p, e : /\ W = Reachable(cfg) /\ p = replacements /\ e = incoming
                     /\ Progress(W, cur, p, e)
  BY DEF Solution
<1>3. Progress(W, cur, replacements, incoming)'
  BY <1>1, <1>2, FrozenProgress
<1>4. W = Reachable(cfg')
  BY <1>1, <1>2 DEF Frozen
<1>5. Flowing(cur)'
  <2>1. Flowing(cur) /\ cfg' = cfg /\ phiOf' = phiOf
    BY <1>1 DEF Solution, Frozen
  <2> QED  BY <2>1, <1>1, FrozenFunction, FrozenWalk DEF Flowing
<1> QED  BY <1>3, <1>4, <1>5 DEF Solution

LEMMA PromotedStays ==
  ASSUME UNCHANGED <<func, treeVars, renaming, body>>, Promoted
  PROVE  Promoted'
<1>1. Frozen /\ replacements' = replacements /\ incoming' = incoming /\ body' = body
  BY DEF Frozen, treeVars, tree, renaming
<1>2. Given' /\ Numbered' /\ DOMAIN incoming' = {phiOf'[p] : p \in DOMAIN phiOf'}
  BY <1>1, FrozenFunction DEF Promoted, Frozen
<1>3. /\ DOMAIN body' = DOMAIN func'.body
      /\ (\A c \in DOMAIN func.body : body[c] = Rewritten(replacements, func.body[c]))'
  <2>1. \A r2, block : Rewritten(r2, block)' = Rewritten(r2, block)
    <3>1. \A i : Stays(i)' <=> Stays(i)
      BY <1>1, FrozenFunction DEF Stays
    <3> QED  BY <3>1 DEF Rewritten
  <2> QED  BY <2>1, <1>1 DEF Promoted, Frozen
<1>4. \E cur : Solution(cur)'
  <2>1. PICK cur : Solution(cur)
    BY DEF Promoted
  <2> QED  BY <2>1, SolutionStays
<1> QED  BY <1>2, <1>3, <1>4 DEF Promoted

LEMMA SolutionSettled ==
  ASSUME Given, Numbered, NEW cur, Solution(cur)
  PROVE  Settled(cur, replacements)
BY DEF Solution, Progress, Settled

(* A block run in both leaves them agreed.                                 *)
LEMMA RunBoth ==
  ASSUME Promoted, NEW cur, Solution(cur), NEW b \in Reachable(cfg), NEW t \in Token,
         memory \in [Var -> Data], env \in [Value -> Data],
         newMemory \in [Var -> Data], NEW e2 \in [AllValues -> Data],
         Lock(cur, replacements, b, 0, [m |-> memory, e |-> env],
              [m |-> newMemory, e |-> e2]),
         ExecuteBoth(b, e2, t), UNCHANGED <<func, treeVars, renaming, body>>
  PROVE  Agreed(cur)' /\ Promoted'
<1> DEFINE r == replacements
           old == Execute(func.body[b], memory, env, t)
           new == Execute(Rewritten(r, func.body[b]), newMemory, e2, t)
<1>1. /\ Given /\ Numbered /\ Settled(cur, r) /\ b \in DOMAIN func.body
      /\ body[b] = Rewritten(r, func.body[b])
  <2>1. Given /\ Numbered /\ b \in DOMAIN func.body
    BY GivenFacts DEF Promoted
  <2> QED  BY <2>1, SolutionSettled DEF Promoted
<1>2. /\ old \in State(Value) /\ new \in State(AllValues)
      /\ Lock(cur, r, b, Size(b), old, new)
  BY <1>1, LockBlock
<1>3. /\ at' = b /\ memory' = old.m /\ env' = old.e
      /\ newMemory' = new.m /\ newEnv' = new.e
  BY <1>1 DEF ExecuteBoth
<1>4. Frozen /\ replacements' = r /\ incoming' = incoming /\ body' = body
  BY DEF Frozen, treeVars, tree, renaming
<1> HIDE DEF old, new
<1>5. /\ memory' \in [Var -> Data] /\ env' \in [Value -> Data]
      /\ newMemory' \in [Var -> Data] /\ newEnv' \in [AllValues -> Data]
      /\ old = [m |-> memory', e |-> env'] /\ new = [m |-> newMemory', e |-> newEnv']
  BY <1>2, <1>3 DEF State
<1>6. PICK o, n, q, k : /\ o = old /\ n = new /\ q = r /\ k = Size(b)
                        /\ Lock(cur, q, b, k, o, n)
  BY <1>2
<1>7. Lock(cur, q, b, k, o, n)'
  BY <1>4, <1>6, FrozenLock
<1>8. /\ o = [m |-> memory, e |-> env]' /\ n = [m |-> newMemory, e |-> newEnv]'
      /\ q = replacements' /\ k = Size(b)' /\ b = at'
  <2>1. Size(b)' = Size(b)
    BY <1>4, FrozenFunction
  <2> QED  BY <2>1, <1>3, <1>4, <1>5, <1>6
<1>9. Lock(cur, replacements, at, Size(at), [m |-> memory, e |-> env],
           [m |-> newMemory, e |-> newEnv])'
  BY <1>7, <1>8
<1>10. /\ at' \in Reachable(cfg') /\ AllValues' = AllValues
  BY <1>3, <1>4, FrozenLock DEF Frozen
<1>11. Solution(cur)'
  BY SolutionStays
<1>12. Agreed(cur)'
  BY <1>5, <1>9, <1>10, <1>11 DEF Agreed, Data
<1>13. Promoted'
  BY PromotedStays
<1> QED  BY <1>12, <1>13

Fresh ==
  /\ memory = [x \in Var |-> Undef] /\ newMemory = [x \in Var |-> Undef]
  /\ env = [v \in Value |-> Undef]

LEMMA StartStep ==
  ASSUME Promoted, Fresh, Start
  PROVE  Promoted' /\ \E cur : Agreed(cur)'
<1>1. PICK cur : Solution(cur)
  BY DEF Promoted
<1>2. /\ Given /\ Numbered /\ DOMAIN incoming = {phiOf[p] : p \in DOMAIN phiOf}
      /\ 1 \in Reachable(cfg) /\ Settled(cur, replacements)
  BY <1>1, GivenFacts, SolutionSettled DEF Promoted
<1> DEFINE none == [v \in AllValues |-> Undef]
<1>3. PICK t \in Token : ExecuteBoth(1, none, t)
  BY <1>2 DEF Start, AllValues
<1>4. /\ memory \in [Var -> Data] /\ newMemory \in [Var -> Data]
      /\ env \in [Value -> Data] /\ none \in [AllValues -> Data]
  BY DEF Fresh, Data
<1>5. Lock(cur, replacements, 1, 0, [m |-> memory, e |-> env],
           [m |-> newMemory, e |-> none])
  <2>1. /\ \A x \in Promotable : Avail(cur[1][0][x], 1, 0)
        /\ \A v : InScope(v, 1, 0) => Avail(Resolve(replacements, v), 1, 0)
        /\ \A u, k : Avail(u, 1, k) => u \in AllValues
    <3>1. Size(1) \in Nat /\ 0 \in 0..Size(1) /\ 0 \in -1..Size(1)
      BY <1>2, SettledFacts
    <3> QED  BY <3>1, <1>2, SettledFacts
  <2>2. Promotable \subseteq Var
    BY DEF Promotable
  <2>3. \A x \in Promotable : memory[x] = none[cur[1][0][x]]
    BY <2>1, <2>2 DEF Fresh
  <2>4. \A v : InScope(v, 1, 0) => env[v] = none[Resolve(replacements, v)]
    BY <2>1 DEF Fresh, InScope
  <2>5. \A x \in Var \ Promotable : memory[x] = newMemory[x]
    BY DEF Fresh
  <2> HIDE DEF none
  <2> QED  BY <2>3, <2>4, <2>5 DEF Lock
<1> HIDE DEF none
<1>6. UNCHANGED <<func, treeVars, renaming, body>>
  BY DEF Start
<1>7. Agreed(cur)' /\ Promoted'
  BY <1>1, <1>2, <1>3, <1>4, <1>5, <1>6, RunBoth
<1> QED  BY <1>7

LEMMA RunStep ==
  ASSUME Promoted, NEW cur, Agreed(cur), Step
  PROVE  Promoted' /\ Agreed(cur)'
<1>1. /\ Given /\ Numbered /\ DOMAIN incoming = {phiOf[p] : p \in DOMAIN phiOf}
      /\ Solution(cur) /\ Settled(cur, replacements) /\ func.succ = cfg
  BY SolutionSettled DEF Promoted, Agreed, Given
<1>2. PICK b \in Range(func.succ[at]) : \E t \in Token : ExecuteBoth(b, AfterPhis(b), t)
  BY DEF Step
<1>3. PICK t \in Token : ExecuteBoth(b, AfterPhis(b), t)
  BY <1>2
<1>4. PICK a \in Reachable(cfg) : a = at /\ b \in Range(cfg[a])
  BY <1>1, <1>2 DEF Agreed
<1>5. /\ memory \in [Var -> Data] /\ env \in [Value -> Data]
      /\ newMemory \in [Var -> Data] /\ newEnv \in [AllValues -> Data]
      /\ Lock(cur, replacements, a, Size(a), [m |-> memory, e |-> env],
              [m |-> newMemory, e |-> newEnv])
  BY <1>4 DEF Agreed
<1>6. /\ AfterPhis(b) \in [AllValues -> Data] /\ b \in Reachable(cfg)
      /\ Lock(cur, replacements, b, 0, [m |-> memory, e |-> env],
              [m |-> newMemory, e |-> AfterPhis(b)])
  BY <1>1, <1>4, <1>5, LockEntry
<1>7. UNCHANGED <<func, treeVars, renaming, body>>
  BY DEF Step
<1> QED  BY <1>1, <1>3, <1>5, <1>6, <1>7, RunBoth

\* What is agreed is what the property says.
LEMMA AgreedAgrees ==
  ASSUME Promoted, NEW cur, Agreed(cur)
  PROVE  Agreement
<1>1. /\ Given /\ at \in Reachable(cfg) /\ Size(at) \in Nat /\ func.succ = cfg
      /\ DOMAIN func.body = 1..Len(cfg) /\ at \in 1..Len(cfg)
      /\ \A b \in 1..Len(cfg) : DOMAIN func.body[b] = 1..Size(b) /\ Size(b) \in Nat
  BY GivenFacts DEF Promoted, Agreed, Given, Size
<1>2. ASSUME NEW v \in Value \ {Undef}, Dominates(cfg, DefBlock(func, v), at)
      PROVE  InScope(v, at, Size(at))
  <2>1. ASSUME NEW a, NEW j, Stands(v, a, j) PROVE Before(a, j, at, Size(at))
    <3>1. a \in DOMAIN func.body /\ \E i \in Range(func.body[a]) : Defines(i, v)
      BY <2>1 DEF Stands, Range
    <3>2. \A b \in DOMAIN func.body :
            (\E i \in Range(func.body[b]) : Defines(i, v)) => b = a
      <4>1. ASSUME NEW b \in DOMAIN func.body, \E i \in Range(func.body[b]) : Defines(i, v)
            PROVE  \E k : Stands(v, b, k)
        BY <4>1 DEF Range, Stands
      <4> QED  BY <4>1, <2>1, <1>1, StandsOnce DEF Given
    <3>3. DefBlock(func, v) = a
      BY <3>1, <3>2 DEF DefBlock
    <3>4. j \in 1..Size(a)
      BY <2>1, <1>1, StandsFacts
    <3> QED  BY <3>3, <3>4, <1>2, <1>1 DEF Before
  <2> QED  BY <2>1 DEF InScope
<1>3. /\ \A v : InScope(v, at, Size(at)) => env[v] = newEnv[Resolve(replacements, v)]
      /\ \A x \in Var \ Promotable : memory[x] = newMemory[x]
  BY DEF Agreed, Lock
<1> QED  BY <1>1, <1>2, <1>3 DEF Agreement

-----------------------------------------------------------------------------
(* The tree.  While it is built, and until it is, the vertices above d are *)
(* linked and have their semidominators.                                   *)

TreeInv ==
  /\ Given /\ ImmediateDominators
  /\ d # 0 => \E N, A : Building(cfg, dfs, forest, bucket, dom, d, Len(cfg), N, A)

LEMMA InitTreeInv == ASSUME Init PROVE TreeInv
BY DEF Init, TreeInit, TreeInv, Given, ImmediateDominators

LEMMA StepTreeInv ==
  ASSUME TreeInv, [Next]_vars PROVE TreeInv'
<1> DEFINE n == Len(cfg)
<1>0. Graph(cfg, n)
  BY GivenFacts DEF TreeInv
<1>1. ASSUME UNCHANGED <<func, cfg>>, ImmediateDominators',
             NEW t, NEW f, NEW bk, NEW dm, NEW d1,
             t = dfs', f = forest', bk = bucket', dm = dom', d1 = d',
             d1 # 0 => \E N, A : Building(cfg, t, f, bk, dm, d1, n, N, A)
      PROVE  TreeInv'
  BY <1>1 DEF TreeInv, Given
<1>2. CASE UNCHANGED <<func, treeVars>>
  <2>1. UNCHANGED <<func, cfg, dfs, forest, bucket, dom, d, idom>>
    BY <1>2 DEF treeVars, tree
  <2>2. ImmediateDominators'
    BY <2>1 DEF TreeInv, ImmediateDominators
  <2> QED  BY <1>1, <2>1, <2>2 DEF TreeInv
<1>3. CASE BuildTree
  <2>1. PICK t, f, bk, dm, d1, im :
          t = dfs' /\ f = forest' /\ bk = bucket' /\ dm = dom' /\ d1 = d' /\ im = idom'
    BY Zenon
  <2>2. UNCHANGED <<func, cfg>>
    BY <1>3, Zenon DEF BuildTree, TreeNext, Number, Vertex, Explicit
  <2>3. CASE Number
    <3>1. \/ d1 = 0 /\ Immediate(cfg, im)
          \/ im = idom /\ \E N, A : Building(cfg, t, f, bk, dm, d1, n, N, A)
      BY <1>0, <2>1, <2>3, NumberRight
    <3>2. CASE d1 = 0 /\ Immediate(cfg, im)
      <4>1. ImmediateDominators'
        BY <2>1, <2>2, <3>2, ImmediateHolds
      <4> QED  BY <1>1, <2>1, <2>2, <3>2, <4>1
    <3>3. CASE im = idom /\ \E N, A : Building(cfg, t, f, bk, dm, d1, n, N, A)
      <4>1. ImmediateDominators'
        BY <2>1, <2>2, <3>3 DEF TreeInv, ImmediateDominators
      <4> QED  BY <1>1, <2>1, <2>2, <3>3, <4>1
    <3> QED  BY <3>1, <3>2, <3>3
  <2>4. CASE Vertex
    <3>1. /\ d > 1 /\ idom' = idom /\ dfs' = dfs /\ d' = d - 1
      BY <2>4, Zenon DEF Vertex
    <3>2. PICK N, A : Building(cfg, dfs, forest, bucket, dom, d, n, N, A)
      BY <3>1 DEF TreeInv
    <3>3. d # 1
      BY <3>1, <3>2 DEF Building
    <3>4. Building(cfg, dfs, f, bk, dm, d - 1, n, N, A)
      BY <2>1, <2>4, <3>2, <3>3, VertexStep
    <3>5. ImmediateDominators'
      BY <2>2, <3>1 DEF TreeInv, ImmediateDominators
    <3>6. Building(cfg, t, f, bk, dm, d1, n, N, A)
      BY <2>1, <3>1, <3>4
    <3> QED  BY <1>1, <2>1, <2>2, <3>5, <3>6, Zenon
  <2>5. CASE Explicit
    <3>1. d = 1 /\ d' = 0
      BY <2>5, Zenon DEF Explicit
    <3>2. PICK N, A : Building(cfg, dfs, forest, bucket, dom, d, n, N, A)
      BY <3>1 DEF TreeInv
    <3>3. Immediate(cfg, im)
      BY <2>1, <2>5, <3>2, ExplicitRight
    <3>4. ImmediateDominators'
      BY <2>1, <2>2, <3>3, ImmediateHolds
    <3> QED  BY <1>1, <2>1, <2>2, <3>1, <3>4, Zenon
  <2> QED  BY <1>3, <2>3, <2>4, <2>5 DEF BuildTree, TreeNext
<1>4. [Next]_vars => BuildTree \/ UNCHANGED <<func, treeVars>>
  BY DEF Next, vars, Begin, NothingToPromote, PromoteSingleBlock, InsertPhis, RenameEntry,
         RenameChild, RestoreStacks, ReplaceAndRemove, Start, Step
<1> QED  BY <1>2, <1>3, <1>4

(* The tree is the dominator tree of the function, whatever its graph: a   *)
(* block that is reached has, above it, a block that dominates it and that *)
(* every other block dominating it dominates, and the others have none.    *)
THEOREM DominatorsFound == Spec => []ImmediateDominators
<1>1. Init => TreeInv
  BY InitTreeInv
<1>2. TreeInv /\ [Next]_vars => TreeInv'
  BY StepTreeInv
<1>3. TreeInv => ImmediateDominators
  BY DEF TreeInv
<1> QED  BY <1>1, <1>2, <1>3, PTL DEF Spec

-----------------------------------------------------------------------------
(* The pass from beginning to end, and both functions after it.            *)

Phases == {"begin", "tree", "rename", "finish", "ready", "run"}

IInv ==
  /\ Given /\ pc \in Phases
  /\ pc \in {"begin", "tree"} => Unwalked
  /\ pc = "rename" =>
       Placed /\ body = func.body /\ \E V, cur, path : Walking(V, cur, path)
  /\ pc = "finish" =>
       /\ Placed /\ body = func.body
       /\ \E V, cur : V = Reachable(cfg) /\ Progress(V, cur, replacements, incoming)
  /\ pc \in {"ready", "run"} => Promoted
  /\ pc # "run" => Fresh
  /\ pc = "run" => \E cur : Agreed(cur)

LEMMA InitIInv ==
  ASSUME Init PROVE IInv
<1>1. Given /\ Unwalked /\ pc = "begin"
  BY DEF Init, Given, Unwalked
<1>2. Fresh
  BY DEF Init, Fresh
<1> QED  BY <1>1, <1>2 DEF IInv, Phases

LEMMA FreshStays ==
  ASSUME Fresh, UNCHANGED running PROVE Fresh'
BY DEF Fresh, running

LEMMA UnwalkedStays ==
  ASSUME Unwalked, UNCHANGED <<func, renaming, body>>
  PROVE  Unwalked'
<1>1. /\ func' = func /\ phiOf' = phiOf /\ incoming' = incoming
      /\ reachingDefs' = reachingDefs /\ replacements' = replacements
      /\ frames' = frames /\ body' = body
  BY DEF renaming
<1>2. Promotable' = Promotable
  BY <1>1 DEF Promotable
<1> QED  BY <1>1, <1>2 DEF Unwalked

LEMMA Stutter ==
  ASSUME IInv, UNCHANGED vars PROVE IInv'
<1>1. /\ UNCHANGED <<func, treeVars, renaming, body>> /\ pc' = pc /\ UNCHANGED running
  BY DEF vars
<1>2. /\ Frozen /\ incoming' = incoming /\ replacements' = replacements
      /\ frames' = frames /\ reachingDefs' = reachingDefs
      /\ func' = func /\ body' = body /\ cfg' = cfg
  BY <1>1 DEF Frozen, treeVars, tree, renaming
<1>3. Given'
  BY <1>2, FrozenFunction DEF IInv
<1>4. Unwalked => Unwalked'
  BY <1>1, UnwalkedStays
<1>5. Placed => Placed'
  BY <1>2, PlacedStays
<1>6. ASSUME NEW V, NEW cur, Progress(V, cur, replacements, incoming)
      PROVE  Progress(V, cur, replacements, incoming)'
  BY <1>2, <1>6, FrozenProgress
<1>7. ASSUME NEW V, NEW cur, NEW path, Walking(V, cur, path)
      PROVE  Walking(V, cur, path)'
  <2>1. PICK fr, st : fr = frames /\ st = reachingDefs
    OBVIOUS
  <2>2. Pending(V, path, fr) /\ Depths(cur, path, fr, st)
    BY <2>1, <1>7 DEF Walking
  <2>3. Pending(V, path, fr)' /\ Depths(cur, path, fr, st)'
    BY <2>2, <1>2, FrozenCalls
  <2>4. Promotable' = Promotable
    BY <1>2, FrozenFunction
  <2> QED  BY <2>1, <2>3, <2>4, <1>2, <1>6, <1>7 DEF Walking
<1>8. Promoted => Promoted'
  BY <1>1, PromotedStays
<1>9. Fresh => Fresh'
  BY <1>1, FreshStays
<1>10. ASSUME NEW cur, Agreed(cur) PROVE Agreed(cur)'
  <2>1. PICK o, n, q, k :
          /\ o = [m |-> memory, e |-> env] /\ n = [m |-> newMemory, e |-> newEnv]
          /\ q = replacements /\ k = Size(at)
    OBVIOUS
  <2>2. Lock(cur, q, at, k, o, n)
    BY <2>1, <1>10 DEF Agreed
  <2>3. /\ at' = at /\ memory' = memory /\ env' = env /\ newMemory' = newMemory
        /\ newEnv' = newEnv /\ Size(at)' = Size(at) /\ AllValues' = AllValues
    BY <1>1, <1>2, FrozenLock DEF running, Size
  <2>4. Lock(cur, q, at, k, o, n)'
    <3>1. PICK b : b = at
      OBVIOUS
    <3>2. Lock(cur, q, b, k, o, n)'
      BY <3>1, <2>2, <1>2, FrozenLock
    <3> QED  BY <3>1, <3>2, <2>3
  <2>5. Solution(cur)'
    BY <1>1, <1>10, SolutionStays DEF Agreed
  <2> QED  BY <2>1, <2>3, <2>4, <2>5, <1>2, <1>10 DEF Agreed, Data
<1>11. pc = "rename" => \E V, cur, path : Walking(V, cur, path)'
  BY <1>7 DEF IInv
<1>12. pc = "finish" => (\E V, cur : V = Reachable(cfg) /\ Progress(V, cur, replacements, incoming))'
  BY <1>2, <1>6 DEF IInv
<1>13. pc = "run" => \E cur : Agreed(cur)'
  BY <1>10 DEF IInv
<1> QED  BY <1>1, <1>2, <1>3, <1>4, <1>5, <1>8, <1>9, <1>11, <1>12, <1>13 DEF IInv, Phases

LEMMA StepIInv ==
  ASSUME IInv, ImmediateDominators, [Next]_vars PROVE IInv'
<1> USE DEF IInv
<1>1. CASE Begin
  <2>1. /\ pc = "begin" /\ pc' = "tree" /\ UNCHANGED <<func, renaming, body>>
        /\ UNCHANGED running /\ Frozen
    BY <1>1 DEF Begin, Frozen, treeVars, tree, renaming
  <2>2. Given' /\ Unwalked' /\ Fresh'
    BY <2>1, UnwalkedStays, FreshStays, FrozenFunction
  <2> QED  BY <2>1, <2>2 DEF Phases
<1>2. CASE NothingToPromote
  <2>1. pc = "begin" /\ pc' = "ready" /\ UNCHANGED running
    BY <1>2 DEF NothingToPromote
  <2>2. Promoted' /\ Fresh'
    BY <2>1, <1>2, NoneStep, FreshStays
  <2> QED  BY <2>1, <2>2 DEF Phases, Promoted
<1>3. CASE PromoteSingleBlock
  <2>1. pc = "begin" /\ pc' = "ready" /\ UNCHANGED running
    BY <1>3 DEF PromoteSingleBlock
  <2>2. Promoted' /\ Fresh'
    BY <2>1, <1>3, SingleStep, FreshStays
  <2> QED  BY <2>1, <2>2 DEF Phases, Promoted
<1>4. CASE BuildTree
  <2>1. /\ pc = "tree" /\ pc' = "tree" /\ UNCHANGED <<func, renaming, body>>
        /\ UNCHANGED running /\ cfg' = cfg /\ func' = func
    BY <1>4, Zenon DEF BuildTree, TreeNext, Number, Vertex, Explicit
  <2>2. Given' /\ Unwalked' /\ Fresh'
    BY <2>1, UnwalkedStays, FreshStays DEF Given
  <2> QED  BY <2>1, <2>2, Zenon DEF Phases
<1>5. CASE InsertPhis
  <2>1. /\ pc = "tree" /\ pc' = "rename" /\ UNCHANGED running
        /\ body' = body /\ func' = func /\ body = func.body
    BY <1>5 DEF InsertPhis, Unwalked
  <2>2. Placed' /\ (\E V, cur, path : Walking(V, cur, path)') /\ Fresh'
    BY <2>1, <1>5, PhisPlaced, FreshStays
  <2> QED  BY <2>1, <2>2 DEF Phases, Placed
<1>6. CASE RenameEntry
  <2>1. /\ pc = "rename" /\ pc' = pc /\ UNCHANGED running /\ body' = body /\ func' = func
    BY <1>6 DEF RenameEntry
  <2>2. Placed' /\ (\E V, cur, path : Walking(V, cur, path)') /\ Fresh'
    BY <2>1, <1>6, EntryStep, FreshStays
  <2> QED  BY <2>1, <2>2 DEF Phases, Placed
<1>7. CASE RenameChild
  <2>1. /\ pc = "rename" /\ pc' = pc /\ UNCHANGED running /\ body' = body /\ func' = func
    BY <1>7 DEF RenameChild
  <2>2. Placed' /\ (\E V, cur, path : Walking(V, cur, path)') /\ Fresh'
    BY <2>1, <1>7, ChildStep, FreshStays
  <2> QED  BY <2>1, <2>2 DEF Phases, Placed
<1>8. CASE RestoreStacks
  <2>1. /\ pc = "rename" /\ pc' = (IF Len(frames) = 1 THEN "finish" ELSE "rename")
        /\ UNCHANGED running /\ body' = body /\ func' = func
    BY <1>8 DEF RestoreStacks
  <2>2. /\ Placed' /\ Fresh'
        /\ Len(frames) # 1 => \E V, cur, path : Walking(V, cur, path)'
        /\ Len(frames) = 1 => \E V, cur :
             (V = Reachable(cfg) /\ Progress(V, cur, replacements, incoming))'
    BY <2>1, <1>8, BackStep, FreshStays
  <2> QED  BY <2>1, <2>2 DEF Phases, Placed
<1>9. CASE ReplaceAndRemove
  <2>1. pc = "finish" /\ pc' = "ready" /\ UNCHANGED running
    BY <1>9 DEF ReplaceAndRemove
  <2>2. PICK cur : Progress(Reachable(cfg), cur, replacements, incoming)
    BY <2>1
  <2>3. Promoted' /\ Fresh'
    BY <2>1, <2>2, <1>9, FinishStep, FreshStays
  <2> QED  BY <2>1, <2>3 DEF Phases, Promoted
<1>10. CASE Start
  <2>1. pc = "ready" /\ pc' = "run"
    BY <1>10 DEF Start
  <2>2. Promoted' /\ \E cur : Agreed(cur)'
    BY <2>1, <1>10, StartStep
  <2> QED  BY <2>1, <2>2 DEF Phases, Promoted
<1>11. CASE Step
  <2>1. pc = "run" /\ pc' = "run"
    BY <1>11 DEF Step
  <2>2. PICK cur : Agreed(cur)
    BY <2>1
  <2>3. Promoted' /\ Agreed(cur)'
    BY <2>1, <2>2, <1>11, RunStep
  <2> QED  BY <2>1, <2>3 DEF Phases, Promoted
<1>12. CASE UNCHANGED vars
  BY <1>12, Stutter
<1> QED
  BY <1>1, <1>2, <1>3, <1>4, <1>5, <1>6, <1>7, <1>8, <1>9, <1>10, <1>11, <1>12 DEF Next

(* When the walk is over, each phi of a block that is reached has one      *)
(* entry for each predecessor that is reached, with a value defined where  *)
(* that predecessor ends: insert_phis, rename_block and the clean-up agree *)
(* on it for every function.                                               *)
THEOREM PhisAreComplete == Spec => []PhisComplete
<1>1. Init => IInv
  BY InitIInv
<1>2. IInv /\ ImmediateDominators /\ [Next]_vars => IInv'
  BY StepIInv
<1>3. IInv => PhisComplete
  <2>1. ASSUME IInv, pc = "ready" PROVE PhisComplete
    BY <2>1, ReadyComplete DEF IInv
  <2> QED  BY <2>1 DEF PhisComplete
<1> QED  BY <1>1, <1>2, <1>3, DominatorsFound, PTL DEF Spec

(* Promotion preserves the function: on every path through it, whatever    *)
(* the instructions compute and the callees write, each value in scope is  *)
(* what it was, loads that went included, and so is every variable left in *)
(* memory.                                                                 *)
THEOREM PromotionAgrees == Spec => []Agreement
<1>1. Init => IInv
  BY InitIInv
<1>2. IInv /\ ImmediateDominators /\ [Next]_vars => IInv'
  BY StepIInv
<1>3. IInv => Agreement
  <2>1. ASSUME IInv, pc = "run" PROVE Agreement
    BY <2>1, AgreedAgrees DEF IInv
  <2> QED  BY <2>1 DEF Agreement
<1> QED  BY <1>1, <1>2, <1>3, DominatorsFound, PTL DEF Spec
=============================================================================
