-------------------------------- MODULE Lemmas --------------------------------
(***************************************************************************)
(* Facts about numbers, lists and control-flow graphs that several proofs  *)
(* need.  Induction and recursive definitions are put in terms of sets and *)
(* functions, which the provers can instantiate, where the library's       *)
(* theorems take operators.                                                *)
(***************************************************************************)
EXTENDS Lists, Cfg, FiniteSetTheorems, WellFoundedInduction, TLAPS

-----------------------------------------------------------------------------
LEMMA LeastOf ==
  ASSUME NEW T \in SUBSET Nat, T # {}, NEW R, IsWellFoundedOn(R, Nat),
         \A x, y \in Nat : <<y, x>> \in R <=> y < x
  PROVE  \E x \in T : \A y \in T : x <= y
<1>1. PICK x \in T : \A y \in T : ~(<<y, x>> \in R)
  BY WFMin
<1>2. ASSUME NEW y \in T PROVE x <= y
  <2>1. ~(<<y, x>> \in R) /\ y \in Nat /\ x \in Nat
    BY <1>1
  <2>2. ~(y < x)
    BY <2>1
  <2> QED  BY <2>1, <2>2
<1> QED  BY <1>2

(* Every nonempty set of natural numbers has a least element.              *)
LEMMA Least ==
  ASSUME NEW T \in SUBSET Nat, T # {}
  PROVE  \E x \in T : \A y \in T : x <= y
<1>1. IsWellFoundedOn(OpToRel(<, Nat), Nat)
  BY NatLessThanWellFounded
<1>2. \A x, y \in Nat : <<y, x>> \in OpToRel(<, Nat) <=> y < x
  BY DEF OpToRel
<1>3. \E R : IsWellFoundedOn(R, Nat) /\ \A x, y \in Nat : <<y, x>> \in R <=> y < x
  BY <1>1, <1>2
<1> QED  BY <1>3, LeastOf

(* Induction: a set that has 0 and every successor has every number.       *)
LEMMA SetInduction ==
  ASSUME NEW S, 0 \in S, \A i \in Nat : i \in S => i + 1 \in S
  PROVE  \A i \in Nat : i \in S
<1> SUFFICES ASSUME Nat \ S # {} PROVE FALSE
  OBVIOUS
<1>1. PICK x \in Nat \ S : \A y \in Nat \ S : x <= y
  BY Least
<1>2. x # 0 /\ x - 1 \in Nat /\ x - 1 \in S
  BY <1>1
<1> QED  BY <1>1, <1>2

\* Bounded induction on a set of numbers.
LEMMA UpTo0 ==
  ASSUME NEW n \in Nat, NEW S, 0 \in S, \A i \in 1..n : i - 1 \in S => i \in S
  PROVE  \A i \in 0..n : i \in S
<1> DEFINE T == {i \in Nat : i <= n => i \in S}
<1>1. 0 \in T
  OBVIOUS
<1>2. ASSUME NEW i \in Nat, i \in T PROVE i + 1 \in T
  <2>1. i + 1 <= n => i + 1 \in 1..n /\ (i + 1) - 1 = i /\ i <= n
    OBVIOUS
  <2> QED  BY <1>2, <2>1
<1> HIDE DEF T
<1>3. \A i \in Nat : i \in T
  BY <1>1, <1>2, SetInduction
<1> QED  BY <1>3 DEF T

(* A nonempty set of numbers up to n has a greatest element.               *)
LEMMA Greatest ==
  ASSUME NEW n \in Nat, NEW T \in SUBSET (0..n), T # {}
  PROVE  \E x \in T : \A y \in T : y <= x
<1> DEFINE Co == {n - y : y \in T}
<1>1. Co \in SUBSET Nat /\ Co # {}
  <2>1. \A y \in T : y \in Nat /\ n - y \in Nat
    OBVIOUS
  <2> QED  BY <2>1
<1>2. PICK c \in Co : \A d \in Co : c <= d
  <2> HIDE DEF Co
  <2> QED  BY <1>1, Least
<1>3. PICK x \in T : c = n - x
  BY <1>2
<1>4. ASSUME NEW y \in T PROVE y <= x
  <2>1. n - y \in Co
    OBVIOUS
  <2>2. n - x <= n - y
    BY <1>2, <1>3, <2>1
  <2> QED  BY <2>2
<1> QED  BY <1>4

-----------------------------------------------------------------------------
(* A recursive definition over 0..n, each value from the one before, has a *)
(* function that meets it.                                                 *)
Follows(F, n, V, base, step) ==
  /\ F \in [0..n -> V]
  /\ F[0] = base
  /\ \A i \in 1..n : F[i] = step[<<i, F[i - 1]>>]

LEMMA Recursion ==
  ASSUME NEW n \in Nat, NEW V, NEW base \in V, NEW step \in [(1..n) \X V -> V]
  PROVE  \E F : Follows(F, n, V, base, step)
<1> DEFINE Good ==
      {k \in Nat : k <= n => \E F \in [0..k -> V] :
         F[0] = base /\ \A i \in 1..k : F[i] = step[<<i, F[i - 1]>>]}
<1>1. 0 \in Good
  <2> DEFINE F == [i \in 0..0 |-> base]
  <2>1. F \in [0..0 -> V] /\ F[0] = base /\ \A i \in 1..0 : F[i] = step[<<i, F[i - 1]>>]
    OBVIOUS
  <2> HIDE DEF F
  <2> QED  BY <2>1
<1>2. ASSUME NEW k \in Nat, k \in Good PROVE k + 1 \in Good
  <2> SUFFICES ASSUME k + 1 <= n
      PROVE  \E F \in [0..k + 1 -> V] :
               F[0] = base /\ \A i \in 1..k + 1 : F[i] = step[<<i, F[i - 1]>>]
    OBVIOUS
  <2>1. PICK F \in [0..k -> V] :
           F[0] = base /\ \A i \in 1..k : F[i] = step[<<i, F[i - 1]>>]
    BY <1>2
  <2> DEFINE G == [i \in 0..k + 1 |-> IF i = k + 1 THEN step[<<i, F[k]>>] ELSE F[i]]
  <2>2. G \in [0..k + 1 -> V]
    BY <2>1
  <2>3. G[0] = base /\ \A i \in 1..k + 1 : G[i] = step[<<i, G[i - 1]>>]
    BY <2>1
  <2> QED  BY <2>2, <2>3
<1> HIDE DEF Good
<1>3. n \in Good
  BY <1>1, <1>2, SetInduction
<1> QED  BY <1>3 DEF Good, Follows

-----------------------------------------------------------------------------
(* Kept: what it keeps is a part of the list, in the order of the list.    *)

KeptRec(list, S, F) ==
  F = [i \in 0..Len(list) |->
         IF i = 0 THEN <<>>
         ELSE IF list[i] \in S THEN Append(F[i - 1], list[i]) ELSE F[i - 1]]

KeptSoFar(F, A, list, S) ==
  /\ F \in [0..Len(list) -> Seq(A)]
  /\ Kept(list, S) = F[Len(list)]
  /\ F[0] = <<>>
  /\ \A i \in 1..Len(list) :
       F[i] = IF list[i] \in S THEN Append(F[i - 1], list[i]) ELSE F[i - 1]

LEMMA KeptDef ==
  ASSUME NEW A, NEW list \in Seq(A), NEW S
  PROVE  \E F : KeptSoFar(F, A, list, S)
<1> DEFINE V == Seq(A)
           b == <<>>
           step == [p \in (1..Len(list)) \X V |->
                      IF list[p[1]] \in S THEN Append(p[2], list[p[1]]) ELSE p[2]]
<1>1. step \in [(1..Len(list)) \X V -> V] /\ b \in V
  OBVIOUS
<1>2. Len(list) \in Nat
  OBVIOUS
<1>3. PICK F : Follows(F, Len(list), V, b, step)
  <2> HIDE DEF V, step, b
  <2> QED  BY <1>1, <1>2, Recursion
<1>4. /\ F \in [0..Len(list) -> V] /\ F[0] = b
      /\ \A i \in 1..Len(list) : F[i] = step[<<i, F[i - 1]>>]
  BY <1>3 DEF Follows
<1>5. KeptRec(list, S, F)
  <2>1. F = [i \in 0..Len(list) |-> F[i]]
    BY <1>4
  <2>2. ASSUME NEW i \in 1..Len(list)
        PROVE  F[i] = IF list[i] \in S THEN Append(F[i - 1], list[i]) ELSE F[i - 1]
    <3>1. i - 1 \in 0..Len(list)
      BY <1>2
    <3>2. F[i - 1] \in V
      BY <1>4, <3>1
    <3>3. F[i] = step[<<i, F[i - 1]>>]
      BY <1>4
    <3> QED  BY <3>2, <3>3
  <2> HIDE DEF V, step
  <2>3. \A i \in 0..Len(list) : i = 0 \/ i \in 1..Len(list)
    BY <1>2
  <2> QED  BY <1>4, <2>1, <2>2, <2>3, <1>2 DEF KeptRec
<1>6. \E G : KeptRec(list, S, G)
  BY <1>5
<1>e. <<>> \in Seq(A)
  OBVIOUS
<1> HIDE DEF V, step, b
<1>7. PICK G : KeptRec(list, S, G) /\ Kept(list, S) = G[Len(list)]
  <2>1. Kept(list, S) = (CHOOSE G : KeptRec(list, S, G))[Len(list)]
    BY DEF Kept, KeptRec
  <2> QED  BY <1>6, <2>1
<1>8. G[0] = <<>> /\ \A i \in 1..Len(list) :
        G[i] = IF list[i] \in S THEN Append(G[i - 1], list[i]) ELSE G[i - 1]
  <2>1. \A i \in 0..Len(list) : G[i] =
           IF i = 0 THEN <<>>
           ELSE IF list[i] \in S THEN Append(G[i - 1], list[i]) ELSE G[i - 1]
    BY <1>7 DEF KeptRec
  <2>2. 0 \in 0..Len(list) /\ \A i \in 1..Len(list) : i \in 0..Len(list) /\ i # 0
    BY <1>2
  <2> QED  BY <2>1, <2>2
<1>9. G \in [0..Len(list) -> Seq(A)]
  <2> DEFINE Good == {k \in Nat : k <= Len(list) => G[k] \in Seq(A)}
  <2>1. 0 \in Good
    BY <1>8, <1>e
  <2>2. ASSUME NEW k \in Nat, k \in Good PROVE k + 1 \in Good
    <3> SUFFICES ASSUME k + 1 <= Len(list) PROVE G[k + 1] \in Seq(A)
      OBVIOUS
    <3>1. G[k] \in Seq(A) /\ k + 1 \in 1..Len(list) /\ (k + 1) - 1 = k
      BY <1>2, <2>2
    <3>2. list[k + 1] \in A
      BY <3>1
    <3>3. G[k + 1] = IF list[k + 1] \in S THEN Append(G[k], list[k + 1]) ELSE G[k]
      BY <1>8, <3>1
    <3> QED  BY <3>1, <3>2, <3>3
  <2> HIDE DEF Good
  <2>3. \A k \in Nat : k \in Good
    BY <2>1, <2>2, SetInduction
  <2>4. \A k \in 0..Len(list) : G[k] \in Seq(A)
    BY <1>2, <2>3 DEF Good
  <2>5. G = [k \in 0..Len(list) |-> G[k]]
    BY <1>7 DEF KeptRec
  <2> QED  BY <2>4, <2>5
<1> QED  BY <1>7, <1>8, <1>9 DEF KeptSoFar

(* h gives the place in the list of each element kept, in order, and no    *)
(* place up to k with an element of S is left out.                         *)
Places(h, kept, list, S, k) ==
  /\ h \in [1..Len(kept) -> 1..k]
  /\ \A i \in 1..Len(kept) : kept[i] = list[h[i]] /\ kept[i] \in S
  /\ \A i, j \in 1..Len(kept) : i < j => h[i] < h[j]
  /\ \A p \in 1..k : list[p] \in S => \E i \in 1..Len(kept) : h[i] = p

LEMMA KeptPlaces ==
  ASSUME NEW A, NEW list \in Seq(A), NEW S
  PROVE  /\ Kept(list, S) \in Seq(A)
         /\ \E h : Places(h, Kept(list, S), list, S, Len(list))
<1>0. PICK F : KeptSoFar(F, A, list, S)
  BY KeptDef
<1>1. /\ F \in [0..Len(list) -> Seq(A)]
      /\ Kept(list, S) = F[Len(list)]
      /\ F[0] = <<>>
      /\ \A i \in 1..Len(list) :
           F[i] = IF list[i] \in S THEN Append(F[i - 1], list[i]) ELSE F[i - 1]
  BY <1>0 DEF KeptSoFar
<1>2. Len(list) \in Nat
  OBVIOUS
<1> DEFINE Good == {k \in Nat : k <= Len(list) => \E h : Places(h, F[k], list, S, k)}
<1>3. 0 \in Good
  <2> DEFINE h == [i \in 1..0 |-> 1]
  <2>1. Len(F[0]) = 0
    BY <1>1
  <2>2. Places(h, F[0], list, S, 0)
    BY <2>1 DEF Places
  <2> QED  BY <2>2
<1>4. ASSUME NEW k \in Nat, k \in Good PROVE k + 1 \in Good
  <2> SUFFICES ASSUME k + 1 <= Len(list)
               PROVE  \E g : Places(g, F[k + 1], list, S, k + 1)
    OBVIOUS
  <2>1. PICK h : Places(h, F[k], list, S, k)
    BY <1>2, <1>4
  <2>2. /\ k + 1 \in 1..Len(list) /\ (k + 1) - 1 = k /\ k \in 0..Len(list)
        /\ F[k] \in Seq(A) /\ list[k + 1] \in A /\ Len(F[k]) \in Nat
    BY <1>1, <1>2
  <2>3. F[k + 1] = IF list[k + 1] \in S THEN Append(F[k], list[k + 1]) ELSE F[k]
    BY <1>1, <2>2
  <2>4. CASE list[k + 1] \notin S
    <3>1. Places(h, F[k], list, S, k + 1)
      BY <2>1, <2>2, <2>4 DEF Places
    <3> QED  BY <2>3, <2>4, <3>1
  <2>5. CASE list[k + 1] \in S
    <3> DEFINE n == Len(F[k])
               g == [i \in 1..n + 1 |-> IF i = n + 1 THEN k + 1 ELSE h[i]]
    <3>1. /\ F[k + 1] \in Seq(A) /\ Len(F[k + 1]) = n + 1
          /\ F[k + 1][n + 1] = list[k + 1]
          /\ \A i \in 1..n : F[k + 1][i] = F[k][i]
      BY <2>2, <2>3, <2>5
    <3>2. /\ h \in [1..n -> 1..k]
          /\ \A i \in 1..n : F[k][i] = list[h[i]] /\ F[k][i] \in S
          /\ \A i, j \in 1..n : i < j => h[i] < h[j]
          /\ \A p \in 1..k : list[p] \in S => \E i \in 1..n : h[i] = p
      BY <2>1 DEF Places
    <3>3. n \in Nat
      BY <2>2
    <3> HIDE DEF n
    <3>4. g \in [1..n + 1 -> 1..k + 1]
      BY <3>2, <3>3
    <3>5. \A i \in 1..n + 1 : F[k + 1][i] = list[g[i]] /\ F[k + 1][i] \in S
      <4> SUFFICES ASSUME NEW i \in 1..n + 1
                   PROVE  F[k + 1][i] = list[g[i]] /\ F[k + 1][i] \in S
        OBVIOUS
      <4>1. CASE i = n + 1
        BY <2>5, <3>1, <3>3, <4>1
      <4>2. CASE i # n + 1
        <5>1. i \in 1..n /\ g[i] = h[i]
          BY <3>3, <4>2
        <5> QED  BY <3>1, <3>2, <5>1
      <4> QED  BY <4>1, <4>2
    <3>6. \A i, j \in 1..n + 1 : i < j => g[i] < g[j]
      BY <3>2, <3>3
    <3>7. \A p \in 1..k + 1 : list[p] \in S => \E i \in 1..n + 1 : g[i] = p
      <4> SUFFICES ASSUME NEW p \in 1..k + 1, list[p] \in S
                   PROVE  \E i \in 1..n + 1 : g[i] = p
        OBVIOUS
      <4>1. CASE p = k + 1
        <5>1. n + 1 \in 1..n + 1 /\ g[n + 1] = p
          BY <3>3, <4>1
        <5> QED  BY <5>1
      <4>2. CASE p # k + 1
        <5>1. PICK i \in 1..n : h[i] = p
          BY <3>2, <4>2
        <5>2. i \in 1..n + 1 /\ g[i] = p
          BY <3>3, <5>1
        <5> QED  BY <5>2
      <4> QED  BY <4>1, <4>2
    <3> HIDE DEF g
    <3> QED  BY <3>1, <3>4, <3>5, <3>6, <3>7 DEF Places
  <2> QED  BY <2>4, <2>5
<1> HIDE DEF Good
<1>5. Len(list) \in Good
  BY <1>2, <1>3, <1>4, SetInduction
<1> QED  BY <1>1, <1>2, <1>5 DEF Good

(* What is kept, and that an order or a distinctness of the list is kept.  *)
LEMMA KeptProperties ==
  ASSUME NEW A, NEW list \in Seq(A), NEW S
  PROVE  LET kept == Kept(list, S) IN
         /\ kept \in Seq(A)
         /\ \A i \in 1..Len(kept) :
              kept[i] \in S /\ \E p \in 1..Len(list) : kept[i] = list[p]
         /\ \A p \in 1..Len(list) :
              list[p] \in S => \E i \in 1..Len(kept) : kept[i] = list[p]
         /\ (\A p, q \in 1..Len(list) : p # q => list[p] # list[q])
              => (\A i, j \in 1..Len(kept) : i # j => kept[i] # kept[j])
<1> DEFINE kept == Kept(list, S)
<1>1. kept \in Seq(A) /\ Len(kept) \in Nat
  BY KeptPlaces
<1>2. PICK h : Places(h, kept, list, S, Len(list))
  BY KeptPlaces
<1> HIDE DEF kept
<1>3. /\ h \in [1..Len(kept) -> 1..Len(list)]
      /\ \A i \in 1..Len(kept) : kept[i] = list[h[i]] /\ kept[i] \in S
      /\ \A i, j \in 1..Len(kept) : i < j => h[i] < h[j]
      /\ \A p \in 1..Len(list) : list[p] \in S => \E i \in 1..Len(kept) : h[i] = p
  BY <1>2 DEF Places
<1>4. \A i \in 1..Len(kept) : kept[i] \in S /\ \E p \in 1..Len(list) : kept[i] = list[p]
  BY <1>3
<1>5. \A p \in 1..Len(list) : list[p] \in S => \E i \in 1..Len(kept) : kept[i] = list[p]
  BY <1>3
<1>6. \A i, j \in 1..Len(kept) : i # j => h[i] # h[j]
  BY <1>1, <1>3
<1>7. (\A p, q \in 1..Len(list) : p # q => list[p] # list[q])
        => (\A i, j \in 1..Len(kept) : i # j => kept[i] # kept[j])
  BY <1>3, <1>6, SMTT(30)
<1> QED  BY <1>1, <1>4, <1>5, <1>7 DEF kept

LEMMA KeptSorted ==
  ASSUME NEW A, NEW list \in Seq(A), NEW S, NEW key \in [A -> Int],
         \A p, q \in 1..Len(list) : p < q => key[list[p]] <= key[list[q]]
  PROVE  \A i, j \in 1..Len(Kept(list, S)) :
           i < j => key[Kept(list, S)[i]] <= key[Kept(list, S)[j]]
<1> DEFINE kept == Kept(list, S)
<1>1. PICK h : Places(h, kept, list, S, Len(list))
  BY KeptPlaces
<1> HIDE DEF kept
<1>2. /\ h \in [1..Len(kept) -> 1..Len(list)]
      /\ \A i \in 1..Len(kept) : kept[i] = list[h[i]]
      /\ \A i, j \in 1..Len(kept) : i < j => h[i] < h[j]
  BY <1>1 DEF Places
<1>3. ASSUME NEW i \in 1..Len(kept), NEW j \in 1..Len(kept), i < j
      PROVE  key[kept[i]] <= key[kept[j]]
  <2>1. h[i] \in 1..Len(list) /\ h[j] \in 1..Len(list) /\ h[i] < h[j]
    BY <1>2, <1>3
  <2>2. key[list[h[i]]] <= key[list[h[j]]]
    BY <2>1
  <2> QED  BY <2>2, <1>2
<1> QED  BY <1>3 DEF kept
-----------------------------------------------------------------------------
(* Vec::pop.                                                               *)
LEMMA FrontFacts ==
  ASSUME NEW A, NEW s \in Seq(A), s # <<>>
  PROVE  /\ Front(s) \in Seq(A) /\ Len(Front(s)) = Len(s) - 1 /\ Len(s) \in Nat \ {0}
         /\ \A i \in 1..(Len(s) - 1) : Front(s)[i] = s[i]
<1> DEFINE n == Len(s)
<1>1. n \in Nat \ {0}
  OBVIOUS
<1>2. 1..(n - 1) \subseteq 1..n /\ Front(s) = SubSeq(s, 1, n - 1)
  BY <1>1 DEF Front
<1>3. SubSeq(s, 1, n - 1) \in Seq(A) /\ Len(SubSeq(s, 1, n - 1)) = n - 1
  <2>1. ASSUME NEW k \in Nat, k <= Len(s)
        PROVE  SubSeq(s, 1, k) \in Seq(A) /\ Len(SubSeq(s, 1, k)) = k
    BY <2>1
  <2>2. n - 1 \in Nat /\ n - 1 <= Len(s)
    BY <1>1
  <2> QED  BY <2>1, <2>2
<1>4. \A i \in 1..(n - 1) : SubSeq(s, 1, n - 1)[i] = s[i]
  BY <1>1
<1> QED  BY <1>1, <1>2, <1>3, <1>4

-----------------------------------------------------------------------------
(* Vec::insert and Vec::remove.                                            *)
LEMMA InsertAtProperties ==
  ASSUME NEW A, NEW s \in Seq(A), NEW i \in 1..Len(s) + 1, NEW e \in A
  PROVE  /\ InsertAt(s, i, e) \in Seq(A)
         /\ Len(InsertAt(s, i, e)) = Len(s) + 1
         /\ \A j \in 1..Len(s) + 1 :
              InsertAt(s, i, e)[j] = IF j < i THEN s[j] ELSE IF j = i THEN e ELSE s[j - 1]
<1> DEFINE l == SubSeq(s, 1, i - 1)
           r == SubSeq(s, i, Len(s))
<1>0. Len(s) \in Nat /\ i \in Nat
  OBVIOUS
<1>1. l \in Seq(A) /\ Len(l) = i - 1 /\ \A j \in 1..i - 1 : l[j] = s[j]
  BY <1>0
<1>2. /\ r \in Seq(A) /\ Len(r) = Len(s) - i + 1
      /\ \A j \in 1..Len(s) - i + 1 : r[j] = s[i + j - 1]
  BY <1>0
<1>3. InsertAt(s, i, e) = (l \o <<e>>) \o r
  BY DEF InsertAt
<1> HIDE DEF l, r
<1> DEFINE m == l \o <<e>>
<1>4. m \in Seq(A) /\ Len(m) = i /\ \A j \in 1..i : m[j] = IF j < i THEN s[j] ELSE e
  BY <1>0, <1>1
<1> HIDE DEF m
<1>5. m \o r \in Seq(A) /\ Len(m \o r) = Len(s) + 1
  <2>0. m \in Seq(A) /\ r \in Seq(A)
    BY <1>2, <1>4
  <2>1. m \o r \in Seq(A)
    BY <2>0
  <2>2. Len(m \o r) = Len(m) + Len(r)
    BY <2>0
  <2> QED  BY <1>0, <1>2, <1>4, <2>1, <2>2
<1>6. ASSUME NEW j \in 1..Len(s) + 1
      PROVE  (m \o r)[j] = IF j < i THEN s[j] ELSE IF j = i THEN e ELSE s[j - 1]
  <2>1. CASE j <= i
    BY <1>0, <1>2, <1>4, <2>1
  <2>2. CASE j > i
    <3>1. (m \o r)[j] = r[j - i] /\ j - i \in 1..Len(s) - i + 1
      BY <1>0, <1>2, <1>4, <2>2
    <3>2. r[j - i] = s[i + (j - i) - 1] /\ i + (j - i) - 1 = j - 1
      BY <1>0, <1>2, <3>1
    <3>3. ~(j < i) /\ j # i
      BY <1>0, <2>2
    <3> QED  BY <3>1, <3>2, <3>3
  <2>3. j <= i \/ j > i
    BY <1>0
  <2> QED  BY <2>1, <2>2, <2>3
<1> QED  BY <1>3, <1>5, <1>6 DEF m

LEMMA RemoveAtProperties ==
  ASSUME NEW A, NEW s \in Seq(A), NEW i \in 1..Len(s)
  PROVE  /\ RemoveAt(s, i) \in Seq(A)
         /\ Len(RemoveAt(s, i)) = Len(s) - 1
         /\ \A j \in 1..Len(s) - 1 : RemoveAt(s, i)[j] = IF j < i THEN s[j] ELSE s[j + 1]
<1> DEFINE l == SubSeq(s, 1, i - 1)
           r == SubSeq(s, i + 1, Len(s))
<1>0. Len(s) \in Nat /\ i \in Nat
  OBVIOUS
<1>1. l \in Seq(A) /\ Len(l) = i - 1 /\ \A j \in 1..i - 1 : l[j] = s[j]
  BY <1>0
<1>2. r \in Seq(A) /\ Len(r) = Len(s) - i /\ \A j \in 1..Len(s) - i : r[j] = s[i + j]
  BY <1>0
<1>3. RemoveAt(s, i) = l \o r
  BY DEF RemoveAt
<1> HIDE DEF l, r
<1>4. l \o r \in Seq(A) /\ Len(l \o r) = Len(s) - 1
  <2>0. l \in Seq(A) /\ r \in Seq(A)
    BY <1>1, <1>2
  <2>1. l \o r \in Seq(A)
    BY <2>0
  <2>2. Len(l \o r) = Len(l) + Len(r)
    BY <2>0
  <2> QED  BY <1>0, <1>1, <1>2, <2>1, <2>2
<1>5. ASSUME NEW j \in 1..Len(s) - 1
      PROVE  (l \o r)[j] = IF j < i THEN s[j] ELSE s[j + 1]
  <2>1. CASE j < i
    BY <1>0, <1>1, <1>2, <2>1
  <2>2. CASE j >= i
    <3>1. (l \o r)[j] = r[j - (i - 1)] /\ j - (i - 1) \in 1..Len(s) - i
      BY <1>0, <1>1, <1>2, <2>2
    <3>2. r[j - (i - 1)] = s[i + (j - (i - 1))] /\ i + (j - (i - 1)) = j + 1
      BY <1>0, <1>2, <3>1
    <3>3. ~(j < i)
      BY <1>0, <2>2
    <3> QED  BY <3>1, <3>2, <3>3
  <2>3. j < i \/ j >= i
    BY <1>0
  <2> QED  BY <2>1, <2>2, <2>3
<1> QED  BY <1>3, <1>4, <1>5

-----------------------------------------------------------------------------
(* The same operations read as operations on sets, for lists without       *)
(* repetitions.                                                            *)
LEMMA RangeOf ==
  ASSUME NEW A, NEW s \in Seq(A)
  PROVE  /\ Range(s) \subseteq A /\ DOMAIN s = 1..Len(s) /\ Len(s) \in Nat
         /\ \A x : x \in Range(s) <=> \E i \in 1..Len(s) : s[i] = x
         /\ IsInjective(s) <=> \A i, j \in 1..Len(s) : i # j => s[i] # s[j]
<1>1. DOMAIN s = 1..Len(s) /\ Len(s) \in Nat /\ \A i \in 1..Len(s) : s[i] \in A
  OBVIOUS
<1>2. \A x : x \in Range(s) <=> \E i \in 1..Len(s) : s[i] = x
  BY <1>1 DEF Range
<1>3. IsInjective(s) <=> \A i, j \in 1..Len(s) : i # j => s[i] # s[j]
  BY <1>1 DEF IsInjective
<1> QED  BY <1>1, <1>2, <1>3

LEMMA KeptRange ==
  ASSUME NEW A, NEW list \in Seq(A), NEW S
  PROVE  /\ Kept(list, S) \in Seq(A)
         /\ Range(Kept(list, S)) = Range(list) \cap S
         /\ IsInjective(list) => IsInjective(Kept(list, S))
<1> DEFINE kept == Kept(list, S)
<1>1. /\ kept \in Seq(A)
      /\ \A i \in 1..Len(kept) :
           kept[i] \in S /\ \E p \in 1..Len(list) : kept[i] = list[p]
      /\ \A p \in 1..Len(list) :
           list[p] \in S => \E i \in 1..Len(kept) : kept[i] = list[p]
      /\ (\A p, q \in 1..Len(list) : p # q => list[p] # list[q])
           => (\A i, j \in 1..Len(kept) : i # j => kept[i] # kept[j])
  BY KeptProperties
<1> HIDE DEF kept
<1>2. \A x : x \in Range(kept) <=> \E i \in 1..Len(kept) : kept[i] = x
  BY <1>1, RangeOf
<1>3. \A x : x \in Range(list) <=> \E i \in 1..Len(list) : list[i] = x
  BY RangeOf
<1>4. Range(kept) = Range(list) \cap S
  <2>1. ASSUME NEW x \in Range(kept) PROVE x \in Range(list) \cap S
    <3>1. PICK i \in 1..Len(kept) : kept[i] = x
      BY <1>2, <2>1
    <3>2. x \in S /\ \E p \in 1..Len(list) : x = list[p]
      BY <1>1, <3>1
    <3> QED  BY <1>3, <3>2
  <2>2. ASSUME NEW x \in Range(list) \cap S PROVE x \in Range(kept)
    <3>1. PICK p \in 1..Len(list) : list[p] = x
      BY <1>3, <2>2
    <3>2. \E i \in 1..Len(kept) : kept[i] = x
      BY <1>1, <2>2, <3>1
    <3> QED  BY <1>2, <3>2
  <2> QED  BY <2>1, <2>2
<1>5. IsInjective(list) => IsInjective(kept)
  BY <1>1, RangeOf
<1> QED  BY <1>1, <1>4, <1>5 DEF kept

LEMMA RemoveAtRange ==
  ASSUME NEW A, NEW s \in Seq(A), NEW i \in 1..Len(s), IsInjective(s)
  PROVE  /\ RemoveAt(s, i) \in Seq(A)
         /\ Range(RemoveAt(s, i)) = Range(s) \ {s[i]}
         /\ IsInjective(RemoveAt(s, i))
<1> DEFINE t == RemoveAt(s, i)
           n == Len(s)
<1>1. /\ t \in Seq(A) /\ Len(t) = n - 1
      /\ \A j \in 1..n - 1 : t[j] = IF j < i THEN s[j] ELSE s[j + 1]
  BY RemoveAtProperties
<1>2. /\ n \in Nat /\ i \in 1..n
      /\ \A x : x \in Range(s) <=> \E j \in 1..n : s[j] = x
      /\ \A j, k \in 1..n : j # k => s[j] # s[k]
  BY RangeOf
<1>3. /\ \A x : x \in Range(t) <=> \E j \in 1..Len(t) : t[j] = x
      /\ IsInjective(t) <=> \A j, k \in 1..Len(t) : j # k => t[j] # t[k]
  BY <1>1, RangeOf, SMTT(30)
<1> HIDE DEF t, n
<1>4. ASSUME NEW x \in Range(t) PROVE x \in Range(s) \ {s[i]}
  <2>1. PICK j \in 1..n - 1 : t[j] = x
    BY <1>1, <1>3
  <2>2. /\ j \in 1..n /\ j + 1 \in 1..n /\ (j < i => j # i) /\ (~(j < i) => j + 1 # i)
    BY <1>2
  <2> QED  BY <1>1, <1>2, <2>1, <2>2
<1>5. ASSUME NEW x \in Range(s) \ {s[i]} PROVE x \in Range(t)
  <2>1. PICK j \in 1..n : s[j] = x /\ j # i
    BY <1>2
  <2>2. CASE j < i
    <3>1. j \in 1..n - 1
      BY <1>2, <2>2
    <3>2. t[j] = x
      BY <1>1, <2>1, <2>2, <3>1
    <3> QED  BY <1>1, <1>3, <3>1, <3>2
  <2>3. CASE j > i
    <3>1. j - 1 \in 1..n - 1 /\ ~(j - 1 < i) /\ (j - 1) + 1 = j
      BY <1>2, <2>3
    <3>2. t[j - 1] = x
      BY <1>1, <2>1, <3>1
    <3> QED  BY <1>1, <1>3, <3>1, <3>2
  <2>4. j < i \/ j > i
    BY <1>2, <2>1
  <2> QED  BY <2>2, <2>3, <2>4
<1>6. ASSUME NEW j \in 1..n - 1, NEW k \in 1..n - 1, j # k PROVE t[j] # t[k]
  <2> DEFINE at(p) == IF p < i THEN p ELSE p + 1
  <2>1. at(j) \in 1..n /\ at(k) \in 1..n /\ at(j) # at(k)
    BY <1>2, <1>6
  <2>2. t[j] = s[at(j)] /\ t[k] = s[at(k)]
    BY <1>1
  <2> HIDE DEF at
  <2> QED  BY <1>2, <2>1, <2>2
<1>7. Range(t) = Range(s) \ {s[i]}
  BY <1>4, <1>5
<1>8. IsInjective(t)
  BY <1>1, <1>3, <1>6
<1> QED  BY <1>1, <1>7, <1>8 DEF t

LEMMA InsertAtRange ==
  ASSUME NEW A, NEW s \in Seq(A), NEW i \in 1..Len(s) + 1, NEW e \in A
  PROVE  /\ InsertAt(s, i, e) \in Seq(A)
         /\ Range(InsertAt(s, i, e)) = Range(s) \cup {e}
         /\ IsInjective(s) /\ e \notin Range(s) => IsInjective(InsertAt(s, i, e))
<1> DEFINE t == InsertAt(s, i, e)
           n == Len(s)
<1>1. /\ t \in Seq(A) /\ Len(t) = n + 1
      /\ \A j \in 1..n + 1 :
           t[j] = IF j < i THEN s[j] ELSE IF j = i THEN e ELSE s[j - 1]
  BY InsertAtProperties
<1>2. /\ n \in Nat /\ i \in 1..n + 1
      /\ \A x : x \in Range(s) <=> \E j \in 1..n : s[j] = x
      /\ IsInjective(s) <=> \A j, k \in 1..n : j # k => s[j] # s[k]
  BY RangeOf
<1>3. /\ \A x : x \in Range(t) <=> \E j \in 1..Len(t) : t[j] = x
      /\ IsInjective(t) <=> \A j, k \in 1..Len(t) : j # k => t[j] # t[k]
  BY <1>1, RangeOf
<1> HIDE DEF t, n
<1> DEFINE at(p) == IF p < i THEN p ELSE p - 1
<1>4. ASSUME NEW j \in 1..n + 1, j # i
      PROVE  at(j) \in 1..n /\ t[j] = s[at(j)]
  <2>1. at(j) \in 1..n
    BY <1>2, <1>4
  <2> QED  BY <1>1, <1>4, <2>1
<1>5. t[i] = e
  BY <1>1, <1>2
<1>6. ASSUME NEW j \in 1..n PROVE \E k \in 1..n + 1 : k # i /\ t[k] = s[j]
  <2>1. CASE j < i
    <3>1. j \in 1..n + 1 /\ j # i
      BY <1>2, <2>1
    <3> QED  BY <1>1, <2>1, <3>1
  <2>2. CASE j >= i
    <3>1. j + 1 \in 1..n + 1 /\ j + 1 # i /\ ~(j + 1 < i) /\ (j + 1) - 1 = j
      BY <1>2, <2>2
    <3> QED  BY <1>1, <3>1
  <2>3. j < i \/ j >= i
    BY <1>2
  <2> QED  BY <2>1, <2>2, <2>3
<1>7. ASSUME NEW x \in Range(t) PROVE x \in Range(s) \cup {e}
  <2>1. PICK j \in 1..n + 1 : t[j] = x
    BY <1>1, <1>3
  <2> HIDE DEF at
  <2> QED  BY <1>2, <1>4, <1>5, <2>1
<1>8. ASSUME NEW x \in Range(s) \cup {e} PROVE x \in Range(t)
  <2> HIDE DEF at
  <2>1. i \in 1..Len(t)
    BY <1>1, <1>2
  <2>2. CASE x = e
    BY <1>3, <1>5, <2>1, <2>2
  <2>3. CASE x \in Range(s)
    BY <1>1, <1>2, <1>3, <1>6, <2>3
  <2> QED  BY <2>2, <2>3
<1>9. ASSUME IsInjective(s), e \notin Range(s),
             NEW j \in 1..n + 1, NEW k \in 1..n + 1, j # k
      PROVE  t[j] # t[k]
  <2>1. CASE j # i /\ k # i
    <3>1. at(j) # at(k)
      BY <1>2, <1>9, <2>1
    <3> HIDE DEF at
    <3> QED  BY <1>2, <1>4, <1>9, <2>1, <3>1
  <2> HIDE DEF at
  <2>2. CASE j = i
    BY <1>2, <1>4, <1>5, <1>9, <2>2
  <2>3. CASE k = i
    BY <1>2, <1>4, <1>5, <1>9, <2>3
  <2> QED  BY <2>1, <2>2, <2>3
<1> HIDE DEF at
<1>10. Range(t) = Range(s) \cup {e}
  BY <1>7, <1>8
<1>11. IsInjective(s) /\ e \notin Range(s) => IsInjective(t)
  BY <1>1, <1>3, <1>9
<1> QED  BY <1>1, <1>10, <1>11 DEF t

LEMMA ReverseRange ==
  ASSUME NEW A, NEW s \in Seq(A)
  PROVE  /\ Reverse(s) \in Seq(A)
         /\ Range(Reverse(s)) = Range(s)
         /\ IsInjective(s) => IsInjective(Reverse(s))
<1> DEFINE t == Reverse(s)
           n == Len(s)
<1>1. t \in Seq(A) /\ Len(t) = n /\ \A j \in 1..n : t[j] = s[(n - j) + 1]
  <2>1. \A j \in 1..n : s[(n - j) + 1] \in A
    OBVIOUS
  <2> QED  BY <2>1 DEF Reverse
<1>2. /\ n \in Nat
      /\ \A x : x \in Range(s) <=> \E j \in 1..n : s[j] = x
      /\ IsInjective(s) <=> \A j, k \in 1..n : j # k => s[j] # s[k]
  BY RangeOf
<1>3. /\ \A x : x \in Range(t) <=> \E j \in 1..Len(t) : t[j] = x
      /\ IsInjective(t) <=> \A j, k \in 1..Len(t) : j # k => t[j] # t[k]
  BY <1>1, RangeOf
<1> HIDE DEF t, n
<1>4. ASSUME NEW j \in 1..n
      PROVE  (n - j) + 1 \in 1..n /\ s[j] = t[(n - j) + 1]
  <2>1. (n - j) + 1 \in 1..n /\ (n - ((n - j) + 1)) + 1 = j
    BY <1>2
  <2> QED  BY <1>1, <2>1
<1>5. Range(t) = Range(s)
  <2>1. ASSUME NEW x \in Range(t) PROVE x \in Range(s)
    <3>1. PICK j \in 1..n : t[j] = x
      BY <1>1, <1>3
    <3> QED  BY <1>1, <1>2, <1>4, <3>1
  <2>2. ASSUME NEW x \in Range(s) PROVE x \in Range(t)
    <3>1. PICK j \in 1..n : s[j] = x
      BY <1>2
    <3> QED  BY <1>1, <1>3, <1>4, <3>1
  <2> QED  BY <2>1, <2>2
<1>6. IsInjective(s) => IsInjective(t)
  <2> SUFFICES ASSUME IsInjective(s), NEW j \in 1..n, NEW k \in 1..n, j # k
               PROVE  t[j] # t[k]
    BY <1>1, <1>3
  <2>1. (n - j) + 1 # (n - k) + 1
    BY <1>2
  <2> QED  BY <1>1, <1>2, <1>4, <2>1
<1> QED  BY <1>1, <1>5, <1>6 DEF t

LEMMA ConcatRange ==
  ASSUME NEW A, NEW s \in Seq(A), NEW t \in Seq(A)
  PROVE  /\ s \o t \in Seq(A)
         /\ Range(s \o t) = Range(s) \cup Range(t)
         /\ IsInjective(s) /\ IsInjective(t) /\ Range(s) \cap Range(t) = {}
              => IsInjective(s \o t)
<1> DEFINE u == s \o t
           n == Len(s)
           m == Len(t)
<1>0. u \in Seq(A)
  OBVIOUS
<1>1. Len(u) = n + m /\ n \in Nat /\ m \in Nat
  OBVIOUS
<1>2. \A j \in 1..n + m : u[j] = IF j <= n THEN s[j] ELSE t[j - n]
  OBVIOUS
<1>3. /\ \A x : x \in Range(s) <=> \E j \in 1..n : s[j] = x
      /\ IsInjective(s) <=> \A j, k \in 1..n : j # k => s[j] # s[k]
  BY RangeOf
<1>4. /\ \A x : x \in Range(t) <=> \E j \in 1..m : t[j] = x
      /\ IsInjective(t) <=> \A j, k \in 1..m : j # k => t[j] # t[k]
  BY RangeOf
<1>5. /\ \A x : x \in Range(u) <=> \E j \in 1..Len(u) : u[j] = x
      /\ IsInjective(u) <=> \A j, k \in 1..Len(u) : j # k => u[j] # u[k]
  BY <1>0, RangeOf
<1> HIDE DEF u, n, m
<1>6. \A j \in 1..n : j \in 1..n + m /\ u[j] = s[j]
  BY <1>1, <1>2
<1>7. ASSUME NEW j \in 1..m PROVE n + j \in 1..n + m /\ u[n + j] = t[j]
  <2>1. n + j \in 1..n + m /\ ~(n + j <= n) /\ (n + j) - n = j
    BY <1>1
  <2> QED  BY <1>2, <2>1
<1>8. ASSUME NEW j \in 1..n + m
      PROVE  j \in 1..n \/ (j - n \in 1..m /\ j = n + (j - n))
  BY <1>1
<1>9. Range(u) = Range(s) \cup Range(t)
  <2>1. ASSUME NEW x \in Range(u) PROVE x \in Range(s) \cup Range(t)
    <3>1. PICK j \in 1..n + m : u[j] = x
      BY <1>1, <1>5
    <3>2. CASE j \in 1..n
      BY <1>3, <1>6, <3>1, <3>2
    <3>3. CASE j - n \in 1..m /\ j = n + (j - n)
      <4>1. t[j - n] = x
        BY <1>7, <3>1, <3>3
      <4> QED  BY <1>4, <3>3, <4>1
    <3> QED  BY <1>8, <3>2, <3>3
  <2>2. ASSUME NEW x \in Range(s) PROVE x \in Range(u)
    BY <1>1, <1>3, <1>5, <1>6
  <2>3. ASSUME NEW x \in Range(t) PROVE x \in Range(u)
    BY <1>1, <1>4, <1>5, <1>7
  <2> QED  BY <2>1, <2>2, <2>3
<1>10. ASSUME IsInjective(s), IsInjective(t), Range(s) \cap Range(t) = {},
              NEW j \in 1..n + m, NEW k \in 1..n + m, j # k
       PROVE  u[j] # u[k]
  <2>1. CASE j \in 1..n /\ k \in 1..n
    BY <1>3, <1>6, <1>10, <2>1
  <2>2. CASE j - n \in 1..m /\ j = n + (j - n) /\ k - n \in 1..m /\ k = n + (k - n)
    <3>1. u[j] = t[j - n] /\ u[k] = t[k - n]
      BY <1>7, <2>2
    <3>2. j - n # k - n
      BY <1>10, <2>2
    <3> QED  BY <1>4, <1>10, <2>2, <3>1, <3>2
  <2>3. CASE j \in 1..n /\ k - n \in 1..m /\ k = n + (k - n)
    <3>1. u[j] = s[j] /\ u[k] = t[k - n]
      BY <1>6, <1>7, <2>3
    <3> QED  BY <1>3, <1>4, <1>10, <2>3, <3>1
  <2>4. CASE k \in 1..n /\ j - n \in 1..m /\ j = n + (j - n)
    <3>1. u[k] = s[k] /\ u[j] = t[j - n]
      BY <1>6, <1>7, <2>4
    <3> QED  BY <1>3, <1>4, <1>10, <2>4, <3>1
  <2> QED  BY <1>8, <2>1, <2>2, <2>3, <2>4
<1>11. IsInjective(s) /\ IsInjective(t) /\ Range(s) \cap Range(t) = {}
         => IsInjective(u)
  BY <1>1, <1>5, <1>10
<1> QED  BY <1>0, <1>9, <1>11 DEF u

(* The images of a list's elements, from the last to the first.            *)
Backwards(s, f) == [p \in 1..Len(s) |-> f[s[Len(s) + 1 - p]]]

LEMMA BackwardsRange ==
  ASSUME NEW A, NEW B, NEW s \in Seq(A), NEW f,
         \A a \in Range(s) : f[a] \in B
  PROVE  /\ Backwards(s, f) \in Seq(B)
         /\ Range(Backwards(s, f)) = {f[a] : a \in Range(s)}
         /\ IsInjective(s) /\ (\A a, b \in Range(s) : f[a] = f[b] => a = b)
              => IsInjective(Backwards(s, f))
<1> DEFINE n == Len(s)
           t == [p \in 1..n |-> f[s[n + 1 - p]]]
<1>1. /\ n \in Nat
      /\ \A x : x \in Range(s) <=> \E j \in 1..n : s[j] = x
      /\ IsInjective(s) <=> \A j, k \in 1..n : j # k => s[j] # s[k]
  BY RangeOf
<1> HIDE DEF n
<1>2. \A j \in 1..n : n + 1 - j \in 1..n /\ n + 1 - (n + 1 - j) = j
  BY <1>1
<1>3. t \in Seq(B) /\ Len(t) = n /\ \A p \in 1..n : t[p] = f[s[n + 1 - p]]
  <2>1. \A p \in 1..n : f[s[n + 1 - p]] \in B
    BY <1>1, <1>2
  <2> QED  BY <1>1, <2>1, SMTT(30)
<1> HIDE DEF t
<1>4. /\ \A x : x \in Range(t) <=> \E j \in 1..n : t[j] = x
      /\ IsInjective(t) <=> \A j, k \in 1..n : j # k => t[j] # t[k]
  BY <1>3, RangeOf
<1>5. Range(t) = {f[a] : a \in Range(s)}
  <2>1. ASSUME NEW x \in Range(t) PROVE x \in {f[a] : a \in Range(s)}
    <3>1. PICK j \in 1..n : t[j] = x
      BY <1>4
    <3>2. s[n + 1 - j] \in Range(s) /\ x = f[s[n + 1 - j]]
      BY <1>1, <1>2, <1>3, <3>1
    <3> QED  BY <3>2
  <2>2. ASSUME NEW a \in Range(s) PROVE f[a] \in Range(t)
    <3>1. PICK j \in 1..n : s[j] = a
      BY <1>1
    <3>2. t[n + 1 - j] = f[a]
      BY <1>2, <1>3, <3>1
    <3> QED  BY <1>2, <1>4, <3>2
  <2> QED  BY <2>1, <2>2
<1>6. ASSUME IsInjective(s), \A a, b \in Range(s) : f[a] = f[b] => a = b,
             NEW j \in 1..n, NEW k \in 1..n, j # k
      PROVE  t[j] # t[k]
  <2>1. n + 1 - j # n + 1 - k
    BY <1>1, <1>6
  <2>2. /\ s[n + 1 - j] \in Range(s) /\ s[n + 1 - k] \in Range(s)
        /\ s[n + 1 - j] # s[n + 1 - k]
    BY <1>1, <1>2, <1>6, <2>1
  <2> QED  BY <1>3, <1>6, <2>2
<1> QED  BY <1>3, <1>4, <1>5, <1>6 DEF t, n, Backwards

(* An element put in before the first with a greater key leaves a sorted   *)
(* list sorted.                                                            *)
SortedBy(s, key) == \A p, q \in 1..Len(s) : p < q => key[s[p]] <= key[s[q]]
Fits(s, i, e, key) ==
  /\ \A p \in 1..Len(s) : p < i => key[s[p]] <= key[e]
  /\ \A p \in 1..Len(s) : p >= i => key[e] <= key[s[p]]

LEMMA InsertSorted ==
  ASSUME NEW A, NEW s \in Seq(A), NEW i \in 1..Len(s) + 1, NEW e \in A,
         NEW key \in [A -> Int], SortedBy(s, key), Fits(s, i, e, key)
  PROVE  SortedBy(InsertAt(s, i, e), key)
<1> DEFINE t == InsertAt(s, i, e)
           n == Len(s)
<1>1. /\ t \in Seq(A) /\ Len(t) = n + 1
      /\ \A j \in 1..n + 1 :
           t[j] = IF j < i THEN s[j] ELSE IF j = i THEN e ELSE s[j - 1]
  BY InsertAtProperties
<1>2. /\ n \in Nat /\ i \in 1..n + 1
      /\ \A p, q \in 1..n : p < q => key[s[p]] <= key[s[q]]
      /\ \A p \in 1..n : p < i => key[s[p]] <= key[e]
      /\ \A p \in 1..n : p >= i => key[e] <= key[s[p]]
      /\ key[e] \in Int /\ \A p \in 1..n : key[s[p]] \in Int
  BY DEF SortedBy, Fits
<1> HIDE DEF t, n
<1>3. ASSUME NEW p \in 1..n + 1, NEW q \in 1..n + 1, p < q
      PROVE  key[t[p]] <= key[t[q]]
  <2>1. CASE q < i
    <3>1. p \in 1..n /\ q \in 1..n /\ p < i
      BY <1>2, <1>3, <2>1
    <3> QED  BY <1>1, <1>2, <1>3, <2>1, <3>1
  <2>2. CASE q = i
    <3>1. p \in 1..n /\ p < i /\ ~(q < i)
      BY <1>2, <1>3, <2>2
    <3> QED  BY <1>1, <1>2, <2>2, <3>1
  <2>3. CASE q > i
    <3>1. q - 1 \in 1..n /\ ~(q < i) /\ q # i /\ q - 1 >= i
      BY <1>2, <1>3, <2>3
    <3>2. t[q] = s[q - 1]
      BY <1>1, <3>1
    <3>3. CASE p < i
      <4>1. p \in 1..n /\ p < q - 1 /\ t[p] = s[p]
        BY <1>1, <1>2, <1>3, <3>1, <3>3
      <4> QED  BY <1>2, <3>1, <3>2, <4>1
    <3>4. CASE p = i
      <4>1. t[p] = e
        BY <1>1, <1>2, <3>4
      <4> QED  BY <1>2, <3>1, <3>2, <4>1
    <3>5. CASE p > i
      <4>1. p - 1 \in 1..n /\ p - 1 < q - 1 /\ ~(p < i) /\ p # i
        BY <1>2, <1>3, <3>5
      <4>2. t[p] = s[p - 1]
        BY <1>1, <4>1
      <4> QED  BY <1>2, <3>1, <3>2, <4>1, <4>2
    <3> QED  BY <1>2, <3>3, <3>4, <3>5
  <2> QED  BY <1>2, <2>1, <2>2, <2>3
<1> QED  BY <1>1, <1>3 DEF t, SortedBy


-----------------------------------------------------------------------------
\* Taking one element away, and putting another in its place.
LEMMA Counts ==
  ASSUME NEW S, IsFiniteSet(S), NEW c \in S
  PROVE  /\ Cardinality(S) \in Nat /\ Cardinality(S) >= 1
         /\ IsFiniteSet(S \ {c}) /\ Cardinality(S \ {c}) = Cardinality(S) - 1
         /\ \A d : d \notin S \ {c} =>
              /\ IsFiniteSet((S \ {c}) \cup {d})
              /\ Cardinality((S \ {c}) \cup {d}) = Cardinality(S)
<1>1. Cardinality(S) \in Nat /\ IsFiniteSet(S \ {c})
  BY FS_CardinalityType, FS_RemoveElement
<1>2. Cardinality(S \ {c}) = Cardinality(S) - 1 /\ Cardinality(S \ {c}) \in Nat
  BY <1>1, FS_RemoveElement, FS_CardinalityType
<1>3. ASSUME NEW d, d \notin S \ {c}
      PROVE  /\ IsFiniteSet((S \ {c}) \cup {d})
             /\ Cardinality((S \ {c}) \cup {d}) = Cardinality(S \ {c}) + 1
  BY <1>1, <1>3, FS_AddElement
<1> QED  BY <1>1, <1>2, <1>3

(* A step that only adds to a set of at most n elements adds nothing more  *)
(* after n times.                                                          *)
LEMMA GrowthEnds ==
  ASSUME NEW A, IsFiniteSet(A), NEW n \in Nat, Cardinality(A) <= n,
         NEW G, \A S \in SUBSET A : S \subseteq G[S] /\ G[S] \in SUBSET A,
         NEW F, F[0] \in SUBSET A, \A k \in 1..n : F[k] = G[F[k - 1]]
  PROVE  /\ F[n] \in SUBSET A /\ G[F[n]] = F[n]
         /\ \A k \in 0..n : F[k] \in SUBSET A
<1> DEFINE Good ==
      {k \in Nat : k <= n =>
         /\ F[k] \in SUBSET A
         /\ G[F[k]] = F[k] \/ Cardinality(F[k]) >= k}
<1>1. 0 \in Good
  <2>1. IsFiniteSet(F[0])
    BY FS_Subset
  <2>2. Cardinality(F[0]) \in Nat
    BY <2>1, FS_CardinalityType
  <2> QED  BY <2>2
<1>2. ASSUME NEW k \in Nat, k \in Good PROVE k + 1 \in Good
  <2> SUFFICES ASSUME k + 1 <= n
      PROVE  /\ F[k + 1] \in SUBSET A
             /\ G[F[k + 1]] = F[k + 1] \/ Cardinality(F[k + 1]) >= k + 1
    OBVIOUS
  <2>1. k <= n /\ k + 1 \in 1..n /\ (k + 1) - 1 = k
    OBVIOUS
  <2>2. /\ F[k] \in SUBSET A /\ F[k + 1] = G[F[k]]
        /\ G[F[k]] = F[k] \/ Cardinality(F[k]) >= k
    BY <1>2, <2>1
  <2>3. F[k + 1] \in SUBSET A /\ F[k] \subseteq F[k + 1]
    BY <2>2
  <2>4. CASE G[F[k]] = F[k]
    BY <2>2, <2>3, <2>4
  <2>5. CASE G[F[k]] # F[k]
    <3>1. IsFiniteSet(F[k]) /\ IsFiniteSet(F[k + 1])
      BY <2>2, <2>3, FS_Subset
    <3>2. Cardinality(F[k]) \in Nat /\ Cardinality(F[k + 1]) \in Nat
      BY <3>1, FS_CardinalityType
    <3>3. /\ Cardinality(F[k]) <= Cardinality(F[k + 1])
          /\ Cardinality(F[k + 1]) # Cardinality(F[k])
      BY <3>1, <2>2, <2>3, <2>5, FS_Subset
    <3>4. Cardinality(F[k]) >= k
      BY <2>2, <2>5
    <3> QED  BY <3>2, <3>3, <3>4, <2>3
  <2> QED  BY <2>4, <2>5
<1> HIDE DEF Good
<1>3. \A k \in Nat : k \in Good
  BY <1>1, <1>2, SetInduction
<1>4. \A k \in 0..n : F[k] \in SUBSET A
  BY <1>3 DEF Good
<1>5. F[n] \in SUBSET A /\ (G[F[n]] = F[n] \/ Cardinality(F[n]) >= n)
  BY <1>3 DEF Good
<1>6. CASE Cardinality(F[n]) >= n
  <2>1. IsFiniteSet(F[n]) /\ Cardinality(F[n]) <= Cardinality(A)
    BY <1>5, FS_Subset
  <2>2. Cardinality(F[n]) \in Nat /\ Cardinality(A) \in Nat
    BY <2>1, FS_CardinalityType
  <2>3. Cardinality(A) = Cardinality(F[n])
    BY <2>1, <2>2, <1>6
  <2>4. A = F[n]
    BY <2>3, <1>5, FS_Subset
  <2> QED  BY <2>4, <1>4, <1>5
<1> QED  BY <1>4, <1>5, <1>6

-----------------------------------------------------------------------------
(* Reachability and dominance.                                             *)

Graph(s, n) == n \in Nat \ {0} /\ s \in [1..n -> Seq(1..n)]

\* The blocks one edge further, without block a.
Onward(s, a, S) == S \cup ((UNION {Range(s[b]) : b \in S}) \ {a})
ReachRec(s, a, F) ==
  F = [k \in 0..Cardinality(DOMAIN s) |->
         IF k = 0 THEN {1} \ {a} ELSE Onward(s, a, F[k - 1])]

ReachedBy(F, s, n, a) ==
  /\ ReachedAvoiding(s, a) = F[n]
  /\ F[0] = {1} \ {a}
  /\ \A k \in 1..n : F[k] = Onward(s, a, F[k - 1])
  /\ \A k \in 0..n : F[k] \in SUBSET (1..n)
  /\ Onward(s, a, F[n]) = F[n]

LEMMA Edges ==
  ASSUME NEW s, NEW n, Graph(s, n)
  PROVE  /\ DOMAIN s = 1..n /\ 1 \in 1..n /\ n \in Nat
         /\ Cardinality(1..n) = n /\ IsFiniteSet(1..n)
         /\ \A b \in 1..n : s[b] \in Seq(1..n) /\ Range(s[b]) \subseteq 1..n
<1>1. n \in Nat \ {0} /\ DOMAIN s = 1..n /\ \A b \in 1..n : s[b] \in Seq(1..n)
  BY DEF Graph
<1>2. Cardinality(1..n) = n /\ IsFiniteSet(1..n)
  <2>1. 1 \in Int /\ n \in Int /\ ~(1 > n)
    BY <1>1
  <2>2. Cardinality(1..n) = n - 1 + 1 /\ IsFiniteSet(1..n)
    BY <2>1, FS_Interval
  <2> QED  BY <2>1, <2>2
<1>3. \A b \in 1..n : Range(s[b]) \subseteq 1..n
  BY <1>1, RangeOf
<1> QED  BY <1>1, <1>2, <1>3

(* The iteration in ReachedAvoiding exists, and is over after n rounds.    *)
LEMMA ReachSteps ==
  ASSUME NEW s, NEW n, Graph(s, n), NEW a
  PROVE  \E F : ReachedBy(F, s, n, a)
<1> DEFINE V == SUBSET (1..n)
           base == {1} \ {a}
           step == [p \in (1..n) \X V |-> Onward(s, a, p[2])]
<1>1. /\ DOMAIN s = 1..n /\ 1 \in 1..n /\ n \in Nat
      /\ Cardinality(1..n) = n /\ IsFiniteSet(1..n)
      /\ \A b \in 1..n : s[b] \in Seq(1..n) /\ Range(s[b]) \subseteq 1..n
  BY Edges
<1>2. \A S \in V : Onward(s, a, S) \in V /\ S \subseteq Onward(s, a, S)
  BY <1>1 DEF Onward
<1>3. step \in [(1..n) \X V -> V] /\ base \in V
  BY <1>1, <1>2
<1>4. PICK F : Follows(F, n, V, base, step)
  <2> HIDE DEF V, step, base
  <2> QED  BY <1>1, <1>3, Recursion
<1>5. /\ F \in [0..n -> V] /\ F[0] = base
      /\ \A i \in 1..n : F[i] = step[<<i, F[i - 1]>>]
  BY <1>4 DEF Follows
<1>6. ReachRec(s, a, F)
  <2>1. F = [k \in 0..n |-> F[k]]
    BY <1>5
  <2>2. ASSUME NEW k \in 1..n
        PROVE  F[k] = Onward(s, a, F[k - 1])
    <3>1. k - 1 \in 0..n
      BY <1>1
    <3>2. F[k - 1] \in V
      BY <1>5, <3>1
    <3>3. F[k] = step[<<k, F[k - 1]>>]
      BY <1>5
    <3> QED  BY <3>2, <3>3
  <2> HIDE DEF V, step
  <2>3. \A k \in 0..n : k = 0 \/ k \in 1..n
    BY <1>1
  <2>4. \A k \in 0..n : F[k] = IF k = 0 THEN {1} \ {a} ELSE Onward(s, a, F[k - 1])
    BY <2>2, <2>3, <1>5 DEF base
  <2>5. F = [k \in 0..n |-> IF k = 0 THEN {1} \ {a} ELSE Onward(s, a, F[k - 1])]
    BY <2>1, <2>4
  <2> QED  BY <2>5, <1>1 DEF ReachRec
<1>7. ReachedAvoiding(s, a) = (CHOOSE F1 : ReachRec(s, a, F1))[n]
  BY <1>1 DEF ReachedAvoiding, ReachRec, Onward
<1> HIDE DEF V, step, base
<1>8. PICK H : ReachRec(s, a, H) /\ ReachedAvoiding(s, a) = H[n]
  BY <1>6, <1>7
<1>9. \A k \in 0..n : H[k] = IF k = 0 THEN {1} \ {a} ELSE Onward(s, a, H[k - 1])
  BY <1>8, <1>1 DEF ReachRec
<1>10. /\ 0 \in 0..n /\ \A k \in 1..n : k \in 0..n /\ k # 0
  BY <1>1
<1>11. H[0] = {1} \ {a} /\ \A k \in 1..n : H[k] = Onward(s, a, H[k - 1])
  BY <1>9, <1>10
<1> DEFINE G == [S \in V |-> Onward(s, a, S)]
<1>12. /\ \A S \in V : S \subseteq G[S] /\ G[S] \in V
       /\ H[0] \in V
  BY <1>2, <1>3, <1>11 DEF base
<1> DEFINE Typed == {k \in Nat : k <= n => H[k] \in V}
<1>13. \A k \in 0..n : H[k] \in V
  <2>1. 0 \in Typed
    BY <1>12
  <2>2. ASSUME NEW k \in Nat, k \in Typed PROVE k + 1 \in Typed
    <3>1. k + 1 <= n => k \in Typed /\ k <= n /\ k + 1 \in 1..n /\ (k + 1) - 1 = k
      BY <2>2, <1>1
    <3>2. k + 1 <= n => H[k + 1] = Onward(s, a, H[k])
      BY <3>1, <1>11
    <3> QED  BY <3>1, <3>2, <1>2
  <2> HIDE DEF Typed
  <2>3. \A k \in Nat : k \in Typed
    BY <2>1, <2>2, SetInduction
  <2> QED  BY <2>3 DEF Typed
<1>14. \A k \in 1..n : H[k] = G[H[k - 1]]
  <2>1. \A k \in 1..n : k - 1 \in 0..n
    BY <1>1
  <2> QED  BY <2>1, <1>11, <1>13
<1> HIDE DEF G
<1>15. G[H[n]] = H[n]
  <2>1. \A S \in SUBSET (1..n) : S \subseteq G[S] /\ G[S] \in SUBSET (1..n)
    BY <1>12 DEF V
  <2>2. H[0] \in SUBSET (1..n)
    BY <1>12 DEF V
  <2>3. Cardinality(1..n) <= n
    BY <1>1
  <2>4. n \in Nat /\ IsFiniteSet(1..n)
    BY <1>1
  <2> HIDE <1>1, <1>5
  <2> DEFINE A == 1..n
  <2>5. /\ IsFiniteSet(A) /\ Cardinality(A) <= n /\ H[0] \in SUBSET A
        /\ \A S \in SUBSET A : S \subseteq G[S] /\ G[S] \in SUBSET A
    BY <2>1, <2>2, <2>3, <2>4
  <2> HIDE DEF A
  <2> QED  BY ONLY <2>4, <2>5, <1>14, GrowthEnds
<1>16. Onward(s, a, H[n]) = H[n]
  <2>1. n \in 0..n
    BY <1>1
  <2> QED  BY <2>1, <1>13, <1>15 DEF G
<1> QED  BY <1>8, <1>11, <1>13, <1>16 DEF V, ReachedBy

LEMMA ReachFacts ==
  ASSUME NEW s, NEW n, Graph(s, n), NEW a
  PROVE  /\ ReachedAvoiding(s, a) \subseteq 1..n
         /\ a \notin ReachedAvoiding(s, a)
         /\ a # 1 => 1 \in ReachedAvoiding(s, a)
         /\ \A b \in ReachedAvoiding(s, a) : \A c \in Range(s[b]) :
              c # a => c \in ReachedAvoiding(s, a)
<1> DEFINE R == ReachedAvoiding(s, a)
<1>0. PICK F : ReachedBy(F, s, n, a)
  BY ReachSteps
<1>1. /\ R = F[n]
      /\ F[0] = {1} \ {a}
      /\ \A k \in 1..n : F[k] = Onward(s, a, F[k - 1])
      /\ \A k \in 0..n : F[k] \in SUBSET (1..n)
      /\ Onward(s, a, F[n]) = F[n]
  BY <1>0 DEF ReachedBy
<1>2. n \in Nat /\ n \in 0..n
  BY DEF Graph
<1> HIDE DEF R
<1>3. R \subseteq 1..n /\ Onward(s, a, R) = R
  BY <1>1, <1>2
<1>4. ASSUME NEW b \in R, NEW c \in Range(s[b]), c # a
      PROVE  c \in R
  <2>1. c \in Onward(s, a, R)
    BY <1>4 DEF Onward
  <2> QED  BY <2>1, <1>3
<1> DEFINE Good == {k \in Nat : k <= n => a \notin F[k] /\ (a # 1 => 1 \in F[k])}
<1>5. \A k \in Nat : k \in Good
  <2>1. 0 \in Good
    BY <1>1
  <2>2. ASSUME NEW k \in Nat, k \in Good PROVE k + 1 \in Good
    <3> SUFFICES ASSUME k + 1 <= n
        PROVE  a \notin F[k + 1] /\ (a # 1 => 1 \in F[k + 1])
      OBVIOUS
    <3>1. k <= n /\ k + 1 \in 1..n /\ (k + 1) - 1 = k
      BY <1>2
    <3>2. F[k + 1] = Onward(s, a, F[k])
      BY <1>1, <3>1
    <3>3. a \notin F[k] /\ (a # 1 => 1 \in F[k])
      BY <2>2, <3>1
    <3> QED  BY <3>2, <3>3 DEF Onward
  <2> HIDE DEF Good
  <2> QED  BY <2>1, <2>2, SetInduction
<1>6. a \notin R /\ (a # 1 => 1 \in R)
  BY <1>1, <1>2, <1>5
<1> QED  BY <1>3, <1>4, <1>6 DEF R

(* What is closed under edges has all that can be reached: the induction   *)
(* on paths.                                                               *)
LEMMA ReachLeast ==
  ASSUME NEW s, NEW n, Graph(s, n), NEW a, NEW P, a # 1 => 1 \in P,
         \A b \in ReachedAvoiding(s, a) :
           b \in P => \A c \in Range(s[b]) : c # a => c \in P
  PROVE  ReachedAvoiding(s, a) \subseteq P
<1> DEFINE R == ReachedAvoiding(s, a)
<1>0. PICK F : ReachedBy(F, s, n, a)
  BY ReachSteps
<1>1. /\ R = F[n]
      /\ F[0] = {1} \ {a}
      /\ \A k \in 1..n : F[k] = Onward(s, a, F[k - 1])
  BY <1>0 DEF ReachedBy
<1>2. n \in Nat /\ a # 1 => 1 \in R
  BY ReachFacts DEF Graph
<1>3. \A b \in R : \A c \in Range(s[b]) : c # a => c \in R
  BY ReachFacts
<1>4. \A b \in R : b \in P => \A c \in Range(s[b]) : c # a => c \in P
  OBVIOUS
<1> HIDE DEF R
<1> DEFINE Good == {k \in Nat : k <= n => F[k] \subseteq P \cap R}
<1>5. \A k \in Nat : k \in Good
  <2>1. 0 \in Good
    <3>1. a # 1 => 1 \in R
      BY ReachFacts DEF R
    <3> QED  BY <1>1, <3>1
  <2>2. ASSUME NEW k \in Nat, k \in Good PROVE k + 1 \in Good
    <3> SUFFICES ASSUME k + 1 <= n PROVE F[k + 1] \subseteq P \cap R
      OBVIOUS
    <3>1. k <= n /\ k + 1 \in 1..n /\ (k + 1) - 1 = k /\ n \in Nat
      BY DEF Graph
    <3>2. F[k + 1] = Onward(s, a, F[k]) /\ F[k] \subseteq P \cap R
      BY <1>1, <2>2, <3>1
    <3>3. ASSUME NEW x \in F[k + 1], x \notin F[k]
          PROVE  x \in P \cap R
      <4>1. PICK b \in F[k] : x \in Range(s[b]) /\ x # a
        BY <3>2, <3>3 DEF Onward
      <4> QED  BY <1>3, <1>4, <3>2, <4>1
    <3> QED  BY <3>2, <3>3
  <2> HIDE DEF Good
  <2> QED  BY <2>1, <2>2, SetInduction
<1>6. n \in Nat
  BY DEF Graph
<1>7. R \subseteq P
  BY <1>1, <1>5, <1>6
<1> QED  BY <1>7 DEF R

\* Dominance is reflexive and transitive; whatever dominates a block that
\* can be reached can be reached, and comes strictly before it or is it.
LEMMA DomTransitive ==
  ASSUME NEW s, NEW n, Graph(s, n), NEW a, NEW b, NEW c,
         Dominates(s, a, b), Dominates(s, b, c)
  PROVE  Dominates(s, a, c)
<1>1. b \notin ReachedAvoiding(s, a) /\ c \notin ReachedAvoiding(s, b)
  BY DEF Dominates
<1>2. b # 1 => 1 \in ReachedAvoiding(s, b)
  BY ReachFacts
<1>3. CASE a = b
  BY <1>1, <1>3 DEF Dominates
<1>4. CASE a # b
  <2>1. a # 1 => b # 1
    BY <1>1, ReachFacts
  <2>2. \A x \in ReachedAvoiding(s, a) : \A y \in Range(s[x]) :
          y # a => y \in ReachedAvoiding(s, a) /\ y # b
    BY <1>1, ReachFacts
  <2>3. \A x \in ReachedAvoiding(s, b) : \A y \in Range(s[x]) :
          y # b => y \in ReachedAvoiding(s, b)
    BY ReachFacts
  <2>4. ReachedAvoiding(s, a) \subseteq ReachedAvoiding(s, b)
    BY <1>2, <2>1, <2>2, <2>3, ReachLeast
  <2> QED  BY <1>1, <2>4 DEF Dominates
<1> QED  BY <1>3, <1>4

LEMMA DomReached ==
  ASSUME NEW s, NEW n, Graph(s, n), NEW a, NEW b
  PROVE  /\ Dominates(s, a, a)
         /\ b \notin Reachable(s) => Dominates(s, a, b)
         /\ b \in Reachable(s) /\ Dominates(s, a, b) => a \in Reachable(s)
<1>1. Dominates(s, a, a)
  BY ReachFacts DEF Dominates
<1>2. /\ Reachable(s) \subseteq 1..n /\ 1 \in Reachable(s)
      /\ \A x \in Reachable(s) : \A y \in Range(s[x]) : y \in Reachable(s)
  <2>1. 0 # 1 /\ 0 \notin 1..n
    BY DEF Graph
  <2>2. \A x \in 1..n : Range(s[x]) \subseteq 1..n
    BY Edges
  <2>3. \A x \in Reachable(s) : \A y \in Range(s[x]) : y # 0
    BY <2>1, <2>2, ReachFacts DEF Reachable
  <2> QED  BY <2>1, <2>3, ReachFacts DEF Reachable
<1>3. ReachedAvoiding(s, a) \subseteq Reachable(s)
  BY <1>2, ReachLeast
<1>4. ASSUME a \notin Reachable(s)
      PROVE  Reachable(s) \subseteq ReachedAvoiding(s, a)
  <2>1. a # 1
    BY <1>2, <1>4
  <2>2. 1 \in ReachedAvoiding(s, a)
    BY <2>1, ReachFacts
  <2>3. \A x \in ReachedAvoiding(s, 0) : \A y \in Range(s[x]) : y # a
    BY <1>2, <1>4 DEF Reachable
  <2>4. \A x \in ReachedAvoiding(s, a) : \A y \in Range(s[x]) :
          y # a => y \in ReachedAvoiding(s, a)
    BY ReachFacts
  <2>5. ReachedAvoiding(s, 0) \subseteq ReachedAvoiding(s, a)
    BY <2>2, <2>3, <2>4, ReachLeast
  <2> QED  BY <2>5 DEF Reachable
<1> QED  BY <1>1, <1>3, <1>4 DEF Dominates

LEMMA ReachableFacts ==
  ASSUME NEW s, NEW n, Graph(s, n)
  PROVE  /\ Reachable(s) \subseteq 1..n /\ 1 \in Reachable(s)
         /\ \A x \in Reachable(s) : \A y \in Range(s[x]) : y \in Reachable(s)
<1>1. 0 # 1 /\ 0 \notin 1..n
  BY DEF Graph
<1>2. \A x \in 1..n : Range(s[x]) \subseteq 1..n
  BY Edges
<1>3. \A x \in Reachable(s) : \A y \in Range(s[x]) : y # 0
  BY <1>1, <1>2, ReachFacts DEF Reachable
<1> QED  BY <1>1, <1>3, ReachFacts DEF Reachable

(* Two blocks that can be reached dominate each other only if they are one. *)
LEMMA DomAntisymmetric ==
  ASSUME NEW s, NEW n, Graph(s, n), NEW a, NEW b, b \in Reachable(s),
         Dominates(s, a, b), Dominates(s, b, a)
  PROVE  a = b
<1> SUFFICES ASSUME a # b PROVE FALSE
  OBVIOUS
<1> DEFINE P == ReachedAvoiding(s, a) \cap ReachedAvoiding(s, b)
<1>1. b \notin ReachedAvoiding(s, a) /\ a \notin ReachedAvoiding(s, b)
  BY DEF Dominates
<1>2. a # 1 /\ b # 1 /\ 1 \in P
  BY <1>1, ReachFacts
<1>3. \A x \in P : \A y \in Range(s[x]) : y \in P
  <2> SUFFICES ASSUME NEW x \in P, NEW y \in Range(s[x]) PROVE y \in P
    OBVIOUS
  <2>1. y # a => y \in ReachedAvoiding(s, a)
    BY ReachFacts
  <2>2. y # b => y \in ReachedAvoiding(s, b)
    BY ReachFacts
  <2> QED  BY <1>1, <2>1, <2>2
<1>4. Reachable(s) \subseteq P
  <2> HIDE DEF P
  <2>1. ReachedAvoiding(s, 0) \subseteq P
    BY <1>2, <1>3, ReachLeast
  <2> QED  BY <2>1 DEF Reachable
<1> QED  BY <1>1, <1>4

LEMMA EntryDominates ==
  ASSUME NEW s, NEW n, Graph(s, n), NEW b
  PROVE  Dominates(s, 1, b)
<1> DEFINE None == {}
<1>1. \A x \in ReachedAvoiding(s, 1) :
        x \in None => \A c \in Range(s[x]) : c # 1 => c \in None
  OBVIOUS
<1> HIDE DEF None
<1>2. ReachedAvoiding(s, 1) \subseteq None
  BY <1>1, ReachLeast
<1> QED  BY <1>2 DEF Dominates, None

\* What dominates a block dominates the blocks it is entered from.
LEMMA DomBefore ==
  ASSUME NEW s, NEW n, Graph(s, n), NEW a, NEW x, NEW y \in Range(s[x]),
         Dominates(s, a, y), a # y
  PROVE  Dominates(s, a, x)
BY ReachFacts DEF Dominates

(* The way first taken into a block does not pass through it: what         *)
(* dominates all its predecessors that the block itself does not dominate  *)
(* comes strictly before the block.                                        *)
LEMMA FirstArrival ==
  ASSUME NEW s, NEW n, Graph(s, n), NEW a, NEW b, b \in Reachable(s), b # 1,
         \A x \in Preds(s, b) : Dominates(s, a, x) \/ Dominates(s, b, x)
  PROVE  Dominates(s, a, b) /\ a # b
<1> DEFINE R(x) == ReachedAvoiding(s, x)
<1>1. DOMAIN s = 1..n
  BY Edges
<1>2. 1 \in R(b) /\ b \notin R(b)
  BY ReachFacts
<1>3. \A c : R(c) \subseteq 1..n
  BY ReachFacts
<1>4. ASSUME NEW c, \A x \in R(c) : b \in Range(s[x]) => x \notin R(b)
      PROVE  R(c) \subseteq R(b)
  <2>1. ASSUME NEW x \in R(c), x \in R(b), NEW y \in Range(s[x])
        PROVE  y \in R(b)
    <3>1. y # b
      BY <1>4, <2>1
    <3> QED  BY <2>1, <3>1, ReachFacts
  <2> QED  BY <1>2, <2>1, ReachLeast
<1>5. Dominates(s, a, b)
  <2> SUFFICES ASSUME b \in R(a) PROVE FALSE
    BY DEF Dominates
  <2>1. ASSUME NEW x \in R(a), b \in Range(s[x]) PROVE x \notin R(b)
    <3>1. x \in Preds(s, b)
      BY <1>1, <1>3, <2>1 DEF Preds
    <3> QED  BY <3>1 DEF Dominates
  <2>2. R(a) \subseteq R(b)
    BY <2>1, <1>4
  <2> QED  BY <1>2, <2>2
<1>6. a # b
  <2> SUFFICES ASSUME a = b PROVE FALSE
    OBVIOUS
  <2>1. ASSUME NEW x \in R(0), b \in Range(s[x]) PROVE x \notin R(b)
    <3>1. x \in Preds(s, b)
      BY <1>1, <1>3, <2>1 DEF Preds
    <3> QED  BY <3>1 DEF Dominates
  <2>2. R(0) \subseteq R(b)
    BY <2>1, <1>4
  <2> QED  BY <1>2, <2>2 DEF Reachable
<1> QED  BY <1>5, <1>6

-----------------------------------------------------------------------------
(* Depth-first trees and semidominators (Lengauer and Tarjan), in terms of *)
(* the numbers the search gives: A[v] has v and the vertices above it in   *)
(* the tree, E the edges.                                                  *)

\* Numbers below a vertex are consecutive.
DFTree(par, N, A) ==
  /\ N \in Nat \ {0} /\ A \in [1..N -> SUBSET (1..N)] /\ A[1] = {1}
  /\ \A v \in 2..N : par[v] \in 1..(v - 1) /\ A[v] = {v} \cup A[par[v]]
  /\ \A v \in 1..N : \A u \in A[v] :
       u <= v /\ A[u] \subseteq A[v] /\ \A k \in u..v : u \in A[k]

\* An edge to a larger number goes down the tree.
DFEdges(par, N, A, E) ==
  /\ \A v \in 2..N : <<par[v], v>> \in E
  /\ \A u, v \in 1..N : <<u, v>> \in E /\ u < v => u \in A[v]

\* What the semidominator of k is, from those of larger numbers.
Semi(N, A, E, S, k) ==
  /\ S[k] \in 1..N
  /\ \A u \in 1..N : <<u, k>> \in E =>
       (u <= k => S[k] <= u) /\ \A x \in A[u] : x > k => S[k] <= S[x]
  /\ \E u \in 1..N :
       /\ <<u, k>> \in E
       /\ (u < k /\ S[k] = u) \/ \E x \in A[u] : x > k /\ S[k] = S[x]

LEMMA TreeFacts ==
  ASSUME NEW par, NEW N, NEW A, DFTree(par, N, A)
  PROVE  /\ N \in Nat /\ N >= 1 /\ \A v \in 1..N : A[v] \subseteq 1..N
         /\ \A v \in 1..N : v \in A[v] /\ 1 \in A[v]
         /\ \A v \in 2..N : par[v] \in A[v] /\ par[v] \in 1..N /\ par[v] < v
         /\ \A v \in 2..N : \A u \in A[v] : u # v => u \in A[par[v]] /\ u <= par[v]
<1>1. /\ N \in Nat \ {0} /\ A \in [1..N -> SUBSET (1..N)] /\ A[1] = {1}
      /\ \A v \in 2..N : par[v] \in 1..(v - 1) /\ A[v] = {v} \cup A[par[v]]
      /\ \A v \in 1..N : \A u \in A[v] : u <= v /\ \A k \in u..v : u \in A[k]
  BY DEF DFTree
<1>2. /\ N \in Nat /\ N >= 1 /\ 1 \in 1..N /\ \A v \in 1..N : A[v] \subseteq 1..N
      /\ \A v \in 1..N : v = 1 \/ v \in 2..N
  BY <1>1
<1>3. \A v \in 2..N : par[v] \in 1..N /\ par[v] < v /\ v \in 1..N
  BY <1>1, <1>2
<1>4. \A v \in 1..N : v \in A[v]
  BY <1>1, <1>2
<1>5. \A v \in 2..N : par[v] \in A[v]
  BY <1>1, <1>3, <1>4
<1>6. \A v \in 1..N : 1 \in A[v]
  <2> SUFFICES ASSUME NEW T, T = {v \in 1..N : 1 \notin A[v]}, T # {} PROVE FALSE
    OBVIOUS
  <2>1. T \in SUBSET Nat
    BY <1>2
  <2>2. PICK m \in T : \A y \in T : m <= y
    BY <2>1, Least
  <2>3. m \in 1..N /\ 1 \notin A[m] /\ m # 1
    BY <2>2, <1>1
  <2>4. m \in 2..N
    BY <2>3, <1>2
  <2>5. 1 \notin A[par[m]]
    BY <2>3, <2>4, <1>1
  <2>6. par[m] \in T
    BY <2>4, <2>5, <1>3
  <2> QED  BY <2>2, <2>4, <2>6, <1>3
<1>7. \A v \in 2..N : \A u \in A[v] : u # v => u \in A[par[v]] /\ u <= par[v]
  BY <1>1, <1>3
<1> QED  BY <1>2, <1>3, <1>4, <1>5, <1>6, <1>7

(* A semidominator is above its vertex.                                    *)
LEMMA SemiAbove ==
  ASSUME NEW par, NEW N, NEW A, NEW E, NEW S, DFTree(par, N, A), DFEdges(par, N, A, E),
         NEW low \in Nat, low >= 2, \A k \in low..N : Semi(N, A, E, S, k)
  PROVE  \A k \in low..N : S[k] \in A[k] /\ S[k] < k /\ S[k] \in 1..N
<1>0. /\ N \in Nat /\ N >= 1 /\ \A v \in 1..N : A[v] \subseteq 1..N /\ v \in A[v]
      /\ \A v \in 2..N : par[v] \in 1..N /\ par[v] < v
  BY TreeFacts
<1>1. \A v \in 1..N : \A u \in A[v] : \A k \in u..v : u \in A[k]
  BY DEF DFTree
<1>2. \A k \in low..N : k \in 2..N /\ k \in 1..N /\ S[k] \in 1..N /\ S[k] < k
  <2> SUFFICES ASSUME NEW k \in low..N
      PROVE  k \in 2..N /\ k \in 1..N /\ S[k] \in 1..N /\ S[k] < k
    OBVIOUS
  <2>1. k \in 2..N /\ k \in 1..N /\ S[k] \in 1..N
    BY <1>0 DEF Semi
  <2>2. <<par[k], k>> \in E /\ par[k] \in 1..N /\ par[k] < k
    BY <2>1, <1>0 DEF DFEdges
  <2>3. S[k] <= par[k]
    BY <2>1, <2>2 DEF Semi
  <2> QED  BY <2>1, <2>2, <2>3
<1> SUFFICES ASSUME NEW T, T = {k \in low..N : S[k] \notin A[k]}, T # {} PROVE FALSE
  BY <1>2
<1>3. T \in SUBSET (0..N)
  BY <1>0
<1>4. PICK m \in T : \A y \in T : y <= m
  BY <1>0, <1>3, Greatest
<1>5. m \in low..N /\ S[m] \notin A[m]
  BY <1>4
<1>6. PICK u \in 1..N : /\ <<u, m>> \in E
                        /\ (u < m /\ S[m] = u) \/ \E x \in A[u] : x > m /\ S[m] = S[x]
  BY <1>5 DEF Semi
<1>7. ~(u < m /\ S[m] = u)
  BY <1>2, <1>5, <1>6 DEF DFEdges
<1>8. PICK x \in A[u] : x > m /\ S[m] = S[x]
  BY <1>6, <1>7
<1>9. x \in low..N /\ x \in 1..N /\ x \notin T
  BY <1>0, <1>4, <1>5, <1>8
<1>10. S[x] \in A[x] /\ S[m] < m /\ m \in S[x]..x
  BY <1>2, <1>5, <1>8, <1>9
<1>11. S[m] \in A[m]
  BY <1>1, <1>8, <1>9, <1>10
<1> QED  BY <1>5, <1>11

(* The vertices below a, from whose way down from a no edge leads in from  *)
(* above a: they are entered through a only.                               *)
Under(N, A, S, a) ==
  {k \in 1..N : a \in A[k] /\ a # k /\ \A x \in A[k] : x > a => S[x] >= a}

LEMMA UnderClosed ==
  ASSUME NEW par, NEW N, NEW A, NEW E, NEW S, DFTree(par, N, A), DFEdges(par, N, A, E),
         \A k \in 2..N : Semi(N, A, E, S, k), NEW a \in 1..N,
         NEW k \in Under(N, A, S, a), NEW u \in 1..N, <<u, k>> \in E, u # a
  PROVE  u \in Under(N, A, S, a)
<1>0. /\ N \in Nat /\ N >= 1
      /\ \A v \in 1..N : A[v] \subseteq 1..N /\ v \in A[v] /\ 1 \in A[v]
      /\ \A v \in 2..N : par[v] \in A[v] /\ par[v] \in 1..N /\ par[v] < v
  BY TreeFacts
<1>1. \A v \in 1..N : \A w \in A[v] :
        w <= v /\ A[w] \subseteq A[v] /\ \A j \in w..v : w \in A[j]
  BY DEF DFTree
<1>2. \A v \in 2..N : S[v] \in 1..N
  BY DEF Semi
<1>3. /\ k \in 1..N /\ a \in A[k] /\ a # k /\ a < k /\ k \in 2..N
      /\ \A x \in A[k] : x > a => S[x] >= a
  BY <1>0, <1>1 DEF Under
<1>4. /\ u <= k => S[k] <= u
      /\ \A x \in A[u] : x > k => S[k] <= S[x]
      /\ S[k] >= a /\ S[k] \in 1..N
  BY <1>0, <1>2, <1>3 DEF Semi
<1>5. CASE u <= k
  <2>1. u \in A[k] /\ u > a
    BY <1>0, <1>3, <1>4, <1>5 DEF DFEdges
  <2>2. a \in A[u] /\ A[u] \subseteq A[k]
    BY <1>1, <1>3, <1>5, <2>1
  <2> QED  BY <1>3, <2>1, <2>2 DEF Under
<1>6. CASE u > k
  <2>1. \A x \in A[u] : x > k => S[x] >= a
    <3> SUFFICES ASSUME NEW x \in A[u], x > k PROVE S[x] >= a
      OBVIOUS
    <3>1. x \in 2..N
      BY <1>0, <1>3
    <3> QED  BY <1>2, <1>4, <3>1
  <2> DEFINE T == {x \in A[u] : x > k}
  <2>2. T \in SUBSET Nat /\ u \in T
    BY <1>0, <1>6
  <2>3. PICK y \in T : \A x \in T : y <= x
    BY <2>2, Least
  <2>4. y \in A[u] /\ y > k /\ y \in 2..N /\ \A x \in A[u] : x > k => y <= x
    BY <1>0, <1>3, <2>3
  <2> DEFINE q == par[y]
  <2>5. q \in 1..N /\ q \in A[y] /\ q \in A[u] /\ q < y /\ <<q, y>> \in E
    BY <1>0, <1>1, <2>4 DEF DFEdges
  <2> HIDE DEF q, T
  <2>6. q <= k
    BY <2>4, <2>5, <1>0, <1>3
  <2>7. S[y] <= q /\ S[k] <= S[y] /\ S[y] \in 1..N
    BY <1>2, <1>4, <2>4, <2>5 DEF Semi
  <2>8. a <= q
    BY <1>4, <2>7, <2>5
  <2>9. q \in A[k]
    <3>1. k \in q..y
      BY <1>3, <2>4, <2>5, <2>6
    <3>2. y \in 1..N
      BY <2>4
    <3> QED  BY <1>1, <2>5, <3>1, <3>2
  <2>10. a \in A[q]
    <3>1. q \in a..k
      BY <1>3, <2>5, <2>6, <2>8
    <3> QED  BY <1>1, <1>3, <3>1
  <2>11. a \in A[u]
    BY <1>1, <2>5, <2>10
  <2>12. ASSUME NEW x \in A[u], x > a PROVE S[x] >= a
    <3>1. CASE x > k
      BY <2>1, <3>1
    <3>2. CASE x <= k
      <4>1. x \in 1..N /\ x < y /\ x <= u /\ y <= u
        BY <1>0, <1>1, <1>3, <2>4, <3>2
      <4>2. x \in A[y]
        <5>1. y \in x..u
          BY <2>4, <4>1
        <5> QED  BY <1>1, <5>1
      <4>3. x \in A[k]
        <5>1. k \in x..y
          BY <1>3, <2>4, <3>2, <4>1
        <5>2. y \in 1..N
          BY <2>4
        <5> QED  BY <1>1, <4>2, <5>1, <5>2
      <4> QED  BY <1>3, <2>12, <4>3
    <3>3. x \in 1..N
      BY <1>0
    <3> QED  BY <1>3, <3>1, <3>2, <3>3
  <2> QED  BY <2>11, <2>12 DEF Under
<1> QED  BY <1>3, <1>5, <1>6

\* What the buckets and the last pass make of the semidominators: u is the
\* vertex of least semidominator on the way from w's up to w.
LeastOnWay(A, S, w, u) ==
  u \in A[w] /\ u > S[w] /\ \A x \in A[w] : x > S[w] => S[u] <= S[x]
Implied(N, A, S, D) ==
  \A w \in 2..N : \E u \in A[w] :
    LeastOnWay(A, S, w, u) /\ D[w] = IF S[u] < S[w] THEN D[u] ELSE S[w]

LEMMA ImpliedFacts ==
  ASSUME NEW par, NEW N, NEW A, NEW E, NEW S, NEW D,
         DFTree(par, N, A), DFEdges(par, N, A, E),
         \A k \in 2..N : Semi(N, A, E, S, k), Implied(N, A, S, D)
  PROVE  \A w \in 2..N :
           /\ D[w] \in 1..N /\ w \in Under(N, A, S, D[w])
           /\ \A c \in A[w] : D[w] < c /\ c < w => \E x \in A[w] : x > c /\ S[x] < c
<1>0. /\ N \in Nat /\ N >= 1
      /\ \A v \in 1..N : A[v] \subseteq 1..N /\ v \in A[v] /\ 1 \in A[v]
  BY TreeFacts
<1>1. \A v \in 1..N : \A w \in A[v] :
        w <= v /\ A[w] \subseteq A[v] /\ \A j \in w..v : w \in A[j]
  BY DEF DFTree
<1>2. \A v \in 2..N : S[v] \in A[v] /\ S[v] < v /\ S[v] \in 1..N
  <2>1. 2 \in Nat /\ 2 >= 2
    OBVIOUS
  <2> QED  BY <2>1, SemiAbove
<1> DEFINE Fine(w) ==
      /\ D[w] \in 1..N /\ w \in Under(N, A, S, D[w])
      /\ \A c \in A[w] : D[w] < c /\ c < w => \E x \in A[w] : x > c /\ S[x] < c
<1> SUFFICES \A w \in 2..N : Fine(w)
  OBVIOUS
<1> HIDE DEF Fine
<1> SUFFICES ASSUME NEW T, T = {w \in 2..N : ~Fine(w)}, T # {} PROVE FALSE
  OBVIOUS
<1>3. PICK w \in T : \A y \in T : w <= y
  <2>1. T \in SUBSET Nat
    BY <1>0
  <2> QED  BY <2>1, Least
<1>4. w \in 2..N /\ w \in 1..N /\ \A y \in 2..N : y < w => Fine(y)
  BY <1>0, <1>3
<1>5. PICK u \in A[w] : /\ LeastOnWay(A, S, w, u)
                        /\ D[w] = IF S[u] < S[w] THEN D[u] ELSE S[w]
  BY <1>4 DEF Implied
<1>6. /\ u > S[w] /\ u \in 1..N /\ u \in 2..N /\ u <= w
      /\ \A x \in A[w] : x > S[w] => S[u] <= S[x]
      /\ S[w] \in A[w] /\ S[w] < w /\ S[w] \in 1..N
  <2>1. S[w] \in A[w] /\ S[w] < w /\ S[w] \in 1..N
    BY <1>2, <1>4
  <2>2. u > S[w] /\ \A x \in A[w] : x > S[w] => S[u] <= S[x]
    BY <1>5 DEF LeastOnWay
  <2>3. u \in 1..N /\ u <= w
    BY <1>0, <1>1, <1>4, <1>5
  <2> QED  BY <1>0, <2>1, <2>2, <2>3
<1>7. S[u] \in 1..N
  BY <1>2, <1>6
<1>8. CASE S[u] < S[w]
  <2>1. D[w] = D[u] /\ u # w /\ u < w
    BY <1>5, <1>6, <1>8
  <2>2. Fine(u)
    BY <1>4, <1>6, <2>1
  <2> DEFINE a == D[u]
  <2>3. /\ a \in 1..N /\ a \in A[u] /\ a # u /\ a < u
        /\ \A x \in A[u] : x > a => S[x] >= a
        /\ \A c \in A[u] : a < c /\ c < u => \E x \in A[u] : x > c /\ S[x] < c
    BY <1>1, <1>6, <2>2 DEF Fine, Under
  <2> HIDE DEF a
  <2>4. D[w] = a
    BY <2>1 DEF a
  <2>5. A[u] \subseteq A[w] /\ a \in A[w] /\ a # w
    BY <1>1, <1>4, <1>5, <1>6, <2>3
  <2>6. S[u] >= a
    BY <1>0, <1>6, <2>3
  <2>7. ASSUME NEW x \in A[w], x > a PROVE S[x] >= a
    <3>1. x \in 1..N /\ x <= w
      BY <1>0, <1>1, <1>4
    <3>2. CASE x <= u
      <4>1. u \in x..w
        BY <1>6, <3>1, <3>2
      <4>2. x \in A[u]
        BY <1>1, <1>4, <4>1
      <4> QED  BY <2>3, <2>7, <4>2
    <3>3. CASE x > u
      <4>1. x > S[w] /\ x \in 2..N
        BY <1>6, <3>1, <3>3
      <4>2. S[x] \in 1..N /\ S[u] <= S[x]
        BY <1>2, <1>6, <4>1
      <4> QED  BY <1>7, <2>3, <2>6, <4>2
    <3> QED  BY <1>6, <3>1, <3>2, <3>3
  <2>8. w \in Under(N, A, S, a)
    BY <1>4, <2>5, <2>7 DEF Under
  <2>9. ASSUME NEW c \in A[w], a < c, c < w PROVE \E x \in A[w] : x > c /\ S[x] < c
    <3>1. c \in 1..N
      BY <1>0, <1>4
    <3>2. CASE c > S[w]
      BY <1>0, <1>4, <2>9, <3>2
    <3>3. CASE c <= S[w]
      <4>1. c < u /\ u \in c..w
        BY <1>6, <3>1, <3>3
      <4>2. c \in A[u]
        BY <1>1, <1>4, <4>1
      <4> QED  BY <2>3, <2>5, <2>9, <4>1, <4>2
    <3> QED  BY <1>6, <3>1, <3>2, <3>3
  <2>10. Fine(w)
    BY <2>3, <2>4, <2>8, <2>9 DEF Fine
  <2> QED  BY <1>3, <2>10
<1>9. CASE ~(S[u] < S[w])
  <2>1. D[w] = S[w]
    BY <1>5, <1>9
  <2>2. ASSUME NEW x \in A[w], x > S[w] PROVE S[x] >= S[w]
    <3>1. x \in 1..N /\ x \in 2..N
      BY <1>0, <1>4, <1>6, <2>2
    <3>2. S[x] \in 1..N /\ S[u] <= S[x]
      BY <1>2, <1>6, <2>2, <3>1
    <3> QED  BY <1>6, <1>7, <1>9, <3>2
  <2>3. w \in Under(N, A, S, S[w])
    BY <1>4, <1>6, <2>2 DEF Under
  <2>4. ASSUME NEW c \in A[w], S[w] < c, c < w PROVE \E x \in A[w] : x > c /\ S[x] < c
    BY <1>0, <1>4, <2>4
  <2>5. Fine(w)
    BY <1>6, <2>1, <2>3, <2>4 DEF Fine
  <2> QED  BY <1>3, <2>5
<1> QED  BY <1>8, <1>9

\* The numbers of the blocks that can be reached, and the edges among them.
NumbersReached(s, n, V, N, E) ==
  /\ Graph(s, n) /\ N \in Nat \ {0} /\ V \in [1..N -> 1..n] /\ V[1] = 1
  /\ \A i, j \in 1..N : V[i] = V[j] => i = j
  /\ \A b \in 1..n : b \in Reachable(s) <=> \E i \in 1..N : V[i] = b
  /\ \A i, j \in 1..N : <<i, j>> \in E <=> V[j] \in Range(s[V[i]])

LEMMA UnderDominates ==
  ASSUME NEW s, NEW n, NEW V, NEW par, NEW N, NEW A, NEW E, NEW S, NumbersReached(s, n, V, N, E),
         DFTree(par, N, A), DFEdges(par, N, A, E),
         \A k \in 2..N : Semi(N, A, E, S, k), NEW a \in 1..N, NEW w \in Under(N, A, S, a)
  PROVE  Dominates(s, V[a], V[w])
<1>1. /\ Graph(s, n) /\ V \in [1..N -> 1..n] /\ V[1] = 1
      /\ \A i, j \in 1..N : V[i] = V[j] => i = j
      /\ \A b \in 1..n : b \in Reachable(s) <=> \E i \in 1..N : V[i] = b
      /\ \A i, j \in 1..N : <<i, j>> \in E <=> V[j] \in Range(s[V[i]])
  BY DEF NumbersReached
<1> DEFINE P == {b \in 1..n : \A k \in Under(N, A, S, a) : V[k] # b}
<1>2. w \in 1..N /\ V[w] \notin P
  BY DEF Under
<1>3. 1 \in P
  <2>1. 1 \notin Under(N, A, S, a)
    BY DEF Under, DFTree
  <2>2. Under(N, A, S, a) \subseteq 1..N
    BY DEF Under
  <2>3. 1 \in 1..n /\ 1 \in 1..N
    BY <1>1, Edges DEF NumbersReached
  <2> QED  BY <1>1, <2>1, <2>2, <2>3
<1>4. ASSUME NEW b \in ReachedAvoiding(s, V[a]), b \in P,
             NEW c \in Range(s[b]), c # V[a]
      PROVE  c \in P
  <2> SUFFICES ASSUME NEW k \in Under(N, A, S, a), V[k] = c PROVE FALSE
    <3>1. c \in 1..n
      BY <1>1, <1>4, Edges
    <3> QED  BY <3>1
  <2>1. b # V[a] /\ b \in Reachable(s)
    <3>1. V[a] \notin ReachedAvoiding(s, V[a])
      BY <1>1, ReachFacts
    <3>2. b \notin Reachable(s) => Dominates(s, V[a], b)
      BY <1>1, DomReached
    <3> QED  BY <1>4, <3>1, <3>2 DEF Dominates
  <2>2. PICK u \in 1..N : V[u] = b
    BY <1>1, <1>4, <2>1
  <2>3. k \in 1..N /\ <<u, k>> \in E /\ u # a
    BY <1>1, <1>4, <2>1, <2>2 DEF Under
  <2>4. u \in Under(N, A, S, a)
    BY <2>3, UnderClosed
  <2> QED  BY <1>4, <2>2, <2>4
<1> HIDE DEF P
<1>5. ReachedAvoiding(s, V[a]) \subseteq P
  BY <1>1, <1>3, <1>4, ReachLeast
<1> QED  BY <1>2, <1>5 DEF Dominates

(* From a vertex that is reached without c the tree leads on without c, as *)
(* long as c is not on the way.                                            *)
LEMMA TreeWalk ==
  ASSUME NEW s, NEW n, NEW V, NEW par, NEW N, NEW A, NEW E, NumbersReached(s, n, V, N, E),
         DFTree(par, N, A), DFEdges(par, N, A, E), NEW c \in 1..N,
         NEW w \in 1..N, NEW u \in A[w], V[u] \in ReachedAvoiding(s, V[c]),
         \A x \in A[w] : x > u => x # c
  PROVE  V[w] \in ReachedAvoiding(s, V[c])
<1> DEFINE R == ReachedAvoiding(s, V[c])
<1>0. /\ N \in Nat /\ \A v \in 1..N : A[v] \subseteq 1..N /\ v \in A[v]
      /\ \A v \in 2..N : /\ par[v] \in A[v] /\ par[v] \in 1..N /\ par[v] < v
                         /\ \A x \in A[v] : x # v => x \in A[par[v]]
  BY TreeFacts
<1>1. /\ A[1] = {1} /\ \A v \in 1..N : \A x \in A[v] : x <= v /\ A[x] \subseteq A[v]
  BY DEF DFTree
<1>2. /\ Graph(s, n) /\ V \in [1..N -> 1..n]
      /\ \A i, j \in 1..N : V[i] = V[j] => i = j
      /\ \A i, j \in 1..N : <<i, j>> \in E <=> V[j] \in Range(s[V[i]])
  BY DEF NumbersReached
<1>3. \A b \in R : \A x \in Range(s[b]) : x # V[c] => x \in R
  BY <1>2, ReachFacts
<1>4. V[u] \in R
  OBVIOUS
<1> HIDE DEF R
<1> SUFFICES ASSUME NEW T, T # {},
               T = {v \in 1..N : u \in A[v] /\ (\A x \in A[v] : x > u => x # c) /\ V[v] \notin R}
    PROVE  FALSE
  BY DEF R
<1>5. T \in SUBSET Nat
  BY <1>0
<1>6. PICK m \in T : \A y \in T : m <= y
  BY <1>5, Least
<1>7. /\ m \in 1..N /\ u \in A[m] /\ V[m] \notin R /\ m # u
      /\ \A x \in A[m] : x > u => x # c
  BY <1>4, <1>6
<1>8. m \in 2..N
  BY <1>0, <1>1, <1>7
<1>9. /\ par[m] \in 1..N /\ par[m] < m /\ u \in A[par[m]] /\ A[par[m]] \subseteq A[m]
  BY <1>0, <1>1, <1>7, <1>8
<1>10. par[m] \notin T
  BY <1>0, <1>6, <1>7, <1>9
<1>11. V[par[m]] \in R
  BY <1>7, <1>9, <1>10
<1>12. m > u /\ m # c
  BY <1>0, <1>1, <1>7
<1>13. V[m] \in Range(s[V[par[m]]]) /\ V[m] # V[c]
  BY <1>2, <1>7, <1>8, <1>9, <1>12 DEF DFEdges
<1> QED  BY <1>3, <1>7, <1>11, <1>13

(* The tree leads from the entry to every vertex; without c, to those that *)
(* are not below c.                                                        *)
LEMMA ReachedWithout ==
  ASSUME NEW s, NEW n, NEW V, NEW par, NEW N, NEW A, NEW E, NumbersReached(s, n, V, N, E),
         DFTree(par, N, A), DFEdges(par, N, A, E), NEW c \in 2..N,
         NEW v \in 1..N, c \notin A[v]
  PROVE  V[v] \in ReachedAvoiding(s, V[c])
<1>1. c \in 1..N /\ 1 \in 1..N /\ 1 \in A[v] /\ c # 1
  BY TreeFacts
<1>2. Graph(s, n) /\ V[1] = 1 /\ V[c] # V[1]
  BY <1>1 DEF NumbersReached
<1>3. V[1] \in ReachedAvoiding(s, V[c])
  BY <1>2, ReachFacts
<1>4. \A x \in A[v] : x > 1 => x # c
  OBVIOUS
<1> QED  BY <1>1, <1>3, <1>4, TreeWalk

(* What is entered from above c on a way through larger numbers is reached *)
(* without c.                                                              *)
LEMMA SemiReached ==
  ASSUME NEW s, NEW n, NEW V, NEW par, NEW N, NEW A, NEW E, NEW S,
         NumbersReached(s, n, V, N, E), DFTree(par, N, A), DFEdges(par, N, A, E),
         \A k \in 2..N : Semi(N, A, E, S, k),
         NEW c \in 2..N, NEW w \in 1..N, w > c, S[w] < c
  PROVE  V[w] \in ReachedAvoiding(s, V[c])
<1> DEFINE R == ReachedAvoiding(s, V[c])
<1>0. /\ N \in Nat /\ N >= 1 /\ \A v \in 1..N : A[v] \subseteq 1..N /\ v \in A[v]
      /\ \A v \in 1..N : \A x \in A[v] : x <= v
  BY TreeFacts DEF DFTree
<1>1. /\ Graph(s, n) /\ V \in [1..N -> 1..n]
      /\ \A i, j \in 1..N : V[i] = V[j] => i = j
      /\ \A i, j \in 1..N : <<i, j>> \in E <=> V[j] \in Range(s[V[i]])
  BY DEF NumbersReached
<1>2. \A b \in R : \A x \in Range(s[b]) : x # V[c] => x \in R
  BY <1>1, ReachFacts
<1>3. \A v \in 1..N : v < c => V[v] \in R
  <2> SUFFICES ASSUME NEW v \in 1..N, v < c PROVE V[v] \in R
    OBVIOUS
  <2>1. c \notin A[v]
    BY <1>0
  <2> QED  BY <2>1, ReachedWithout
<1>4. ASSUME NEW u \in 1..N, NEW x \in A[u], x > c, V[x] \in R PROVE V[u] \in R
  <2>1. c \in 1..N /\ \A y \in A[u] : y > x => y # c
    BY <1>0, <1>4
  <2> QED  BY <1>4, <2>1, TreeWalk
<1> HIDE DEF R
<1> SUFFICES ASSUME NEW T, T = {v \in 1..N : v > c /\ S[v] < c /\ V[v] \notin R}, T # {}
             PROVE  FALSE
  BY DEF R
<1>5. T \in SUBSET (0..N)
  BY <1>0
<1>6. PICK m \in T : \A y \in T : y <= m
  BY <1>0, <1>5, Greatest
<1>7. m \in 2..N /\ m \in 1..N /\ m > c /\ S[m] < c /\ V[m] \notin R /\ m # c
  BY <1>0, <1>6
<1>8. PICK u \in 1..N : /\ <<u, m>> \in E
                        /\ (u < m /\ S[m] = u) \/ \E x \in A[u] : x > m /\ S[m] = S[x]
  BY <1>7 DEF Semi
<1>9. V[u] \in R
  <2>1. CASE u < m /\ S[m] = u
    BY <1>3, <1>7, <2>1
  <2>2. CASE \E x \in A[u] : x > m /\ S[m] = S[x]
    <3>1. PICK x \in A[u] : x > m /\ S[m] = S[x]
      BY <2>2
    <3>2. x \in 1..N /\ x > c /\ S[x] < c /\ x \notin T
      BY <1>0, <1>6, <1>7, <3>1
    <3>3. V[x] \in R
      BY <3>2
    <3> QED  BY <1>4, <3>2, <3>3
  <2> QED  BY <1>8, <2>1, <2>2
<1>10. V[m] \in R
  BY <1>1, <1>2, <1>7, <1>8, <1>9
<1> QED  BY <1>7, <1>10

(* The semidominator theorem, as the algorithm uses it: what is implied is *)
(* the immediate dominator.                                                *)
LEMMA SemidominatorTheorem ==
  ASSUME NEW s, NEW n, NEW V, NEW par, NEW N, NEW A, NEW E, NEW S, NEW D,
         NumbersReached(s, n, V, N, E), DFTree(par, N, A), DFEdges(par, N, A, E),
         \A k \in 2..N : Semi(N, A, E, S, k), Implied(N, A, S, D), NEW w \in 2..N
  PROVE  /\ D[w] \in 1..N /\ D[w] # w /\ Dominates(s, V[D[w]], V[w])
         /\ \A c \in 1..N : c # w /\ Dominates(s, V[c], V[w]) =>
              Dominates(s, V[c], V[D[w]])
<1>0. /\ N \in Nat /\ N >= 1 /\ \A v \in 1..N : A[v] \subseteq 1..N /\ v \in A[v]
      /\ \A v \in 1..N : \A x \in A[v] : x <= v /\ \A j \in x..v : x \in A[j]
  BY TreeFacts DEF DFTree
<1>1. /\ D[w] \in 1..N /\ w \in Under(N, A, S, D[w])
      /\ \A c \in A[w] : D[w] < c /\ c < w => \E x \in A[w] : x > c /\ S[x] < c
  BY ImpliedFacts
<1>2. /\ w \in 1..N /\ D[w] \in A[w] /\ D[w] # w /\ D[w] < w
  BY <1>0, <1>1 DEF Under
<1>3. Dominates(s, V[D[w]], V[w])
  BY <1>1, UnderDominates
<1>4. /\ Graph(s, n) /\ V \in [1..N -> 1..n] /\ V[1] = 1
  BY DEF NumbersReached
<1>5. ASSUME NEW c \in 1..N, c # w, Dominates(s, V[c], V[w])
      PROVE  Dominates(s, V[c], V[D[w]])
  <2>1. V[w] \notin ReachedAvoiding(s, V[c])
    BY <1>5 DEF Dominates
  <2>2. CASE c = 1
    BY <1>4, <2>2, EntryDominates
  <2>3. CASE c # 1
    <3>1. c \in 2..N
      BY <1>0, <2>3
    <3>2. c \in A[w] /\ c < w
      BY <1>0, <1>2, <1>5, <2>1, <3>1, ReachedWithout
    <3>3. ~(D[w] < c)
      <4> SUFFICES ASSUME D[w] < c PROVE FALSE
        OBVIOUS
      <4>1. PICK x \in A[w] : x > c /\ S[x] < c
        BY <1>1, <3>2
      <4>2. x \in 1..N
        BY <1>0, <1>2
      <4>3. V[x] \in ReachedAvoiding(s, V[c])
        BY <3>1, <4>1, <4>2, SemiReached
      <4>4. \A y \in A[w] : y > x => y # c
        BY <1>0, <1>2, <4>1, <4>2
      <4> QED  BY <1>2, <2>1, <4>3, <4>4, TreeWalk
    <3>4. CASE c = D[w]
      BY <1>4, <3>4, DomReached
    <3>5. CASE c # D[w]
      <4>1. c < D[w]
        BY <1>1, <3>3, <3>5
      <4> SUFFICES ASSUME V[D[w]] \in ReachedAvoiding(s, V[c]) PROVE FALSE
        BY DEF Dominates
      <4>2. \A y \in A[w] : y > D[w] => y # c
        BY <1>0, <1>1, <1>2, <4>1
      <4> QED  BY <1>2, <2>1, <4>2, TreeWalk
    <3> QED  BY <3>4, <3>5
  <2> QED  BY <2>2, <2>3
<1> QED  BY <1>1, <1>2, <1>3, <1>5
=============================================================================
