------------------------ MODULE SymbolResolverProofs ------------------------
(***************************************************************************)
(* What the symbol resolver decides, for every set of objects and archives:*)
(* the table has every visible symbol of what was linked, once, and so the *)
(* definition and the visibility chosen for a name are those the input     *)
(* calls for, in whatever order the objects and members came.              *)
(***************************************************************************)
EXTENDS SymbolResolver, Lemmas, FiniteSetTheorems

Entry == [sym : Symbol, from : Int]

-----------------------------------------------------------------------------
(* merge_visibility, folded over a list.                                   *)

LEMMA MergeFacts ==
  ASSUME NEW a \in Visibility, NEW b \in Visibility
  PROVE  /\ Merge(a, b) \in Visibility
         /\ Restrictiveness(a) <= Restrictiveness(Merge(a, b))
         /\ Restrictiveness(b) <= Restrictiveness(Merge(a, b))
         /\ a = STV_DEFAULT => Merge(a, b) = b
         /\ Merge(a, b) \in {a, b}
<1>1. a \in {0, 1, 2, 3} /\ b \in {0, 1, 2, 3}
  BY DEF Visibility, STV_DEFAULT, STV_PROTECTED
<1>2. /\ Restrictiveness(0) = 0 /\ Restrictiveness(1) = 3
      /\ Restrictiveness(2) = 2 /\ Restrictiveness(3) = 1
  BY DEF Restrictiveness
<1> QED  BY <1>1, <1>2 DEF Merge, Visibility, STV_DEFAULT, STV_PROTECTED

VisRec(list, F) ==
  F = [i \in 0..Len(list) |->
         IF i = 0 THEN STV_DEFAULT ELSE Merge(F[i - 1], list[i].sym.vis)]

LEMMA MergedVisDef ==
  ASSUME NEW n, table[n] \in Seq(Entry)
  PROVE  \E F \in [0..Len(table[n]) -> Visibility] :
           /\ MergedVis(n) = F[Len(table[n])]
           /\ F[0] = STV_DEFAULT
           /\ \A i \in 1..Len(table[n]) : F[i] = Merge(F[i - 1], table[n][i].sym.vis)
<1> DEFINE list == table[n]
           m == Len(list)
           b == STV_DEFAULT
           step == [p \in (1..m) \X Visibility |-> Merge(p[2], list[p[1]].sym.vis)]
<1>1. m \in Nat
  OBVIOUS
<1>2. \A i \in 1..m : list[i].sym.vis \in Visibility
  <2>1. \A i \in 1..m : list[i] \in Entry
    OBVIOUS
  <2> QED  BY <2>1 DEF Entry, Symbol
<1>3. b \in Visibility
  BY DEF Visibility, STV_DEFAULT, STV_PROTECTED
<1> HIDE DEF list, m
<1>4. step \in [(1..m) \X Visibility -> Visibility]
  <2>1. \A p \in (1..m) \X Visibility : Merge(p[2], list[p[1]].sym.vis) \in Visibility
    BY <1>2, MergeFacts
  <2> QED  BY <2>1
<1>5. PICK F : Follows(F, m, Visibility, b, step)
  <2> HIDE DEF step, b
  <2> QED  BY <1>1, <1>3, <1>4, Recursion
<1>6. /\ F \in [0..m -> Visibility] /\ F[0] = STV_DEFAULT
      /\ \A i \in 1..m : F[i] = step[<<i, F[i - 1]>>]
  BY <1>5 DEF Follows
<1>7. \A i \in 1..m : F[i] = Merge(F[i - 1], list[i].sym.vis)
  <2> SUFFICES ASSUME NEW i \in 1..m PROVE F[i] = Merge(F[i - 1], list[i].sym.vis)
    OBVIOUS
  <2>1. i - 1 \in 0..m
    BY <1>1
  <2>2. F[i - 1] \in Visibility
    BY <1>6, <2>1
  <2> QED  BY <1>6, <2>2
<1>8. VisRec(list, F)
  <2>1. F = [i \in 0..m |-> F[i]]
    BY <1>6
  <2>2. \A i \in 0..m : i = 0 \/ i \in 1..m
    BY <1>1
  <2> QED  BY <1>6, <1>7, <2>1, <2>2 DEF VisRec, m
<1>9. PICK G : VisRec(list, G) /\ MergedVis(n) = G[m]
  <2>1. \E G : VisRec(list, G)
    BY <1>8
  <2>2. MergedVis(n) = (CHOOSE G : VisRec(list, G))[m]
    BY DEF MergedVis, VisRec, list, m
  <2> QED  BY <2>1, <2>2
<1>10. G[0] = STV_DEFAULT /\ \A i \in 1..m : G[i] = Merge(G[i - 1], list[i].sym.vis)
  <2>1. \A i \in 0..m :
          G[i] = IF i = 0 THEN STV_DEFAULT ELSE Merge(G[i - 1], list[i].sym.vis)
    BY <1>9 DEF VisRec, m
  <2>2. 0 \in 0..m /\ \A i \in 1..m : i \in 0..m /\ i # 0
    BY <1>1
  <2> QED  BY <2>1, <2>2
<1>11. G \in [0..m -> Visibility]
  <2> DEFINE Good == {k \in Nat : k <= m => G[k] \in Visibility}
  <2>1. 0 \in Good
    BY <1>3, <1>10
  <2>2. ASSUME NEW k \in Nat, k \in Good PROVE k + 1 \in Good
    <3> SUFFICES ASSUME k + 1 <= m PROVE G[k + 1] \in Visibility
      OBVIOUS
    <3>1. G[k] \in Visibility /\ k + 1 \in 1..m /\ (k + 1) - 1 = k
      BY <1>1, <2>2
    <3>2. G[k + 1] = Merge(G[k], list[k + 1].sym.vis)
      BY <1>10, <3>1
    <3> QED  BY <1>2, <3>1, <3>2, MergeFacts
  <2> HIDE DEF Good
  <2>3. \A k \in Nat : k \in Good
    BY <2>1, <2>2, SetInduction
  <2>4. \A k \in 0..m : G[k] \in Visibility
    BY <1>1, <2>3 DEF Good
  <2>5. G = [k \in 0..m |-> G[k]]
    BY <1>9 DEF VisRec, m
  <2> QED  BY <2>4, <2>5
<1> QED  BY <1>9, <1>10, <1>11 DEF list, m

LEMMA MergedVisFacts ==
  ASSUME NEW n, table[n] \in Seq(Entry)
  PROVE  /\ MergedVis(n) \in Visibility
         /\ \A i \in 1..Len(table[n]) :
              Restrictiveness(table[n][i].sym.vis) <= Restrictiveness(MergedVis(n))
         /\ table[n] # <<>> =>
              \E i \in 1..Len(table[n]) : table[n][i].sym.vis = MergedVis(n)
<1> DEFINE list == table[n]
           m == Len(list)
<1>1. m \in Nat /\ (list # <<>> => m # 0)
  OBVIOUS
<1>2. \A i \in 1..m : list[i].sym.vis \in Visibility
  <2>1. \A i \in 1..m : list[i] \in Entry
    OBVIOUS
  <2> QED  BY <2>1 DEF Entry, Symbol
<1>3. PICK F \in [0..m -> Visibility] :
        /\ MergedVis(n) = F[m]
        /\ F[0] = STV_DEFAULT
        /\ \A i \in 1..m : F[i] = Merge(F[i - 1], list[i].sym.vis)
  BY MergedVisDef
<1> HIDE DEF list, m
<1> DEFINE Bounds(k) ==
             \A i \in 1..k : Restrictiveness(list[i].sym.vis) <= Restrictiveness(F[k])
           Occurs(k) == k # 0 => \E i \in 1..k : list[i].sym.vis = F[k]
           Good == {k \in Nat : k <= m => Bounds(k) /\ Occurs(k)}
<1>4. 0 \in Good
  OBVIOUS
<1>5. ASSUME NEW k \in Nat, k \in Good PROVE k + 1 \in Good
  <2> SUFFICES ASSUME k + 1 <= m PROVE Bounds(k + 1) /\ Occurs(k + 1)
    OBVIOUS
  <2>1. Bounds(k) /\ Occurs(k)
    BY <1>1, <1>5
  <2>2. k + 1 \in 1..m /\ (k + 1) - 1 = k /\ k \in 0..m /\ F[k] \in Visibility
    BY <1>1, <1>3
  <2>3. F[k + 1] = Merge(F[k], list[k + 1].sym.vis)
    BY <1>3, <2>2
  <2>4. /\ F[k + 1] \in Visibility
        /\ Restrictiveness(F[k]) <= Restrictiveness(F[k + 1])
        /\ Restrictiveness(list[k + 1].sym.vis) <= Restrictiveness(F[k + 1])
        /\ F[k] = STV_DEFAULT => F[k + 1] = list[k + 1].sym.vis
        /\ F[k + 1] \in {F[k], list[k + 1].sym.vis}
    BY <1>2, <2>2, <2>3, MergeFacts
  <2>5. \A v \in Visibility : Restrictiveness(v) \in Nat
    BY DEF Visibility, STV_DEFAULT, STV_PROTECTED, Restrictiveness
  <2>6. Bounds(k + 1)
    <3> SUFFICES ASSUME NEW i \in 1..k + 1
                 PROVE  Restrictiveness(list[i].sym.vis) <= Restrictiveness(F[k + 1])
      OBVIOUS
    <3>1. CASE i = k + 1
      BY <2>4, <3>1
    <3>2. CASE i \in 1..k
      <4>1. i \in 1..m
        BY <1>1, <2>2, <3>2
      <4>2. Restrictiveness(list[i].sym.vis) <= Restrictiveness(F[k])
        BY <2>1, <3>2
      <4> QED  BY <1>2, <2>2, <2>4, <2>5, <4>1, <4>2
    <3> QED  BY <3>1, <3>2
  <2>7. Occurs(k + 1)
    <3>1. k + 1 \in 1..k + 1
      OBVIOUS
    <3>2. CASE F[k + 1] = list[k + 1].sym.vis
      BY <3>1, <3>2
    <3>3. CASE F[k + 1] # list[k + 1].sym.vis
      <4>1. F[k + 1] = F[k] /\ k # 0
        BY <1>3, <2>4, <3>3
      <4>2. PICK i \in 1..k : list[i].sym.vis = F[k]
        BY <2>1, <4>1
      <4>3. i \in 1..k + 1
        BY <4>2
      <4> QED  BY <4>1, <4>2, <4>3
    <3> QED  BY <3>2, <3>3
  <2> QED  BY <2>6, <2>7
<1> HIDE DEF Good
<1>6. m \in Good
  BY <1>1, <1>4, <1>5, SetInduction
<1>7. Bounds(m) /\ Occurs(m)
  BY <1>1, <1>6 DEF Good
<1> QED  BY <1>1, <1>3, <1>7 DEF list, m

-----------------------------------------------------------------------------
(* Where a visible symbol of a name is in the input: an object or member,  *)
(* <<0, o>> or <<archive, member>>, and a position in it.                  *)

SymbolsAt(w) == IF w[1] = 0 THEN input.objects[w[2]] ELSE input.archives[w[1]][w[2]]
Of(n) == {s \in Symbol : s.name = n /\ Participates(s)}
Spots(n, W) ==
  {s \in W \X Nat : s[2] \in 1..Len(SymbolsAt(s[1])) /\ SymbolsAt(s[1])[s[2]] \in Of(n)}

\* The order symbols are collected in: object by object, then archive by
\* archive, each object and member from its first symbol to its last.  The
\* members of one archive come in the order they are needed.
Earlier(v, w) == v[1] < w[1] \/ (v[1] = 0 /\ w[1] = 0 /\ v[2] < w[2])
Precedes(s, t) == Earlier(s[1], t[1]) \/ (s[1] = t[1] /\ s[2] < t[2])

\* h gives the spot each entry of the list stands for: all of them, once, and
\* none before an earlier one.
Tally(h, n, list, W) ==
  /\ h \in [1..Len(list) -> Spots(n, W)]
  /\ \A p \in 1..Len(list) : list[p].sym = SymbolsAt(h[p][1])[h[p][2]]
  /\ \A p, q \in 1..Len(list) : p # q => h[p] # h[q]
  /\ \A s \in Spots(n, W) : \E p \in 1..Len(list) : h[p] = s
  /\ \A p, q \in 1..Len(list) : p < q => ~Precedes(h[q], h[p])

Collected(list, id, n, symbols) ==
  LET new == Kept(symbols, Of(n))
  IN  list \o [i \in DOMAIN new |-> [sym |-> new[i], from |-> id]]

(* Two lists joined.                                                       *)
LEMMA Joined ==
  ASSUME NEW A, NEW s \in Seq(A), NEW t \in Seq(A)
  PROVE  Len(s \o t) = Len(s) + Len(t) /\ \A p \in 1..Len(s) : (s \o t)[p] = s[p]
OBVIOUS

LEMMA CollectTally ==
  ASSUME NEW n, NEW W, NEW w \in Nat \X Nat, w \notin W, \A v \in W : ~Earlier(w, v),
         SymbolsAt(w) \in Seq(Symbol), NEW id \in Int,
         NEW list \in Seq(Entry), NEW h, Tally(h, n, list, W)
  PROVE  /\ Collected(list, id, n, SymbolsAt(w)) \in Seq(Entry)
         /\ \E g : Tally(g, n, Collected(list, id, n, SymbolsAt(w)), W \cup {w})
<1> DEFINE syms == SymbolsAt(w)
           new == Kept(syms, Of(n))
           tail == [i \in DOMAIN new |-> [sym |-> new[i], from |-> id]]
           all == list \o tail
           a == Len(list)
           b == Len(new)
<1>1. /\ new \in Seq(Symbol) /\ b \in Nat /\ DOMAIN new = 1..b /\ a \in Nat
  <2>1. new \in Seq(Symbol)
    BY KeptProperties
  <2> QED  BY <2>1
<1>2. PICK k : Places(k, new, syms, Of(n), Len(syms))
  BY KeptPlaces
<1> HIDE DEF new, syms, a, b
<1>3. /\ k \in [1..b -> 1..Len(syms)]
      /\ \A i \in 1..b : new[i] = syms[k[i]] /\ new[i] \in Of(n)
      /\ \A i, j \in 1..b : i < j => k[i] < k[j]
      /\ \A p \in 1..Len(syms) : syms[p] \in Of(n) => \E i \in 1..b : k[i] = p
  BY <1>2 DEF Places, b
<1>4. Len(syms) \in Nat
  BY DEF syms
<1>5. tail \in Seq(Entry) /\ Len(tail) = b /\ \A i \in 1..b : tail[i].sym = new[i]
  <2>1. \A i \in 1..b : new[i] \in Symbol
    BY <1>1 DEF b
  <2>2. \A i \in 1..b : [sym |-> new[i], from |-> id] \in Entry
    BY <2>1 DEF Entry
  <2> QED  BY <1>1, <2>2
<1> HIDE DEF tail
<1>6. all \in Seq(Entry)
  BY <1>5
<1>7. /\ Len(all) = a + b
      /\ \A p \in 1..a : all[p] = list[p]
      /\ \A p \in 1..b : all[a + p] = tail[p]
  <2>0. list \in Seq(Entry) /\ tail \in Seq(Entry)
    BY <1>5
  <2>1. Len(all) = a + b
    BY ONLY <2>0, <1>5, Joined DEF a
  <2>2. \A p \in 1..a : all[p] = list[p]
    BY ONLY <2>0, Joined DEF a
  <2>3. ASSUME NEW p \in 1..b PROVE all[a + p] = tail[p]
    <3>1. a + p \in 1..a + b /\ ~(a + p <= a) /\ (a + p) - a = p
      BY <1>1
    <3> QED  BY <1>5, <3>1 DEF a
  <2> QED  BY <2>1, <2>2, <2>3
<1> HIDE DEF all
<1>8. /\ h \in [1..a -> Spots(n, W)]
      /\ \A p \in 1..a : list[p].sym = SymbolsAt(h[p][1])[h[p][2]]
      /\ \A p, q \in 1..a : p # q => h[p] # h[q]
      /\ \A s \in Spots(n, W) : \E p \in 1..a : h[p] = s
      /\ \A p, q \in 1..a : p < q => ~Precedes(h[q], h[p])
  BY DEF Tally, a
<1> DEFINE V == W \cup {w}
           g == [p \in 1..a + b |-> IF p <= a THEN h[p] ELSE <<w, k[p - a]>>]
<1>9. /\ \A p \in 1..a : p \in 1..a + b /\ g[p] = h[p]
      /\ \A p \in 1..b : a + p \in 1..a + b /\ g[a + p] = <<w, k[p]>>
  <2>1. ASSUME NEW p \in 1..b PROVE a + p \in 1..a + b /\ g[a + p] = <<w, k[p]>>
    <3>1. a + p \in 1..a + b /\ ~(a + p <= a) /\ (a + p) - a = p
      BY <1>1
    <3> QED  BY <3>1
  <2>2. ASSUME NEW p \in 1..a PROVE p \in 1..a + b /\ g[p] = h[p]
    BY <1>1
  <2> QED  BY <2>1, <2>2
<1>10. \A p \in 1..a + b : p \in 1..a \/ \E q \in 1..b : p = a + q
  <2> SUFFICES ASSUME NEW p \in 1..a + b, p \notin 1..a PROVE \E q \in 1..b : p = a + q
    OBVIOUS
  <2>1. p - a \in 1..b /\ p = a + (p - a)
    BY <1>1
  <2> QED  BY <2>1
<1>11. Spots(n, V) = Spots(n, W) \cup {s \in {w} \X Nat : s[2] \in 1..Len(syms) /\ syms[s[2]] \in Of(n)}
  BY DEF Spots, syms
<1>12. ASSUME NEW p \in 1..b
       PROVE  /\ <<w, k[p]>> \in Spots(n, V) /\ <<w, k[p]>> \notin Spots(n, W)
  <2>1. k[p] \in 1..Len(syms) /\ k[p] \in Nat /\ syms[k[p]] \in Of(n)
    BY <1>3, <1>4
  <2>2. <<w, k[p]>> \notin Spots(n, W)
    BY DEF Spots
  <2> QED  BY <1>11, <2>1, <2>2
<1>13. g \in [1..a + b -> Spots(n, V)]
  <2>1. ASSUME NEW p \in 1..a + b PROVE g[p] \in Spots(n, V)
    <3> HIDE DEF g, V
    <3>1. CASE p \in 1..a
      <4>1. g[p] = h[p] /\ h[p] \in Spots(n, W)
        BY <1>8, <1>9, <3>1
      <4> QED  BY <1>11, <4>1
    <3>2. CASE p \notin 1..a
      <4>1. PICK q \in 1..b : p = a + q
        BY <1>10, <3>2
      <4>2. g[p] = <<w, k[q]>>
        BY <1>9, <4>1
      <4> QED  BY <1>12, <4>2
    <3> QED  BY <3>1, <3>2
  <2> QED  BY <2>1
<1> HIDE DEF g, V
<1>14. ASSUME NEW p \in 1..a + b
       PROVE  all[p].sym = SymbolsAt(g[p][1])[g[p][2]]
  <2>1. CASE p \in 1..a
    BY <1>7, <1>8, <1>9, <2>1
  <2>2. ASSUME NEW q \in 1..b, p = a + q PROVE all[p].sym = SymbolsAt(g[p][1])[g[p][2]]
    <3>1. g[p] = <<w, k[q]>> /\ all[p].sym = new[q]
      BY <1>5, <1>7, <1>9, <2>2
    <3>2. new[q] = syms[k[q]]
      BY <1>3
    <3> QED  BY <3>1, <3>2 DEF syms
  <2> QED  BY <1>10, <2>1, <2>2
<1>15. ASSUME NEW p \in 1..a + b, NEW q \in 1..a + b, p # q PROVE g[p] # g[q]
  <2>1. \A i, j \in 1..b : i # j => k[i] # k[j]
    BY <1>1, <1>3, <1>4
  <2>2. \A i \in 1..a : g[i] \in Spots(n, W)
    BY <1>8, <1>9
  <2>0. ASSUME NEW i \in 1..a + b, i \notin 1..a PROVE g[i] \notin Spots(n, W)
    <3>1. PICK j \in 1..b : i = a + j
      BY <1>10, <2>0
    <3>2. g[i] = <<w, k[j]>>
      BY <1>9, <3>1
    <3> QED  BY <1>12, <3>2
  <2>3. CASE p \in 1..a /\ q \in 1..a
    BY <1>8, <1>9, <1>15, <2>3
  <2>4. CASE p \in 1..a /\ q \notin 1..a
    BY <2>0, <2>2, <2>4
  <2>5. CASE p \notin 1..a /\ q \in 1..a
    BY <2>0, <2>2, <2>5
  <2>6. CASE p \notin 1..a /\ q \notin 1..a
    <3>1. PICK i \in 1..b : p = a + i
      BY <1>10, <2>6
    <3>2. PICK j \in 1..b : q = a + j
      BY <1>10, <2>6
    <3>3. k[i] # k[j]
      BY <1>15, <2>1, <3>1, <3>2
    <3> QED  BY <1>9, <3>1, <3>2, <3>3
  <2> QED  BY <2>3, <2>4, <2>5, <2>6
<1>16. ASSUME NEW s \in Spots(n, V) PROVE \E p \in 1..a + b : g[p] = s
  <2>1. CASE s \in Spots(n, W)
    BY <1>8, <1>9, <2>1
  <2>2. CASE s \notin Spots(n, W)
    <3>1. s = <<w, s[2]>> /\ s[2] \in 1..Len(syms) /\ syms[s[2]] \in Of(n)
      BY <1>11, <2>2
    <3>2. PICK i \in 1..b : k[i] = s[2]
      BY <1>3, <3>1
    <3>3. <<w, k[i]>> = s
      BY <3>1, <3>2
    <3> QED  BY <1>9, <3>3
  <2> QED  BY <2>1, <2>2
<1>165. ASSUME NEW p \in 1..a + b, NEW q \in 1..a + b, p < q
        PROVE  ~Precedes(g[q], g[p])
  <2>1. CASE q \in 1..a
    <3>1. p \in 1..a
      BY <1>165, <1>1, <2>1
    <3> QED  BY <1>8, <1>9, <1>165, <2>1, <3>1
  <2>2. CASE q \notin 1..a
    <3>1. PICK j \in 1..b : q = a + j
      BY <1>10, <2>2
    <3>2. g[q] = <<w, k[j]>> /\ g[q][1] = w /\ g[q][2] = k[j]
      BY <1>9, <3>1
    <3>3. CASE p \in 1..a
      <4>1. g[p] \in Spots(n, W)
        BY <1>8, <1>9, <3>3
      <4>2. g[p][1] \in W
        BY <4>1 DEF Spots
      <4> QED  BY <3>2, <4>2 DEF Precedes
    <3>4. CASE p \notin 1..a
      <4>1. PICK i \in 1..b : p = a + i
        BY <1>10, <3>4
      <4>2. g[p] = <<w, k[i]>> /\ g[p][1] = w /\ g[p][2] = k[i]
        BY <1>9, <4>1
      <4>3. i < j
        BY <1>1, <1>165, <3>1, <4>1
      <4>4. k[i] < k[j] /\ k[i] \in Int /\ k[j] \in Int
        <5>1. k[i] \in 1..Len(syms) /\ k[j] \in 1..Len(syms)
          BY <1>3
        <5>2. k[i] < k[j]
          BY <1>3, <4>3
        <5> QED  BY <5>1, <5>2, <1>4
      <4>5. ~Earlier(w, w)
        BY DEF Earlier
      <4> QED  BY <3>2, <4>2, <4>4, <4>5 DEF Precedes
    <3> QED  BY <3>3, <3>4
  <2> QED  BY <2>1, <2>2
<1>17. Tally(g, n, all, V)
  BY <1>7, <1>13, <1>14, <1>15, <1>16, <1>165 DEF Tally
<1>18. Collected(list, id, n, SymbolsAt(w)) = all
  BY DEF Collected, all, tail, new, syms
<1> QED  BY <1>6, <1>17, <1>18 DEF V

-----------------------------------------------------------------------------
(* The table, as it is filled.                                             *)

Got == IF pc = "collect" THEN 1..at - 1 ELSE 1..Len(input.objects)
Sources == {<<0, o>> : o \in Got} \cup included

IsMember(w) ==
  w[1] \in 1..Len(input.archives) /\ w[2] \in 1..Len(input.archives[w[1]])

Typed ==
  /\ IsInput(input)
  /\ at \in Nat \ {0} /\ archive \in Nat \ {0}
  /\ table \in [Name -> Seq(Entry)]
  /\ \A w \in included : w \in Nat \X Nat /\ IsMember(w) /\ w[1] <= archive
  /\ pc = "collect" => included = {} /\ archive = 1 /\ at <= Len(input.objects) + 1
  /\ pc \in {"archives", "pass"} => archive <= Len(input.archives)

\* Every entry of the table stands for a symbol of what was linked so far,
\* and every visible one has its entry.
Tallied == \A n \in Name : \E h : Tally(h, n, table[n], Sources)

IInv == Typed /\ Tallied

LEMMA InitIInv == Init => IInv
<1> SUFFICES ASSUME Init PROVE IInv
  OBVIOUS
<1>1. /\ IsInput(input) /\ pc = "collect" /\ at = 1 /\ archive = 1 /\ included = {}
      /\ table = [n \in Name |-> <<>>]
  BY InputsAssumption DEF Init
<1>2. Len(input.objects) \in Nat
  BY <1>1 DEF IsInput
<1>3. Typed
  BY <1>1, <1>2 DEF Typed
<1>4. Sources = {}
  BY <1>1 DEF Sources, Got
<1>5. ASSUME NEW n \in Name PROVE \E h : Tally(h, n, table[n], Sources)
  <2> DEFINE h == [p \in 1..0 |-> p]
  <2>1. table[n] = <<>> /\ Len(table[n]) = 0
    BY <1>1
  <2>2. Spots(n, Sources) = {}
    BY <1>4 DEF Spots
  <2>3. Tally(h, n, table[n], Sources)
    BY <2>1, <2>2 DEF Tally
  <2> QED  BY <2>3
<1> QED  BY <1>3, <1>5 DEF IInv, Tallied

LEMMA TallyUnmoved ==
  ASSUME UNCHANGED input
  PROVE  Tallied' <=> \A n \in Name : \E h : Tally(h, n, table'[n], Sources')
BY DEF Tallied, Tally, Spots, SymbolsAt, Precedes, Earlier

\* Another object or member goes into the table.
LEMMA AnotherSource ==
  ASSUME IInv, UNCHANGED input, NEW w \in Nat \X Nat, w \notin Sources,
         \A v \in Sources : ~Earlier(w, v), SymbolsAt(w) \in Seq(Symbol),
         Sources' = Sources \cup {w}, NEW id \in Int,
         table' = Collect(table, id, SymbolsAt(w))
  PROVE  table' \in [Name -> Seq(Entry)] /\ Tallied'
<1>1. \A n \in Name : table'[n] = Collected(table[n], id, n, SymbolsAt(w))
  BY DEF Collect, Collected, Of
<1>2. ASSUME NEW n \in Name
      PROVE  /\ table'[n] \in Seq(Entry)
             /\ \E h : Tally(h, n, table'[n], Sources \cup {w})
  <2>1. table[n] \in Seq(Entry)
    BY DEF IInv, Typed
  <2>2. PICK h : Tally(h, n, table[n], Sources)
    BY DEF IInv, Tallied
  <2>3. /\ Collected(table[n], id, n, SymbolsAt(w)) \in Seq(Entry)
        /\ \E g : Tally(g, n, Collected(table[n], id, n, SymbolsAt(w)), Sources \cup {w})
    BY <2>1, <2>2, CollectTally
  <2> QED  BY <1>1, <2>3
<1>3. Tallied'
  BY <1>2, TallyUnmoved
<1>4. table' = [n \in Name |-> table'[n]]
  BY DEF Collect
<1> QED  BY <1>2, <1>3, <1>4

LEMMA CollectObjectIInv == ASSUME IInv, CollectObject PROVE IInv'
<1>1. /\ pc = "collect" /\ at <= Len(input.objects)
      /\ table' = Collect(table, at - 1, input.objects[at])
      /\ at' = at + 1
      /\ UNCHANGED <<input, pc, archive, included>>
  BY DEF CollectObject, scan
<1>2. /\ IsInput(input) /\ at \in Nat \ {0} /\ included = {} /\ archive = 1
      /\ table \in [Name -> Seq(Entry)]
  BY <1>1 DEF IInv, Typed
<1>3. input.objects \in Seq(Seq(Symbol)) /\ Len(input.objects) \in Nat
  BY <1>2 DEF IsInput
<1> DEFINE w == <<0, at>>
<1>4. SymbolsAt(w) = input.objects[at] /\ SymbolsAt(w) \in Seq(Symbol)
  BY <1>1, <1>2, <1>3 DEF SymbolsAt
<1>5. w \notin Sources /\ Sources' = Sources \cup {w}
  <2>1. Sources = {<<0, o>> : o \in 1..at - 1}
    BY <1>1, <1>2 DEF Sources, Got
  <2>2. Sources' = {<<0, o>> : o \in 1..at}
    BY <1>1, <1>2 DEF Sources, Got
  <2>3. 1..at = (1..at - 1) \cup {at} /\ at \notin 1..at - 1
    BY <1>2
  <2> QED  BY <2>1, <2>2, <2>3
<1>55. w \in Nat \X Nat /\ \A v \in Sources : ~Earlier(w, v)
  <2>1. \A v \in Sources : \E o \in 1..at - 1 : v[1] = 0 /\ v[2] = o
    BY <1>1, <1>2 DEF Sources, Got
  <2> QED  BY <1>2, <2>1 DEF Earlier
<1>6. at - 1 \in Int
  BY <1>2
<1> HIDE DEF w
<1>7. table' \in [Name -> Seq(Entry)] /\ Tallied'
  BY <1>1, <1>4, <1>5, <1>55, <1>6, AnotherSource
<1>8. Typed'
  BY <1>1, <1>2, <1>3, <1>7 DEF Typed, IsMember
<1> QED  BY <1>7, <1>8 DEF IInv

LEMMA IncludeMemberIInv == ASSUME IInv, IncludeMember PROVE IInv'
<1>1. /\ pc = "pass" /\ at <= Len(Members) /\ <<archive, at>> \notin included
      /\ included' = included \cup {<<archive, at>>}
      /\ table' = Collect(table, at - 1, Members[at])
      /\ at' = at + 1
      /\ UNCHANGED <<input, pc, archive>>
  BY DEF IncludeMember, Needed
<1>2. /\ IsInput(input) /\ at \in Nat \ {0} /\ archive \in Nat \ {0}
      /\ table \in [Name -> Seq(Entry)] /\ archive <= Len(input.archives)
      /\ \A v \in included : v \in Nat \X Nat /\ IsMember(v) /\ v[1] <= archive
  BY <1>1 DEF IInv, Typed
<1>3. input.archives \in Seq(Seq(Seq(Symbol))) /\ Len(input.archives) \in Nat
  BY <1>2 DEF IsInput
<1>4. archive \in 1..Len(input.archives)
  BY <1>2, <1>3
<1>5. Members \in Seq(Seq(Symbol)) /\ Len(Members) \in Nat
  BY <1>3, <1>4 DEF Members
<1> DEFINE w == <<archive, at>>
<1>6. at \in 1..Len(Members)
  BY <1>1, <1>2, <1>5
<1>7. w \in Nat \X Nat /\ IsMember(w)
  BY <1>2, <1>4, <1>6 DEF IsMember, Members
<1>8. SymbolsAt(w) = Members[at] /\ SymbolsAt(w) \in Seq(Symbol)
  BY <1>2, <1>5, <1>6 DEF SymbolsAt, Members
<1>9. w \notin Sources /\ Sources' = Sources \cup {w}
  <2>1. Sources = {<<0, o>> : o \in 1..Len(input.objects)} \cup included
    BY <1>1 DEF Sources, Got
  <2>2. Sources' = {<<0, o>> : o \in 1..Len(input.objects)} \cup included'
    BY <1>1 DEF Sources, Got
  <2>3. w \notin {<<0, o>> : o \in 1..Len(input.objects)}
    BY <1>2
  <2> QED  BY <1>1, <2>1, <2>2, <2>3
<1>95. \A v \in Sources : ~Earlier(w, v)
  <2>1. \A v \in Sources : v[1] = 0 \/ (v \in included /\ v[1] \in Nat /\ v[1] <= archive)
    BY <1>1, <1>2 DEF Sources, Got
  <2> QED  BY <1>2, <2>1 DEF Earlier
<1>10. at - 1 \in Int
  BY <1>2
<1>11. \A v \in included' : v \in Nat \X Nat /\ IsMember(v) /\ v[1] <= archive
  BY <1>1, <1>2, <1>7
<1> HIDE DEF w
<1>12. table' \in [Name -> Seq(Entry)] /\ Tallied'
  BY <1>1, <1>7, <1>8, <1>9, <1>95, <1>10, AnotherSource
<1>13. Typed'
  BY <1>1, <1>2, <1>11, <1>12 DEF Typed, IsMember
<1> QED  BY <1>12, <1>13 DEF IInv

\* The steps that leave the table alone.
LEMMA TableUnmoved ==
  ASSUME IInv, UNCHANGED <<input, table, included>>, Sources' = Sources
  PROVE  Tallied'
BY TallyUnmoved DEF IInv, Tallied

LEMMA NextIInv == IInv /\ [Next]_vars => IInv'
<1> SUFFICES ASSUME IInv, [Next]_vars PROVE IInv'
  OBVIOUS
<1> USE DEF scan, outcome
<1>0. Typed /\ Len(input.objects) \in Nat /\ Len(input.archives) \in Nat
  BY DEF IInv, Typed, IsInput
<1>1. CASE CollectObject
  BY <1>1, CollectObjectIInv
<1>2. CASE AllCollected
  <2>1. /\ pc = "collect" /\ at > Len(input.objects) /\ pc' \in {"resolve", "archives"}
        /\ pc' = "archives" => input.archives # <<>>
        /\ UNCHANGED <<input, at, table, archive, included>>
    BY <1>2 DEF AllCollected
  <2>2. at - 1 = Len(input.objects) /\ archive = 1
    BY <1>0, <2>1 DEF Typed
  <2>3. Sources' = Sources
    BY <2>1, <2>2 DEF Sources, Got
  <2>4. pc' = "archives" => archive <= Len(input.archives)
    <3>1. input.archives # <<>> => Len(input.archives) # 0
      BY <1>0 DEF Typed, IsInput
    <3> QED  BY <1>0, <2>1, <2>2, <3>1
  <2>5. Typed'
    BY <1>0, <2>1, <2>4 DEF Typed, IsMember
  <2> QED  BY <2>1, <2>3, <2>5, TableUnmoved DEF IInv
<1>3. CASE IncludeMember
  BY <1>3, IncludeMemberIInv
<1>4. CASE BeginPass \/ SkipMember
  <2>1. /\ pc \in {"archives", "pass"} /\ pc' = "pass" /\ at' \in {1, at + 1}
        /\ UNCHANGED <<input, table, archive, included>>
    BY <1>4 DEF BeginPass, SkipMember
  <2>2. Sources' = Sources
    BY <2>1 DEF Sources, Got
  <2>3. Typed'
    BY <1>0, <2>1 DEF Typed, IsMember
  <2> QED  BY <2>1, <2>2, <2>3, TableUnmoved DEF IInv
<1>5. CASE EndPass
  <2>1. /\ pc = "pass" /\ pc' \in {"archives", "resolve"}
        /\ archive' \in {archive, archive + 1}
        /\ pc' = "archives" => archive' = archive \/ archive < Len(input.archives)
        /\ UNCHANGED <<input, at, table, included>>
    BY <1>5 DEF EndPass
  <2>2. Sources' = Sources
    BY <2>1 DEF Sources, Got
  <2>3. pc' = "archives" => archive' <= Len(input.archives)
    BY <1>0, <2>1 DEF Typed
  <2>4. Typed'
    BY <1>0, <2>1, <2>3 DEF Typed, IsMember
  <2> QED  BY <2>1, <2>2, <2>4, TableUnmoved DEF IInv
<1>6. CASE Resolve \/ CheckUndefined \/ DefineLinkerSymbols
  <2>1. /\ pc \in {"resolve", "check", "define"}
        /\ pc' \in {"check", "define", "done", "failed"}
        /\ UNCHANGED <<input, at, table, archive, included>>
    BY <1>6 DEF Resolve, CheckUndefined, DefineLinkerSymbols
  <2>2. Sources' = Sources
    BY <2>1 DEF Sources, Got
  <2>3. Typed'
    BY <1>0, <2>1 DEF Typed, IsMember
  <2> QED  BY <2>1, <2>2, <2>3, TableUnmoved DEF IInv
<1>7. CASE UNCHANGED vars
  <2>1. UNCHANGED <<input, pc, at, table, archive, included>>
    BY <1>7 DEF vars
  <2>2. Sources' = Sources
    BY <2>1 DEF Sources, Got
  <2>3. Typed'
    BY <1>0, <2>1 DEF Typed, IsMember
  <2> QED  BY <2>1, <2>2, <2>3, TableUnmoved DEF IInv
<1> QED  BY <1>1, <1>2, <1>3, <1>4, <1>5, <1>6, <1>7 DEF Next

(* In every state of a link the table has each visible symbol of what was  *)
(* collected exactly once, object by object and then archive by archive,   *)
(* each in its own order: the first definition found is the first there    *)
(* (collect_symbols, resolve_all_symbols, scan_archive).                   *)
THEOREM TableComplete == Spec => []IInv
  BY InitIInv, NextIInv, PTL DEF Spec

-----------------------------------------------------------------------------
(* The table against the input.                                            *)

LEMMA VisibleSpots ==
  ASSUME IInv, pc # "collect", NEW n
  PROVE  \A l : l \in Visible(n) <=>
           \E s \in Spots(n, Sources) : l = <<s[1], s[2], SymbolsAt(s[1])[s[2]]>>
<1>1. /\ IsInput(input) /\ \A w \in included : w \in Nat \X Nat /\ IsMember(w)
  BY DEF IInv, Typed
<1>2. /\ input.objects \in Seq(Seq(Symbol)) /\ Len(input.objects) \in Nat
      /\ input.archives \in Seq(Seq(Seq(Symbol))) /\ Len(input.archives) \in Nat
  BY <1>1 DEF IsInput
<1>3. Sources = {<<0, o>> : o \in 1..Len(input.objects)} \cup included
  BY DEF Sources, Got
<1>4. /\ DOMAIN input.objects = 1..Len(input.objects)
      /\ \A o \in 1..Len(input.objects) :
           /\ SymbolsAt(<<0, o>>) = input.objects[o] /\ input.objects[o] \in Seq(Symbol)
  BY <1>2 DEF SymbolsAt
<1>5. \A m \in included :
        /\ m # <<0, 0>> /\ SymbolsAt(m) = input.archives[m[1]][m[2]]
        /\ input.archives[m[1]][m[2]] \in Seq(Symbol)
  <2> SUFFICES ASSUME NEW m \in included
      PROVE  /\ m # <<0, 0>> /\ SymbolsAt(m) = input.archives[m[1]][m[2]]
             /\ input.archives[m[1]][m[2]] \in Seq(Symbol)
    OBVIOUS
  <2>1. m[1] \in 1..Len(input.archives) /\ m[2] \in 1..Len(input.archives[m[1]])
    BY <1>1 DEF IsMember
  <2>2. input.archives[m[1]] \in Seq(Seq(Symbol)) /\ m[1] # 0
    BY <1>2, <2>1
  <2>3. input.archives[m[1]][m[2]] \in Seq(Symbol)
    BY <2>1, <2>2
  <2> QED  BY <2>2, <2>3 DEF SymbolsAt
<1>6. \A w \in Sources : SymbolsAt(w) \in Seq(Symbol) /\ Len(SymbolsAt(w)) \in Nat
  <2>1. \A w \in Sources : SymbolsAt(w) \in Seq(Symbol)
    BY <1>3, <1>4, <1>5
  <2> QED  BY <2>1
<1>7. \A l : l \in Linked <=>
        \E w \in Sources : \E i \in 1..Len(SymbolsAt(w)) : l = <<w, i, SymbolsAt(w)[i]>>
  <2>1. ASSUME NEW l \in Linked
        PROVE  \E w \in Sources : \E i \in 1..Len(SymbolsAt(w)) : l = <<w, i, SymbolsAt(w)[i]>>
    <3>1. \/ \E o \in DOMAIN input.objects : l \in ListSymbols(<<0, o>>, input.objects[o])
          \/ \E m \in included : l \in ListSymbols(m, input.archives[m[1]][m[2]])
      BY <2>1 DEF Linked
    <3>2. ASSUME NEW o \in DOMAIN input.objects, l \in ListSymbols(<<0, o>>, input.objects[o])
          PROVE  \E w \in Sources :
                   \E i \in 1..Len(SymbolsAt(w)) : l = <<w, i, SymbolsAt(w)[i]>>
      <4> DEFINE w == <<0, o>>
      <4>1. w \in Sources /\ SymbolsAt(w) = input.objects[o]
        BY <1>3, <1>4
      <4>2. DOMAIN input.objects[o] = 1..Len(SymbolsAt(w))
        BY <1>4, <4>1
      <4>3. \E i \in 1..Len(SymbolsAt(w)) : l = <<w, i, SymbolsAt(w)[i]>>
        BY <3>2, <4>1, <4>2 DEF ListSymbols
      <4> QED  BY <4>1, <4>3
    <3>3. ASSUME NEW m \in included, l \in ListSymbols(m, input.archives[m[1]][m[2]])
          PROVE  \E w \in Sources :
                   \E i \in 1..Len(SymbolsAt(w)) : l = <<w, i, SymbolsAt(w)[i]>>
      <4>1. m \in Sources /\ SymbolsAt(m) = input.archives[m[1]][m[2]]
        BY <1>3, <1>5
      <4>2. DOMAIN SymbolsAt(m) = 1..Len(SymbolsAt(m))
        BY <1>6, <4>1
      <4>3. \E i \in 1..Len(SymbolsAt(m)) : l = <<m, i, SymbolsAt(m)[i]>>
        BY <3>3, <4>1, <4>2 DEF ListSymbols
      <4> QED  BY <4>1, <4>3
    <3> QED  BY <3>1, <3>2, <3>3
  <2>2. ASSUME NEW w \in Sources, NEW i \in 1..Len(SymbolsAt(w))
        PROVE  <<w, i, SymbolsAt(w)[i]>> \in Linked
    <3>1. DOMAIN SymbolsAt(w) = 1..Len(SymbolsAt(w))
      BY <1>6
    <3>2. CASE w \in included
      <4>1. <<w, i, SymbolsAt(w)[i]>> \in ListSymbols(w, input.archives[w[1]][w[2]])
        BY <1>5, <3>1, <3>2 DEF ListSymbols
      <4> QED  BY <3>2, <4>1 DEF Linked
    <3>3. ASSUME NEW o \in 1..Len(input.objects), w = <<0, o>>
          PROVE  <<w, i, SymbolsAt(w)[i]>> \in Linked
      <4>1. <<w, i, SymbolsAt(w)[i]>> \in ListSymbols(<<0, o>>, input.objects[o])
        BY <1>4, <3>1, <3>3 DEF ListSymbols
      <4>2. o \in DOMAIN input.objects
        BY <1>4
      <4> QED  BY <4>1, <4>2 DEF Linked
    <3> QED  BY <1>3, <3>2, <3>3
  <2> QED  BY <2>1, <2>2
<1>8. \A w \in Sources : \A i \in 1..Len(SymbolsAt(w)) : i \in Nat /\ SymbolsAt(w)[i] \in Symbol
  BY <1>6
<1>9. ASSUME NEW l \in Visible(n)
      PROVE  \E s \in Spots(n, Sources) : l = <<s[1], s[2], SymbolsAt(s[1])[s[2]]>>
  <2>1. l \in Linked /\ l[3].name = n /\ l[3].binding # "local"
    BY <1>9 DEF Visible
  <2>a. PICK w \in Sources : \E i \in 1..Len(SymbolsAt(w)) : l = <<w, i, SymbolsAt(w)[i]>>
    BY <1>7, <2>1
  <2>2. PICK i \in 1..Len(SymbolsAt(w)) : l = <<w, i, SymbolsAt(w)[i]>>
    BY <2>a
  <2>3. SymbolsAt(w)[i] \in Of(n)
    BY <1>8, <2>1, <2>2 DEF Of, Participates
  <2>4. <<w, i>> \in Spots(n, Sources)
    BY <1>8, <2>2, <2>3 DEF Spots
  <2> QED  BY <2>2, <2>4
<1>10. ASSUME NEW s \in Spots(n, Sources)
       PROVE  <<s[1], s[2], SymbolsAt(s[1])[s[2]]>> \in Visible(n)
  <2>1. /\ s[1] \in Sources /\ s[2] \in 1..Len(SymbolsAt(s[1]))
        /\ SymbolsAt(s[1])[s[2]] \in Of(n)
    BY DEF Spots
  <2>2. <<s[1], s[2], SymbolsAt(s[1])[s[2]]>> \in Linked
    BY <1>7, <2>1
  <2> QED  BY <2>1, <2>2 DEF Visible, Of, Participates
<1> QED  BY <1>9, <1>10

\* k gives the symbol of the input each entry of the table stands for.
Stands(k, n) ==
  /\ k \in [1..Len(table[n]) -> Visible(n)]
  /\ \A p \in 1..Len(table[n]) : table[n][p].sym = k[p][3]
  /\ \A p, q \in 1..Len(table[n]) : k[p] = k[q] => p = q
  /\ \A l \in Visible(n) : \E p \in 1..Len(table[n]) : k[p] = l

LEMMA EntriesStand ==
  ASSUME IInv, pc # "collect", NEW n \in Name
  PROVE  \E k : Stands(k, n)
<1>1. PICK h : Tally(h, n, table[n], Sources)
  BY DEF IInv, Tallied
<1> DEFINE a == Len(table[n])
           at3(s) == <<s[1], s[2], SymbolsAt(s[1])[s[2]]>>
           k == [p \in 1..a |-> at3(h[p])]
<1>2. /\ h \in [1..a -> Spots(n, Sources)]
      /\ \A p \in 1..a : table[n][p].sym = SymbolsAt(h[p][1])[h[p][2]]
      /\ \A p, q \in 1..a : p # q => h[p] # h[q]
      /\ \A s \in Spots(n, Sources) : \E p \in 1..a : h[p] = s
  BY <1>1 DEF Tally
<1> HIDE DEF a
<1>3. \A l : l \in Visible(n) <=> \E s \in Spots(n, Sources) : l = at3(s)
  BY VisibleSpots
<1>4. \A s, t \in Spots(n, Sources) : at3(s) = at3(t) => s = t
  BY DEF Spots
<1>5. \A p \in 1..a : table[n][p].sym = at3(h[p])[3]
  BY <1>2
<1> HIDE DEF at3
<1>6. k \in [1..a -> Visible(n)]
  BY <1>2, <1>3
<1>7. \A p, q \in 1..a : k[p] = k[q] => p = q
  BY <1>2, <1>4
<1>8. \A l \in Visible(n) : \E p \in 1..a : k[p] = l
  BY <1>2, <1>3
<1>9. \A p \in 1..a : table[n][p].sym = k[p][3]
  BY <1>5
<1> HIDE DEF k
<1> QED  BY <1>6, <1>7, <1>8, <1>9 DEF Stands, a

-----------------------------------------------------------------------------
(* What resolve chooses from.                                              *)

LEMMA DefsFacts ==
  ASSUME IInv, pc # "collect", NEW n \in Name, NEW binding
  PROVE  LET wanting == {l \in Visible(n) : l[3].def /\ l[3].binding = binding} IN
         /\ Len(Defs(n, binding)) \in Nat
         /\ Defs(n, binding) = <<>> <=> wanting = {}
         /\ Defs(n, binding) # <<>> =>
              /\ HasDef(n) /\ Head(Defs(n, binding)).sym.binding = binding
         /\ Len(Defs(n, binding)) <= 1 => \A l, m \in wanting : l = m
<1> DEFINE list == table[n]
           S == {e \in Range(table[n]) : e.sym.def /\ e.sym.binding = binding}
           defs == Kept(list, S)
           wanting == {l \in Visible(n) : l[3].def /\ l[3].binding = binding}
<1>1. list \in Seq(Entry) /\ Len(list) \in Nat /\ DOMAIN list = 1..Len(list)
  BY DEF IInv, Typed
<1>2. defs \in Seq(Entry) /\ Len(defs) \in Nat
  <2> HIDE DEF list, S
  <2>1. defs \in Seq(Entry)
    BY <1>1, KeptProperties
  <2> QED  BY <2>1
<1>3. PICK q : Places(q, defs, list, S, Len(list))
  <2> HIDE DEF list, S
  <2> QED  BY <1>1, KeptPlaces
<1>4. PICK k : Stands(k, n)
  BY EntriesStand
<1>5. /\ k \in [1..Len(list) -> Visible(n)]
      /\ \A p \in 1..Len(list) : list[p].sym = k[p][3]
      /\ \A p, r \in 1..Len(list) : k[p] = k[r] => p = r
      /\ \A l \in Visible(n) : \E p \in 1..Len(list) : k[p] = l
  BY <1>4 DEF Stands
<1>6. \A p \in 1..Len(list) : list[p] \in S <=> k[p] \in wanting
  <2>1. \A p \in 1..Len(list) : list[p] \in Range(list)
    BY <1>1 DEF Range
  <2> QED  BY <1>5, <2>1
<1>7. Defs(n, binding) = defs
  BY DEF Defs
<1>8. ASSUME NEW e \in S PROVE HasDef(n) /\ e.sym.binding = binding
  BY DEF HasDef, Range
<1> HIDE DEF defs, list, S, wanting
<1>9. /\ q \in [1..Len(defs) -> 1..Len(list)]
      /\ \A i \in 1..Len(defs) : defs[i] = list[q[i]] /\ defs[i] \in S
      /\ \A p \in 1..Len(list) : list[p] \in S => \E i \in 1..Len(defs) : q[i] = p
  BY <1>3 DEF Places
<1>10. \A l \in wanting : \E i \in 1..Len(defs) : k[q[i]] = l
  <2> SUFFICES ASSUME NEW l \in wanting PROVE \E i \in 1..Len(defs) : k[q[i]] = l
    OBVIOUS
  <2>1. PICK p \in 1..Len(list) : k[p] = l
    BY <1>5 DEF wanting
  <2>2. list[p] \in S
    BY <1>6, <2>1
  <2> QED  BY <1>9, <2>1, <2>2
<1>11. \A i \in 1..Len(defs) : k[q[i]] \in wanting
  BY <1>6, <1>9
<1>12. defs = <<>> <=> wanting = {}
  <2>1. defs = <<>> => wanting = {}
    BY <1>10
  <2>2. defs # <<>> => 1 \in 1..Len(defs)
    BY <1>2
  <2> QED  BY <1>11, <2>1, <2>2
<1>13. defs # <<>> => Head(defs) \in S
  <2>1. defs # <<>> => 1 \in 1..Len(defs) /\ Head(defs) = defs[1]
    BY <1>2
  <2> QED  BY <1>9, <2>1
<1>14. ASSUME Len(defs) <= 1, NEW l \in wanting, NEW m \in wanting PROVE l = m
  <2>1. PICK i \in 1..Len(defs) : k[q[i]] = l
    BY <1>10
  <2>2. PICK j \in 1..Len(defs) : k[q[j]] = m
    BY <1>10
  <2>3. i = j
    BY <1>2, <1>14
  <2> QED  BY <2>1, <2>2, <2>3
<1> QED  BY <1>2, <1>7, <1>8, <1>12, <1>13, <1>14 DEF wanting

-----------------------------------------------------------------------------
(* What resolve made of it, from then on.                                  *)

Named == {m \in Name : table[m] # <<>>}

Decided ==
  /\ pc \in {"check", "define", "done"} =>
       errors = Conflicts /\ (~input.allowUndefined => errors = {})
  /\ pc \in {"check", "define"} => resolved = [n \in Named |-> Resolution(n)]
  /\ pc = "done" => \A n \in Named : n \in DOMAIN resolved /\ resolved[n] = Resolution(n)

LEMMA ResolutionUnmoved ==
  ASSUME UNCHANGED table
  PROVE  /\ \A n : Resolution(n)' = Resolution(n)
         /\ Conflicts' = Conflicts /\ Named' = Named
BY DEF Resolution, Conflicts, Named, HasDef, Winner, Defs, MergedVis, AllWeak

LEMMA NextDecided == Decided /\ [Next]_vars => Decided'
<1> SUFFICES ASSUME Decided, [Next]_vars PROVE Decided'
  OBVIOUS
<1> USE DEF outcome, scan
<1>1. CASE CollectObject \/ AllCollected \/ BeginPass \/ IncludeMember \/ SkipMember \/ EndPass
  <2>1. pc' \in {"collect", "resolve", "archives", "pass"}
    BY <1>1 DEF CollectObject, AllCollected, BeginPass, IncludeMember, SkipMember, EndPass
  <2> QED  BY <2>1 DEF Decided
<1>2. CASE Resolve
  <2>1. /\ resolved' = [n \in Named |-> Resolution(n)] /\ errors' = Conflicts
        /\ pc' \in {"failed", "check"} /\ UNCHANGED <<input, table>>
        /\ pc' = "check" => ~Fatal
    BY <1>2 DEF Resolve, Named
  <2>2. pc' = "check" /\ ~input.allowUndefined => errors' = {}
    BY <2>1 DEF Fatal
  <2> QED  BY <2>1, <2>2, ResolutionUnmoved DEF Decided
<1>3. CASE CheckUndefined
  <2>1. /\ pc = "check" /\ pc' \in {"failed", "done", "define"}
        /\ UNCHANGED <<input, table, resolved, errors>>
    BY <1>3 DEF CheckUndefined
  <2>2. \A n \in Named : n \in DOMAIN resolved /\ resolved[n] = Resolution(n)
    BY <2>1 DEF Decided
  <2> QED  BY <2>1, <2>2, ResolutionUnmoved DEF Decided
<1>4. CASE DefineLinkerSymbols
  <2>1. /\ pc = "define" /\ pc' = "done"
        /\ UNCHANGED <<input, table, errors>>
        /\ resolved' = [n \in DOMAIN resolved \cup LinkerName |->
                          IF n \in DOMAIN resolved THEN resolved[n] ELSE LinkerSymbol]
    BY <1>4 DEF DefineLinkerSymbols
  <2>2. resolved = [n \in Named |-> Resolution(n)]
    BY <2>1 DEF Decided
  <2>3. \A n \in Named : n \in DOMAIN resolved' /\ resolved'[n] = Resolution(n)
    BY <2>1, <2>2
  <2> QED  BY <2>1, <2>3, ResolutionUnmoved DEF Decided
<1>5. CASE UNCHANGED vars
  <2>1. UNCHANGED <<input, pc, table, resolved, errors>>
    BY <1>5 DEF vars
  <2> QED  BY <2>1, ResolutionUnmoved DEF Decided
<1> QED  BY <1>1, <1>2, <1>3, <1>4, <1>5 DEF Next

(* A link that goes through has one strong definition per name at most, in *)
(* all the objects and members it came to include, and resolves a name to  *)
(* it, or else to a weak one (resolve, collect_symbols, scan_archive).     *)
THEOREM DefinitionsUnique == Spec => []OneDefinition
<1>1. Init => Decided
  BY DEF Init, Decided
<1>2. IInv /\ Decided => OneDefinition
  <2> SUFFICES ASSUME IInv, Decided, pc \in {"check", "done"}, ~input.allowUndefined,
                      NEW n \in Name
      PROVE  /\ Cardinality(StrongDefs(n)) <= 1
             /\ StrongDefs(n) # {} => resolved[n].defined /\ resolved[n].binding = "global"
             /\ StrongDefs(n) = {} /\ WeakDefs(n) # {} =>
                  resolved[n].defined /\ resolved[n].binding = "weak"
    BY DEF OneDefinition
  <2>1. /\ Len(Defs(n, "global")) \in Nat
        /\ Defs(n, "global") = <<>> <=> StrongDefs(n) = {}
        /\ Defs(n, "global") # <<>> =>
             HasDef(n) /\ Head(Defs(n, "global")).sym.binding = "global"
        /\ Len(Defs(n, "global")) <= 1 => \A l, m \in StrongDefs(n) : l = m
    BY DefsFacts DEF StrongDefs
  <2>2. /\ Defs(n, "weak") = <<>> <=> WeakDefs(n) = {}
        /\ Defs(n, "weak") # <<>> =>
             HasDef(n) /\ Head(Defs(n, "weak")).sym.binding = "weak"
    BY DefsFacts DEF WeakDefs
  <2>3. n \notin Conflicts
    BY DEF Decided
  <2>4. \A l, m \in StrongDefs(n) : l = m
    BY <2>1, <2>3 DEF Conflicts
  <2>5. Cardinality(StrongDefs(n)) <= 1
    <3>1. CASE StrongDefs(n) = {}
      BY <3>1, FS_EmptySet
    <3>2. CASE StrongDefs(n) # {}
      <4>1. PICK l \in StrongDefs(n) : StrongDefs(n) = {l}
        BY <2>4, <3>2
      <4>2. Cardinality({l}) = 1
        BY FS_Singleton
      <4> QED  BY <4>1, <4>2
    <3> QED  BY <3>1, <3>2
  <2>6. HasDef(n) => n \in Named
    <3>1. table[n] \in Seq(Entry)
      BY DEF IInv, Typed
    <3> QED  BY <3>1 DEF HasDef, Named
  <2>7. n \in Named => resolved[n] = Resolution(n)
    BY DEF Decided
  <2>8. HasDef(n) => /\ Resolution(n).defined
                     /\ Resolution(n).binding = Winner(n).sym.binding
    BY DEF Resolution
  <2> QED  BY <2>1, <2>2, <2>5, <2>6, <2>7, <2>8 DEF Winner
<1> QED  BY <1>1, <1>2, NextDecided, TableComplete, PTL DEF Spec

(* The visibility resolve gives a name is the most restrictive of those it *)
(* has anywhere, and a name hidden anywhere is not exported                *)
(* (merge_visibility over the occurrences, export_dynamic).                *)
THEOREM VisibilityRestricts == Spec => []MostRestrictive
<1>1. Init => Decided
  BY DEF Init, Decided
<1>2. IInv /\ Decided => MostRestrictive
  <2> SUFFICES ASSUME IInv, Decided, pc = "check", NEW n \in DOMAIN resolved
      PROVE  /\ \A l \in Visible(n) : Restrictiveness(l[3].vis) <= Restrictiveness(resolved[n].vis)
             /\ \E l \in Visible(n) : l[3].vis = resolved[n].vis
             /\ resolved[n].export =>
                  \A l \in Visible(n) : l[3].vis \in {STV_DEFAULT, STV_PROTECTED}
    BY DEF MostRestrictive
  <2>1. n \in Name /\ table[n] # <<>> /\ resolved[n] = Resolution(n)
    BY DEF Decided, Named
  <2>2. /\ resolved[n].vis = MergedVis(n)
        /\ resolved[n].export => MergedVis(n) \in {STV_DEFAULT, STV_PROTECTED}
    BY <2>1 DEF Resolution
  <2>3. table[n] \in Seq(Entry)
    BY <2>1 DEF IInv, Typed
  <2>4. /\ MergedVis(n) \in Visibility
        /\ \A i \in 1..Len(table[n]) :
             Restrictiveness(table[n][i].sym.vis) <= Restrictiveness(MergedVis(n))
        /\ \E i \in 1..Len(table[n]) : table[n][i].sym.vis = MergedVis(n)
    BY <2>1, <2>3, MergedVisFacts
  <2>5. PICK k : Stands(k, n)
    BY <2>1, EntriesStand
  <2>6. /\ \A p \in 1..Len(table[n]) : k[p] \in Visible(n) /\ table[n][p].sym = k[p][3]
        /\ \A l \in Visible(n) : \E p \in 1..Len(table[n]) : k[p] = l
    BY <2>5 DEF Stands
  <2>7. \A l \in Visible(n) : Restrictiveness(l[3].vis) <= Restrictiveness(MergedVis(n))
    BY <2>4, <2>6
  <2>8. \E l \in Visible(n) : l[3].vis = MergedVis(n)
    BY <2>4, <2>6
  <2>9. \A l \in Visible(n) : l[3].vis \in {0, 1, 2, 3}
    <3>1. \A p \in 1..Len(table[n]) : table[n][p].sym.vis \in Visibility
      <4>1. \A p \in 1..Len(table[n]) : table[n][p] \in Entry
        BY <2>3
      <4> QED  BY <4>1 DEF Entry, Symbol
    <3> QED  BY <2>6, <3>1 DEF Visibility, STV_DEFAULT, STV_PROTECTED
  <2>10. /\ Restrictiveness(0) = 0 /\ Restrictiveness(1) = 3
         /\ Restrictiveness(2) = 2 /\ Restrictiveness(3) = 1
    BY DEF Restrictiveness
  <2>11. resolved[n].export =>
           \A l \in Visible(n) : l[3].vis \in {STV_DEFAULT, STV_PROTECTED}
    BY <2>2, <2>7, <2>9, <2>10 DEF STV_DEFAULT, STV_PROTECTED
  <2> QED  BY <2>2, <2>7, <2>8, <2>11
<1> QED  BY <1>1, <1>2, NextDecided, TableComplete, PTL DEF Spec

-----------------------------------------------------------------------------
(* Within a pass that has included nothing yet, the members behind are     *)
(* included already or not needed.                                         *)
NoneSkipped ==
  /\ pc = "collect" => archive = 1
  /\ pc = "pass" /\ ~changed =>
       /\ wanted = UndefinedNames
       /\ \A m \in DOMAIN Members :
            m < at /\ <<archive, m>> \notin included => ~Defines(Members[m], wanted)

LEMMA NextFixpoint ==
  IInv /\ NoneSkipped /\ ArchiveFixpoint /\ [Next]_vars => NoneSkipped' /\ ArchiveFixpoint'
<1> SUFFICES ASSUME IInv, NoneSkipped, ArchiveFixpoint, [Next]_vars
             PROVE  NoneSkipped' /\ ArchiveFixpoint'
  OBVIOUS
<1> USE DEF outcome, scan
<1>0. /\ at \in Nat \ {0} /\ archive \in Nat \ {0} /\ input.archives \in Seq(Seq(Seq(Symbol)))
      /\ pc \in {"archives", "pass"} => archive \in 1..Len(input.archives)
  <2>1. /\ IsInput(input) /\ at \in Nat \ {0} /\ archive \in Nat \ {0}
        /\ pc \in {"archives", "pass"} => archive <= Len(input.archives)
    BY DEF IInv, Typed
  <2> QED  BY <2>1 DEF IsInput
<1>1. CASE CollectObject
  <2>1. pc = "collect" /\ pc' = "collect" /\ archive' = archive
    BY <1>1 DEF CollectObject
  <2> QED  BY <2>1 DEF NoneSkipped, ArchiveFixpoint
<1>2. CASE AllCollected
  <2>1. pc = "collect" /\ pc' \in {"resolve", "archives"} /\ archive' = archive
    BY <1>2 DEF AllCollected
  <2> QED  BY <1>0, <2>1 DEF NoneSkipped, ArchiveFixpoint
<1>3. CASE BeginPass
  <2>1. /\ pc' = "pass" /\ wanted' = UndefinedNames /\ at' = 1
        /\ UNCHANGED <<input, archive, table, included>> /\ pc = "archives"
    BY <1>3 DEF BeginPass
  <2>2. UndefinedNames' = UndefinedNames /\ DOMAIN Members' = DOMAIN Members
    BY <2>1 DEF UndefinedNames, HasRef, HasDef, Members
  <2>3. \A m \in DOMAIN Members : ~(m < 1)
    <3>1. Members \in Seq(Seq(Symbol))
      BY <1>0, <2>1 DEF Members
    <3> QED  BY <3>1
  <2> QED  BY <2>1, <2>2, <2>3 DEF NoneSkipped, ArchiveFixpoint
<1>4. CASE IncludeMember
  <2>1. pc' = "pass" /\ changed' = TRUE
    BY <1>4 DEF IncludeMember
  <2> QED  BY <2>1 DEF NoneSkipped, ArchiveFixpoint
<1>5. CASE SkipMember
  <2>1. /\ pc = "pass" /\ pc' = "pass" /\ at' = at + 1 /\ ~Needed(at)
        /\ UNCHANGED <<input, table, archive, wanted, included, changed>>
    BY <1>5 DEF SkipMember
  <2>2. UndefinedNames' = UndefinedNames /\ Members' = Members
    BY <2>1 DEF UndefinedNames, HasRef, HasDef, Members
  <2>3. Members \in Seq(Seq(Symbol))
    BY <1>0, <2>1 DEF Members
  <2>4. ASSUME ~changed, NEW m \in DOMAIN Members, m < at + 1, <<archive, m>> \notin included
        PROVE  ~Defines(Members[m], wanted)
    <3>1. m \in Nat
      BY <2>3
    <3>2. CASE m < at
      BY <2>1, <2>4, <3>2 DEF NoneSkipped
    <3>3. CASE m = at
      BY <2>1, <2>4, <3>3 DEF Needed
    <3> QED  BY <1>0, <2>4, <3>1, <3>2, <3>3
  <2>5. \A m : Defines(Members[m], wanted)' = Defines(Members[m], wanted)
    BY <2>1, <2>2 DEF Defines
  <2> QED  BY <2>1, <2>2, <2>4, <2>5 DEF NoneSkipped, ArchiveFixpoint
<1>6. CASE EndPass
  <2>1. /\ pc = "pass" /\ at > Len(Members)
        /\ archive' = IF changed THEN archive ELSE archive + 1
        /\ pc' = IF changed \/ archive < Len(input.archives) THEN "archives" ELSE "resolve"
        /\ UNCHANGED <<input, table, wanted, included, changed>>
    BY <1>6 DEF EndPass, Another
  <2>2. UndefinedNames' = UndefinedNames
    BY <2>1 DEF UndefinedNames, HasRef, HasDef
  <2>3. Members \in Seq(Seq(Symbol))
    BY <1>0, <2>1 DEF Members
  <2>4. CASE changed
    BY <2>1, <2>4 DEF NoneSkipped, ArchiveFixpoint
  <2>5. CASE ~changed
    <3>1. archive' - 1 = archive
      BY <1>0, <2>1, <2>5
    <3>2. ASSUME NEW m \in DOMAIN Members, <<archive, m>> \notin included
          PROVE  ~Defines(Members[m], UndefinedNames)
      <4>1. m < at
        BY <1>0, <2>1, <2>3
      <4> QED  BY <2>1, <2>5, <3>2, <4>1 DEF NoneSkipped
    <3>3. \A m \in DOMAIN input'.archives[archive' - 1] :
            <<archive' - 1, m>> \notin included' =>
              ~Defines(input'.archives[archive' - 1][m], UndefinedNames')
      BY <2>1, <2>2, <3>1, <3>2 DEF Members
    <3>4. pc' \in {"archives", "resolve"}
      BY <2>1
    <3> QED  BY <3>3, <3>4 DEF NoneSkipped, ArchiveFixpoint
  <2> QED  BY <2>4, <2>5
<1>7. CASE Resolve \/ CheckUndefined \/ DefineLinkerSymbols
  <2>1. pc' \in {"check", "define", "done", "failed"}
    BY <1>7 DEF Resolve, CheckUndefined, DefineLinkerSymbols
  <2> QED  BY <2>1 DEF NoneSkipped, ArchiveFixpoint
<1>8. CASE UNCHANGED vars
  BY <1>8 DEF vars, NoneSkipped, ArchiveFixpoint, UndefinedNames, HasRef, HasDef, Members,
     Defines
<1> QED  BY <1>1, <1>2, <1>3, <1>4, <1>5, <1>6, <1>7, <1>8 DEF Next

(* When scan_archive leaves an archive, no member it left out would define *)
(* a name that is still undefined.                                         *)
THEOREM ArchiveScanComplete == Spec => []ArchiveFixpoint
<1>1. Init => NoneSkipped /\ ArchiveFixpoint
  BY DEF Init, NoneSkipped, ArchiveFixpoint
<1> QED  BY <1>1, NextFixpoint, TableComplete, PTL DEF Spec
=============================================================================
