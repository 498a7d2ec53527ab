----------------------------- MODULE SemaProofs -----------------------------
(***************************************************************************)
(* The symbol table and the scope stack find the same declaration of every *)
(* name, in every program: declarations and scopes of any number, in any   *)
(* nesting, statements left through errors included.                       *)
(*                                                                         *)
(* What the two structures keep is related entry by entry (Consistent); it *)
(* is kept when an entry is touched, registered, when a scope is pushed    *)
(* with the names of parameters, and when one is popped.  That a scope is  *)
(* there to be popped follows from the constructs that are open (Held).    *)
(*                                                                         *)
(* Then, for programs no statement of which was left through an error: the *)
(* loop and switch state is that of the open constructs (Nested), and the  *)
(* labels reported are those missing under the constructs that own them    *)
(* (Tally).                                                                *)
(***************************************************************************)
EXTENDS Sema, TLAPS, FiniteSetTheorems, SequenceTheorems, WellFoundedInduction

SymbolEntry ==
  [name : Name, kind : {"variable", "function", "typedef", "enumerator"},
   storage : {"auto", "static", "extern", "typedef"},
   linkage : {"none", "internal", "external"},
   defined : BOOLEAN, tentative : BOOLEAN, used : BOOLEAN, depth : Nat]

Ordinary == UNION {[S -> Nat] : S \in SUBSET Name}
ScopeFrame ==
  [kind : {"global", "function", "block"}, ordinary : Ordinary,
   locals : SUBSET Label, defined : SUBSET Label, referenced : SUBSET Label]

OpenConstruct ==
  [at : {"function", "block", "expression", "for", "loop", "switch"},
   stage : {"fresh", "head", "body", "done"}, id : Nat,
   inLoop : BOOLEAN, inSwitch : BOOLEAN, cases : SUBSET Literal, hasDefault : BOOLEAN,
   seen : SUBSET Literal, default : BOOLEAN]

(* An entry of a scope is an id of that name and of that depth, an id that *)
(* is not pruned is in the scope of its depth, and deeper ids are later.   *)
Typed(sym, ids, d, stack) ==
  /\ sym \in Seq(SymbolEntry)
  /\ ids \in [Name -> SUBSET (1..Len(sym))]
  /\ d \in Nat
  /\ stack \in Seq(ScopeFrame) /\ Len(stack) = d + 1
EntriesAreIds(sym, ids, stack) ==
  \A n \in Name : \A k \in 1..Len(stack) :
     n \in DOMAIN stack[k].ordinary =>
       /\ stack[k].ordinary[n] \in ids[n]
       /\ sym[stack[k].ordinary[n]].depth = k - 1
IdsAreEntries(sym, ids, d, stack) ==
  \A n \in Name : \A i \in ids[n] :
     /\ sym[i].depth <= d
     /\ n \in DOMAIN stack[sym[i].depth + 1].ordinary
     /\ stack[sym[i].depth + 1].ordinary[n] = i
DeeperIsLater(sym, ids) ==
  \A n \in Name : \A i, j \in ids[n] : sym[i].depth < sym[j].depth => i < j

Consistent(sym, ids, d, stack) ==
  /\ Typed(sym, ids, d, stack)
  /\ EntriesAreIds(sym, ids, stack)
  /\ IdsAreEntries(sym, ids, d, stack)
  /\ DeeperIsLater(sym, ids)

HasScope == {"function", "block", "expression", "for"}
Holding(cs) == {k \in 1..Len(cs) : cs[k].at \in HasScope}

TablesAgree == Consistent(symbols, nameToIds, depth, scopes)
Restorable ==
  /\ menu \in Menus
  /\ inLoop \in BOOLEAN /\ inSwitch \in BOOLEAN
  /\ cases \in SUBSET Literal /\ hasDefault \in BOOLEAN
  /\ open \in Seq(OpenConstruct) /\ opened \in Nat
Held == Cardinality(Holding(open)) <= depth

IInv == TablesAgree /\ Restorable /\ Held

-----------------------------------------------------------------------------
(* A bounded set of ids or of scopes has a latest one.                     *)
LEMMA LatestIsLast ==
  ASSUME NEW m \in Nat, NEW S \in SUBSET (1..m), S # {}
  PROVE  /\ Latest(S) \in S
         /\ \A j \in S : j <= Latest(S)
<1> DEFINE T == {m - i : i \in S}
<1>1. T \subseteq Nat
  OBVIOUS
<1>2. T # {}
  <2>1. PICK i \in S : TRUE
    OBVIOUS
  <2>2. m - i \in T
    OBVIOUS
  <2> QED
    BY <2>2
<1>3. PICK x \in T : \A y \in T : <<y, x>> \notin OpToRel(<, Nat)
  <2> HIDE DEF T
  <2> QED
    BY <1>1, <1>2, NatLessThanWellFounded, WFMin
<1>4. \A y \in T : ~(y < x)
  BY <1>1, <1>3 DEF OpToRel
<1>5. PICK i \in S : x = m - i
  BY DEF T
<1>6. ASSUME NEW j \in S PROVE j <= i
  <2>1. m - j \in T
    OBVIOUS
  <2>2. ~(m - j < m - i)
    BY <1>4, <1>5, <2>1
  <2> QED
    BY <2>2
<1> QED
  BY <1>6 DEF Latest

LEMMA TypedFacts ==
  ASSUME NEW sym, NEW ids, NEW d, NEW stack, Typed(sym, ids, d, stack)
  PROVE  /\ Len(sym) \in Nat /\ DOMAIN sym = 1..Len(sym)
         /\ \A i \in 1..Len(sym) : sym[i] \in SymbolEntry /\ sym[i].depth \in Nat
         /\ \A n \in Name : ids[n] \in SUBSET (1..Len(sym))
         /\ d \in Nat /\ Len(stack) = d + 1 /\ DOMAIN stack = 1..(d + 1)
         /\ \A k \in 1..(d + 1) : stack[k] \in ScopeFrame
<1>1. Len(sym) \in Nat /\ DOMAIN sym = 1..Len(sym)
  BY LenProperties DEF Typed
<1>2. \A i \in 1..Len(sym) : sym[i] \in SymbolEntry
  BY ElementOfSeq DEF Typed
<1>3. \A i \in 1..Len(sym) : sym[i].depth \in Nat
  BY <1>2 DEF SymbolEntry
<1>4. \A n \in Name : ids[n] \in SUBSET (1..Len(sym))
  BY DEF Typed
<1>5. d \in Nat /\ Len(stack) = d + 1 /\ DOMAIN stack = 1..(d + 1)
  BY LenProperties DEF Typed
<1>6. \A k \in 1..(d + 1) : stack[k] \in ScopeFrame
  BY <1>5, ElementOfSeq DEF Typed
<1> QED
  BY <1>1, <1>2, <1>3, <1>4, <1>5, <1>6

(* What the two lookups return when the structures are consistent.         *)
LEMMA ConsistentAgrees == TablesAgree => ScopesAgree
<1> SUFFICES ASSUME TablesAgree, NEW n \in Name
             PROVE  Lookup(n) = LookupOrdinary(n)
  BY DEF ScopesAgree, TablesAgree, Consistent, Typed
<1> USE DEF TablesAgree, Consistent
<1>1. /\ nameToIds[n] \in SUBSET (1..Len(symbols)) /\ Len(symbols) \in Nat
      /\ Len(scopes) \in Nat /\ DOMAIN scopes = 1..Len(scopes)
      /\ ScopesOf(n) \in SUBSET (1..Len(scopes))
      /\ \A i \in 1..Len(symbols) : symbols[i].depth \in Nat
  <2>1. Typed(symbols, nameToIds, depth, scopes)
    OBVIOUS
  <2> QED
    BY <2>1, TypedFacts DEF ScopesOf
<1>2. CASE nameToIds[n] = {}
  <2>1. ScopesOf(n) = {}
    BY <1>1, <1>2 DEF ScopesOf, EntriesAreIds
  <2> QED
    BY <1>2, <2>1 DEF Lookup, LookupOrdinary
<1>3. CASE nameToIds[n] # {}
  <2> DEFINE i == Lookup(n)
             k == Latest(ScopesOf(n))
             j == scopes[k].ordinary[n]
  <2>1. i \in nameToIds[n] /\ \A x \in nameToIds[n] : x <= i
    BY <1>1, <1>3, LatestIsLast DEF Lookup
  <2>2. symbols[i].depth + 1 \in ScopesOf(n)
    BY <1>1, <2>1 DEF Typed, IdsAreEntries, ScopesOf
  <2>3. k \in ScopesOf(n) /\ \A x \in ScopesOf(n) : x <= k
    BY <1>1, <2>2, LatestIsLast
  <2>4. j \in nameToIds[n] /\ symbols[j].depth = k - 1
    BY <1>1, <2>3 DEF EntriesAreIds, ScopesOf
  <2>5. symbols[i].depth <= symbols[j].depth
    BY <1>1, <2>1, <2>2, <2>3, <2>4
  <2>6. ~(symbols[i].depth < symbols[j].depth)
    BY <1>1, <2>1, <2>4, SMTT(30) DEF DeeperIsLater
  <2>7. symbols[i].depth = symbols[j].depth
    BY <1>1, <2>1, <2>4, <2>5, <2>6
  <2>8. i = j
    <3> HIDE DEF i, j, k
    <3> QED
      BY <2>1, <2>4, <2>7 DEF IdsAreEntries
  <2> QED
    BY <2>2, <2>8 DEF LookupOrdinary
<1> QED
  BY <1>2, <1>3

-----------------------------------------------------------------------------
(* What may happen to a consistent pair of structures.                     *)

\* Entries are rewritten, scopes change but for their names.
LEMMA RetouchedKeeps ==
  ASSUME NEW sym, NEW ids, NEW d, NEW stack, Consistent(sym, ids, d, stack),
         NEW sym2 \in Seq(SymbolEntry), Len(sym2) = Len(sym),
         \A i \in 1..Len(sym) : sym2[i].depth = sym[i].depth,
         NEW stack2 \in Seq(ScopeFrame), Len(stack2) = Len(stack),
         \A k \in 1..Len(stack) : stack2[k].ordinary = stack[k].ordinary
  PROVE  Consistent(sym2, ids, d, stack2)
<1>1. /\ Typed(sym, ids, d, stack) /\ EntriesAreIds(sym, ids, stack)
      /\ IdsAreEntries(sym, ids, d, stack) /\ DeeperIsLater(sym, ids)
  BY DEF Consistent
<1>2. /\ \A i \in 1..Len(sym) : sym[i].depth \in Nat
      /\ \A n \in Name : ids[n] \in SUBSET (1..Len(sym))
      /\ d \in Nat /\ Len(stack) = d + 1
  BY <1>1, TypedFacts
<1>3. Typed(sym2, ids, d, stack2)
  BY <1>1 DEF Typed
<1>4. EntriesAreIds(sym2, ids, stack2)
  BY <1>1, <1>2 DEF EntriesAreIds
<1>5. IdsAreEntries(sym2, ids, d, stack2)
  BY <1>1, <1>2 DEF IdsAreEntries
<1>6. DeeperIsLater(sym2, ids)
  BY <1>1, <1>2 DEF DeeperIsLater
<1> QED
  BY <1>3, <1>4, <1>5, <1>6 DEF Consistent

\* An id is registered in the current scope: a new one, or the one it has.
LEMMA RegisteredKeeps ==
  ASSUME NEW sym, NEW ids, NEW d, NEW stack, Consistent(sym, ids, d, stack),
         NEW sym2 \in Seq(SymbolEntry), Len(sym) <= Len(sym2),
         \A i \in 1..Len(sym) : sym2[i].depth = sym[i].depth,
         NEW n \in Name, NEW id \in 1..Len(sym2), sym2[id].depth = d,
         \/ id \in ids[n]
         \/ id = Len(sym) + 1 /\ \A i \in ids[n] : sym[i].depth # d
  PROVE  Consistent(sym2, [ids EXCEPT ![n] = @ \cup {id}], d, Registered(stack, n, id))
<1> DEFINE ids2 == [ids EXCEPT ![n] = @ \cup {id}]
           stack2 == Registered(stack, n, id)
           top == stack[Len(stack)].ordinary
           names == [m \in DOMAIN top \cup {n} |-> IF m = n THEN id ELSE top[m]]
           frame == [stack[Len(stack)] EXCEPT !.ordinary = names]
<1>1. /\ Typed(sym, ids, d, stack) /\ EntriesAreIds(sym, ids, stack)
      /\ IdsAreEntries(sym, ids, d, stack) /\ DeeperIsLater(sym, ids)
  BY DEF Consistent
<1>2. /\ Len(sym) \in Nat
      /\ \A i \in 1..Len(sym) : sym[i].depth \in Nat
      /\ \A m \in Name : ids[m] \in SUBSET (1..Len(sym))
      /\ d \in Nat /\ Len(stack) = d + 1 /\ DOMAIN stack = 1..(d + 1)
      /\ \A k \in 1..(d + 1) : stack[k] \in ScopeFrame
  BY <1>1, TypedFacts
<1>3. Len(sym2) \in Nat
  BY LenProperties
<1>4. stack[Len(stack)] \in ScopeFrame /\ top \in Ordinary
  BY <1>2 DEF ScopeFrame
<1>5. names \in Ordinary
  <2>1. PICK S \in SUBSET Name : top \in [S -> Nat]
    BY <1>4 DEF Ordinary
  <2>2. names \in [S \cup {n} -> Nat]
    BY <2>1, <1>3
  <2> QED
    BY <2>2 DEF Ordinary
<1>6. frame \in ScopeFrame /\ frame.ordinary = names
  BY <1>4, <1>5 DEF ScopeFrame
<1>7. stack2 = [stack EXCEPT ![Len(stack)] = frame]
  BY DEF Registered
<1>8. /\ stack2 \in Seq(ScopeFrame) /\ Len(stack2) = d + 1
      /\ \A k \in 1..(d + 1) : stack2[k] = IF k = d + 1 THEN frame ELSE stack[k]
  <2> HIDE DEF frame, stack2
  <2>1. stack \in Seq(ScopeFrame) /\ Len(stack) \in 1..Len(stack)
    BY <1>1, <1>2 DEF Typed
  <2> QED
    BY <1>2, <1>6, <1>7, <2>1, ExceptSeq
<1>9. /\ \A k \in 1..d : stack2[k].ordinary = stack[k].ordinary
      /\ stack2[d + 1].ordinary = names
  <2> HIDE DEF frame, stack2, names
  <2>1. d + 1 \in 1..(d + 1) /\ \A k \in 1..d : k \in 1..(d + 1) /\ k # d + 1
    BY <1>2
  <2>2. stack2[d + 1] = frame /\ \A k \in 1..d : stack2[k] = stack[k]
    BY <1>8, <2>1
  <2> QED
    BY <1>6, <2>2
<1>10. /\ \A m \in Name : m # n => ids2[m] = ids[m]
       /\ ids2[n] = ids[n] \cup {id}
  BY <1>1 DEF Typed
<1>11. Typed(sym2, ids2, d, stack2)
  <2>1. ids2 \in [Name -> SUBSET (1..Len(sym2))]
    BY <1>1, <1>2, <1>3 DEF Typed
  <2> QED
    BY <1>2, <1>8, <2>1 DEF Typed
<1> HIDE DEF ids2, stack2, names, frame
<1>12. \A m \in DOMAIN top \cup {n} : names[m] = IF m = n THEN id ELSE top[m]
  BY DEF names
<1>13. DOMAIN names = DOMAIN top \cup {n}
  BY DEF names
<1>14. EntriesAreIds(sym2, ids2, stack2)
  <2> SUFFICES ASSUME NEW m \in Name, NEW k \in 1..(d + 1),
                      m \in DOMAIN stack2[k].ordinary
               PROVE  /\ stack2[k].ordinary[m] \in ids2[m]
                      /\ sym2[stack2[k].ordinary[m]].depth = k - 1
    BY <1>8 DEF EntriesAreIds
  <2>1. CASE k = d + 1 /\ m = n
    BY <2>1, <1>2, <1>9, <1>10, <1>12
  <2>2. CASE k = d + 1 /\ m # n
    BY <2>2, <1>1, <1>2, <1>9, <1>10, <1>12, <1>13, SMTT(30) DEF EntriesAreIds
  <2>3. CASE k # d + 1
    <3>1. k \in 1..d /\ k \in 1..Len(stack)
      BY <2>3, <1>2
    <3>2. stack2[k].ordinary = stack[k].ordinary
      BY <3>1, <1>9
    <3>3. stack[k].ordinary[m] \in ids[m] /\ sym[stack[k].ordinary[m]].depth = k - 1
      BY <3>1, <3>2, <1>1 DEF EntriesAreIds
    <3> QED
      BY <3>2, <3>3, <1>2, <1>10
  <2> QED
    BY <2>1, <2>2, <2>3
<1>15. IdsAreEntries(sym2, ids2, d, stack2)
  <2> SUFFICES ASSUME NEW m \in Name, NEW i \in ids2[m]
               PROVE  /\ sym2[i].depth <= d
                      /\ m \in DOMAIN stack2[sym2[i].depth + 1].ordinary
                      /\ stack2[sym2[i].depth + 1].ordinary[m] = i
    BY DEF IdsAreEntries
  <2>1. CASE m = n /\ i = id
    BY <2>1, <1>2, <1>9, <1>12, <1>13
  <2>2. CASE i \in ids[m] /\ ~(m = n /\ i = id)
    <3>1. /\ i \in 1..Len(sym) /\ sym2[i].depth = sym[i].depth /\ sym[i].depth \in Nat
          /\ sym[i].depth <= d /\ m \in DOMAIN stack[sym[i].depth + 1].ordinary
          /\ stack[sym[i].depth + 1].ordinary[m] = i
      BY <2>2, <1>1, <1>2 DEF IdsAreEntries
    <3>2. CASE sym[i].depth < d
      <4>1. sym[i].depth + 1 \in 1..d
        BY <3>1, <3>2, <1>2
      <4>2. stack2[sym[i].depth + 1].ordinary = stack[sym[i].depth + 1].ordinary
        BY <4>1, <1>9
      <4> QED
        BY <3>1, <4>2
    <3>3. CASE sym[i].depth = d /\ m # n
      BY <3>1, <3>3, <1>2, <1>9, <1>12, <1>13
    <3>4. CASE sym[i].depth = d /\ m = n
      <4>1. id \in ids[n] /\ sym[id].depth = d
        BY <2>2, <3>4, <1>2
      <4>2. top[n] = id
        BY <4>1, <1>1, <1>2, SMTT(30) DEF IdsAreEntries
      <4> QED
        BY <2>2, <3>1, <3>4, <4>2, <1>2
    <3> QED
      BY <3>1, <3>2, <3>3, <3>4, <1>2
  <2> QED
    BY <2>1, <2>2, <1>10
<1>16. DeeperIsLater(sym2, ids2)
  <2> SUFFICES ASSUME NEW m \in Name, NEW i \in ids2[m], NEW j \in ids2[m],
                      sym2[i].depth < sym2[j].depth
               PROVE  i < j
    BY DEF DeeperIsLater
  <2>1. CASE i \in ids[m] /\ j \in ids[m]
    BY <2>1, <1>1, <1>2 DEF DeeperIsLater
  <2>2. CASE j \notin ids[m]
    <3>1. m = n /\ j = id /\ id = Len(sym) + 1 /\ i # j
      BY <2>2, <1>10, <1>2
    <3> QED
      BY <3>1, <1>2, <1>10
  <2>3. CASE i \notin ids[m] /\ j \in ids[m]
    <3>1. m = n /\ i = id /\ sym2[i].depth = d /\ sym2[j].depth = sym[j].depth
      BY <2>3, <1>10, <1>2
    <3>2. sym[j].depth <= d /\ sym[j].depth \in Nat
      BY <2>3, <1>1, <1>2 DEF IdsAreEntries
    <3> QED
      BY <3>1, <3>2, <1>2
  <2> QED
    BY <2>1, <2>2, <2>3
<1> QED
  BY <1>11, <1>14, <1>15, <1>16 DEF Consistent, ids2, stack2

\* A scope is pushed with the names P, whose ids are those of new entries.
LEMMA PushedKeeps ==
  ASSUME NEW sym, NEW ids, NEW d, NEW stack, Consistent(sym, ids, d, stack),
         NEW new \in Seq(SymbolEntry), \A k \in 1..Len(new) : new[k].depth = d + 1,
         NEW P \in SUBSET Name, NEW at \in [P -> (Len(sym) + 1)..(Len(sym) + Len(new))],
         NEW frame \in ScopeFrame, frame.ordinary = at
  PROVE  Consistent(sym \o new, [n \in Name |-> IF n \in P THEN ids[n] \cup {at[n]} ELSE ids[n]],
                    d + 1, Append(stack, frame))
<1> DEFINE sym2 == sym \o new
           ids2 == [n \in Name |-> IF n \in P THEN ids[n] \cup {at[n]} ELSE ids[n]]
           stack2 == Append(stack, frame)
<1>1. /\ Typed(sym, ids, d, stack) /\ EntriesAreIds(sym, ids, stack)
      /\ IdsAreEntries(sym, ids, d, stack) /\ DeeperIsLater(sym, ids)
  BY DEF Consistent
<1>2. /\ Len(sym) \in Nat
      /\ \A i \in 1..Len(sym) : sym[i].depth \in Nat
      /\ \A m \in Name : ids[m] \in SUBSET (1..Len(sym))
      /\ d \in Nat /\ Len(stack) = d + 1
  BY <1>1, TypedFacts
<1>3. Len(new) \in Nat
  BY LenProperties
<1>4. /\ sym2 \in Seq(SymbolEntry) /\ Len(sym2) = Len(sym) + Len(new)
      /\ \A i \in 1..(Len(sym) + Len(new)) :
           sym2[i] = IF i <= Len(sym) THEN sym[i] ELSE new[i - Len(sym)]
  BY <1>1, ConcatProperties DEF Typed
<1>5. /\ stack2 \in Seq(ScopeFrame) /\ Len(stack2) = d + 2
      /\ \A k \in 1..(d + 1) : stack2[k] = stack[k]
      /\ stack2[d + 2] = frame
  BY <1>1, <1>2, AppendProperties DEF Typed
<1>6. /\ \A m \in Name \ P : ids2[m] = ids[m]
      /\ \A m \in P : ids2[m] = ids[m] \cup {at[m]}
  OBVIOUS
<1>7. Typed(sym2, ids2, d + 1, stack2)
  <2>1. ids2 \in [Name -> SUBSET (1..Len(sym2))]
    BY <1>1, <1>2, <1>3, <1>4 DEF Typed
  <2> QED
    BY <1>2, <1>4, <1>5, <2>1 DEF Typed
<1> HIDE DEF sym2, ids2, stack2
<1>8. \A i \in 1..Len(sym) : sym2[i].depth = sym[i].depth
  BY <1>2, <1>3, <1>4
<1>9. \A m \in P : at[m] \notin 1..Len(sym) /\ at[m] > Len(sym) /\ at[m] \in Nat /\ sym2[at[m]].depth = d + 1
  <2> SUFFICES ASSUME NEW m \in P
               PROVE  at[m] \notin 1..Len(sym) /\ at[m] > Len(sym) /\ at[m] \in Nat /\ sym2[at[m]].depth = d + 1
    OBVIOUS
  <2>1. at[m] \in (Len(sym) + 1)..(Len(sym) + Len(new))
    OBVIOUS
  <2>2. /\ at[m] \in 1..(Len(sym) + Len(new)) /\ ~(at[m] <= Len(sym))
        /\ at[m] - Len(sym) \in 1..Len(new)
    BY <2>1, <1>2, <1>3
  <2>3. sym2[at[m]] = new[at[m] - Len(sym)]
    BY <2>2, <1>4
  <2> QED
    BY <2>1, <2>2, <2>3, <1>2, <1>3
<1>10. EntriesAreIds(sym2, ids2, stack2)
  <2> SUFFICES ASSUME NEW m \in Name, NEW k \in 1..(d + 2),
                      m \in DOMAIN stack2[k].ordinary
               PROVE  /\ stack2[k].ordinary[m] \in ids2[m]
                      /\ sym2[stack2[k].ordinary[m]].depth = k - 1
    BY <1>5 DEF EntriesAreIds
  <2>1. CASE k = d + 2
    <3>1. m \in P /\ stack2[k].ordinary[m] = at[m]
      BY <2>1, <1>5
    <3> QED
      BY <2>1, <3>1, <1>2, <1>6, <1>9
  <2>2. CASE k # d + 2
    <3>1. k \in 1..(d + 1) /\ k \in 1..Len(stack)
      BY <2>2, <1>2
    <3>2. stack2[k].ordinary = stack[k].ordinary
      BY <3>1, <1>5
    <3>3. stack[k].ordinary[m] \in ids[m] /\ sym[stack[k].ordinary[m]].depth = k - 1
      BY <3>1, <3>2, <1>1 DEF EntriesAreIds
    <3> QED
      BY <3>2, <3>3, <1>2, <1>6, <1>8
  <2> QED
    BY <2>1, <2>2
<1>11. IdsAreEntries(sym2, ids2, d + 1, stack2)
  <2> SUFFICES ASSUME NEW m \in Name, NEW i \in ids2[m]
               PROVE  /\ sym2[i].depth <= d + 1
                      /\ m \in DOMAIN stack2[sym2[i].depth + 1].ordinary
                      /\ stack2[sym2[i].depth + 1].ordinary[m] = i
    BY DEF IdsAreEntries
  <2>1. CASE i \in ids[m]
    <3>1. /\ i \in 1..Len(sym) /\ sym2[i].depth = sym[i].depth /\ sym[i].depth \in Nat
          /\ sym[i].depth <= d /\ m \in DOMAIN stack[sym[i].depth + 1].ordinary
          /\ stack[sym[i].depth + 1].ordinary[m] = i
      BY <2>1, <1>1, <1>2, <1>8 DEF IdsAreEntries
    <3>2. sym[i].depth + 1 \in 1..(d + 1)
      BY <3>1, <1>2
    <3>3. stack2[sym[i].depth + 1] = stack[sym[i].depth + 1]
      BY <3>2, <1>5
    <3> QED
      BY <3>1, <3>3, <1>2
  <2>2. CASE m \in P /\ i = at[m]
    <3>1. sym2[i].depth + 1 = d + 2
      BY <2>2, <1>2, <1>9
    <3>2. stack2[sym2[i].depth + 1].ordinary = at
      BY <3>1, <1>5
    <3> QED
      BY <2>2, <3>1, <3>2, <1>2, <1>9
  <2> QED
    BY <2>1, <2>2, <1>6
<1>12. DeeperIsLater(sym2, ids2)
  <2> SUFFICES ASSUME NEW m \in Name, NEW i \in ids2[m], NEW j \in ids2[m],
                      sym2[i].depth < sym2[j].depth
               PROVE  i < j
    BY DEF DeeperIsLater
  <2>1. CASE i \in ids[m] /\ j \in ids[m]
    BY <2>1, <1>1, <1>2, <1>8 DEF DeeperIsLater
  <2>2. CASE j \notin ids[m]
    <3>1. m \in P /\ j = at[m] /\ i # j
      BY <2>2, <1>6, <1>2, <1>9
    <3>2. i \in 1..Len(sym)
      BY <3>1, <1>6, <1>2
    <3> QED
      BY <3>1, <3>2, <1>2, <1>9
  <2>3. CASE i \notin ids[m] /\ j \in ids[m]
    <3>0. m \in P /\ i = at[m]
      BY <2>3, <1>6
    <3>3. sym2[i].depth = d + 1
      BY <3>0, <1>9
    <3>4. j \in 1..Len(sym)
      BY <2>3, <1>2
    <3>5. sym2[j].depth = sym[j].depth
      BY <3>4, <1>8
    <3>1. sym2[i].depth = d + 1 /\ j \in 1..Len(sym) /\ sym2[j].depth = sym[j].depth
      BY <3>3, <3>4, <3>5
    <3>2. sym[j].depth <= d /\ sym[j].depth \in Nat
      BY <2>3, <1>1, <1>2 DEF IdsAreEntries
    <3> QED
      BY <3>1, <3>2, <1>2
  <2> QED
    BY <2>1, <2>2, <2>3
<1> QED
  BY <1>7, <1>10, <1>11, <1>12 DEF Consistent, sym2, ids2, stack2

\* The current scope is popped and its ids are pruned.
LEMMA PoppedKeeps ==
  ASSUME NEW sym, NEW ids, NEW d, NEW stack, Consistent(sym, ids, d, stack), d > 0
  PROVE  Consistent(sym, [n \in Name |-> {i \in ids[n] : sym[i].depth # d}],
                    d - 1, SubSeq(stack, 1, Len(stack) - 1))
<1> DEFINE ids2 == [n \in Name |-> {i \in ids[n] : sym[i].depth # d}]
           stack2 == SubSeq(stack, 1, Len(stack) - 1)
<1>1. /\ Typed(sym, ids, d, stack) /\ EntriesAreIds(sym, ids, stack)
      /\ IdsAreEntries(sym, ids, d, stack) /\ DeeperIsLater(sym, ids)
  BY DEF Consistent
<1>2. /\ Len(sym) \in Nat
      /\ \A i \in 1..Len(sym) : sym[i].depth \in Nat
      /\ \A m \in Name : ids[m] \in SUBSET (1..Len(sym))
      /\ d \in Nat /\ Len(stack) = d + 1
      /\ \A k \in 1..(d + 1) : stack[k] \in ScopeFrame
  BY <1>1, TypedFacts
<1>3. /\ stack2 \in Seq(ScopeFrame) /\ Len(stack2) = d
      /\ \A k \in 1..d : stack2[k] = stack[k]
  <2>1. Len(stack) - 1 = d /\ 1 <= d /\ \A k \in 1..d : k \in 1..(d + 1) /\ stack[k] \in ScopeFrame
    BY <1>2
  <2>2. /\ SubSeq(stack, 1, d) \in Seq(ScopeFrame)
        /\ Len(SubSeq(stack, 1, d)) = IF 1 <= d THEN d - 1 + 1 ELSE 0
        /\ \A k \in 1..(d - 1 + 1) : SubSeq(stack, 1, d)[k] = stack[1 + k - 1]
    BY <1>2, <2>1, SubSeqProperties
  <2> QED
    BY <1>2, <2>1, <2>2
<1>4. Typed(sym, ids2, d - 1, stack2)
  BY <1>1, <1>2, <1>3 DEF Typed
<1>5. \A m \in Name : ids2[m] = {i \in ids[m] : sym[i].depth # d}
  OBVIOUS
<1> HIDE DEF ids2, stack2
<1>6. EntriesAreIds(sym, ids2, stack2)
  <2> SUFFICES ASSUME NEW m \in Name, NEW k \in 1..d,
                      m \in DOMAIN stack2[k].ordinary
               PROVE  /\ stack2[k].ordinary[m] \in ids2[m]
                      /\ sym[stack2[k].ordinary[m]].depth = k - 1
    BY <1>3 DEF EntriesAreIds
  <2>1. k \in 1..Len(stack) /\ k - 1 # d /\ stack2[k].ordinary = stack[k].ordinary
    BY <1>2, <1>3
  <2> QED
    BY <2>1, <1>1, <1>5 DEF EntriesAreIds
<1>7. IdsAreEntries(sym, ids2, d - 1, stack2)
  <2> SUFFICES ASSUME NEW m \in Name, NEW i \in ids2[m]
               PROVE  /\ sym[i].depth <= d - 1
                      /\ m \in DOMAIN stack2[sym[i].depth + 1].ordinary
                      /\ stack2[sym[i].depth + 1].ordinary[m] = i
    BY DEF IdsAreEntries
  <2>1. /\ i \in ids[m] /\ sym[i].depth # d /\ sym[i].depth <= d /\ sym[i].depth \in Nat
        /\ m \in DOMAIN stack[sym[i].depth + 1].ordinary
        /\ stack[sym[i].depth + 1].ordinary[m] = i
    BY <1>1, <1>2, <1>5 DEF IdsAreEntries
  <2>2. sym[i].depth + 1 \in 1..d /\ sym[i].depth <= d - 1
    BY <2>1, <1>2
  <2> QED
    BY <2>1, <2>2, <1>3
<1>8. DeeperIsLater(sym, ids2)
  BY <1>1, <1>5 DEF DeeperIsLater
<1> QED
  BY <1>4, <1>6, <1>7, <1>8 DEF Consistent, ids2, stack2

-----------------------------------------------------------------------------
(* The constructs that hold a scope, as constructs open and close.         *)
LEMMA HoldingFinite ==
  ASSUME NEW cs \in Seq(OpenConstruct)
  PROVE  /\ IsFiniteSet(Holding(cs)) /\ Cardinality(Holding(cs)) \in Nat
         /\ Len(cs) \in Nat /\ DOMAIN cs = 1..Len(cs)
<1>1. Len(cs) \in Nat /\ DOMAIN cs = 1..Len(cs)
  BY LenProperties
<1>2. IsFiniteSet(1..Len(cs)) /\ Holding(cs) \in SUBSET (1..Len(cs))
  BY <1>1, FS_Interval DEF Holding
<1>3. IsFiniteSet(Holding(cs))
  BY <1>2, FS_Subset
<1> QED
  BY <1>1, <1>3, FS_CardinalityType

LEMMA HoldingOpened ==
  ASSUME NEW cs \in Seq(OpenConstruct), NEW c \in OpenConstruct, NEW d \in Nat,
         Cardinality(Holding(cs)) <= d
  PROVE  /\ Append(cs, c) \in Seq(OpenConstruct)
         /\ Cardinality(Holding(Append(cs, c))) <= d + 1
         /\ c.at \notin HasScope => Cardinality(Holding(Append(cs, c))) <= d
<1>1. /\ Append(cs, c) \in Seq(OpenConstruct) /\ Len(Append(cs, c)) = Len(cs) + 1
      /\ \A k \in 1..Len(cs) : Append(cs, c)[k] = cs[k]
      /\ Append(cs, c)[Len(cs) + 1] = c
  BY AppendProperties
<1>2. /\ IsFiniteSet(Holding(cs)) /\ Cardinality(Holding(cs)) \in Nat
      /\ Len(cs) \in Nat
  BY HoldingFinite
<1>3. CASE c.at \in HasScope
  <2>1. Holding(Append(cs, c)) = Holding(cs) \cup {Len(cs) + 1}
    BY <1>1, <1>2, <1>3 DEF Holding
  <2>2. Len(cs) + 1 \notin Holding(cs)
    BY <1>2 DEF Holding
  <2>3. Cardinality(Holding(cs) \cup {Len(cs) + 1}) = Cardinality(Holding(cs)) + 1
    BY <1>2, <2>2, FS_AddElement
  <2>4. Cardinality(Holding(Append(cs, c))) <= d + 1
    BY <1>2, <2>1, <2>3
  <2> QED
    BY <1>1, <1>3, <2>4
<1>4. CASE c.at \notin HasScope
  <2>1. Holding(Append(cs, c)) = Holding(cs)
    BY <1>1, <1>2, <1>4 DEF Holding
  <2> QED
    BY <1>1, <1>2, <2>1
<1> QED
  BY <1>3, <1>4

LEMMA HoldingClosed ==
  ASSUME NEW cs \in Seq(OpenConstruct), cs # <<>>, NEW d \in Nat,
         Cardinality(Holding(cs)) <= d
  PROVE  LET rest == SubSeq(cs, 1, Len(cs) - 1) IN
         /\ rest \in Seq(OpenConstruct)
         /\ Cardinality(Holding(rest)) <= d
         /\ cs[Len(cs)].at \in HasScope =>
              d > 0 /\ Cardinality(Holding(rest)) <= d - 1
<1> DEFINE rest == SubSeq(cs, 1, Len(cs) - 1)
<1>1. /\ IsFiniteSet(Holding(cs)) /\ Cardinality(Holding(cs)) \in Nat
      /\ Len(cs) \in Nat
  BY HoldingFinite
<1>2. Len(cs) > 0
  BY <1>1, EmptySeq
<1>3. \A k \in 1..Len(cs) : cs[k] \in OpenConstruct
  BY ElementOfSeq
<1>4. /\ rest \in Seq(OpenConstruct) /\ Len(rest) = Len(cs) - 1
      /\ \A k \in 1..(Len(cs) - 1) : rest[k] = cs[k]
  <2>1. /\ 1 \in Int /\ Len(cs) - 1 \in Int
        /\ \A k \in 1..(Len(cs) - 1) : cs[k] \in OpenConstruct
    BY <1>1, <1>2, <1>3
  <2>2. /\ rest \in Seq(OpenConstruct)
        /\ Len(rest) = IF 1 <= Len(cs) - 1 THEN Len(cs) - 1 - 1 + 1 ELSE 0
        /\ \A k \in 1..(Len(cs) - 1 - 1 + 1) : rest[k] = cs[1 + k - 1]
    BY <2>1, SubSeqProperties
  <2> HIDE DEF rest
  <2>3. Len(rest) = Len(cs) - 1
    <3>1. CASE Len(cs) = 1
      BY <2>2, <3>1
    <3>2. CASE Len(cs) # 1
      <4>1. 1 <= Len(cs) - 1
        <5>1. \A n \in Nat : n > 0 /\ n # 1 => 1 <= n - 1
          OBVIOUS
        <5> QED
          BY <1>1, <1>2, <3>2, <5>1
      <4>2. Len(rest) = Len(cs) - 1 - 1 + 1
        BY <2>2, <4>1
      <4> QED
        BY <1>1, <4>2
    <3> QED
      BY <3>1, <3>2
  <2>4. \A k \in 1..(Len(cs) - 1) : k \in 1..(Len(cs) - 1 - 1 + 1) /\ 1 + k - 1 = k
    BY <1>1, <1>2
  <2>5. \A k \in 1..(Len(cs) - 1) : rest[k] = cs[k]
    BY <2>2, <2>4
  <2> QED
    BY <2>2, <2>3, <2>5
<1>5. Holding(rest) = Holding(cs) \ {Len(cs)}
  <2> HIDE DEF rest
  <2> QED
    BY <1>1, <1>2, <1>4 DEF Holding
<1>6. Cardinality(Holding(cs) \ {Len(cs)}) =
        IF Len(cs) \in Holding(cs) THEN Cardinality(Holding(cs)) - 1 ELSE Cardinality(Holding(cs))
  BY <1>1, FS_RemoveElement
<1>7. Cardinality(Holding(rest)) \in Nat
  BY <1>4, HoldingFinite
<1>8. Len(cs) \in Holding(cs) <=> cs[Len(cs)].at \in HasScope
  BY <1>1, <1>2 DEF Holding
<1> HIDE DEF rest
<1>9. /\ Cardinality(Holding(rest)) <= d
      /\ cs[Len(cs)].at \in HasScope => d > 0 /\ Cardinality(Holding(rest)) <= d - 1
  <2>1. CASE Len(cs) \in Holding(cs)
    BY <1>1, <1>5, <1>6, <1>7, <2>1
  <2>2. CASE Len(cs) \notin Holding(cs)
    BY <1>5, <1>6, <1>8, <2>2
  <2> QED
    BY <2>1, <2>2
<1> QED
  BY <1>4, <1>9 DEF rest

LEMMA HoldingCut ==
  ASSUME NEW cs \in Seq(OpenConstruct), NEW m \in 1..Len(cs), NEW d \in Nat,
         Cardinality(Holding(cs)) <= d
  PROVE  /\ SubSeq(cs, 1, m) \in Seq(OpenConstruct)
         /\ Cardinality(Holding(SubSeq(cs, 1, m))) <= d
<1> DEFINE rest == SubSeq(cs, 1, m)
<1>1. /\ IsFiniteSet(Holding(cs)) /\ Cardinality(Holding(cs)) \in Nat
      /\ Len(cs) \in Nat
  BY HoldingFinite
<1>2. \A k \in 1..Len(cs) : cs[k] \in OpenConstruct
  BY ElementOfSeq
<1>3. /\ rest \in Seq(OpenConstruct) /\ Len(rest) = m
      /\ \A k \in 1..m : rest[k] = cs[k]
  <2>1. /\ 1 \in Int /\ m \in Int /\ 1 <= m /\ m <= Len(cs)
        /\ \A k \in 1..m : cs[k] \in OpenConstruct
    BY <1>1, <1>2
  <2>2. /\ rest \in Seq(OpenConstruct)
        /\ Len(rest) = IF 1 <= m THEN m - 1 + 1 ELSE 0
        /\ \A k \in 1..(m - 1 + 1) : rest[k] = cs[1 + k - 1]
    BY <2>1, SubSeqProperties
  <2> QED
    BY <2>1, <2>2
<1> HIDE DEF rest
<1>4. Holding(rest) \in SUBSET Holding(cs)
  BY <1>1, <1>3 DEF Holding
<1>5. Cardinality(Holding(rest)) <= Cardinality(Holding(cs)) /\ Cardinality(Holding(rest)) \in Nat
  BY <1>1, <1>3, <1>4, FS_Subset, HoldingFinite
<1> QED
  BY <1>1, <1>3, <1>5 DEF rest

LEMMA HoldingSame ==
  ASSUME NEW cs \in Seq(OpenConstruct), NEW cs2 \in Seq(OpenConstruct), Len(cs) = Len(cs2),
         \A k \in 1..Len(cs) : cs[k].at = cs2[k].at
  PROVE  Holding(cs2) = Holding(cs)
BY DEF Holding

\* Reaching the next item or statement closes nothing.
LEMMA AdvancedKeeps ==
  ASSUME Restorable
  PROVE  Advanced \in Seq(OpenConstruct) /\ Holding(Advanced) = Holding(open)
<1>1. open \in Seq(OpenConstruct) /\ Len(open) \in Nat
  BY LenProperties DEF Restorable
<1>2. ASSUME NEW s \in {"fresh", "head", "body", "done"}, open # <<>>
      PROVE  LET cs == [open EXCEPT ![Len(open)].stage = s] IN
             cs \in Seq(OpenConstruct) /\ Holding(cs) = Holding(open)
  <2> DEFINE c == [open[Len(open)] EXCEPT !.stage = s]
             cs == [open EXCEPT ![Len(open)] = c]
  <2>1. Len(open) \in 1..Len(open)
    BY <1>1, <1>2, EmptySeq
  <2>2. open[Len(open)] \in OpenConstruct
    BY <1>1, <2>1, ElementOfSeq
  <2>3. c \in OpenConstruct /\ c.at = open[Len(open)].at
    BY <2>2 DEF OpenConstruct
  <2> HIDE DEF c
  <2>4. /\ cs \in Seq(OpenConstruct) /\ Len(cs) = Len(open)
        /\ \A k \in 1..Len(open) : cs[k] = IF k = Len(open) THEN c ELSE open[k]
    BY <1>1, <2>1, <2>3, ExceptSeq
  <2>5. \A k \in 1..Len(open) : open[k].at = cs[k].at
    BY <2>3, <2>4
  <2> HIDE DEF cs
  <2>6. Holding(cs) = Holding(open)
    BY <1>1, <2>4, <2>5, HoldingSame
  <2> QED
    BY <2>4, <2>6 DEF cs, c
<1>3. CASE open = <<>> \/ AtForHead
  BY <1>1, <1>3 DEF Advanced, AtForHead, AtItem, HoldsItems
<1>4. CASE ~(open = <<>> \/ AtForHead) /\ AtItem
  BY <1>2, <1>4 DEF Advanced
<1>5. CASE ~(open = <<>> \/ AtForHead) /\ ~AtItem
  BY <1>2, <1>5 DEF Advanced
<1> QED
  BY <1>3, <1>4, <1>5

-----------------------------------------------------------------------------
(* The operations on the two structures.                                   *)
LEMMA EntryTyped ==
  ASSUME TablesAgree, NEW n \in Name,
         NEW kind \in {"variable", "function", "typedef", "enumerator"},
         NEW storage \in {"auto", "static", "extern", "typedef"},
         NEW linkage \in {"none", "internal", "external"},
         NEW defined \in BOOLEAN, NEW tentative \in BOOLEAN
  PROVE  LET e == Entry(n, kind, storage, linkage, defined, tentative) IN
         e \in SymbolEntry /\ e.name = n /\ e.depth = depth
BY DEF Entry, SymbolEntry, TablesAgree, Consistent, Typed

LEMMA LinkageTyped ==
  ASSUME NEW n, NEW storage, NEW d
  PROVE  Linkage(n, storage, d) \in {"none", "internal", "external"}
BY DEF Linkage

\* The entries of names keep their depth whatever declare does.
LEMMA DeclaredKeeps ==
  ASSUME TablesAgree, NEW e \in SymbolEntry, e.depth = depth
  PROVE  LET r == Declared(e)
             n == e.name
         IN  /\ r.symbols \in Seq(SymbolEntry) /\ r.id \in 0..Len(r.symbols)
             /\ Consistent(r.symbols,
                           IF r.id = 0 THEN nameToIds ELSE [nameToIds EXCEPT ![n] = @ \cup {r.id}],
                           depth, IF r.id = 0 THEN scopes ELSE Registered(scopes, n, r.id))
<1> DEFINE n == e.name
           here == InCurrentScope(n)
           i == Latest(here)
           x == Merged(symbols[i], e)
<1>1. Typed(symbols, nameToIds, depth, scopes) /\ Consistent(symbols, nameToIds, depth, scopes)
  BY DEF TablesAgree, Consistent
<1>2. /\ Len(symbols) \in Nat /\ symbols \in Seq(SymbolEntry)
      /\ \A k \in 1..Len(symbols) : symbols[k] \in SymbolEntry
      /\ n \in Name /\ nameToIds[n] \in SUBSET (1..Len(symbols))
  BY <1>1, TypedFacts DEF Typed, SymbolEntry
<1>3. here \in SUBSET (1..Len(symbols))
  BY <1>2 DEF InCurrentScope
<1>4. CASE here = {}
  <2> DEFINE new == Append(symbols, e)
  <2>1. /\ new \in Seq(SymbolEntry) /\ Len(new) = Len(symbols) + 1
        /\ \A k \in 1..Len(symbols) : new[k] = symbols[k]
        /\ new[Len(symbols) + 1] = e
    BY <1>2, AppendProperties
  <2>2. Declared(e) = [id |-> Len(symbols) + 1, symbols |-> new]
    BY <1>4 DEF Declared
  <2> HIDE DEF new
  <2>3. \A k \in nameToIds[n] : symbols[k].depth # depth
    BY <1>4 DEF InCurrentScope
  <2>4. Consistent(new, [nameToIds EXCEPT ![n] = @ \cup {Len(symbols) + 1}], depth,
                   Registered(scopes, n, Len(symbols) + 1))
    <3>1. /\ Len(symbols) <= Len(new) /\ Len(symbols) + 1 \in 1..Len(new)
          /\ new[Len(symbols) + 1].depth = depth
          /\ \A k \in 1..Len(symbols) : new[k].depth = symbols[k].depth
      BY <1>2, <2>1
    <3> HIDE DEF n
    <3> QED
      BY <1>1, <1>2, <2>1, <2>3, <3>1, RegisteredKeeps
  <2>5. Len(symbols) + 1 # 0 /\ Len(symbols) + 1 \in 0..Len(new)
    BY <1>2, <2>1
  <2> QED
    BY <2>1, <2>2, <2>4, <2>5
<1>5. CASE here # {} /\ Merges(symbols[i], e)
  <2> DEFINE new == [symbols EXCEPT ![i] = x]
  <2>1. i \in here /\ i \in 1..Len(symbols)
    BY <1>2, <1>3, <1>5, LatestIsLast
  <2>2. x \in SymbolEntry /\ x.depth = symbols[i].depth /\ symbols[i].depth = depth
    BY <1>2, <2>1 DEF Merged, SymbolEntry, InCurrentScope
  <2> HIDE DEF x
  <2>3. /\ new \in Seq(SymbolEntry) /\ Len(new) = Len(symbols)
        /\ \A k \in 1..Len(symbols) : new[k] = IF k = i THEN x ELSE symbols[k]
    BY <1>2, <2>1, <2>2, ExceptSeq
  <2>4. Declared(e) = [id |-> i, symbols |-> new]
    BY <1>5 DEF Declared, x
  <2> HIDE DEF new
  <2>5. Consistent(new, [nameToIds EXCEPT ![n] = @ \cup {i}], depth, Registered(scopes, n, i))
    <3>1. /\ Len(symbols) <= Len(new) /\ i \in 1..Len(new) /\ new[i].depth = depth
          /\ \A k \in 1..Len(symbols) : new[k].depth = symbols[k].depth
      BY <1>2, <2>1, <2>2, <2>3, SMTT(30)
    <3>2. i \in nameToIds[n]
      BY <2>1 DEF InCurrentScope
    <3> HIDE DEF n, i
    <3> QED
      BY <1>1, <1>2, <2>3, <3>1, <3>2, RegisteredKeeps
  <2>6. i # 0 /\ i \in 0..Len(new)
    BY <1>2, <2>1, <2>3
  <2> QED
    BY <2>3, <2>4, <2>5, <2>6
<1>6. CASE here # {} /\ ~Merges(symbols[i], e)
  <2>1. Declared(e) = [id |-> 0, symbols |-> symbols]
    BY <1>6 DEF Declared
  <2> QED
    BY <1>1, <1>2, <2>1
<1> QED
  BY <1>4, <1>5, <1>6

LEMMA RegisterKeeps ==
  ASSUME TablesAgree, NEW e \in SymbolEntry, e.depth = depth,
         Register(e.name, Declared(e)), UNCHANGED depth
  PROVE  TablesAgree'
BY DeclaredKeeps DEF Register, TablesAgree

LEMMA LeaveKeeps ==
  ASSUME TablesAgree, depth > 0, LeaveScope, UNCHANGED symbols
  PROVE  TablesAgree' /\ depth' = depth - 1
<1>1. /\ nameToIds' = [n \in Name |-> {i \in nameToIds[n] : symbols[i].depth # depth}]
      /\ depth' = depth - 1 /\ scopes' = SubSeq(scopes, 1, Len(scopes) - 1)
      /\ symbols' = symbols
  BY DEF LeaveScope, Pruned, PopScope
<1> QED
  BY <1>1, PoppedKeeps DEF TablesAgree

LEMMA PushKeeps ==
  ASSUME TablesAgree, scopes' = PushScope(scopes, "block"), depth' = depth + 1,
         UNCHANGED <<symbols, nameToIds>>
  PROVE  TablesAgree'
<1>1. Consistent(symbols, nameToIds, depth, scopes) /\ Typed(symbols, nameToIds, depth, scopes)
  BY DEF TablesAgree, Consistent
<1>2. /\ Scope("block") \in ScopeFrame
      /\ Scope("block").ordinary = NoNames
      /\ NoNames \in [{} -> (Len(symbols) + 1)..(Len(symbols) + Len(<<>>))]
  <2>1. NoNames \in [{} -> Nat] /\ {} \in SUBSET Name
    BY DEF NoNames
  <2>2. NoNames \in Ordinary
    BY <2>1 DEF Ordinary
  <2>3. NoNames \in [{} -> (Len(symbols) + 1)..(Len(symbols) + Len(<<>>))]
    BY DEF NoNames
  <2> QED
    BY <2>2, <2>3 DEF Scope, ScopeFrame
<1>3. /\ <<>> \in Seq(SymbolEntry) /\ Len(<<>>) = 0 /\ symbols \o <<>> = symbols
      /\ \A k \in 1..Len(<<>>) : <<>>[k].depth = depth + 1
  BY <1>1, EmptySeq, ConcatEmptySeq DEF Typed
<1>4. [n \in Name |-> IF n \in {} THEN nameToIds[n] \cup {NoNames[n]} ELSE nameToIds[n]] = nameToIds
  BY <1>1 DEF Typed
<1>5. Consistent(symbols \o <<>>,
                 [n \in Name |-> IF n \in {} THEN nameToIds[n] \cup {NoNames[n]} ELSE nameToIds[n]],
                 depth + 1, Append(scopes, Scope("block")))
  BY <1>1, <1>2, <1>3, PushedKeeps, ZenonT(60)
<1> QED
  BY <1>3, <1>4, <1>5 DEF TablesAgree, PushScope

LEMMA LabelScopeOpen ==
  ASSUME TablesAgree, NEW l
  PROVE  LabelScope(l) \in 1..Len(scopes)
<1> DEFINE candidates ==
             {k \in DOMAIN scopes : \/ scopes[k].kind = "function"
                                    \/ scopes[k].kind = "block" /\ l \in scopes[k].locals}
<1>1. /\ DOMAIN scopes = 1..Len(scopes) /\ Len(scopes) \in Nat /\ 1 \in 1..Len(scopes)
  BY TypedFacts DEF TablesAgree, Consistent
<1>2. candidates \in SUBSET (1..Len(scopes))
  BY <1>1
<1>3. candidates # {} => Latest(candidates) \in 1..Len(scopes)
  <2> HIDE DEF candidates
  <2> QED
    BY <1>1, <1>2, LatestIsLast
<1> QED
  BY <1>1, <1>3 DEF LabelScope

\* The labels of a scope change, nothing else does.
LEMMA LabelsKeep ==
  ASSUME TablesAgree, NEW k \in 1..Len(scopes), NEW s \in ScopeFrame,
         s.ordinary = scopes[k].ordinary, scopes' = [scopes EXCEPT ![k] = s],
         UNCHANGED tables
  PROVE  TablesAgree'
<1>1. Consistent(symbols, nameToIds, depth, scopes) /\ Typed(symbols, nameToIds, depth, scopes)
  BY DEF TablesAgree, Consistent
<1>2. /\ scopes' \in Seq(ScopeFrame) /\ Len(scopes') = Len(scopes)
      /\ \A j \in 1..Len(scopes) : scopes'[j] = IF j = k THEN s ELSE scopes[j]
  BY <1>1, ExceptSeq DEF Typed
<1>3. \A j \in 1..Len(scopes) : scopes'[j].ordinary = scopes[j].ordinary
  BY <1>2
<1>4. symbols \in Seq(SymbolEntry)
  BY <1>1 DEF Typed
<1>5. Consistent(symbols, nameToIds, depth, scopes')
  <2>1. scopes' \in Seq(ScopeFrame) /\ Len(scopes') = Len(scopes)
    BY <1>2
  <2>2. \A i \in 1..Len(symbols) : symbols[i].depth = symbols[i].depth
    OBVIOUS
  <2>3. Consistent(symbols, nameToIds, depth, scopes)
    BY <1>1
  <2> QED
    BY ONLY <2>1, <2>2, <2>3, <1>3, <1>4, RetouchedKeeps
<1> QED
  BY <1>5 DEF TablesAgree, tables

LEMMA ConstructTyped ==
  ASSUME Restorable,
         NEW at \in {"function", "block", "expression", "for", "loop", "switch"},
         NEW stage \in {"fresh", "head", "body", "done"}
  PROVE  Construct(at, stage) \in OpenConstruct /\ Construct(at, stage).at = at
BY DEF Construct, OpenConstruct, Restorable

LEMMA MenuFacts ==
  ASSUME Restorable
  PROVE  /\ menu.names \subseteq Name /\ menu.labels \subseteq Label
         /\ menu.literals \subseteq Literal /\ menu.declarations \subseteq DeclarationForm
BY MenusAssumption DEF Restorable

-----------------------------------------------------------------------------
(* The invariant holds at first and every action keeps it.                 *)
LEMMA InitIInv == Init => IInv
<1> SUFFICES ASSUME Init PROVE IInv
  OBVIOUS
<1>1. NoNames \in Ordinary
  <2>1. NoNames \in [{} -> Nat] /\ {} \in SUBSET Name
    BY DEF NoNames
  <2> QED
    BY <2>1 DEF Ordinary
<1>2. /\ Scope("global") \in ScopeFrame
      /\ DOMAIN Scope("global").ordinary = {}
  BY <1>1 DEF Scope, ScopeFrame, NoNames
<1> DEFINE g == Scope("global")
<1> HIDE DEF g
<1>3. /\ scopes \in Seq(ScopeFrame) /\ Len(scopes) = 1 /\ scopes[1] = g
      /\ g \in ScopeFrame /\ DOMAIN g.ordinary = {}
  <2>1. scopes = <<g>>
    BY DEF Init, g
  <2> QED
    BY <1>2, <2>1 DEF g
<1>4. symbols \in Seq(SymbolEntry) /\ nameToIds \in [Name -> SUBSET (1..Len(symbols))] /\ depth = 0
  BY EmptySeq DEF Init
<1>5. TablesAgree
  <2>1. Typed(symbols, nameToIds, depth, scopes)
    BY <1>3, <1>4 DEF Typed
  <2>2. EntriesAreIds(symbols, nameToIds, scopes)
    BY <1>3 DEF EntriesAreIds
  <2>3. \A n \in Name : nameToIds[n] = {}
    BY DEF Init
  <2> QED
    BY <2>1, <2>2, <2>3 DEF TablesAgree, Consistent, IdsAreEntries, DeeperIsLater
<1>6. Restorable
  BY EmptySeq DEF Init, Restorable
<1>7. Held
  <2>1. Holding(open) = {}
    BY EmptySeq DEF Init, Holding
  <2> QED
    BY <1>4, <2>1, FS_EmptySet DEF Held
<1> QED
  BY <1>5, <1>6, <1>7 DEF IInv

LEMMA ReachesNext ==
  ASSUME Restorable, Held, open' = Advanced, UNCHANGED <<menu, switches, depth, opened>>
  PROVE  Restorable' /\ Held'
BY AdvancedKeeps DEF Restorable, Held, switches

LEMMA DeclareKeeps ==
  ASSUME IInv, UNCHANGED menu, NEW n \in Name, NEW d \in DeclarationForm, Declare(n, d)
  PROVE  IInv'
<1>1. TablesAgree /\ Restorable /\ Held
  BY DEF IInv
<1>2. CASE d.kind = "typedef"
  <2>1. Typedef(n)
    BY <1>2 DEF Declare
  <2> DEFINE e == Entry(n, "typedef", "typedef", "none", TRUE, FALSE)
  <2>2. e \in SymbolEntry /\ e.name = n /\ e.depth = depth
    BY <1>1, EntryTyped
  <2>3. Register(e.name, Declared(e)) /\ UNCHANGED depth
    BY <2>1, <2>2 DEF Typedef
  <2> HIDE DEF e
  <2>4. TablesAgree'
    BY <1>1, <2>2, <2>3, RegisterKeeps
  <2>5. Restorable' /\ Held'
    BY <1>1, <2>1, ReachesNext DEF Typedef, history
  <2> QED
    BY <2>4, <2>5 DEF IInv
<1>3. CASE d.kind = "enumerator"
  <2>1. Enumerator(n)
    BY <1>3 DEF Declare
  <2> DEFINE e == Entry(n, "enumerator", "auto", "none", TRUE, FALSE)
  <2>2. e \in SymbolEntry /\ e.name = n /\ e.depth = depth
    BY <1>1, EntryTyped
  <2>3. \/ Register(e.name, Declared(e)) /\ UNCHANGED depth
        \/ UNCHANGED <<symbols, nameToIds, depth, scopes>>
    BY <2>1, <2>2 DEF Enumerator
  <2> HIDE DEF e
  <2>4. TablesAgree'
    <3>1. CASE Register(e.name, Declared(e)) /\ UNCHANGED depth
      BY <1>1, <2>2, <3>1, RegisterKeeps
    <3>2. CASE UNCHANGED <<symbols, nameToIds, depth, scopes>>
      BY <1>1, <3>2 DEF TablesAgree
    <3> QED
      BY <2>3, <3>1, <3>2
  <2>5. Restorable' /\ Held'
    BY <1>1, <2>1, ReachesNext DEF Enumerator, history
  <2> QED
    BY <2>4, <2>5 DEF IInv
<1>4. CASE d.kind \notin {"typedef", "enumerator"}
  <2>1. Declaration(n, d.kind, d.storage, d.init)
    BY <1>4 DEF Declare
  <2> DEFINE linkage == Linkage(n, d.storage, Len(scopes) - 1)
             tentative == /\ ~d.init /\ scopes[Len(scopes)].kind = "global"
                          /\ d.storage # "extern" /\ d.kind = "variable"
             e == Entry(n, d.kind, d.storage, linkage, d.init, tentative)
  <2>2. linkage \in {"none", "internal", "external"} /\ tentative \in BOOLEAN
    BY LinkageTyped
  <2>3. Register(n, Declared(e)) /\ UNCHANGED depth
    BY <2>1 DEF Declaration
  <2>4. e \in SymbolEntry /\ e.name = n /\ e.depth = depth
    <3> HIDE DEF linkage, tentative
    <3> QED
      BY <1>1, <2>2, EntryTyped DEF DeclarationForm
  <2> HIDE DEF e
  <2>5. TablesAgree'
    BY <1>1, <2>3, <2>4, RegisterKeeps
  <2>6. Restorable' /\ Held'
    BY <1>1, <2>1, ReachesNext DEF Declaration, history
  <2> QED
    BY <2>5, <2>6 DEF IInv
<1> QED
  BY <1>2, <1>3, <1>4

LEMMA UseKeeps ==
  ASSUME IInv, UNCHANGED menu, NEW n \in Name, Use(n)
  PROVE  IInv'
<1>1. TablesAgree /\ Restorable /\ Held
  BY DEF IInv
<1>2. /\ Consistent(symbols, nameToIds, depth, scopes)
      /\ symbols \in Seq(SymbolEntry) /\ scopes \in Seq(ScopeFrame)
      /\ Len(symbols) \in Nat /\ nameToIds[n] \in SUBSET (1..Len(symbols))
      /\ \A i \in 1..Len(symbols) : symbols[i] \in SymbolEntry
  BY <1>1, TypedFacts DEF TablesAgree, Consistent, Typed
<1>3. UNCHANGED <<nameToIds, depth, scopes>>
  BY DEF Use
<1>4. TablesAgree'
  <2>1. CASE UNCHANGED symbols
    BY <1>1, <1>3, <2>1 DEF TablesAgree
  <2>2. CASE Lookup(n) # 0 /\ symbols' = [symbols EXCEPT ![Lookup(n)].used = TRUE]
    <3> DEFINE i == Lookup(n)
               x == [symbols[i] EXCEPT !.used = TRUE]
    <3>1. i \in 1..Len(symbols)
      BY <1>2, <2>2, LatestIsLast DEF Lookup
    <3>2. x \in SymbolEntry /\ x.depth = symbols[i].depth
      BY <1>2, <3>1 DEF SymbolEntry
    <3>3. symbols' = [symbols EXCEPT ![i] = x]
      BY <2>2
    <3> HIDE DEF i, x
    <3>4. /\ symbols' \in Seq(SymbolEntry) /\ Len(symbols') = Len(symbols)
          /\ \A k \in 1..Len(symbols) : symbols'[k] = IF k = i THEN x ELSE symbols[k]
      BY <1>2, <3>1, <3>2, <3>3, ExceptSeq
    <3>5. \A k \in 1..Len(symbols) : symbols'[k].depth = symbols[k].depth
      BY <3>2, <3>4
    <3>6. Consistent(symbols', nameToIds, depth, scopes)
      BY <1>2, <3>4, <3>5, RetouchedKeeps
    <3> QED
      BY <1>3, <3>6 DEF TablesAgree
  <2> QED
    BY <2>1, <2>2 DEF Use
<1>5. Restorable' /\ Held'
  BY <1>1, ReachesNext DEF Use, history
<1> QED
  BY <1>4, <1>5 DEF IInv

LEMMA FinalizeKeeps ==
  ASSUME IInv, UNCHANGED menu, Finalize
  PROVE  IInv'
<1> DEFINE final(s) ==
             IF s.depth = 0 /\ s.kind = "variable" /\ s.tentative /\ ~s.defined
             THEN [s EXCEPT !.defined = TRUE, !.tentative = FALSE] ELSE s
<1>1. TablesAgree /\ Restorable /\ Held
  BY DEF IInv
<1>2. /\ Consistent(symbols, nameToIds, depth, scopes)
      /\ symbols \in Seq(SymbolEntry) /\ scopes \in Seq(ScopeFrame)
      /\ Len(symbols) \in Nat /\ DOMAIN symbols = 1..Len(symbols)
      /\ \A i \in 1..Len(symbols) : symbols[i] \in SymbolEntry
  BY <1>1, TypedFacts DEF TablesAgree, Consistent, Typed
<1>3. symbols' = [i \in 1..Len(symbols) |-> final(symbols[i])]
  BY <1>2 DEF Finalize
<1>4. ASSUME NEW s \in SymbolEntry
      PROVE  final(s) \in SymbolEntry /\ final(s).depth = s.depth
  <2> DEFINE x == [s EXCEPT !.defined = TRUE, !.tentative = FALSE]
  <2>1. x \in SymbolEntry /\ x.depth = s.depth
    BY DEF SymbolEntry
  <2>2. final(s) = x \/ final(s) = s
    OBVIOUS
  <2> HIDE DEF x, final
  <2> QED
    BY <2>1, <2>2
<1> HIDE DEF final
<1>5. symbols' \in [1..Len(symbols) -> SymbolEntry]
  BY <1>2, <1>3, <1>4
<1>6. symbols' \in Seq(SymbolEntry) /\ Len(symbols') = Len(symbols)
  <2>1. symbols' \in Seq(SymbolEntry)
    BY <1>2, <1>5, SeqDef
  <2>2. Len(symbols') \in Nat /\ DOMAIN symbols' = 1..Len(symbols')
    BY <2>1, LenProperties
  <2> QED
    BY <1>2, <1>5, <2>1, <2>2
<1>7. \A k \in 1..Len(symbols) : symbols'[k].depth = symbols[k].depth
  BY <1>2, <1>3, <1>4
<1>8. Consistent(symbols', nameToIds, depth, scopes)
  BY <1>2, <1>6, <1>7, RetouchedKeeps
<1> QED
  BY <1>1, <1>8 DEF Finalize, switches, history, IInv, TablesAgree, Restorable, Held

LEMMA GotoKeeps ==
  ASSUME IInv, UNCHANGED menu, NEW l \in Label, Goto(l)
  PROVE  IInv'
<1>1. TablesAgree /\ Restorable /\ Held
  BY DEF IInv
<1>2. TablesAgree'
  <2> DEFINE k == LabelScope(l)
             s == [scopes[k] EXCEPT !.referenced = @ \cup {l}]
  <2>1. k \in 1..Len(scopes) /\ scopes[k] \in ScopeFrame
    BY <1>1, LabelScopeOpen, TypedFacts DEF TablesAgree, Consistent
  <2>2. s \in ScopeFrame /\ s.ordinary = scopes[k].ordinary
    BY <2>1 DEF ScopeFrame
  <2>3. scopes' = [scopes EXCEPT ![k] = s] /\ UNCHANGED tables
    BY DEF Goto
  <2> HIDE DEF k, s
  <2> QED
    BY <1>1, <2>1, <2>2, <2>3, LabelsKeep
<1>3. Restorable' /\ Held'
  BY <1>1, ReachesNext DEF Goto, tables
<1> QED
  BY <1>2, <1>3 DEF IInv

LEMMA LabeledKeeps ==
  ASSUME IInv, UNCHANGED menu, NEW l \in Label, Labeled(l)
  PROVE  IInv'
<1>1. TablesAgree /\ Restorable /\ Held
  BY DEF IInv
<1>2. TablesAgree'
  <2> DEFINE k == LabelScope(l)
             s == [scopes[k] EXCEPT !.defined = @ \cup {l}]
  <2>1. k \in 1..Len(scopes) /\ scopes[k] \in ScopeFrame
    BY <1>1, LabelScopeOpen, TypedFacts DEF TablesAgree, Consistent
  <2>2. s \in ScopeFrame /\ s.ordinary = scopes[k].ordinary
    BY <2>1 DEF ScopeFrame
  <2>3. /\ UNCHANGED tables
        /\ scopes' = [scopes EXCEPT ![k] = s] \/ UNCHANGED scopes
    BY DEF Labeled
  <2>4. CASE UNCHANGED scopes
    BY <1>1, <2>3, <2>4 DEF TablesAgree, tables
  <2> HIDE DEF k, s
  <2>5. CASE scopes' = [scopes EXCEPT ![k] = s]
    BY <1>1, <2>1, <2>2, <2>3, <2>5, LabelsKeep
  <2> QED
    BY <2>3, <2>4, <2>5
<1>3. Restorable' /\ Held'
  BY <1>1 DEF Labeled, tables, switches, Restorable, Held
<1> QED
  BY <1>2, <1>3 DEF IInv

LEMMA LocalLabelKeeps ==
  ASSUME IInv, UNCHANGED menu, NEW l \in Label, LocalLabel(l)
  PROVE  IInv'
<1>1. TablesAgree /\ Restorable /\ Held
  BY DEF IInv
<1>2. TablesAgree'
  <2> DEFINE k == Len(scopes)
             s == [scopes[k] EXCEPT !.locals = @ \cup {l}]
  <2>1. k \in 1..Len(scopes) /\ scopes[k] \in ScopeFrame
    BY <1>1, TypedFacts DEF TablesAgree, Consistent
  <2>2. s \in ScopeFrame /\ s.ordinary = scopes[k].ordinary
    BY <2>1 DEF ScopeFrame
  <2>3. /\ UNCHANGED tables
        /\ scopes' = [scopes EXCEPT ![k] = s] \/ UNCHANGED scopes
    BY DEF LocalLabel
  <2>4. CASE UNCHANGED scopes
    BY <1>1, <2>3, <2>4 DEF TablesAgree, tables
  <2> HIDE DEF k, s
  <2>5. CASE scopes' = [scopes EXCEPT ![k] = s]
    BY <1>1, <2>1, <2>2, <2>3, <2>5, LabelsKeep
  <2> QED
    BY <2>3, <2>4, <2>5
<1>3. Restorable' /\ Held'
  BY <1>1 DEF LocalLabel, tables, switches, Restorable, Held
<1> QED
  BY <1>2, <1>3 DEF IInv

LEMMA OpenScopeKeeps ==
  ASSUME IInv, UNCHANGED menu,
         NEW at \in {"block", "expression", "for"}, NEW stage \in {"fresh", "head"},
         OpenScope(at, stage)
  PROVE  IInv'
<1>1. TablesAgree /\ Restorable /\ Held
  BY DEF IInv
<1>2. TablesAgree'
  BY <1>1, PushKeeps DEF OpenScope
<1>3. Restorable' /\ Held'
  <2> DEFINE c == Construct(at, stage)
  <2>1. c \in OpenConstruct
    BY <1>1, ConstructTyped
  <2>2. Advanced \in Seq(OpenConstruct) /\ Cardinality(Holding(Advanced)) <= depth /\ depth \in Nat
    BY <1>1, AdvancedKeeps DEF Held, TablesAgree, Consistent, Typed
  <2> HIDE DEF c
  <2>3. /\ Append(Advanced, c) \in Seq(OpenConstruct)
        /\ Cardinality(Holding(Append(Advanced, c))) <= depth + 1
    BY <2>1, <2>2, HoldingOpened
  <2>4. /\ open' = Append(Advanced, c) /\ depth' = depth + 1 /\ opened' = opened + 1
        /\ UNCHANGED switches
    BY DEF OpenScope, c
  <2> QED
    BY <1>1, <2>3, <2>4 DEF Restorable, Held, switches
<1> QED
  BY <1>2, <1>3 DEF IInv

\* A loop or a switch opens: no scope, its flags change.
LEMMA OpenPlainKeeps ==
  ASSUME IInv, UNCHANGED <<menu, tables, scopes>>, NEW at \in {"loop", "switch"},
         open' = Append(Advanced, Construct(at, "body")), opened' = opened + 1,
         inLoop' \in BOOLEAN, inSwitch' \in BOOLEAN, cases' \in SUBSET Literal,
         hasDefault' \in BOOLEAN
  PROVE  IInv'
<1>1. TablesAgree /\ Restorable /\ Held
  BY DEF IInv
<1>2. TablesAgree'
  BY <1>1 DEF TablesAgree, tables
<1> DEFINE c == Construct(at, "body")
<1>3. c \in OpenConstruct /\ c.at \notin HasScope
  BY <1>1, ConstructTyped DEF HasScope
<1>4. Advanced \in Seq(OpenConstruct) /\ Cardinality(Holding(Advanced)) <= depth /\ depth \in Nat
  BY <1>1, AdvancedKeeps DEF Held, TablesAgree, Consistent, Typed
<1> HIDE DEF c
<1>5. /\ Append(Advanced, c) \in Seq(OpenConstruct)
      /\ Cardinality(Holding(Append(Advanced, c))) <= depth
  BY <1>3, <1>4, HoldingOpened
<1>6. open' = Append(Advanced, c) /\ depth' = depth
  BY DEF c, tables
<1> QED
  BY <1>1, <1>2, <1>5, <1>6 DEF IInv, Restorable, Held

LEMMA BeginPlainKeeps ==
  ASSUME IInv, UNCHANGED menu, BeginLoop \/ BeginSwitch
  PROVE  IInv'
<1>1. CASE BeginLoop
  BY <1>1, OpenPlainKeeps DEF BeginLoop, IInv, Restorable
<1>2. CASE BeginSwitch
  BY <1>2, OpenPlainKeeps DEF BeginSwitch, IInv, Restorable
<1> QED
  BY <1>1, <1>2

\* What the handler of the innermost construct kept is typed.
LEMMA TopTyped ==
  ASSUME Restorable, open # <<>>
  PROVE  Top \in OpenConstruct
<1>1. open \in Seq(OpenConstruct) /\ Len(open) \in 1..Len(open)
  BY EmptySeq DEF Restorable
<1> QED
  BY <1>1, ElementOfSeq DEF Top

LEMMA CloseScopeKeeps ==
  ASSUME IInv, UNCHANGED <<menu, inSwitch, cases, hasDefault>>, inLoop' \in BOOLEAN,
         open # <<>>, Top.at \in HasScope, CloseScope
  PROVE  IInv'
<1>1. TablesAgree /\ Restorable /\ Held
  BY DEF IInv
<1>2. /\ open \in Seq(OpenConstruct) /\ depth \in Nat /\ Cardinality(Holding(open)) <= depth
  BY <1>1 DEF Restorable, Held, TablesAgree, Consistent, Typed
<1> DEFINE rest == SubSeq(open, 1, Len(open) - 1)
<1>3. /\ rest \in Seq(OpenConstruct) /\ depth > 0
      /\ Cardinality(Holding(rest)) <= depth - 1
  BY <1>2, HoldingClosed DEF Top
<1> HIDE DEF rest
<1>4. TablesAgree' /\ depth' = depth - 1
  BY <1>1, <1>3, LeaveKeeps DEF CloseScope
<1>5. open' = rest /\ opened' = opened
  BY DEF CloseScope, rest, history
<1> QED
  BY <1>1, <1>3, <1>4, <1>5 DEF IInv, Restorable, Held

LEMMA EndScopeKeeps ==
  ASSUME IInv, UNCHANGED menu, EndBlock \/ EndFor
  PROVE  IInv'
<1>1. CASE EndBlock
  BY <1>1, CloseScopeKeeps DEF EndBlock, switches, HasScope, IInv, Restorable
<1>2. CASE EndFor
  <2>1. open # <<>> /\ Top.inLoop \in BOOLEAN
    BY <1>2, TopTyped DEF EndFor, IInv, OpenConstruct
  <2> QED
    BY <1>2, <2>1, CloseScopeKeeps DEF EndFor, HasScope
<1> QED
  BY <1>1, <1>2

LEMMA EndPlainKeeps ==
  ASSUME IInv, UNCHANGED menu, EndLoop \/ EndSwitch
  PROVE  IInv'
<1>1. TablesAgree /\ Restorable /\ Held
  BY DEF IInv
<1>2. open # <<>> /\ Top \in OpenConstruct
  BY <1>1, TopTyped DEF EndLoop, EndSwitch
<1>3. /\ UNCHANGED <<tables, scopes, opened>>
      /\ open' = SubSeq(open, 1, Len(open) - 1)
  BY DEF EndLoop, EndSwitch, history
<1>4. TablesAgree'
  BY <1>1, <1>3 DEF TablesAgree, tables
<1>5. /\ open \in Seq(OpenConstruct) /\ depth \in Nat /\ Cardinality(Holding(open)) <= depth
  BY <1>1 DEF Restorable, Held, TablesAgree, Consistent, Typed
<1>6. open' \in Seq(OpenConstruct) /\ Cardinality(Holding(open')) <= depth
  BY <1>2, <1>3, <1>5, HoldingClosed
<1>7. /\ inLoop' \in BOOLEAN /\ inSwitch' \in BOOLEAN
      /\ cases' \in SUBSET Literal /\ hasDefault' \in BOOLEAN
  <2>1. CASE EndLoop
    BY <1>1, <1>2, <2>1 DEF EndLoop, Restorable, OpenConstruct
  <2>2. CASE EndSwitch
    BY <1>1, <1>2, <2>2 DEF EndSwitch, Restorable, OpenConstruct
  <2> QED
    BY <2>1, <2>2
<1> QED
  BY <1>1, <1>3, <1>4, <1>6, <1>7 DEF IInv, Restorable, Held, tables

\* The open constructs are noted on or moved, not opened or closed.
LEMMA NotedKeeps ==
  ASSUME IInv, UNCHANGED <<menu, tables, scopes, opened>>,
         open' \in Seq(OpenConstruct), Holding(open') = Holding(open),
         inLoop' \in BOOLEAN, inSwitch' \in BOOLEAN, cases' \in SUBSET Literal,
         hasDefault' \in BOOLEAN
  PROVE  IInv'
BY DEF IInv, TablesAgree, Restorable, Held, tables

LEMMA ForBodyKeeps ==
  ASSUME IInv, UNCHANGED menu, ForBody
  PROVE  IInv'
<1> DEFINE c == [open[Len(open)] EXCEPT !.stage = "body"]
<1>1. /\ Restorable /\ open \in Seq(OpenConstruct) /\ open # <<>>
  BY DEF IInv, Restorable, ForBody, AtForHead
<1>2. Len(open) \in 1..Len(open) /\ open[Len(open)] \in OpenConstruct
  <2>1. Len(open) \in 1..Len(open)
    BY <1>1, EmptySeq
  <2> QED
    BY <1>1, <2>1, ElementOfSeq
<1>3. c \in OpenConstruct /\ c.at = open[Len(open)].at
  BY <1>2 DEF OpenConstruct
<1>4. open' = [open EXCEPT ![Len(open)] = c]
  BY DEF ForBody
<1> HIDE DEF c
<1>5. /\ open' \in Seq(OpenConstruct) /\ Len(open') = Len(open)
      /\ \A k \in 1..Len(open) : open'[k] = IF k = Len(open) THEN c ELSE open[k]
  BY <1>1, <1>2, <1>3, <1>4, ExceptSeq
<1>6. \A k \in 1..Len(open) : open[k].at = open'[k].at
  BY <1>3, <1>5
<1>7. Holding(open') = Holding(open)
  BY <1>1, <1>5, <1>6, HoldingSame
<1> QED
  BY <1>1, <1>5, <1>7, NotedKeeps DEF ForBody, Restorable, history

LEMMA NotedTyped ==
  ASSUME Restorable, NEW values \in SUBSET Literal, NEW default \in BOOLEAN
  PROVE  /\ Noted(values, default) \in Seq(OpenConstruct)
         /\ Holding(Noted(values, default)) = Holding(open)
<1> DEFINE noted(c) == [c EXCEPT !.seen = @ \cup values, !.default = @ \/ default]
           cs == Noted(values, default)
<1>1. /\ open \in Seq(OpenConstruct) /\ Len(open) \in Nat /\ DOMAIN open = 1..Len(open)
      /\ \A k \in 1..Len(open) : open[k] \in OpenConstruct
  BY LenProperties, ElementOfSeq DEF Restorable
<1>2. ASSUME NEW c \in OpenConstruct
      PROVE  noted(c) \in OpenConstruct /\ noted(c).at = c.at
  BY DEF OpenConstruct
<1>3. \A k \in 1..Len(open) : cs[k] = noted(open[k]) \/ cs[k] = open[k]
  BY <1>1 DEF Noted
<1>4. DOMAIN cs = 1..Len(open) /\ cs = [k \in 1..Len(open) |-> cs[k]]
  BY <1>1 DEF Noted
<1> HIDE DEF noted, cs
<1>5. \A k \in 1..Len(open) : cs[k] \in OpenConstruct /\ cs[k].at = open[k].at
  BY <1>1, <1>2, <1>3
<1>6. cs \in [1..Len(open) -> OpenConstruct]
  BY <1>4, <1>5
<1>7. cs \in Seq(OpenConstruct) /\ Len(cs) = Len(open)
  <2>1. cs \in Seq(OpenConstruct)
    BY <1>1, <1>6, SeqDef
  <2>2. Len(cs) \in Nat /\ DOMAIN cs = 1..Len(cs)
    BY <2>1, LenProperties
  <2> QED
    BY <1>1, <1>4, <2>1, <2>2
<1>8. Holding(cs) = Holding(open)
  BY <1>1, <1>5, <1>7, HoldingSame
<1> QED
  BY <1>7, <1>8 DEF cs

LEMMA CaseKeeps ==
  ASSUME IInv, UNCHANGED menu, NEW c \in Literal, Case(c)
  PROVE  IInv'
<1>1. Restorable /\ {c} \in SUBSET Literal /\ FALSE \in BOOLEAN
  BY DEF IInv
<1>2. open' \in Seq(OpenConstruct) /\ Holding(open') = Holding(open)
  BY <1>1, NotedTyped DEF Case
<1> QED
  BY <1>1, <1>2, NotedKeeps DEF Case, Restorable, history

LEMMA DefaultKeeps ==
  ASSUME IInv, UNCHANGED menu, Default
  PROVE  IInv'
<1>1. Restorable /\ {} \in SUBSET Literal /\ TRUE \in BOOLEAN
  BY DEF IInv
<1>2. open' \in Seq(OpenConstruct) /\ Holding(open') = Holding(open)
  BY <1>1, NotedTyped DEF Default
<1> QED
  BY <1>1, <1>2, NotedKeeps DEF Default, Restorable, history

LEMMA FailKeeps ==
  ASSUME IInv, UNCHANGED menu, NEW k \in 1..MaxNesting, Fail(k)
  PROVE  IInv'
<1>1. TablesAgree /\ Restorable /\ Held
  BY DEF IInv
<1>2. /\ open \in Seq(OpenConstruct) /\ Len(open) \in Nat
      /\ depth \in Nat /\ Cardinality(Holding(open)) <= depth
  BY <1>1, LenProperties DEF Restorable, Held, TablesAgree, Consistent, Typed
<1>3. Len(open) - k \in 1..Len(open)
  BY <1>2 DEF Fail, Abandons
<1>4. /\ open' = SubSeq(open, 1, Len(open) - k)
      /\ UNCHANGED <<tables, scopes, switches, opened>>
  BY DEF Fail, history
<1>5. open' \in Seq(OpenConstruct) /\ Cardinality(Holding(open')) <= depth
  BY <1>2, <1>3, <1>4, HoldingCut
<1> QED
  BY <1>1, <1>4, <1>5 DEF IInv, TablesAgree, Restorable, Held, tables, switches

LEMMA EndFunctionKeeps ==
  ASSUME IInv, UNCHANGED menu, EndFunction
  PROVE  IInv'
<1>1. TablesAgree /\ Restorable /\ Held
  BY DEF IInv
<1>2. /\ open \in Seq(OpenConstruct) /\ open # <<>> /\ open[Len(open)].at \in HasScope
      /\ depth \in Nat /\ Cardinality(Holding(open)) <= depth
  BY <1>1 DEF Restorable, Held, TablesAgree, Consistent, Typed, EndFunction, Top, HasScope
<1>3. depth > 0
  BY <1>2, HoldingClosed
<1>4. TablesAgree' /\ depth' = depth - 1
  BY <1>1, <1>3, LeaveKeeps DEF EndFunction
<1>5. open' = <<>> /\ UNCHANGED <<switches, opened>>
  BY DEF EndFunction, history
<1>6. Holding(open') = {} /\ open' \in Seq(OpenConstruct)
  BY <1>5, EmptySeq DEF Holding
<1>7. Held'
  <2>1. Cardinality(Holding(open')) = 0
    BY <1>6, FS_EmptySet
  <2> QED
    BY <1>2, <1>3, <1>4, <2>1 DEF Held
<1> QED
  BY <1>1, <1>4, <1>5, <1>6, <1>7 DEF IInv, Restorable, switches

\* The function is declared, then its scope is pushed with its parameters.
LEMMA BeginFunctionKeeps ==
  ASSUME IInv, UNCHANGED menu, NEW f \in Name, NEW storage \in {"auto", "static"},
         NEW params \in Seq(Name), BeginFunction(f, storage, params)
  PROVE  /\ IInv'
         /\ \E under \in Seq(ScopeFrame), s \in ScopeFrame :
              /\ scopes' = Append(under, s)
              /\ under = scopes \/ \E i : under = Registered(scopes, f, i)
              /\ s.kind = "function" /\ s.defined = {} /\ s.referenced = {}
<1> DEFINE e == Entry(f, "function", storage, Linkage(f, storage, depth), FALSE, FALSE)
           r == Declared(e)
           known == IF r.id = 0 THEN r.symbols
                    ELSE [r.symbols EXCEPT ![r.id].defined = TRUE, ![r.id].tentative = FALSE]
           stack == IF r.id = 0 THEN scopes ELSE Registered(scopes, f, r.id)
           outer == [nameToIds EXCEPT ![f] = IF r.id = 0 THEN @ ELSE @ \cup {r.id}]
           param(p) == [Entry(p, "variable", "auto", "none", TRUE, FALSE) EXCEPT !.depth = depth + 1]
           new == [k \in DOMAIN params |-> param(params[k])]
           named == {params[k] : k \in DOMAIN params}
           id(p) == Len(known) + CHOOSE k \in DOMAIN params : params[k] = p
           at == [p \in named |-> id(p)]
           frame == [Scope("function") EXCEPT !.ordinary = at]
           inner == [n \in Name |-> IF n \in named THEN outer[n] \cup {id(n)} ELSE outer[n]]
<1>1. TablesAgree /\ Restorable /\ Held
  BY DEF IInv
<1>2. /\ symbols' = known \o new /\ nameToIds' = inner
      /\ scopes' = Append(stack, frame) /\ depth' = depth + 1
  BY DEF BeginFunction
<1>3. e \in SymbolEntry /\ e.name = f /\ e.depth = depth
  <2> DEFINE linkage == Linkage(f, storage, depth)
  <2>1. linkage \in {"none", "internal", "external"}
    BY LinkageTyped
  <2> HIDE DEF linkage
  <2>2. LET x == Entry(f, "function", storage, linkage, FALSE, FALSE) IN
        x \in SymbolEntry /\ x.name = f /\ x.depth = depth
    BY <1>1, <2>1 DEF Entry, SymbolEntry, TablesAgree, Consistent, Typed
  <2> QED
    BY <2>2 DEF linkage
<1>4. /\ r.symbols \in Seq(SymbolEntry) /\ r.id \in 0..Len(r.symbols)
      /\ Consistent(r.symbols, outer, depth, stack)
  <2>1. (IF r.id = 0 THEN nameToIds ELSE [nameToIds EXCEPT ![f] = @ \cup {r.id}]) = outer
    BY <1>1 DEF TablesAgree, Consistent, Typed
  <2> HIDE DEF e, outer, stack
  <2>2. /\ r.symbols \in Seq(SymbolEntry) /\ r.id \in 0..Len(r.symbols)
        /\ Consistent(r.symbols,
                      IF r.id = 0 THEN nameToIds ELSE [nameToIds EXCEPT ![f] = @ \cup {r.id}],
                      depth, IF r.id = 0 THEN scopes ELSE Registered(scopes, f, r.id))
    BY <1>1, <1>3, DeclaredKeeps
  <2> QED
    BY <2>1, <2>2 DEF stack
<1>5. depth \in Nat /\ stack \in Seq(ScopeFrame) /\ Len(params) \in Nat /\ DOMAIN params = 1..Len(params)
  BY <1>1, <1>4, LenProperties DEF Consistent, Typed
<1> HIDE DEF e, r, stack, outer
<1>6. /\ known \in Seq(SymbolEntry) /\ Len(known) = Len(r.symbols)
      /\ \A k \in 1..Len(r.symbols) : known[k].depth = r.symbols[k].depth
  <2>1. CASE r.id = 0
    BY <1>4, <2>1
  <2>2. CASE r.id # 0
    <3> DEFINE i == r.id
               x1 == [r.symbols[i] EXCEPT !.defined = TRUE]
               s1 == [r.symbols EXCEPT ![i] = x1]
               x2 == [s1[i] EXCEPT !.tentative = FALSE]
               s2 == [s1 EXCEPT ![i] = x2]
    <3>1. i \in 1..Len(r.symbols) /\ r.symbols[i] \in SymbolEntry
      <4>1. Len(r.symbols) \in Nat
        BY <1>4, LenProperties
      <4>2. i \in 1..Len(r.symbols)
        BY <1>4, <2>2, <4>1
      <4> QED
        BY <1>4, <4>2, ElementOfSeq
    <3>2. x1 \in SymbolEntry /\ x1.depth = r.symbols[i].depth
      BY <3>1 DEF SymbolEntry
    <3>3. known = s2
      BY <2>2
    <3> HIDE DEF x1, known
    <3>4. /\ s1 \in Seq(SymbolEntry) /\ Len(s1) = Len(r.symbols)
          /\ \A k \in 1..Len(r.symbols) : s1[k] = IF k = i THEN x1 ELSE r.symbols[k]
      BY <1>4, <3>1, <3>2, ExceptSeq
    <3> HIDE DEF s1
    <3>5. x2 \in SymbolEntry /\ x2.depth = x1.depth
      <4>1. s1[i] = x1
        BY <3>1, <3>4
      <4> QED
        BY <3>2, <4>1 DEF SymbolEntry
    <3> HIDE DEF x2
    <3>6. /\ s2 \in Seq(SymbolEntry) /\ Len(s2) = Len(s1)
          /\ \A k \in 1..Len(s1) : s2[k] = IF k = i THEN x2 ELSE s1[k]
      BY <3>1, <3>4, <3>5, ExceptSeq
    <3> HIDE DEF s2
    <3> QED
      BY <3>1, <3>2, <3>3, <3>4, <3>5, <3>6
  <2> QED
    BY <2>1, <2>2
<1> HIDE DEF known
<1>7. Consistent(known, outer, depth, stack)
  BY <1>4, <1>5, <1>6, RetouchedKeeps
<1>8. /\ new \in Seq(SymbolEntry) /\ Len(new) = Len(params)
      /\ \A k \in 1..Len(new) : new[k].depth = depth + 1
  <2>1. ASSUME NEW p \in Name PROVE param(p) \in SymbolEntry /\ param(p).depth = depth + 1
    <3> DEFINE x == Entry(p, "variable", "auto", "none", TRUE, FALSE)
    <3>1. x \in SymbolEntry
      BY <1>1, EntryTyped
    <3>2. param(p) = [x EXCEPT !.depth = depth + 1]
      OBVIOUS
    <3> HIDE DEF x, param
    <3> QED
      BY <1>5, <3>1, <3>2 DEF SymbolEntry
  <2>2. \A k \in 1..Len(params) : params[k] \in Name
    BY ElementOfSeq
  <2> HIDE DEF param
  <2>3. new \in [1..Len(params) -> SymbolEntry]
    BY <1>5, <2>1, <2>2
  <2>4. new \in Seq(SymbolEntry)
    BY <1>5, <2>3, SeqDef
  <2>5. Len(new) \in Nat /\ DOMAIN new = 1..Len(new)
    BY <2>4, LenProperties
  <2>6. Len(new) = Len(params)
    BY <1>5, <2>3, <2>5
  <2> QED
    BY <1>5, <2>1, <2>2, <2>4, <2>6
<1> HIDE DEF new
<1>9. /\ named \in SUBSET Name
      /\ at \in [named -> (Len(known) + 1)..(Len(known) + Len(new))]
  <2>1. \A k \in 1..Len(params) : params[k] \in Name
    BY ElementOfSeq
  <2>2. Len(known) \in Nat
    BY <1>6, LenProperties
  <2>3. ASSUME NEW p \in named PROVE id(p) \in (Len(known) + 1)..(Len(known) + Len(new))
    <3>1. \E k \in DOMAIN params : params[k] = p
      OBVIOUS
    <3>2. (CHOOSE k \in DOMAIN params : params[k] = p) \in 1..Len(params)
      BY <1>5, <3>1
    <3> QED
      BY <1>5, <1>8, <2>2, <3>2
  <2>4. named \in SUBSET Name
    BY <1>5, <2>1
  <2>5. at \in [named -> (Len(known) + 1)..(Len(known) + Len(new))]
    <3> HIDE DEF id, named
    <3> QED
      BY <2>3
  <2> QED
    BY <2>4, <2>5
<1>10. inner = [n \in Name |-> IF n \in named THEN outer[n] \cup {at[n]} ELSE outer[n]]
  OBVIOUS
<1> HIDE DEF inner, at, named
<1>11. frame \in ScopeFrame /\ frame.ordinary = at
  <2>1. Len(known) \in Nat /\ Len(new) \in Nat
    BY <1>6, <1>8, LenProperties
  <2>2. at \in [named -> Nat]
    BY <1>9, <2>1
  <2>3. at \in Ordinary
    BY <1>9, <2>2 DEF Ordinary
  <2> QED
    BY <2>3 DEF Scope, ScopeFrame
<1>16. frame.kind = "function" /\ frame.defined = {} /\ frame.referenced = {}
  BY DEF Scope
<1> HIDE DEF frame
<1>12. Consistent(known \o new, inner, depth + 1, Append(stack, frame))
  BY <1>7, <1>8, <1>9, <1>10, <1>11, PushedKeeps
<1>13. TablesAgree'
  BY <1>2, <1>12 DEF TablesAgree
<1>14. Restorable' /\ Held'
  <2> DEFINE c == Construct("function", "fresh")
  <2>1. c \in OpenConstruct
    BY <1>1, ConstructTyped
  <2>2. /\ open' = <<c>> /\ opened' = opened + 1 /\ UNCHANGED switches
    BY DEF BeginFunction
  <2> HIDE DEF c
  <2>3. open' \in Seq(OpenConstruct) /\ Len(open') = 1
    BY <2>1, <2>2
  <2>4. Holding(open') \in SUBSET {1}
    BY <2>3 DEF Holding
  <2>5. Cardinality(Holding(open')) <= 1 /\ Cardinality(Holding(open')) \in Nat
    <3>1. IsFiniteSet({1}) /\ Cardinality({1}) = 1
      BY FS_Singleton
    <3>2. Cardinality(Holding(open')) <= Cardinality({1})
      BY <2>4, <3>1, FS_Subset
    <3> QED
      BY <2>3, <3>1, <3>2, HoldingFinite
  <2>6. Held'
    BY <1>2, <1>5, <2>5 DEF Held
  <2> QED
    BY <1>1, <2>2, <2>3, <2>6 DEF Restorable, switches
<1>15. scopes' = Append(stack, frame) /\ (stack = scopes \/ \E i : stack = Registered(scopes, f, i))
  BY <1>2 DEF stack
<1> QED
  BY <1>5, <1>11, <1>13, <1>14, <1>15, <1>16 DEF IInv

LEMMA NextIInv == ASSUME IInv, [Next]_vars PROVE IInv'
<1>1. CASE UNCHANGED vars
  BY <1>1 DEF vars, tables, switches, history, IInv, TablesAgree, Restorable, Held
<1>2. CASE Next
  <2>1. /\ Step /\ UNCHANGED menu
        /\ menu.names \subseteq Name /\ menu.labels \subseteq Label
        /\ menu.literals \subseteq Literal /\ menu.declarations \subseteq DeclarationForm
    BY <1>2, MenuFacts DEF Next, IInv
  <2>2. ASSUME NEW n \in menu.names, NEW d \in menu.declarations, Declare(n, d) PROVE IInv'
    BY <2>1, <2>2, DeclareKeeps
  <2>3. ASSUME NEW n \in menu.names, Use(n) PROVE IInv'
    BY <2>1, <2>3, UseKeeps
  <2>4. ASSUME NEW f \in menu.names, NEW storage \in {"auto", "static"},
               NEW params \in ParamLists, BeginFunction(f, storage, params)
        PROVE  IInv'
    <3>1. params \in Seq(Name)
      <4>1. CASE params = <<>>
        BY <4>1, EmptySeq
      <4>2. CASE \E p \in Name : params = <<p>>
        BY <4>2
      <4> QED
        BY <2>1, <4>1, <4>2 DEF ParamLists
    <3> QED
      BY <2>1, <2>4, <3>1, BeginFunctionKeeps
  <2>5. CASE Begin
    BY <2>1, <2>5, OpenScopeKeeps, BeginPlainKeeps
       DEF Begin, BeginBlock, BeginStatementExpression, BeginFor
  <2>6. CASE EndFunction
    BY <2>1, <2>6, EndFunctionKeeps
  <2>7. CASE EndBlock \/ EndFor
    BY <2>1, <2>7, EndScopeKeeps
  <2>8. CASE ForBody
    BY <2>1, <2>8, ForBodyKeeps
  <2>9. CASE EndLoop \/ EndSwitch
    BY <2>1, <2>9, EndPlainKeeps
  <2>10. ASSUME NEW l \in menu.labels, Goto(l) \/ Labeled(l) \/ LocalLabel(l) PROVE IInv'
    BY <2>1, <2>10, GotoKeeps, LabeledKeeps, LocalLabelKeeps
  <2>11. ASSUME NEW c \in menu.literals, Case(c) PROVE IInv'
    BY <2>1, <2>11, CaseKeeps
  <2>12. CASE Default
    BY <2>1, <2>12, DefaultKeeps
  <2>13. ASSUME NEW k \in 1..MaxNesting, Fail(k) PROVE IInv'
    BY <2>1, <2>13, FailKeeps
  <2>14. CASE Finalize
    BY <2>1, <2>14, FinalizeKeeps
  <2> QED
    BY <2>1, <2>2, <2>3, <2>4, <2>5, <2>6, <2>7, <2>8, <2>9, <2>10, <2>11, <2>12,
       <2>13, <2>14 DEF Step
<1> QED
  BY <1>1, <1>2

-----------------------------------------------------------------------------
(* The inductive invariant holds throughout.                               *)
THEOREM Inductive == Spec => []IInv
<1>1. Init => IInv
  BY InitIInv
<1>2. IInv /\ [Next]_vars => IInv'
  BY NextIInv
<1> QED
  BY <1>1, <1>2, PTL DEF Spec

(* Symbol table and scope stack are at the same depth and find the same    *)
(* declaration of every name, whatever the program declares, opens, closes *)
(* or leaves through an error (lookup and lookup_ordinary in sema).        *)
THEOREM LookupsAgree == Spec => []ScopesAgree
<1>1. IInv => ScopesAgree
  BY ConsistentAgrees DEF IInv
<1> QED
  BY <1>1, Inductive, PTL

-----------------------------------------------------------------------------
(* The loop and switch state is carried by the recursion: every construct  *)
(* keeps the state it found, and what it found is the state of the         *)
(* constructs around it.                                                   *)
Loops(c) == c.at = "loop" \/ (c.at = "for" /\ c.stage # "head")
Reflects(cs, m, loop, switch) ==
  /\ loop <=> \E k \in 1..m : Loops(cs[k])
  /\ switch <=> \E k \in 1..m : cs[k].at = "switch"
Innermost(cs, m, k) == cs[k].at = "switch" /\ \A j \in 1..m : j > k => cs[j].at # "switch"
Collects(cs, m, values, default) ==
  \A k \in 1..m : Innermost(cs, m, k) => values = cs[k].seen /\ default = cs[k].default

Outside(cs, k) ==
  /\ Reflects(cs, k - 1, cs[k].inLoop, cs[k].inSwitch)
  /\ cs[k].at = "switch" => Collects(cs, k - 1, cs[k].cases, cs[k].hasDefault)
  /\ cs[k].at = "function" => k = 1
NestedIn(cs, loop, switch, values, default) ==
  /\ Reflects(cs, Len(cs), loop, switch)
  /\ Collects(cs, Len(cs), values, default)
  /\ \A k \in 1..Len(cs) : Outside(cs, k)
Nested == ~bailed => NestedIn(open, inLoop, inSwitch, cases, hasDefault)

\* Constructs that differ in nothing the loop and switch state depends on.
Alike(c, e) ==
  /\ c.at = e.at /\ (Loops(c) <=> Loops(e))
  /\ c.inLoop = e.inLoop /\ c.inSwitch = e.inSwitch
  /\ c.cases = e.cases /\ c.hasDefault = e.hasDefault
  /\ c.seen = e.seen /\ c.default = e.default

LEMMA AlikeBelow ==
  ASSUME NEW cs, NEW ds, NEW m \in Int, \A k \in 1..m : Alike(cs[k], ds[k]),
         NEW loop, NEW switch, NEW values, NEW default
  PROVE  /\ Reflects(cs, m, loop, switch) => Reflects(ds, m, loop, switch)
         /\ Collects(cs, m, values, default) => Collects(ds, m, values, default)
<1>1. Reflects(cs, m, loop, switch) => Reflects(ds, m, loop, switch)
  BY DEF Reflects, Alike
<1>2. \A k \in 1..m : Innermost(ds, m, k) => Innermost(cs, m, k)
  BY DEF Innermost, Alike
<1>3. Collects(cs, m, values, default) => Collects(ds, m, values, default)
  BY <1>2 DEF Collects, Alike
<1> QED
  BY <1>1, <1>3

LEMMA NestTouched ==
  ASSUME NEW cs \in Seq(OpenConstruct), NEW ds \in Seq(OpenConstruct), Len(ds) = Len(cs),
         \A k \in 1..Len(cs) : Alike(cs[k], ds[k]),
         NEW loop, NEW switch, NEW values, NEW default,
         NestedIn(cs, loop, switch, values, default)
  PROVE  NestedIn(ds, loop, switch, values, default)
<1>1. Len(cs) \in Nat
  BY LenProperties
<1>2. /\ Reflects(ds, Len(ds), loop, switch)
      /\ Collects(ds, Len(ds), values, default)
  BY <1>1, AlikeBelow DEF NestedIn
<1>3. ASSUME NEW k \in 1..Len(cs) PROVE Outside(ds, k)
  <2>1. /\ k - 1 \in Int /\ \A j \in 1..(k - 1) : Alike(cs[j], ds[j])
        /\ Alike(cs[k], ds[k])
    BY <1>1
  <2>2. Outside(cs, k)
    BY DEF NestedIn
  <2>3. Reflects(ds, k - 1, ds[k].inLoop, ds[k].inSwitch)
    BY <2>1, <2>2, AlikeBelow DEF Outside, Alike
  <2>4. ds[k].at = "switch" => Collects(ds, k - 1, ds[k].cases, ds[k].hasDefault)
    BY <2>1, <2>2, AlikeBelow DEF Outside, Alike
  <2> QED
    BY <2>1, <2>2, <2>3, <2>4 DEF Outside, Alike
<1> QED
  BY <1>2, <1>3 DEF NestedIn

\* ds is cs and c on top of it; c keeps the state; the state with c open.
Extends(ds, cs, c) ==
  Len(ds) = Len(cs) + 1 /\ (\A k \in 1..Len(cs) : ds[k] = cs[k]) /\ ds[Len(cs) + 1] = c
Keeps(c, loop, switch, values, default) ==
  /\ c.inLoop = loop /\ c.inSwitch = switch
  /\ c.at = "switch" => c.cases = values /\ c.hasDefault = default
Sets(c, loop, switch, loop2, switch2) ==
  (loop2 <=> loop \/ Loops(c)) /\ (switch2 <=> switch \/ c.at = "switch")
Starts(c, values, default, values2, default2) ==
  IF c.at = "switch" THEN values2 = c.seen /\ default2 = c.default
                     ELSE values2 = values /\ default2 = default

\* A construct is opened and keeps the state it found.
LEMMA NestOpened ==
  ASSUME NEW cs \in Seq(OpenConstruct), NEW c \in OpenConstruct, NEW ds \in Seq(OpenConstruct),
         Extends(ds, cs, c),
         NEW loop \in BOOLEAN, NEW switch \in BOOLEAN, NEW values, NEW default,
         NestedIn(cs, loop, switch, values, default),
         c.at = "function" => cs = <<>>,
         Keeps(c, loop, switch, values, default),
         NEW loop2 \in BOOLEAN, NEW switch2 \in BOOLEAN, NEW values2, NEW default2,
         Sets(c, loop, switch, loop2, switch2),
         Starts(c, values, default, values2, default2)
  PROVE  NestedIn(ds, loop2, switch2, values2, default2)
<1> DEFINE m == Len(cs)
<1>1. /\ Len(cs) \in Nat /\ Len(ds) = Len(cs) + 1
      /\ \A k \in 1..Len(cs) : ds[k] = cs[k]
      /\ ds[Len(cs) + 1] = c
  BY LenProperties DEF Extends
<1>2. m \in Nat /\ m = Len(cs)
  BY <1>1
<1> HIDE DEF m
<1>3. \A k \in 1..m : Alike(cs[k], ds[k])
  BY <1>1, <1>2 DEF Alike
<1>4. Reflects(ds, m, loop, switch) /\ Collects(ds, m, values, default)
  <2>1. /\ Reflects(cs, m, loop, switch) /\ Collects(cs, m, values, default)
        /\ m \in Int
    BY <1>2 DEF NestedIn
  <2> QED
    BY <1>3, <2>1, AlikeBelow
<1>5. /\ Reflects(ds, m + 1, loop2, switch2)
      /\ Collects(ds, m + 1, values2, default2)
  <2>1. 1..(m + 1) = (1..m) \cup {m + 1} /\ ds[m + 1] = c
    BY <1>1, <1>2
  <2>2. Reflects(ds, m + 1, loop2, switch2)
    BY <1>4, <2>1 DEF Reflects, Sets
  <2>3. ASSUME NEW k \in 1..(m + 1), Innermost(ds, m + 1, k)
        PROVE  values2 = ds[k].seen /\ default2 = ds[k].default
    <3>1. CASE k = m + 1
      BY <2>1, <2>3, <3>1 DEF Innermost, Starts
    <3>2. CASE k \in 1..m
      <4>1. m + 1 > k /\ m + 1 \in 1..(m + 1)
        BY <1>2, <3>2
      <4>2. c.at # "switch" /\ Innermost(ds, m, k)
        BY <2>1, <2>3, <4>1 DEF Innermost
      <4> QED
        BY <1>4, <3>2, <4>2 DEF Collects, Starts
    <3> QED
      BY <2>1, <3>1, <3>2
  <2>4. Collects(ds, m + 1, values2, default2)
    BY <2>3 DEF Collects
  <2> QED
    BY <2>2, <2>4
<1>6. ASSUME NEW k \in 1..m PROVE Outside(ds, k)
  <2>1. k - 1 \in Int /\ \A j \in 1..(k - 1) : Alike(cs[j], ds[j])
    BY <1>2, <1>3
  <2>2. Outside(cs, k) /\ ds[k] = cs[k]
    BY <1>1, <1>2 DEF NestedIn
  <2> QED
    BY <2>1, <2>2, AlikeBelow DEF Outside
<1>7. Outside(ds, m + 1)
  <2>1. m + 1 - 1 = m /\ ds[m + 1] = c
    BY <1>1, <1>2
  <2>2. c.at = "function" => m = 0
    BY <1>2
  <2> QED
    BY <1>2, <1>4, <2>1, <2>2 DEF Outside, Keeps
<1>8. \A k \in 1..(m + 1) : Outside(ds, k)
  BY <1>2, <1>6, <1>7
<1> QED
  BY <1>1, <1>2, <1>5, <1>8 DEF NestedIn

\* The sequence without its last element.
LEMMA Shorter ==
  ASSUME NEW cs \in Seq(OpenConstruct), cs # <<>>
  PROVE  LET rest == SubSeq(cs, 1, Len(cs) - 1) IN
         /\ Len(cs) \in Nat /\ Len(cs) > 0 /\ Len(cs) - 1 \in Nat
         /\ rest \in Seq(OpenConstruct) /\ Len(rest) = Len(cs) - 1
         /\ \A k \in 1..(Len(cs) - 1) : rest[k] = cs[k]
<1> DEFINE m == Len(cs) - 1
           rest == SubSeq(cs, 1, m)
<1>1. m \in Nat /\ Len(cs) = m + 1 /\ Len(cs) \in Nat
  BY LenProperties, EmptySeq
<1>2. \A k \in 1..m : cs[k] \in OpenConstruct
  <2>1. \A k \in 1..m : k \in 1..Len(cs)
    BY <1>1
  <2> QED
    BY <2>1, ElementOfSeq
<1> HIDE DEF m
<1>3. /\ rest \in Seq(OpenConstruct)
      /\ Len(rest) = IF 1 <= m THEN m - 1 + 1 ELSE 0
      /\ \A k \in 1..(m - 1 + 1) : rest[k] = cs[1 + k - 1]
  BY <1>1, <1>2, SubSeqProperties
<1> HIDE DEF rest
<1>4. Len(rest) = m
  BY <1>1, <1>3
<1>5. \A k \in 1..m : rest[k] = cs[k]
  <2>1. \A k \in 1..m : k \in 1..(m - 1 + 1) /\ 1 + k - 1 = k
    BY <1>1
  <2> QED
    BY <1>3, <2>1
<1> QED
  BY <1>1, <1>3, <1>4, <1>5 DEF rest, m

\* The innermost construct is left, with the state it kept.
LEMMA NestClosed ==
  ASSUME NEW cs \in Seq(OpenConstruct), cs # <<>>,
         NEW loop \in BOOLEAN, NEW switch \in BOOLEAN, NEW values, NEW default,
         NestedIn(cs, loop, switch, values, default),
         NEW loop2 \in BOOLEAN, NEW switch2 \in BOOLEAN, NEW values2, NEW default2,
         LET top == cs[Len(cs)] IN
           /\ loop2 = top.inLoop \/ (loop2 = loop /\ ~Loops(top))
           /\ switch2 = top.inSwitch \/ (switch2 = switch /\ top.at # "switch")
           /\ IF top.at = "switch" THEN values2 = top.cases /\ default2 = top.hasDefault
                                   ELSE values2 = values /\ default2 = default
  PROVE  NestedIn(SubSeq(cs, 1, Len(cs) - 1), loop2, switch2, values2, default2)
<1> DEFINE ds == SubSeq(cs, 1, Len(cs) - 1)
           m == Len(cs) - 1
           top == cs[Len(cs)]
<1>1. /\ Len(cs) = m + 1 /\ m \in Nat
      /\ ds \in Seq(OpenConstruct) /\ Len(ds) = m /\ \A k \in 1..m : ds[k] = cs[k]
      /\ top = cs[m + 1]
  BY Shorter
<1>2. top \in OpenConstruct
  <2>1. m + 1 \in 1..Len(cs)
    BY <1>1
  <2> QED
    BY <1>1, <2>1, ElementOfSeq
<1> HIDE DEF ds, m, top
<1>3. \A k \in 1..m : Alike(cs[k], ds[k])
  BY <1>1 DEF Alike
<1>4. /\ \A k \in 1..(m + 1) : Outside(cs, k) /\ m + 1 - 1 = m
      /\ Reflects(cs, m + 1, loop, switch) /\ Collects(cs, m + 1, values, default)
  BY <1>1 DEF NestedIn
<1>5. Reflects(cs, m, loop2, switch2)
  <2>1. Outside(cs, m + 1)
    BY <1>1, <1>4
  <2>2. Reflects(cs, m, top.inLoop, top.inSwitch)
    BY <1>1, <1>4, <2>1 DEF Outside
  <2>3. 1..(m + 1) = (1..m) \cup {m + 1}
    BY <1>1
  <2>4. loop2 <=> \E k \in 1..m : Loops(cs[k])
    <3>1. CASE loop2 = top.inLoop
      BY <2>2, <3>1 DEF Reflects
    <3>2. CASE loop2 = loop /\ ~Loops(top)
      BY <1>1, <1>4, <2>3, <3>2 DEF Reflects
    <3> QED
      BY <3>1, <3>2 DEF top
  <2>5. switch2 <=> \E k \in 1..m : cs[k].at = "switch"
    <3>1. CASE switch2 = top.inSwitch
      BY <2>2, <3>1 DEF Reflects
    <3>2. CASE switch2 = switch /\ top.at # "switch"
      BY <1>1, <1>4, <2>3, <3>2 DEF Reflects
    <3> QED
      BY <3>1, <3>2 DEF top
  <2> QED
    BY <2>4, <2>5 DEF Reflects
<1>6. Collects(cs, m, values2, default2)
  <2>1. CASE top.at = "switch"
    <3>1. Outside(cs, m + 1)
      BY <1>1, <1>4
    <3> QED
      BY <1>1, <1>4, <2>1, <3>1 DEF Outside, top
  <2>2. CASE top.at # "switch"
    <3>1. \A k \in 1..m : Innermost(cs, m, k) => Innermost(cs, m + 1, k) /\ k \in 1..(m + 1)
      BY <1>1, <2>2 DEF Innermost
    <3>2. values2 = values /\ default2 = default
      BY <2>2 DEF top
    <3> QED
      BY <1>4, <3>1, <3>2 DEF Collects
  <2> QED
    BY <2>1, <2>2
<1>7. Reflects(ds, m, loop2, switch2) /\ Collects(ds, m, values2, default2)
  BY <1>1, <1>3, <1>5, <1>6, AlikeBelow
<1>8. ASSUME NEW k \in 1..m PROVE Outside(ds, k)
  <2>1. /\ k - 1 \in Int /\ \A j \in 1..(k - 1) : Alike(cs[j], ds[j])
        /\ k \in 1..(m + 1) /\ ds[k] = cs[k]
    BY <1>1, <1>3
  <2>2. Outside(cs, k)
    BY <1>4, <2>1
  <2> QED
    BY <2>1, <2>2, AlikeBelow DEF Outside
<1> QED
  BY <1>1, <1>7, <1>8 DEF NestedIn, ds

\* The label of a case is noted at the switch it belongs to.
LEMMA NestNoted ==
  ASSUME Restorable, NestedIn(open, inLoop, inSwitch, cases, hasDefault),
         NEW values \in SUBSET Literal, NEW default \in BOOLEAN
  PROVE  NestedIn(Noted(values, default), inLoop, inSwitch,
                  cases \cup values, hasDefault \/ default)
<1> DEFINE m == Len(open)
           ds == Noted(values, default)
           latest == Latest(SwitchesOpen)
           noted(c) == [c EXCEPT !.seen = @ \cup values, !.default = @ \/ default]
<1>1. /\ open \in Seq(OpenConstruct) /\ m \in Nat /\ DOMAIN open = 1..m
      /\ \A k \in 1..m : open[k] \in OpenConstruct
  BY LenProperties, ElementOfSeq DEF Restorable
<1>2. ASSUME NEW c \in OpenConstruct
      PROVE  /\ noted(c).at = c.at /\ noted(c).stage = c.stage
             /\ noted(c).inLoop = c.inLoop /\ noted(c).inSwitch = c.inSwitch
             /\ noted(c).cases = c.cases /\ noted(c).hasDefault = c.hasDefault
             /\ noted(c).seen = c.seen \cup values /\ noted(c).default = (c.default \/ default)
  BY DEF OpenConstruct
<1>3. /\ SwitchesOpen \in SUBSET (1..m)
      /\ \A k \in 1..m : k \in SwitchesOpen <=> open[k].at = "switch"
      /\ SwitchesOpen # {} => latest \in SwitchesOpen /\ \A k \in SwitchesOpen : k <= latest
  <2>1. SwitchesOpen \in SUBSET (1..m)
    BY <1>1 DEF SwitchesOpen
  <2> QED
    BY <1>1, <2>1, LatestIsLast DEF SwitchesOpen
<1>4. \A k \in 1..m : ds[k] = IF SwitchesOpen # {} /\ k = latest THEN noted(open[k]) ELSE open[k]
  BY <1>1 DEF Noted
<1>5. Len(ds) = m
  <2>1. ds \in Seq(OpenConstruct) /\ DOMAIN ds = 1..m
    BY <1>1, NotedTyped DEF Noted
  <2> HIDE DEF ds
  <2>2. Len(ds) \in Nat /\ DOMAIN ds = 1..Len(ds)
    BY <2>1, LenProperties
  <2> QED
    BY <1>1, <2>1, <2>2
<1> HIDE DEF ds, latest, noted, m
<1>6. ASSUME NEW k \in 1..m
      PROVE  /\ ds[k].at = open[k].at /\ ds[k].stage = open[k].stage
             /\ ds[k].inLoop = open[k].inLoop /\ ds[k].inSwitch = open[k].inSwitch
             /\ ds[k].cases = open[k].cases /\ ds[k].hasDefault = open[k].hasDefault
  BY <1>1, <1>2, <1>4
<1>7. ASSUME NEW i \in 0..m, NEW loop, NEW switch, Reflects(open, i, loop, switch)
      PROVE  Reflects(ds, i, loop, switch)
  <2>1. \A k \in 1..i : k \in 1..m
    BY <1>1
  <2> QED
    BY <1>6, <1>7, <2>1 DEF Reflects, Loops
<1>8. Reflects(ds, m, inLoop, inSwitch)
  BY <1>1, <1>7 DEF NestedIn, m
<1>9. Collects(ds, m, cases \cup values, hasDefault \/ default)
  <2> SUFFICES ASSUME NEW k \in 1..m, Innermost(ds, m, k)
               PROVE  cases \cup values = ds[k].seen /\ (hasDefault \/ default) = ds[k].default
    BY DEF Collects
  <2>1. Innermost(open, m, k)
    BY <1>6 DEF Innermost
  <2>2. cases = open[k].seen /\ hasDefault = open[k].default
    BY <2>1 DEF NestedIn, Collects, m
  <2>3. SwitchesOpen # {} /\ k = latest
    <3>1. k \in SwitchesOpen /\ latest \in SwitchesOpen /\ k <= latest
      BY <1>3, <2>1 DEF Innermost
    <3>2. ~(latest > k)
      BY <1>3, <2>1, <3>1 DEF Innermost
    <3> QED
      BY <1>1, <1>3, <3>1, <3>2
  <2>4. ds[k] = noted(open[k]) /\ open[k] \in OpenConstruct
    BY <1>1, <1>4, <2>3
  <2> QED
    BY <1>2, <2>2, <2>4
<1>10. ASSUME NEW k \in 1..m PROVE Outside(ds, k)
  <2>1. Outside(open, k)
    BY DEF NestedIn, m
  <2>2. k - 1 \in 0..m /\ \A j \in 1..(k - 1) : j \in 1..m /\ j < k
    BY <1>1
  <2>3. Reflects(ds, k - 1, ds[k].inLoop, ds[k].inSwitch)
    BY <1>6, <1>7, <2>1, <2>2 DEF Outside
  <2>4. ASSUME ds[k].at = "switch" PROVE Collects(ds, k - 1, ds[k].cases, ds[k].hasDefault)
    <3>1. k \in SwitchesOpen /\ k <= latest
      BY <1>3, <1>6, <2>4
    <3>2. \A j \in 1..(k - 1) : ds[j] = open[j]
      BY <1>3, <1>4, <2>2, <3>1
    <3>3. \A j \in 1..(k - 1) : Innermost(ds, k - 1, j) => Innermost(open, k - 1, j)
      BY <3>2 DEF Innermost
    <3>4. Collects(open, k - 1, open[k].cases, open[k].hasDefault)
      BY <1>6, <2>1, <2>4 DEF Outside
    <3> QED
      BY <1>6, <3>2, <3>3, <3>4 DEF Collects
  <2> QED
    BY <1>6, <2>1, <2>3, <2>4 DEF Outside
<1> QED
  BY <1>5, <1>8, <1>9, <1>10 DEF NestedIn, ds

\* Reaching the next item or statement changes nothing of this.
LEMMA NestAdvanced ==
  ASSUME Restorable, NestedIn(open, inLoop, inSwitch, cases, hasDefault),
         AtStatement \/ AtForHead \/ AtDeclaration
  PROVE  /\ Advanced \in Seq(OpenConstruct)
         /\ NestedIn(Advanced, inLoop, inSwitch, cases, hasDefault)
<1>1. open \in Seq(OpenConstruct)
  BY DEF Restorable
<1>2. ASSUME NEW s \in {"fresh", "head", "body", "done"}, open # <<>>,
             Top.at = "for" => Top.stage # "head" /\ s # "head"
      PROVE  NestedIn([open EXCEPT ![Len(open)].stage = s], inLoop, inSwitch, cases, hasDefault)
  <2> DEFINE c == [open[Len(open)] EXCEPT !.stage = s]
             cs == [open EXCEPT ![Len(open)] = c]
  <2>1. Len(open) \in 1..Len(open) /\ open[Len(open)] \in OpenConstruct
    <3>1. Len(open) \in 1..Len(open)
      BY <1>1, <1>2, EmptySeq
    <3> QED
      BY <1>1, <3>1, ElementOfSeq
  <2>2. c \in OpenConstruct /\ Alike(open[Len(open)], c)
    BY <1>2, <2>1 DEF OpenConstruct, Alike, Loops, Top
  <2> HIDE DEF c
  <2>3. /\ cs \in Seq(OpenConstruct) /\ Len(cs) = Len(open)
        /\ \A k \in 1..Len(open) : cs[k] = IF k = Len(open) THEN c ELSE open[k]
    BY <1>1, <2>1, <2>2, ExceptSeq
  <2>4. \A k \in 1..Len(open) : Alike(open[k], cs[k])
    BY <2>2, <2>3 DEF Alike
  <2> HIDE DEF cs
  <2>5. NestedIn(cs, inLoop, inSwitch, cases, hasDefault)
    BY <1>1, <2>3, <2>4, NestTouched
  <2> QED
    BY <2>5 DEF cs, c
<1>3. CASE open = <<>> \/ AtForHead
  <2>1. Advanced = open
    BY <1>3 DEF Advanced, AtForHead, AtItem, HoldsItems
  <2> QED
    BY <1>1, <2>1
<1>4. CASE ~(open = <<>> \/ AtForHead) /\ AtItem
  <2>1. Advanced = [open EXCEPT ![Len(open)].stage = "body"]
    BY <1>4 DEF Advanced
  <2>2. Top.at # "for" /\ open # <<>>
    BY <1>4 DEF AtItem, HoldsItems
  <2>3. NestedIn([open EXCEPT ![Len(open)].stage = "body"], inLoop, inSwitch, cases, hasDefault)
    BY <1>2, <2>2
  <2> QED
    BY <2>1, <2>3, AdvancedKeeps
<1>5. CASE ~(open = <<>> \/ AtForHead) /\ ~AtItem
  <2>1. Top.stage = "body"
    BY <1>5 DEF AtStatement, AtDeclaration, AtFileScope
  <2>2. Advanced = [open EXCEPT ![Len(open)].stage = "done"]
    BY <1>5 DEF Advanced
  <2>3. NestedIn([open EXCEPT ![Len(open)].stage = "done"], inLoop, inSwitch, cases, hasDefault)
    BY <1>2, <1>5, <2>1
  <2> QED
    BY <2>2, <2>3, AdvancedKeeps
<1> QED
  BY <1>3, <1>4, <1>5

LEMMA NestReached ==
  ASSUME Restorable, Nested, open' = Advanced, UNCHANGED <<switches, bailed>>,
         AtStatement \/ AtForHead \/ AtDeclaration
  PROVE  Nested'
BY NestAdvanced DEF Nested, switches

\* A construct is opened within the one the statement or expression is in.
LEMMA NestBegun ==
  ASSUME Restorable, Nested, UNCHANGED bailed, AtStatement \/ AtForHead,
         NEW at \in {"block", "expression", "for", "loop", "switch"},
         NEW stage \in {"fresh", "head", "body", "done"},
         open' = Append(Advanced, Construct(at, stage)),
         inLoop' \in BOOLEAN, inSwitch' \in BOOLEAN,
         inLoop' <=> inLoop \/ at = "loop" \/ (at = "for" /\ stage # "head"),
         inSwitch' <=> inSwitch \/ at = "switch",
         IF at = "switch" THEN cases' = {} /\ hasDefault' = FALSE
                          ELSE UNCHANGED <<cases, hasDefault>>
  PROVE  Nested'
<1> SUFFICES ASSUME ~bailed
             PROVE  NestedIn(open', inLoop', inSwitch', cases', hasDefault')
  BY DEF Nested
<1> DEFINE c == Construct(at, stage)
           cs == Advanced
<1>1. cs \in Seq(OpenConstruct) /\ NestedIn(cs, inLoop, inSwitch, cases, hasDefault)
  BY NestAdvanced DEF Nested
<1>2. /\ c \in OpenConstruct /\ c.at = at /\ c.stage = stage
      /\ c.inLoop = inLoop /\ c.inSwitch = inSwitch
      /\ c.cases = cases /\ c.hasDefault = hasDefault /\ c.seen = {} /\ c.default = FALSE
  <2>1. c \in OpenConstruct
    BY ConstructTyped
  <2> QED
    BY <2>1 DEF Construct
<1>3. open' = Append(cs, c)
  OBVIOUS
<1> HIDE DEF c, cs
<1>7. inLoop \in BOOLEAN /\ inSwitch \in BOOLEAN
  BY DEF Restorable
<1>4. /\ open' \in Seq(OpenConstruct) /\ Len(open') = Len(cs) + 1
      /\ \A k \in 1..Len(cs) : open'[k] = cs[k]
      /\ open'[Len(cs) + 1] = c
  BY <1>1, <1>2, <1>3, AppendProperties
<1>5. Loops(c) <=> at = "loop" \/ (at = "for" /\ stage # "head")
  BY <1>2 DEF Loops
<1>6. /\ c.at # "function"
      /\ inLoop' <=> inLoop \/ Loops(c)
      /\ inSwitch' <=> inSwitch \/ c.at = "switch"
      /\ IF c.at = "switch" THEN cases' = c.seen /\ hasDefault' = c.default
                            ELSE cases' = cases /\ hasDefault' = hasDefault
  BY <1>2, <1>5
<1>8. /\ Extends(open', cs, c) /\ Keeps(c, inLoop, inSwitch, cases, hasDefault)
      /\ Sets(c, inLoop, inSwitch, inLoop', inSwitch')
      /\ Starts(c, cases, hasDefault, cases', hasDefault')
  BY <1>2, <1>4, <1>6 DEF Extends, Keeps, Sets, Starts
<1>9. c \in OpenConstruct /\ open' \in Seq(OpenConstruct) /\ (c.at = "function" => cs = <<>>)
  BY <1>2, <1>4, <1>6
<1>10. NestedIn(open', inLoop', inSwitch', cases', hasDefault')
  BY ONLY <1>1, <1>7, <1>8, <1>9, inLoop' \in BOOLEAN, inSwitch' \in BOOLEAN, NestOpened
<1> QED
  BY <1>10

\* The innermost construct is left and its handler puts back what it kept.
LEMMA NestEnded ==
  ASSUME Restorable, Nested, UNCHANGED bailed, open # <<>>,
         open' = SubSeq(open, 1, Len(open) - 1),
         inLoop' = Top.inLoop \/ (inLoop' = inLoop /\ ~Loops(Top)),
         inSwitch' = Top.inSwitch \/ (inSwitch' = inSwitch /\ Top.at # "switch"),
         IF Top.at = "switch" THEN cases' = Top.cases /\ hasDefault' = Top.hasDefault
                              ELSE UNCHANGED <<cases, hasDefault>>
  PROVE  Nested'
<1> SUFFICES ASSUME ~bailed
             PROVE  NestedIn(open', inLoop', inSwitch', cases', hasDefault')
  BY DEF Nested
<1>1. open \in Seq(OpenConstruct) /\ inLoop \in BOOLEAN /\ inSwitch \in BOOLEAN
  BY DEF Restorable
<1>2. Top.inLoop \in BOOLEAN /\ Top.inSwitch \in BOOLEAN
  BY TopTyped DEF OpenConstruct
<1>3. inLoop' \in BOOLEAN /\ inSwitch' \in BOOLEAN
  BY <1>1, <1>2
<1>4. NestedIn(open, inLoop, inSwitch, cases, hasDefault)
  BY DEF Nested
<1> QED
  BY <1>1, <1>3, <1>4, NestClosed DEF Top

LEMMA NestEnds ==
  ASSUME Restorable, Nested, EndBlock \/ EndFor \/ EndLoop \/ EndSwitch
  PROVE  Nested'
<1>1. CASE EndBlock
  <2>1. Top.at # "switch" /\ ~Loops(Top)
    BY <1>1 DEF EndBlock, Loops
  <2> QED
    BY <1>1, <2>1, NestEnded DEF EndBlock, CloseScope, switches
<1>2. CASE EndFor
  BY <1>2, NestEnded DEF EndFor, CloseScope
<1>3. CASE EndLoop
  BY <1>3, NestEnded DEF EndLoop
<1>4. CASE EndSwitch
  <2>1. ~Loops(Top)
    BY <1>4 DEF EndSwitch, Loops
  <2> QED
    BY <1>4, <2>1, NestEnded DEF EndSwitch
<1> QED
  BY <1>1, <1>2, <1>3, <1>4

\* A function is the outermost construct, with no loop or switch around it.
LEMMA NestEndFunction ==
  ASSUME Restorable, Nested, EndFunction
  PROVE  Nested'
<1> SUFFICES ASSUME ~bailed
             PROVE  NestedIn(open', inLoop', inSwitch', cases', hasDefault')
  BY DEF Nested, EndFunction
<1>1. /\ open \in Seq(OpenConstruct) /\ open # <<>> /\ Top.at = "function"
      /\ inLoop \in BOOLEAN /\ inSwitch \in BOOLEAN
      /\ NestedIn(open, inLoop, inSwitch, cases, hasDefault)
  BY DEF Restorable, Nested, EndFunction
<1>2. /\ Len(open) \in Nat /\ Len(open) > 0 /\ Len(SubSeq(open, 1, Len(open) - 1)) = Len(open) - 1
      /\ SubSeq(open, 1, Len(open) - 1) \in Seq(OpenConstruct)
  BY <1>1, Shorter
<1>3. Len(open) = 1
  <2>1. Len(open) \in 1..Len(open)
    BY <1>2
  <2> QED
    BY <1>1, <2>1 DEF NestedIn, Outside, Top
<1>4. SubSeq(open, 1, Len(open) - 1) = <<>>
  BY <1>2, <1>3, EmptySeq
<1>5. ~Loops(Top) /\ Top.at # "switch"
  BY <1>1 DEF Loops
<1>6. NestedIn(SubSeq(open, 1, Len(open) - 1), inLoop, inSwitch, cases, hasDefault)
  BY <1>1, <1>5, NestClosed DEF Top
<1> QED
  BY <1>4, <1>6 DEF EndFunction, switches

LEMMA NestBeginFunction ==
  ASSUME Restorable, Nested, NEW f, NEW storage, NEW params, BeginFunction(f, storage, params)
  PROVE  Nested'
<1> SUFFICES ASSUME ~bailed
             PROVE  NestedIn(open', inLoop', inSwitch', cases', hasDefault')
  BY DEF Nested, BeginFunction
<1> DEFINE c == Construct("function", "fresh")
<1>1. /\ open = <<>> /\ open \in Seq(OpenConstruct)
      /\ NestedIn(open, inLoop, inSwitch, cases, hasDefault)
      /\ open' = <<c>> /\ UNCHANGED switches
      /\ inLoop \in BOOLEAN /\ inSwitch \in BOOLEAN
  BY DEF Restorable, Nested, BeginFunction, AtFileScope
<1>2. /\ c \in OpenConstruct /\ c.at = "function" /\ ~Loops(c)
      /\ c.inLoop = inLoop /\ c.inSwitch = inSwitch
  BY ConstructTyped DEF Construct, Loops
<1> HIDE DEF c
<1>3. /\ open' \in Seq(OpenConstruct) /\ Len(open') = Len(open) + 1
      /\ \A k \in 1..Len(open) : open'[k] = open[k]
      /\ open'[Len(open) + 1] = c
  BY <1>1, <1>2
<1>4. c.at # "switch"
  BY <1>2
<1>5. /\ Extends(open', open, c) /\ Keeps(c, inLoop, inSwitch, cases, hasDefault)
      /\ Sets(c, inLoop, inSwitch, inLoop', inSwitch')
      /\ Starts(c, cases, hasDefault, cases', hasDefault')
      /\ inLoop' \in BOOLEAN /\ inSwitch' \in BOOLEAN
  <2>1. Keeps(c, inLoop, inSwitch, cases, hasDefault)
    BY <1>2, <1>4 DEF Keeps
  <2> QED
    BY <1>1, <1>2, <1>3, <1>4, <2>1 DEF Extends, Sets, Starts, switches
<1>6. c.at = "function" => open = <<>>
  BY <1>1
<1>7. open \in Seq(OpenConstruct) /\ open' \in Seq(OpenConstruct) /\ c \in OpenConstruct
      /\ inLoop \in BOOLEAN /\ inSwitch \in BOOLEAN
      /\ NestedIn(open, inLoop, inSwitch, cases, hasDefault)
  BY <1>1, <1>2, <1>3
<1> QED
  BY ONLY <1>5, <1>6, <1>7, NestOpened

\* The body of a for statement is in its loop, its head is not.
LEMMA NestForBody ==
  ASSUME Restorable, Nested, ForBody
  PROVE  Nested'
<1> SUFFICES ASSUME ~bailed
             PROVE  NestedIn(open', inLoop', inSwitch', cases', hasDefault')
  BY DEF Nested, ForBody
<1> DEFINE c == [open[Len(open)] EXCEPT !.stage = "body"]
           m == Len(open) - 1
           rest == SubSeq(open, 1, m)
<1>1. /\ open \in Seq(OpenConstruct) /\ open # <<>> /\ Top.at = "for" /\ Top.stage = "head"
      /\ NestedIn(open, inLoop, inSwitch, cases, hasDefault)
      /\ inLoop \in BOOLEAN /\ inSwitch \in BOOLEAN
  BY DEF Restorable, Nested, ForBody, AtForHead
<1>2. /\ Len(open) = m + 1 /\ m \in Nat
      /\ rest \in Seq(OpenConstruct) /\ Len(rest) = m /\ \A k \in 1..m : rest[k] = open[k]
  BY <1>1, Shorter
<1>3. Len(open) \in 1..Len(open) /\ open[Len(open)] \in OpenConstruct
  <2>1. Len(open) \in 1..Len(open)
    BY <1>1, EmptySeq
  <2> QED
    BY <1>1, <2>1, ElementOfSeq
<1>4. /\ c \in OpenConstruct /\ c.at = "for" /\ Loops(c) /\ ~Loops(Top)
      /\ c.inLoop = Top.inLoop /\ c.inSwitch = Top.inSwitch
  BY <1>1, <1>3 DEF OpenConstruct, Top, Loops
<1>5. open' = [open EXCEPT ![Len(open)] = c] /\ inLoop' = TRUE
      /\ UNCHANGED <<inSwitch, cases, hasDefault>>
  BY DEF ForBody
<1> HIDE DEF c
<1>6. /\ open' \in Seq(OpenConstruct) /\ Len(open') = Len(open)
      /\ \A k \in 1..Len(open) : open'[k] = IF k = Len(open) THEN c ELSE open[k]
  BY <1>1, <1>3, <1>4, <1>5, ExceptSeq
<1>7. Top.inLoop \in BOOLEAN /\ Top.inSwitch \in BOOLEAN
  BY <1>1, TopTyped DEF OpenConstruct
<1>8. NestedIn(rest, Top.inLoop, Top.inSwitch, cases, hasDefault)
  <2>1. Top.at # "switch"
    BY <1>1
  <2> HIDE DEF rest
  <2> QED
    BY <1>1, <1>7, <2>1, NestClosed DEF Top, rest
<1>9. inSwitch <=> Top.inSwitch
  <2>1. NestedIn(rest, inLoop, inSwitch, cases, hasDefault)
    <3>1. Top.at # "switch"
      BY <1>1
    <3> QED
      BY <1>1, <1>4, <3>1, NestClosed DEF Top
  <2> QED
    BY <1>8, <2>1 DEF NestedIn, Reflects
<1> HIDE DEF rest, m
<1>10. /\ Len(open') = Len(rest) + 1 /\ \A k \in 1..Len(rest) : open'[k] = rest[k]
       /\ open'[Len(rest) + 1] = c
  BY <1>2, <1>6
<1>11. c.at # "function" /\ c.at # "switch"
  BY <1>4
<1>12. inLoop' \in BOOLEAN /\ inSwitch' \in BOOLEAN
  BY <1>1, <1>5
<1>13. /\ Extends(open', rest, c) /\ Keeps(c, Top.inLoop, Top.inSwitch, cases, hasDefault)
       /\ Sets(c, Top.inLoop, Top.inSwitch, inLoop', inSwitch')
       /\ Starts(c, cases, hasDefault, cases', hasDefault')
  <2>1. Keeps(c, Top.inLoop, Top.inSwitch, cases, hasDefault)
    BY <1>4, <1>11 DEF Keeps
  <2>2. Sets(c, Top.inLoop, Top.inSwitch, inLoop', inSwitch')
    BY <1>1, <1>4, <1>5, <1>7, <1>9, <1>11 DEF Sets
  <2> QED
    BY <1>5, <1>10, <1>11, <2>1, <2>2 DEF Extends, Starts
<1> QED
  BY <1>2, <1>4, <1>6, <1>7, <1>8, <1>11, <1>12, <1>13, NestOpened

LEMMA NestLabels ==
  ASSUME Restorable, Nested, NEW c \in Literal, Case(c) \/ Default
  PROVE  Nested'
<1>0. UNCHANGED bailed
  BY DEF Case, Default
<1> SUFFICES ASSUME ~bailed
             PROVE  NestedIn(open', inLoop', inSwitch', cases', hasDefault')
  BY <1>0 DEF Nested
<1>1. NestedIn(open, inLoop, inSwitch, cases, hasDefault) /\ hasDefault \in BOOLEAN
  BY DEF Nested, Case, Default, Restorable
<1>2. CASE Case(c)
  <2>1. NestedIn(Noted({c}, FALSE), inLoop, inSwitch, cases \cup {c}, hasDefault \/ FALSE)
    BY <1>1, NestNoted
  <2>2. (hasDefault \/ FALSE) = hasDefault
    BY <1>1
  <2> QED
    BY <1>2, <2>1, <2>2 DEF Case
<1>3. CASE Default
  <2>1. NestedIn(Noted({}, TRUE), inLoop, inSwitch, cases \cup {}, hasDefault \/ TRUE)
    BY <1>1, NestNoted
  <2>2. (hasDefault \/ TRUE) = TRUE /\ cases \cup {} = cases
    OBVIOUS
  <2> QED
    BY <1>3, <2>1, <2>2 DEF Default
<1> QED
  BY <1>2, <1>3

LEMMA NestInit == Init => Nested
<1> SUFFICES ASSUME Init PROVE NestedIn(open, inLoop, inSwitch, cases, hasDefault)
  BY DEF Nested
<1>1. Len(open) = 0 /\ inLoop = FALSE /\ inSwitch = FALSE
  BY DEF Init
<1> QED
  BY <1>1 DEF NestedIn, Reflects, Collects

LEMMA NestNext == ASSUME IInv, Nested, [Next]_vars PROVE Nested'
<1>1. CASE UNCHANGED vars
  BY <1>1 DEF vars, switches, Nested
<1>2. CASE Next
  <2>1. Step /\ Restorable /\ menu.literals \subseteq Literal
    BY <1>2, MenuFacts DEF Next, IInv
  <2>2. ASSUME NEW n \in menu.names, NEW d \in menu.declarations, Declare(n, d) PROVE Nested'
    BY <2>1, <2>2, NestReached DEF Declare, Declaration, Typedef, Enumerator
  <2>3. ASSUME NEW n \in menu.names, Use(n) PROVE Nested'
    BY <2>1, <2>3, NestReached DEF Use
  <2>4. ASSUME NEW f \in menu.names, NEW storage \in {"auto", "static"},
               NEW params \in ParamLists, BeginFunction(f, storage, params)
        PROVE  Nested'
    BY <2>1, <2>4, NestBeginFunction
  <2>5. CASE Begin
    <3>1. inLoop \in BOOLEAN /\ inSwitch \in BOOLEAN
      BY <2>1 DEF Restorable
    <3>2. CASE BeginBlock
      BY <2>1, <3>1, <3>2, NestBegun DEF BeginBlock, OpenScope, switches
    <3>3. CASE BeginStatementExpression
      BY <2>1, <3>1, <3>3, NestBegun DEF BeginStatementExpression, OpenScope, switches
    <3>4. CASE BeginFor
      BY <2>1, <3>1, <3>4, NestBegun DEF BeginFor, OpenScope, switches
    <3>5. CASE BeginLoop
      BY <2>1, <3>1, <3>5, NestBegun DEF BeginLoop
    <3>6. CASE BeginSwitch
      BY <2>1, <3>1, <3>6, NestBegun DEF BeginSwitch
    <3> QED
      BY <2>5, <3>2, <3>3, <3>4, <3>5, <3>6 DEF Begin
  <2>6. CASE EndFunction
    BY <2>1, <2>6, NestEndFunction
  <2>7. CASE EndBlock \/ EndFor \/ EndLoop \/ EndSwitch
    BY <2>1, <2>7, NestEnds
  <2>8. CASE ForBody
    BY <2>1, <2>8, NestForBody
  <2>9. ASSUME NEW l \in menu.labels, Goto(l) \/ Labeled(l) \/ LocalLabel(l) PROVE Nested'
    <3>1. CASE Goto(l)
      BY <2>1, <3>1, NestReached DEF Goto
    <3>2. CASE Labeled(l) \/ LocalLabel(l)
      BY <3>2 DEF Labeled, LocalLabel, switches, Nested
    <3> QED
      BY <2>9, <3>1, <3>2
  <2>10. ASSUME NEW c \in menu.literals, Case(c) PROVE Nested'
    BY <2>1, <2>10, NestLabels
  <2>11. CASE menu.literals # {} /\ Default
    <3>1. PICK c \in Literal : TRUE
      BY <2>1, <2>11
    <3> QED
      BY <2>1, <2>11, <3>1, NestLabels
  <2>12. ASSUME NEW k \in 1..MaxNesting, Fail(k) PROVE Nested'
    BY <2>12 DEF Fail, Nested
  <2>13. CASE Finalize
    BY <2>13 DEF Finalize, switches, Nested
  <2> QED
    BY <2>1, <2>2, <2>3, <2>4, <2>5, <2>6, <2>7, <2>8, <2>9, <2>10, <2>11, <2>12,
       <2>13 DEF Step
<1> QED
  BY <1>1, <1>2

LEMMA NestedInShows ==
  ASSUME Restorable, Nested
  PROVE  SwitchesNest
<1> SUFFICES ASSUME ~bailed
    PROVE  /\ inLoop = (\E k \in DOMAIN open :
                          open[k].at = "loop" \/ (open[k].at = "for" /\ open[k].stage # "head"))
           /\ inSwitch = (SwitchesOpen # {})
           /\ SwitchesOpen # {} =>
                LET o == open[Latest(SwitchesOpen)] IN cases = o.seen /\ hasDefault = o.default
  BY DEF SwitchesNest
<1>1. /\ Len(open) \in Nat /\ DOMAIN open = 1..Len(open)
      /\ inLoop \in BOOLEAN /\ inSwitch \in BOOLEAN
      /\ Reflects(open, Len(open), inLoop, inSwitch)
      /\ Collects(open, Len(open), cases, hasDefault)
  BY LenProperties DEF Nested, NestedIn, Restorable
<1>2. inLoop = (\E k \in DOMAIN open :
                  open[k].at = "loop" \/ (open[k].at = "for" /\ open[k].stage # "head"))
  BY <1>1 DEF Reflects, Loops
<1>3. inSwitch = (SwitchesOpen # {})
  <2>1. inSwitch <=> SwitchesOpen # {}
    BY <1>1 DEF Reflects, SwitchesOpen
  <2> QED
    BY <1>1, <2>1
<1>4. ASSUME SwitchesOpen # {}
      PROVE  LET o == open[Latest(SwitchesOpen)] IN cases = o.seen /\ hasDefault = o.default
  <2>1. SwitchesOpen \in SUBSET (1..Len(open))
    BY <1>1 DEF SwitchesOpen
  <2>2. /\ Latest(SwitchesOpen) \in SwitchesOpen
        /\ \A k \in SwitchesOpen : k <= Latest(SwitchesOpen)
    BY <1>1, <1>4, <2>1, LatestIsLast
  <2>3. Innermost(open, Len(open), Latest(SwitchesOpen))
    <3> DEFINE x == Latest(SwitchesOpen)
    <3>1. \A j \in 1..Len(open) : j > x => j \notin SwitchesOpen
      <4> HIDE DEF x
      <4>1. \A j \in SwitchesOpen : j \in Nat
        BY <1>1, <2>1
      <4>2. x \in Nat /\ \A j \in SwitchesOpen : j <= x
        BY <2>2, <4>1 DEF x
      <4> QED
        BY <4>1, <4>2
    <3> QED
      BY <1>1, <2>2, <3>1 DEF Innermost, SwitchesOpen
  <2> QED
    BY <1>1, <2>1, <2>2, <2>3 DEF Collects
<1> QED
  BY <1>2, <1>3, <1>4

(* In every program, but after a statement left through an error, in_loop  *)
(* and in_switch tell whether the statement is in a loop or a switch, and  *)
(* the values and the default collected are those of the innermost switch, *)
(* whatever was nested in it (analyze_while .. analyze_switch in sema).    *)
THEOREM SwitchStateNests == Spec => []SwitchesNest
<1>1. Init => IInv /\ Nested
  BY InitIInv, NestInit
<1>2. IInv /\ Nested /\ [Next]_vars => (IInv /\ Nested)'
  BY NextIInv, NestNext
<1>3. IInv /\ Nested => SwitchesNest
  BY NestedInShows DEF IInv
<1> QED
  BY <1>1, <1>2, <1>3, PTL DEF Spec

-----------------------------------------------------------------------------
(* Labels.  While no statement was left through an error, the scopes above *)
(* the file's are those of the open constructs that have one; what a scope *)
(* has of labels is what the history has under its construct, and what is  *)
(* reported so far is what is missing under the constructs that were left. *)
Recorded(fn, n, loc, got, tar, errs) ==
  /\ n \in Nat /\ fn \in 0..n
  /\ loc \in SUBSET (Label \X (1..n))
  /\ got \in SUBSET (Label \X (1..n)) /\ tar \in SUBSET (Label \X (1..n))
  /\ \A x \in errs : x[1] = "undeclared" => \E l \in Label, i \in 0..n : x = <<"undeclared", l, i>>

Chained(cs, fn, n) ==
  /\ \A k \in 1..Len(cs) : /\ cs[k].id \in 1..n
                           /\ cs[k].at = "function" <=> k = 1
                           /\ k = 1 => cs[k].id = fn
  /\ \A j, k \in 1..Len(cs) : j < k => cs[j].id < cs[k].id

\* Only what has a scope owns labels.
Owned(cs, pairs) ==
  \A k \in 1..Len(cs), l \in Label : cs[k].at \notin HasScope => <<l, cs[k].id>> \notin pairs

\* g gives the construct of each scope, in order.
Paired(g, cs, stack) ==
  /\ g \in [2..Len(stack) -> 1..Len(cs)]
  /\ \A p, q \in 2..Len(stack) : p < q => g[p] < g[q]
  /\ \A k \in 1..Len(cs) : cs[k].at \in HasScope <=> \E q \in 2..Len(stack) : g[q] = k

TalliedAt(q, s, i, loc, got, tar) ==
  /\ s.kind = IF q = 2 THEN "function" ELSE "block"
  /\ \A l \in Label : /\ l \in s.referenced <=> <<l, i>> \in got
                      /\ l \in s.defined <=> <<l, i>> \in tar
                      /\ q > 2 => (l \in s.locals <=> <<l, i>> \in loc)
                      /\ q > 2 /\ l \in s.referenced \cup s.defined => l \in s.locals
Tallied(g, cs, stack, loc, got, tar) ==
  /\ stack[1].kind = "global" /\ stack[1].referenced = {}
  /\ \A q \in 2..Len(stack) : TalliedAt(q, stack[q], cs[g[q]].id, loc, got, tar)

Missing(l, i, got, tar) == <<l, i>> \in got /\ <<l, i>> \notin tar
Judged(cs, fn, n, got, tar, errs) ==
  \A l \in Label :
    <<"undeclared", l, fn>> \in errs <=>
      \E i \in 1..n : Missing(l, i, got, tar) /\ \A k \in 1..Len(cs) : cs[k].id # i

Labels(g, cs, stack, fn, n, loc, got, tar, errs) ==
  /\ cs \in Seq(OpenConstruct) /\ stack \in Seq(ScopeFrame) /\ Len(stack) > 0
  /\ Recorded(fn, n, loc, got, tar, errs)
  /\ Chained(cs, fn, n) /\ Owned(cs, loc) /\ Owned(cs, got) /\ Owned(cs, tar)
  /\ Paired(g, cs, stack) /\ Tallied(g, cs, stack, loc, got, tar)
  /\ Judged(cs, fn, n, got, tar, errs)

Tally ==
  ~bailed => \E g : Labels(g, open, scopes, function, opened, localLabels, gotos, targets, errors)

SameLabels(s, t) ==
  /\ s.kind = t.kind /\ s.locals = t.locals
  /\ s.defined = t.defined /\ s.referenced = t.referenced

LEMMA LabelFacts ==
  ASSUME NEW g, NEW cs, NEW stack, NEW fn, NEW n, NEW loc, NEW got, NEW tar, NEW errs,
         Labels(g, cs, stack, fn, n, loc, got, tar, errs)
  PROVE  /\ Len(cs) \in Nat /\ Len(stack) \in Nat /\ 1 \in 1..Len(stack) /\ n \in Nat
         /\ \A k \in 1..Len(cs) : cs[k] \in OpenConstruct /\ cs[k].id \in Nat
         /\ \A q \in 1..Len(stack) : stack[q] \in ScopeFrame
         /\ \A q \in 2..Len(stack) : q \in 1..Len(stack) /\ g[q] \in 1..Len(cs) /\ g[q] \in Nat
<1>1. /\ cs \in Seq(OpenConstruct) /\ stack \in Seq(ScopeFrame) /\ Len(stack) > 0 /\ n \in Nat
  BY DEF Labels, Recorded
<1>2. Len(cs) \in Nat /\ Len(stack) \in Nat /\ 1 \in 1..Len(stack)
  BY <1>1, LenProperties
<1>3. \A k \in 1..Len(cs) : cs[k] \in OpenConstruct
  BY <1>1, ElementOfSeq
<1>4. \A k \in 1..Len(cs) : cs[k].id \in Nat
  BY <1>3 DEF OpenConstruct
<1>5. \A q \in 1..Len(stack) : stack[q] \in ScopeFrame
  BY <1>1, ElementOfSeq
<1>6. \A q \in 2..Len(stack) : q \in 1..Len(stack) /\ g[q] \in 1..Len(cs) /\ g[q] \in Nat
  BY <1>2 DEF Labels, Paired
<1> QED
  BY <1>1, <1>2, <1>3, <1>4, <1>5, <1>6

\* Neither labels nor what is open changes.
LEMMA LabelsTouched ==
  ASSUME NEW g, NEW cs, NEW stack, NEW fn, NEW n, NEW loc, NEW got, NEW tar, NEW errs,
         Labels(g, cs, stack, fn, n, loc, got, tar, errs),
         NEW cs2 \in Seq(OpenConstruct), Len(cs2) = Len(cs),
         \A k \in 1..Len(cs) : cs2[k].at = cs[k].at /\ cs2[k].id = cs[k].id,
         NEW stack2 \in Seq(ScopeFrame), Len(stack2) = Len(stack),
         \A q \in 1..Len(stack) : SameLabels(stack2[q], stack[q]),
         NEW errs2, errs2 = errs \/ \E x : x[1] # "undeclared" /\ errs2 = errs \cup {x}
  PROVE  Labels(g, cs2, stack2, fn, n, loc, got, tar, errs2)
<1>1. /\ Len(cs) \in Nat /\ Len(stack) \in Nat /\ 1 \in 1..Len(stack)
      /\ \A q \in 2..Len(stack) : q \in 1..Len(stack) /\ g[q] \in 1..Len(cs)
  BY LabelFacts
<1>2. \A x : x[1] = "undeclared" => (x \in errs2 <=> x \in errs)
  OBVIOUS
<1>3. Recorded(fn, n, loc, got, tar, errs2)
  BY <1>2 DEF Labels, Recorded
<1>4. Chained(cs2, fn, n) /\ Owned(cs2, loc) /\ Owned(cs2, got) /\ Owned(cs2, tar)
  BY DEF Labels, Chained, Owned
<1>5. Paired(g, cs2, stack2)
  BY DEF Labels, Paired
<1>6. Tallied(g, cs2, stack2, loc, got, tar)
  <2>1. stack2[1].kind = "global" /\ stack2[1].referenced = {}
    BY <1>1 DEF Labels, Tallied, SameLabels
  <2>2. ASSUME NEW q \in 2..Len(stack)
        PROVE  TalliedAt(q, stack2[q], cs2[g[q]].id, loc, got, tar)
    <3>1. TalliedAt(q, stack[q], cs[g[q]].id, loc, got, tar) /\ SameLabels(stack2[q], stack[q])
      BY <1>1 DEF Labels, Tallied
    <3>2. cs2[g[q]].id = cs[g[q]].id
      BY <1>1
    <3> QED
      BY <3>1, <3>2 DEF TalliedAt, SameLabels
  <2> QED
    BY <2>1, <2>2 DEF Tallied
<1>7. Judged(cs2, fn, n, got, tar, errs2)
  <2>1. \A l \in Label : <<"undeclared", l, fn>>[1] = "undeclared"
    OBVIOUS
  <2>2. \A l \in Label : <<"undeclared", l, fn>> \in errs2 <=> <<"undeclared", l, fn>> \in errs
    BY <1>2, <2>1
  <2>3. \A i : (\A k \in 1..Len(cs2) : cs2[k].id # i) <=> (\A k \in 1..Len(cs) : cs[k].id # i)
    OBVIOUS
  <2>4. Judged(cs, fn, n, got, tar, errs)
    BY DEF Labels
  <2> QED
    BY ONLY <2>2, <2>3, <2>4 DEF Judged
<1> QED
  BY <1>1, <1>3, <1>4, <1>5, <1>6, <1>7 DEF Labels

\* The function is the first construct and has the second scope.
LEMMA FunctionFirst ==
  ASSUME NEW g, NEW cs, NEW stack, NEW fn, NEW n, NEW loc, NEW got, NEW tar, NEW errs,
         Labels(g, cs, stack, fn, n, loc, got, tar, errs), cs # <<>>
  PROVE  2 \in 2..Len(stack) /\ g[2] = 1
<1>1. /\ Len(cs) \in Nat /\ Len(cs) > 0 /\ Len(stack) \in Nat
      /\ \A q \in 2..Len(stack) : g[q] \in 1..Len(cs) /\ g[q] \in Nat
  BY LabelFacts, EmptySeq DEF Labels
<1>2. /\ \A p, q \in 2..Len(stack) : p < q => g[p] < g[q]
      /\ \A k \in 1..Len(cs) : cs[k].at \in HasScope <=> \E q \in 2..Len(stack) : g[q] = k
  BY DEF Labels, Paired
<1>3. 1 \in 1..Len(cs) /\ cs[1].at \in HasScope
  BY <1>1 DEF Labels, Chained, HasScope
<1>4. PICK q \in 2..Len(stack) : g[q] = 1
  BY <1>2, <1>3
<1>5. 2 \in 2..Len(stack) /\ g[2] \in Nat /\ g[2] >= 1
  BY <1>1
<1>6. ~(2 < q)
  BY <1>2, <1>4, <1>5
<1> QED
  BY <1>1, <1>4, <1>5, <1>6

\* Scope and construct are paired, so the label goes where it belongs.
LEMMA HomeOfScope ==
  ASSUME NEW g,
         Labels(g, open, scopes, function, opened, localLabels, gotos, targets, errors),
         open # <<>>, NEW l \in Label
  PROVE  /\ LabelScope(l) \in 2..Len(scopes)
         /\ open[g[LabelScope(l)]].id = Home(l)
         /\ LabelScope(l) > 2 => l \in scopes[LabelScope(l)].locals
<1> DEFINE C == {k \in DOMAIN scopes : \/ scopes[k].kind = "function"
                                       \/ scopes[k].kind = "block" /\ l \in scopes[k].locals}
           O == {k \in DOMAIN open : <<l, open[k].id>> \in localLabels}
           c == Latest(C)
           o == Latest(O)
<1>1. /\ Len(open) \in Nat /\ Len(open) > 0 /\ DOMAIN open = 1..Len(open)
      /\ Len(scopes) \in Nat /\ DOMAIN scopes = 1..Len(scopes)
      /\ \A q \in 2..Len(scopes) : q \in 1..Len(scopes) /\ g[q] \in 1..Len(open) /\ g[q] \in Nat
  BY LabelFacts, EmptySeq, LenProperties DEF Labels
<1>2. /\ \A p, q \in 2..Len(scopes) : p < q => g[p] < g[q]
      /\ \A k \in 1..Len(open) : open[k].at \in HasScope <=> \E q \in 2..Len(scopes) : g[q] = k
  BY DEF Labels, Paired
<1>3. /\ scopes[1].kind = "global"
      /\ \A q \in 2..Len(scopes) : TalliedAt(q, scopes[q], open[g[q]].id, localLabels, gotos, targets)
  BY DEF Labels, Tallied
<1>4. 2 \in 2..Len(scopes) /\ g[2] = 1
  BY FunctionFirst
<1>5. /\ C \in SUBSET (2..Len(scopes)) /\ 2 \in C
      /\ \A q \in 2..Len(scopes) : q > 2 => (q \in C <=> g[q] \in O)
      /\ \A q \in C : q > 2 => l \in scopes[q].locals
  <2>1. ASSUME NEW q \in 1..Len(scopes), q \in C PROVE q \in 2..Len(scopes)
    BY <1>1, <1>3, <2>1
  <2>2. 2 \in C
    BY <1>1, <1>3, <1>4 DEF TalliedAt
  <2>3. ASSUME NEW q \in 2..Len(scopes), q > 2
        PROVE  /\ q \in C <=> g[q] \in O
               /\ q \in C => l \in scopes[q].locals
    <3>1. /\ scopes[q].kind = "block"
          /\ l \in scopes[q].locals <=> <<l, open[g[q]].id>> \in localLabels
      BY <1>1, <1>3, <2>3 DEF TalliedAt
    <3> QED
      BY <1>1, <3>1
  <2> QED
    BY <1>1, <2>1, <2>2, <2>3
<1>6. ASSUME NEW k \in O
      PROVE  \E q \in C : g[q] = k
  <2>1. k \in 1..Len(open) /\ open[k].at \in HasScope
    BY <1>1 DEF Labels, Owned
  <2>2. PICK q \in 2..Len(scopes) : g[q] = k
    BY <1>2, <2>1
  <2>3. q = 2 \/ q > 2
    BY <1>1
  <2> QED
    BY <1>5, <2>2, <2>3
<1>7. O \in SUBSET (1..Len(open))
  BY <1>1
<1>8. LabelScope(l) = c
  BY <1>5 DEF LabelScope
<1>9. Home(l) = open[IF O = {} THEN 1 ELSE o].id
  BY DEF Home
<1> HIDE DEF C, O
<1>10. c \in C /\ \A q \in C : q <= c
  <2>1. C \in SUBSET (1..Len(scopes)) /\ C # {}
    BY <1>1, <1>5
  <2> QED
    BY <1>1, <2>1, LatestIsLast
<1>11. O # {} => o \in O /\ \A k \in O : k <= o
  BY <1>1, <1>7, LatestIsLast
<1> HIDE DEF c, o
<1>12. c \in 2..Len(scopes) /\ (c > 2 => l \in scopes[c].locals)
  BY <1>5, <1>10
<1>13. g[c] = IF O = {} THEN 1 ELSE o
  <2>1. CASE O = {}
    <3>1. ~(c > 2)
      BY <1>5, <1>12, <1>10, <2>1
    <3> QED
      BY <1>1, <1>4, <1>12, <2>1, <3>1
  <2>2. CASE O # {}
    <3>1. PICK q \in C : g[q] = o
      BY <1>6, <1>11, <2>2
    <3>2. q <= c /\ q \in 2..Len(scopes) /\ c \in Nat /\ q \in Nat
      BY <1>1, <1>5, <1>10, <1>12, <3>1
    <3>3. ~(q < c)
      <4>1. ASSUME q < c PROVE FALSE
        <5>1. c > 2
          BY <1>1, <3>2, <4>1
        <5>2. g[c] \in O /\ g[c] <= o
          BY <1>5, <1>10, <1>11, <1>12, <2>2, <5>1
        <5>3. o < g[c]
          BY <1>2, <1>12, <3>1, <3>2, <4>1
        <5>4. o \in Nat /\ g[c] \in Nat
          BY <1>1, <1>12, <3>1, <3>2
        <5> QED
          BY <5>2, <5>3, <5>4
      <4> QED
        BY <4>1
    <3>4. q = c
      BY <3>2, <3>3
    <3> QED
      BY <2>2, <3>1, <3>4
  <2> QED
    BY <2>1, <2>2
<1> QED
  BY <1>8, <1>9, <1>12, <1>13

\* Two scopes have two constructs, and these have two ids.
LEMMA ScopesApart ==
  ASSUME NEW g, NEW cs, NEW stack, NEW fn, NEW n, NEW loc, NEW got, NEW tar, NEW errs,
         Labels(g, cs, stack, fn, n, loc, got, tar, errs),
         NEW q \in 2..Len(stack)
  PROVE  /\ cs[g[q]].id \in 1..n
         /\ \A p \in 2..Len(stack) : p # q => cs[g[p]].id # cs[g[q]].id
         /\ \A k \in 1..Len(cs) : cs[k].at \notin HasScope => cs[k].id # cs[g[q]].id
<1>1. /\ Len(cs) \in Nat /\ Len(stack) \in Nat
      /\ \A k \in 1..Len(cs) : cs[k].id \in Nat
      /\ \A p \in 2..Len(stack) : g[p] \in 1..Len(cs) /\ g[p] \in Nat
  BY LabelFacts
<1>2. /\ \A p, r \in 2..Len(stack) : p < r => g[p] < g[r]
      /\ \A k \in 1..Len(cs) : cs[k].at \in HasScope <=> \E p \in 2..Len(stack) : g[p] = k
      /\ \A k \in 1..Len(cs) : cs[k].id \in 1..n
      /\ \A j, k \in 1..Len(cs) : j < k => cs[j].id < cs[k].id
  BY DEF Labels, Paired, Chained
<1>3. \A j, k \in 1..Len(cs) : j # k => cs[j].id # cs[k].id
  <2> SUFFICES ASSUME NEW j \in 1..Len(cs), NEW k \in 1..Len(cs), j # k
               PROVE  cs[j].id # cs[k].id
    OBVIOUS
  <2>1. j < k \/ k < j
    BY <1>1
  <2>2. cs[j].id < cs[k].id \/ cs[k].id < cs[j].id
    BY <1>2, <2>1
  <2> QED
    BY <1>1, <2>2
<1>4. ASSUME NEW p \in 2..Len(stack), p # q PROVE g[p] # g[q]
  <2>1. p < q \/ q < p
    BY <1>1, <1>4
  <2>2. g[p] < g[q] \/ g[q] < g[p]
    BY <1>2, <2>1
  <2> QED
    BY <1>1, <2>2
<1>5. \A k \in 1..Len(cs) : cs[k].at \notin HasScope => k # g[q]
  BY <1>2
<1> QED
  BY <1>1, <1>2, <1>3, <1>4, <1>5

\* A goto or a label is counted at its scope and under its construct.
LEMMA LabelsCounted ==
  ASSUME NEW g, NEW cs, NEW stack, NEW fn, NEW n, NEW loc, NEW got, NEW tar, NEW errs,
         Labels(g, cs, stack, fn, n, loc, got, tar, errs),
         NEW q \in 2..Len(stack), NEW l \in Label, q > 2 => l \in stack[q].locals,
         NEW t \in ScopeFrame, NEW got2, NEW tar2,
         t.kind = stack[q].kind, t.locals = stack[q].locals,
         \/ /\ t.referenced = stack[q].referenced \cup {l} /\ t.defined = stack[q].defined
            /\ got2 = got \cup {<<l, cs[g[q]].id>>} /\ tar2 = tar
         \/ /\ t.referenced = stack[q].referenced /\ t.defined = stack[q].defined \cup {l}
            /\ got2 = got /\ tar2 = tar \cup {<<l, cs[g[q]].id>>}
  PROVE  Labels(g, cs, [stack EXCEPT ![q] = t], fn, n, loc, got2, tar2, errs)
<1> DEFINE i == cs[g[q]].id
           stack2 == [stack EXCEPT ![q] = t]
<1>1. /\ Len(cs) \in Nat /\ Len(stack) \in Nat /\ 1 \in 1..Len(stack)
      /\ \A p \in 2..Len(stack) : p \in 1..Len(stack) /\ g[p] \in 1..Len(cs)
  BY LabelFacts
<1>2. /\ i \in 1..n
      /\ \A p \in 2..Len(stack) : p # q => cs[g[p]].id # i
      /\ \A k \in 1..Len(cs) : cs[k].at \notin HasScope => cs[k].id # i
  BY ScopesApart
<1>3. /\ stack2 \in Seq(ScopeFrame) /\ Len(stack2) = Len(stack)
      /\ \A p \in 1..Len(stack) : stack2[p] = IF p = q THEN t ELSE stack[p]
  <2>1. stack \in Seq(ScopeFrame) /\ q \in 1..Len(stack)
    BY <1>1 DEF Labels
  <2> QED
    BY <2>1, ExceptSeq
<1>4. g[q] \in 1..Len(cs) /\ cs[g[q]].id = i
  BY <1>1
<1> HIDE DEF i, stack2
<1>5. \A m, j : /\ <<m, j>> \in got2 => <<m, j>> \in got \/ (m = l /\ j = i)
                /\ <<m, j>> \in tar2 => <<m, j>> \in tar \/ (m = l /\ j = i)
                /\ j # i => (<<m, j>> \in got2 <=> <<m, j>> \in got)
                /\ j # i => (<<m, j>> \in tar2 <=> <<m, j>> \in tar)
  BY DEF i
<1>6. got2 \in SUBSET (Label \X (1..n)) /\ tar2 \in SUBSET (Label \X (1..n))
  <2>1. got \in SUBSET (Label \X (1..n)) /\ tar \in SUBSET (Label \X (1..n))
    BY DEF Labels, Recorded
  <2> QED
    BY <1>2, <2>1 DEF i
<1>7. Recorded(fn, n, loc, got2, tar2, errs)
  BY <1>6 DEF Labels, Recorded
<1>8. Owned(cs, got2) /\ Owned(cs, tar2)
  BY <1>2, <1>5 DEF Labels, Owned
<1>9. Paired(g, cs, stack2)
  BY <1>3 DEF Labels, Paired
<1>10. Tallied(g, cs, stack2, loc, got2, tar2)
  <2>1. stack2[1].kind = "global" /\ stack2[1].referenced = {}
    <3>1. stack2[1] = stack[1]
      BY <1>1, <1>3
    <3> QED
      BY <3>1 DEF Labels, Tallied
  <2>2. ASSUME NEW p \in 2..Len(stack), p # q
        PROVE  TalliedAt(p, stack2[p], cs[g[p]].id, loc, got2, tar2)
    <3>1. stack2[p] = stack[p] /\ cs[g[p]].id # i
      BY <1>1, <1>2, <1>3, <2>2
    <3>2. TalliedAt(p, stack[p], cs[g[p]].id, loc, got, tar)
      BY DEF Labels, Tallied
    <3> QED
      BY <1>5, <3>1, <3>2 DEF TalliedAt
  <2>3. TalliedAt(q, stack2[q], cs[g[q]].id, loc, got2, tar2)
    <3>1. TalliedAt(q, stack[q], i, loc, got, tar)
      BY <1>4 DEF Labels, Tallied
    <3>2. stack2[q] = t /\ cs[g[q]].id = i
      BY <1>1, <1>3, <1>4
    <3>3. TalliedAt(q, t, i, loc, got2, tar2)
      <4>1. \/ got2 = got \cup {<<l, i>>} /\ tar2 = tar
            \/ got2 = got /\ tar2 = tar \cup {<<l, i>>}
        BY DEF i
      <4>2. \A m \in Label : <<m, i>> = <<l, i>> <=> m = l
        OBVIOUS
      <4> QED
        BY <3>1, <4>1, <4>2, <1>4 DEF TalliedAt
    <3> QED
      BY <3>2, <3>3
  <2> QED
    BY <1>3, <2>1, <2>2, <2>3 DEF Tallied
<1>11. Judged(cs, fn, n, got2, tar2, errs)
  <2>1. \A m \in Label, j \in 1..n :
          (\A k \in 1..Len(cs) : cs[k].id # j) => (Missing(m, j, got2, tar2) <=> Missing(m, j, got, tar))
    <3>1. \A j : (\A k \in 1..Len(cs) : cs[k].id # j) => j # i
      BY <1>4
    <3> QED
      BY <1>5, <3>1 DEF Missing
  <2>2. Judged(cs, fn, n, got, tar, errs)
    BY DEF Labels
  <2> QED
    BY ONLY <2>1, <2>2 DEF Judged
<1> QED
  BY <1>3, <1>7, <1>8, <1>9, <1>10, <1>11 DEF Labels, stack2

\* The innermost scope gets a __label__.
LEMMA LabelsDeclared ==
  ASSUME NEW g, NEW cs, NEW stack, NEW fn, NEW n, NEW loc, NEW got, NEW tar, NEW errs,
         Labels(g, cs, stack, fn, n, loc, got, tar, errs),
         NEW q \in 2..Len(stack), NEW l \in Label,
         NEW t \in ScopeFrame,
         t.kind = stack[q].kind, t.referenced = stack[q].referenced,
         t.defined = stack[q].defined,
         \/ t.locals = stack[q].locals \cup {l}
         \/ t.locals = stack[q].locals /\ l \in t.locals \cup t.defined \cup t.referenced
  PROVE  Labels(g, cs, [stack EXCEPT ![q] = t], fn, n, loc \cup {<<l, cs[g[q]].id>>}, got, tar, errs)
<1> DEFINE i == cs[g[q]].id
           stack2 == [stack EXCEPT ![q] = t]
           loc2 == loc \cup {<<l, i>>}
<1>1. /\ Len(cs) \in Nat /\ Len(stack) \in Nat /\ 1 \in 1..Len(stack)
      /\ \A p \in 2..Len(stack) : p \in 1..Len(stack) /\ g[p] \in 1..Len(cs)
  BY LabelFacts
<1>2. /\ i \in 1..n
      /\ \A p \in 2..Len(stack) : p # q => cs[g[p]].id # i
      /\ \A k \in 1..Len(cs) : cs[k].at \notin HasScope => cs[k].id # i
  BY ScopesApart
<1>3. /\ stack2 \in Seq(ScopeFrame) /\ Len(stack2) = Len(stack)
      /\ \A p \in 1..Len(stack) : stack2[p] = IF p = q THEN t ELSE stack[p]
  <2>1. stack \in Seq(ScopeFrame) /\ q \in 1..Len(stack)
    BY <1>1 DEF Labels
  <2> QED
    BY <2>1, ExceptSeq
<1>4. g[q] \in 1..Len(cs) /\ cs[g[q]].id = i
  BY <1>1
<1> HIDE DEF i, stack2
<1>5. \A m, j : <<m, j>> \in loc2 <=> <<m, j>> \in loc \/ (m = l /\ j = i)
  OBVIOUS
<1>6. Recorded(fn, n, loc2, got, tar, errs)
  <2>1. loc \in SUBSET (Label \X (1..n))
    BY DEF Labels, Recorded
  <2>2. loc2 \in SUBSET (Label \X (1..n))
    BY <1>2, <2>1
  <2> QED
    BY <2>2 DEF Labels, Recorded
<1> HIDE DEF loc2
<1>7. Owned(cs, loc2)
  BY <1>2, <1>5 DEF Labels, Owned
<1>8. Paired(g, cs, stack2)
  BY <1>3 DEF Labels, Paired
<1>9. Tallied(g, cs, stack2, loc2, got, tar)
  <2>1. stack2[1].kind = "global" /\ stack2[1].referenced = {}
    <3>1. stack2[1] = stack[1]
      BY <1>1, <1>3
    <3> QED
      BY <3>1 DEF Labels, Tallied
  <2>2. ASSUME NEW p \in 2..Len(stack), p # q
        PROVE  TalliedAt(p, stack2[p], cs[g[p]].id, loc2, got, tar)
    <3>1. stack2[p] = stack[p] /\ cs[g[p]].id # i
      BY <1>1, <1>2, <1>3, <2>2
    <3>2. TalliedAt(p, stack[p], cs[g[p]].id, loc, got, tar)
      BY DEF Labels, Tallied
    <3> QED
      BY <1>5, <3>1, <3>2 DEF TalliedAt
  <2>3. TalliedAt(q, stack2[q], cs[g[q]].id, loc2, got, tar)
    <3>1. TalliedAt(q, stack[q], i, loc, got, tar)
      BY <1>4 DEF Labels, Tallied
    <3>2. stack2[q] = t /\ cs[g[q]].id = i
      BY <1>1, <1>3, <1>4
    <3>3. TalliedAt(q, t, i, loc2, got, tar)
      <4>1. \A m \in Label : <<m, i>> \in loc2 <=> <<m, i>> \in loc \/ m = l
        BY <1>5
      <4> QED
        BY <3>1, <4>1 DEF TalliedAt
    <3> QED
      BY <3>2, <3>3
  <2> QED
    BY <1>3, <2>1, <2>2, <2>3 DEF Tallied
<1> QED
  BY <1>3, <1>6, <1>7, <1>8, <1>9 DEF Labels, stack2, loc2, i

\* A block, a statement expression or a for statement opens with its scope.
LEMMA LabelsOpened ==
  ASSUME NEW g, NEW cs, NEW stack, NEW fn, NEW n, NEW loc, NEW got, NEW tar, NEW errs,
         Labels(g, cs, stack, fn, n, loc, got, tar, errs), cs # <<>>,
         NEW c \in OpenConstruct, c.at \in HasScope \ {"function"}, c.id = n + 1,
         NEW s \in ScopeFrame, s.kind = "block",
         s.locals = {}, s.defined = {}, s.referenced = {}
  PROVE  \E h : Labels(h, Append(cs, c), Append(stack, s), fn, n + 1, loc, got, tar, errs)
<1> DEFINE m == Len(cs)
           d == Len(stack)
           cs2 == Append(cs, c)
           stack2 == Append(stack, s)
           h == [q \in 2..(d + 1) |-> IF q = d + 1 THEN m + 1 ELSE g[q]]
<1>1. /\ m \in Nat /\ d \in Nat /\ n \in Nat /\ 2 \in 2..d
      /\ \A k \in 1..m : cs[k] \in OpenConstruct /\ cs[k].id \in Nat
      /\ \A q \in 2..d : q \in 1..d /\ g[q] \in 1..m /\ g[q] \in Nat
  BY LabelFacts, FunctionFirst
<1>2. /\ cs2 \in Seq(OpenConstruct) /\ Len(cs2) = m + 1
      /\ \A k \in 1..m : cs2[k] = cs[k]
      /\ cs2[m + 1] = c
  BY AppendProperties DEF Labels
<1>3. /\ stack2 \in Seq(ScopeFrame) /\ Len(stack2) = d + 1
      /\ \A q \in 1..d : stack2[q] = stack[q]
      /\ stack2[d + 1] = s
  BY AppendProperties DEF Labels
<1>4. /\ Recorded(fn, n, loc, got, tar, errs) /\ Chained(cs, fn, n) /\ Paired(g, cs, stack)
      /\ Owned(cs, loc) /\ Owned(cs, got) /\ Owned(cs, tar)
      /\ Tallied(g, cs, stack, loc, got, tar) /\ Judged(cs, fn, n, got, tar, errs)
  BY DEF Labels
<1>5. /\ \A q \in 2..d : h[q] = g[q] /\ q \in 2..(d + 1) /\ q < d + 1
      /\ h[d + 1] = m + 1 /\ d + 1 \in 2..(d + 1)
      /\ \A q \in 2..(d + 1) : q \in 2..d \/ q = d + 1
      /\ DOMAIN h = 2..(d + 1)
  BY <1>1
<1> HIDE DEF m, d, cs2, stack2, h
<1>6. /\ \A k \in 1..(m + 1) : k \in 1..m \/ k = m + 1
      /\ \A k \in 1..m : k \in 1..(m + 1) /\ k < m + 1
  BY <1>1
<1>7. \A l, i : i \notin 1..n => <<l, i>> \notin loc \cup got \cup tar
  BY <1>4 DEF Recorded
<1>8. n + 1 \notin 1..n /\ n + 1 \in 1..(n + 1) /\ \A i \in 1..n : i \in 1..(n + 1) /\ i # n + 1
  BY <1>1
<1>9. Recorded(fn, n + 1, loc, got, tar, errs)
  <2>1. /\ n + 1 \in Nat /\ \A i \in 0..n : i \in 0..(n + 1)
        /\ \A x \in Label \X (1..n) : x \in Label \X (1..(n + 1))
    BY <1>1
  <2> QED
    BY <1>4, <2>1 DEF Recorded
<1>10. Chained(cs2, fn, n + 1)
  <2>1. ASSUME NEW k \in 1..m PROVE cs[k].id \in 1..n /\ cs[k].id < n + 1
    <3>1. cs[k].id \in 1..n
      BY <1>4 DEF Chained, m
    <3> QED
      BY <1>1, <3>1
  <2>2. ASSUME NEW k \in 1..(m + 1)
        PROVE  /\ cs2[k].id \in 1..(n + 1)
               /\ cs2[k].at = "function" <=> k = 1
               /\ k = 1 => cs2[k].id = fn
    <3>1. CASE k \in 1..m
      BY <1>2, <1>4, <1>8, <2>1, <3>1 DEF Chained, m
    <3>2. CASE k = m + 1
      <4>1. k # 1
        BY <1>1, <3>2
      <4> QED
        BY <1>2, <1>8, <3>2, <4>1
    <3> QED
      BY <1>6, <3>1, <3>2
  <2>3. ASSUME NEW j \in 1..(m + 1), NEW k \in 1..(m + 1), j < k
        PROVE  cs2[j].id < cs2[k].id
    <3>1. j \in 1..m
      BY <1>1, <2>3
    <3>2. CASE k \in 1..m
      BY <1>2, <1>4, <2>3, <3>1, <3>2 DEF Chained, m
    <3>3. CASE k = m + 1
      BY <1>2, <2>1, <3>1, <3>3
    <3> QED
      BY <1>6, <3>2, <3>3
  <2> QED
    BY <1>2, <2>2, <2>3 DEF Chained
<1>11. Owned(cs2, loc) /\ Owned(cs2, got) /\ Owned(cs2, tar)
  BY <1>2, <1>4, <1>6, <1>7, <1>8 DEF Owned, m
<1>12. Paired(h, cs2, stack2)
  <2>1. h \in [2..(d + 1) -> 1..(m + 1)]
    <3>1. \A q \in 2..(d + 1) : h[q] \in 1..(m + 1)
      BY <1>1, <1>5, <1>6
    <3>2. h = [q \in 2..(d + 1) |-> h[q]]
      BY <1>5 DEF h
    <3> QED
      BY <3>1, <3>2
  <2>2. ASSUME NEW p \in 2..(d + 1), NEW q \in 2..(d + 1), p < q PROVE h[p] < h[q]
    <3>1. p \in 2..d
      BY <1>1, <2>2
    <3>2. CASE q \in 2..d
      BY <1>4, <1>5, <2>2, <3>1, <3>2 DEF Paired, d
    <3>3. CASE q = d + 1
      BY <1>1, <1>5, <1>6, <3>1, <3>3
    <3> QED
      BY <1>5, <3>2, <3>3
  <2>3. ASSUME NEW k \in 1..(m + 1)
        PROVE  cs2[k].at \in HasScope <=> \E q \in 2..(d + 1) : h[q] = k
    <3>1. CASE k = m + 1
      BY <1>2, <1>5, <3>1
    <3>2. CASE k \in 1..m
      <4>1. k # m + 1
        BY <1>1, <3>2
      <4>2. cs[k].at \in HasScope <=> \E q \in 2..d : g[q] = k
        BY <1>4, <3>2 DEF Paired, m, d
      <4> QED
        BY <1>2, <1>5, <3>2, <4>1, <4>2
    <3> QED
      BY <1>6, <3>1, <3>2
  <2> QED
    BY <1>2, <1>3, <2>1, <2>2, <2>3 DEF Paired
<1>13. Tallied(h, cs2, stack2, loc, got, tar)
  <2>1. stack2[1].kind = "global" /\ stack2[1].referenced = {}
    <3>1. stack2[1] = stack[1]
      BY <1>1, <1>3
    <3> QED
      BY <1>4, <3>1 DEF Tallied
  <2>2. ASSUME NEW q \in 2..d
        PROVE  TalliedAt(q, stack2[q], cs2[h[q]].id, loc, got, tar)
    <3>1. TalliedAt(q, stack[q], cs[g[q]].id, loc, got, tar)
      BY <1>4 DEF Tallied, d
    <3>2. stack2[q] = stack[q] /\ cs2[h[q]] = cs[g[q]]
      BY <1>1, <1>2, <1>3, <1>5
    <3> QED
      BY <3>1, <3>2
  <2>3. TalliedAt(d + 1, stack2[d + 1], cs2[h[d + 1]].id, loc, got, tar)
    <3>1. d + 1 # 2
      BY <1>1
    <3>2. stack2[d + 1] = s /\ cs2[h[d + 1]].id = n + 1
      BY <1>2, <1>3, <1>5
    <3>3. TalliedAt(d + 1, s, n + 1, loc, got, tar)
      BY <1>7, <1>8, <3>1 DEF TalliedAt
    <3> QED
      BY <3>2, <3>3
  <2> QED
    BY <1>3, <1>5, <2>1, <2>2, <2>3 DEF Tallied
<1>14. Judged(cs2, fn, n + 1, got, tar, errs)
  <2>1. \A l : ~Missing(l, n + 1, got, tar)
    BY <1>7, <1>8 DEF Missing
  <2>2. \A i \in 1..n : (\A k \in 1..Len(cs2) : cs2[k].id # i) <=> (\A k \in 1..Len(cs) : cs[k].id # i)
    BY <1>2, <1>6, <1>8 DEF m
  <2>3. \A i \in 1..(n + 1) : i \in 1..n \/ i = n + 1
    BY <1>1
  <2> QED
    BY <1>4, <1>8, <2>1, <2>2, <2>3 DEF Judged
<1>15. Len(stack2) > 0
  BY <1>1, <1>3
<1>16. Labels(h, cs2, stack2, fn, n + 1, loc, got, tar, errs)
  BY <1>2, <1>3, <1>9, <1>10, <1>11, <1>12, <1>13, <1>14, <1>15 DEF Labels
<1> QED
  BY <1>16 DEF cs2, stack2

\* A loop or a switch opens without a scope.
LEMMA LabelsOpenedPlain ==
  ASSUME NEW g, NEW cs, NEW stack, NEW fn, NEW n, NEW loc, NEW got, NEW tar, NEW errs,
         Labels(g, cs, stack, fn, n, loc, got, tar, errs), cs # <<>>,
         NEW c \in OpenConstruct, c.at \notin HasScope, c.id = n + 1
  PROVE  Labels(g, Append(cs, c), stack, fn, n + 1, loc, got, tar, errs)
<1> DEFINE m == Len(cs)
           cs2 == Append(cs, c)
<1>1. /\ m \in Nat /\ m > 0 /\ n \in Nat
      /\ \A q \in 2..Len(stack) : g[q] \in 1..m
  BY LabelFacts, EmptySeq DEF Labels
<1>2. /\ cs2 \in Seq(OpenConstruct) /\ Len(cs2) = m + 1
      /\ \A k \in 1..m : cs2[k] = cs[k]
      /\ cs2[m + 1] = c
  BY AppendProperties DEF Labels
<1>3. /\ Recorded(fn, n, loc, got, tar, errs) /\ Chained(cs, fn, n) /\ Paired(g, cs, stack)
      /\ Owned(cs, loc) /\ Owned(cs, got) /\ Owned(cs, tar)
      /\ Tallied(g, cs, stack, loc, got, tar) /\ Judged(cs, fn, n, got, tar, errs)
      /\ stack \in Seq(ScopeFrame) /\ Len(stack) > 0
  BY DEF Labels
<1> HIDE DEF m, cs2
<1>4. /\ \A k \in 1..(m + 1) : k \in 1..m \/ k = m + 1
      /\ \A k \in 1..m : k \in 1..(m + 1) /\ k < m + 1
  BY <1>1
<1>5. \A l, i : i \notin 1..n => <<l, i>> \notin loc /\ <<l, i>> \notin got /\ <<l, i>> \notin tar
  BY <1>3 DEF Recorded
<1>6. n + 1 \notin 1..n /\ n + 1 \in 1..(n + 1) /\ \A i \in 1..n : i \in 1..(n + 1) /\ i # n + 1
  BY <1>1
<1>7. Recorded(fn, n + 1, loc, got, tar, errs)
  <2>1. /\ n + 1 \in Nat /\ \A i \in 0..n : i \in 0..(n + 1)
        /\ \A x \in Label \X (1..n) : x \in Label \X (1..(n + 1))
    BY <1>1
  <2> QED
    BY <1>3, <2>1 DEF Recorded
<1>8. Chained(cs2, fn, n + 1)
  <2>1. ASSUME NEW k \in 1..m PROVE cs[k].id \in 1..n /\ cs[k].id < n + 1
    <3>1. cs[k].id \in 1..n
      BY <1>3 DEF Chained, m
    <3> QED
      BY <1>1, <3>1
  <2>2. ASSUME NEW k \in 1..(m + 1)
        PROVE  /\ cs2[k].id \in 1..(n + 1)
               /\ cs2[k].at = "function" <=> k = 1
               /\ k = 1 => cs2[k].id = fn
    <3>1. CASE k \in 1..m
      BY <1>2, <1>3, <1>6, <2>1, <3>1 DEF Chained, m
    <3>2. CASE k = m + 1
      <4>1. k # 1 /\ c.at # "function"
        BY <1>1, <3>2 DEF HasScope
      <4> QED
        BY <1>2, <1>6, <3>2, <4>1
    <3> QED
      BY <1>4, <3>1, <3>2
  <2>3. ASSUME NEW j \in 1..(m + 1), NEW k \in 1..(m + 1), j < k
        PROVE  cs2[j].id < cs2[k].id
    <3>1. j \in 1..m
      BY <1>1, <2>3
    <3>2. CASE k \in 1..m
      BY <1>2, <1>3, <2>3, <3>1, <3>2 DEF Chained, m
    <3>3. CASE k = m + 1
      BY <1>2, <2>1, <3>1, <3>3
    <3> QED
      BY <1>4, <3>2, <3>3
  <2> QED
    BY <1>2, <2>2, <2>3 DEF Chained
<1>9. Owned(cs2, loc) /\ Owned(cs2, got) /\ Owned(cs2, tar)
  BY <1>2, <1>3, <1>4, <1>5, <1>6 DEF Owned, m
<1>10. Paired(g, cs2, stack)
  <2>1. g \in [2..Len(stack) -> 1..(m + 1)]
    BY <1>3, <1>4 DEF Paired, m
  <2>2. ASSUME NEW k \in 1..(m + 1)
        PROVE  cs2[k].at \in HasScope <=> \E q \in 2..Len(stack) : g[q] = k
    <3>1. CASE k = m + 1
      <4>1. \A q \in 2..Len(stack) : g[q] # m + 1
        BY <1>1
      <4> QED
        BY <1>2, <3>1, <4>1
    <3>2. CASE k \in 1..m
      BY <1>2, <1>3, <3>2 DEF Paired, m
    <3> QED
      BY <1>4, <3>1, <3>2
  <2> QED
    BY <1>2, <1>3, <2>1, <2>2 DEF Paired
<1>11. Tallied(g, cs2, stack, loc, got, tar)
  BY <1>1, <1>2, <1>3 DEF Tallied
<1>12. Judged(cs2, fn, n + 1, got, tar, errs)
  <2>1. \A l : ~Missing(l, n + 1, got, tar)
    BY <1>5, <1>6 DEF Missing
  <2>2. \A i \in 1..n : (\A k \in 1..Len(cs2) : cs2[k].id # i) <=> (\A k \in 1..Len(cs) : cs[k].id # i)
    BY <1>2, <1>4, <1>6 DEF m
  <2>3. \A i \in 1..(n + 1) : i \in 1..n \/ i = n + 1
    BY <1>1
  <2>4. Judged(cs, fn, n, got, tar, errs)
    BY <1>3
  <2> DEFINE gone(i) == \A k \in 1..Len(cs) : cs[k].id # i
             gone2(i) == \A k \in 1..Len(cs2) : cs2[k].id # i
  <2>5. \A l \in Label : <<"undeclared", l, fn>> \in errs <=> \E i \in 1..n : Missing(l, i, got, tar) /\ gone(i)
    BY <2>4 DEF Judged
  <2>6. \A i \in 1..n : gone2(i) <=> gone(i)
    BY <2>2
  <2> HIDE DEF gone, gone2
  <2>7. \A l \in Label :
          <<"undeclared", l, fn>> \in errs <=> \E i \in 1..(n + 1) : Missing(l, i, got, tar) /\ gone2(i)
    BY ONLY <1>6, <2>1, <2>3, <2>5, <2>6
  <2> QED
    BY ONLY <2>7 DEF Judged, gone2
<1>13. Labels(g, cs2, stack, fn, n + 1, loc, got, tar, errs)
  BY <1>2, <1>3, <1>7, <1>8, <1>9, <1>10, <1>11, <1>12 DEF Labels
<1> QED
  BY <1>13 DEF cs2

\* What stays of the constructs when the innermost is left.
LEMMA ChainShorter ==
  ASSUME NEW cs \in Seq(OpenConstruct), cs # <<>>, NEW fn, NEW n, NEW pairs,
         Chained(cs, fn, n)
  PROVE  LET rest == SubSeq(cs, 1, Len(cs) - 1) IN
         /\ Chained(rest, fn, n)
         /\ Owned(cs, pairs) => Owned(rest, pairs)
         /\ \A i : (\A k \in 1..Len(rest) : rest[k].id # i) <=>
                     \/ \A k \in 1..Len(cs) : cs[k].id # i
                     \/ i = cs[Len(cs)].id
<1> DEFINE rest == SubSeq(cs, 1, Len(cs) - 1)
           m == Len(cs) - 1
<1>1. /\ Len(cs) = m + 1 /\ m \in Nat
      /\ rest \in Seq(OpenConstruct) /\ Len(rest) = m /\ \A k \in 1..m : rest[k] = cs[k]
  BY Shorter
<1>2. \A k \in 1..(m + 1) : cs[k] \in OpenConstruct /\ cs[k].id \in Nat
  <2>1. \A k \in 1..(m + 1) : cs[k] \in OpenConstruct
    BY <1>1, ElementOfSeq
  <2> QED
    BY <2>1 DEF OpenConstruct
<1> HIDE DEF rest, m
<1>3. /\ \A k \in 1..(m + 1) : k \in 1..m \/ k = m + 1
      /\ \A k \in 1..m : k \in 1..(m + 1) /\ k < m + 1
      /\ m + 1 \in 1..(m + 1)
  BY <1>1
<1>4. Chained(rest, fn, n)
  BY <1>1, <1>3 DEF Chained
<1>5. Owned(cs, pairs) => Owned(rest, pairs)
  BY <1>1, <1>3 DEF Owned
<1>6. \A k \in 1..m : cs[k].id # cs[m + 1].id
  <2>1. \A k \in 1..m : cs[k].id < cs[m + 1].id
    BY <1>1, <1>3 DEF Chained
  <2>2. \A k \in 1..m : cs[k].id \in Nat /\ cs[m + 1].id \in Nat
    BY <1>2, <1>3
  <2> QED
    BY <2>1, <2>2
<1>7. \A i : (\A k \in 1..m : rest[k].id # i) <=>
               \/ \A k \in 1..(m + 1) : cs[k].id # i
               \/ i = cs[m + 1].id
  BY <1>1, <1>3, <1>6
<1> QED
  BY <1>1, <1>4, <1>5, <1>7 DEF rest

\* A loop or a switch owns no labels, and nothing is judged when it is left.
LEMMA LabelsClosedPlain ==
  ASSUME NEW g, NEW cs, NEW stack, NEW fn, NEW n, NEW loc, NEW got, NEW tar, NEW errs,
         Labels(g, cs, stack, fn, n, loc, got, tar, errs), cs # <<>>,
         cs[Len(cs)].at \notin HasScope
  PROVE  Labels(g, SubSeq(cs, 1, Len(cs) - 1), stack, fn, n, loc, got, tar, errs)
<1> DEFINE rest == SubSeq(cs, 1, Len(cs) - 1)
           m == Len(cs) - 1
<1>1. /\ Len(cs) = m + 1 /\ m \in Nat
      /\ rest \in Seq(OpenConstruct) /\ Len(rest) = m /\ \A k \in 1..m : rest[k] = cs[k]
  BY Shorter DEF Labels
<1>2. /\ Recorded(fn, n, loc, got, tar, errs) /\ Chained(cs, fn, n) /\ Paired(g, cs, stack)
      /\ Owned(cs, loc) /\ Owned(cs, got) /\ Owned(cs, tar)
      /\ Tallied(g, cs, stack, loc, got, tar) /\ Judged(cs, fn, n, got, tar, errs)
      /\ cs \in Seq(OpenConstruct) /\ stack \in Seq(ScopeFrame) /\ Len(stack) > 0
  BY DEF Labels
<1>3. /\ Chained(rest, fn, n)
      /\ Owned(rest, loc) /\ Owned(rest, got) /\ Owned(rest, tar)
      /\ \A i : (\A k \in 1..Len(rest) : rest[k].id # i) <=>
                  \/ \A k \in 1..Len(cs) : cs[k].id # i
                  \/ i = cs[Len(cs)].id
  BY <1>2, ChainShorter
<1> HIDE DEF rest, m
<1>4. /\ m + 1 \in 1..(m + 1)
      /\ \A k \in 1..m : k \in 1..(m + 1) /\ k # m + 1
      /\ \A k \in 1..(m + 1) : k # m + 1 => k \in 1..m
  BY <1>1
<1>5. \A q \in 2..Len(stack) : g[q] \in 1..m
  BY <1>1, <1>2, <1>4 DEF Paired
<1>6. Paired(g, rest, stack)
  <2>1. g \in [2..Len(stack) -> 1..m]
    BY <1>2, <1>5 DEF Paired
  <2> QED
    BY <1>1, <1>2, <1>4, <2>1 DEF Paired
<1>7. Tallied(g, rest, stack, loc, got, tar)
  BY <1>1, <1>2, <1>5 DEF Tallied
<1>8. Judged(rest, fn, n, got, tar, errs)
  <2>1. \A l \in Label : ~Missing(l, cs[Len(cs)].id, got, tar)
    BY <1>1, <1>2, <1>4 DEF Owned, Missing
  <2>2. Judged(cs, fn, n, got, tar, errs)
    BY <1>2
  <2>3. \A i : (\A k \in 1..Len(rest) : rest[k].id # i) <=>
                  \/ \A k \in 1..Len(cs) : cs[k].id # i
                  \/ i = cs[Len(cs)].id
    BY <1>3
  <2> DEFINE gone(i) == \A k \in 1..Len(cs) : cs[k].id # i
             gone2(i) == \A k \in 1..Len(rest) : rest[k].id # i
  <2>4. \A l \in Label : <<"undeclared", l, fn>> \in errs <=> \E i \in 1..n : Missing(l, i, got, tar) /\ gone(i)
    BY <2>2 DEF Judged
  <2>5. \A i \in 1..n : gone2(i) <=> gone(i) \/ i = cs[Len(cs)].id
    BY <2>3
  <2> HIDE DEF gone, gone2
  <2>6. \A l \in Label :
          <<"undeclared", l, fn>> \in errs <=> \E i \in 1..n : Missing(l, i, got, tar) /\ gone2(i)
    BY ONLY <2>1, <2>4, <2>5
  <2> QED
    BY ONLY <2>6 DEF Judged, gone2
<1> QED
  BY <1>1, <1>2, <1>3, <1>6, <1>7, <1>8 DEF Labels, rest

\* The innermost scope is the innermost construct's, if that has one.
LEMMA TopScope ==
  ASSUME NEW g, NEW cs, NEW stack, NEW fn, NEW n, NEW loc, NEW got, NEW tar, NEW errs,
         Labels(g, cs, stack, fn, n, loc, got, tar, errs), cs # <<>>,
         cs[Len(cs)].at \in HasScope
  PROVE  Len(stack) \in 2..Len(stack) /\ g[Len(stack)] = Len(cs)
<1>1. /\ Len(cs) \in Nat /\ Len(cs) \in 1..Len(cs) /\ Len(stack) \in Nat /\ 2 \in 2..Len(stack)
      /\ \A q \in 2..Len(stack) : g[q] \in 1..Len(cs) /\ g[q] \in Nat
  <2>1. Len(cs) \in 1..Len(cs)
    BY EmptySeq DEF Labels
  <2> QED
    BY <2>1, LabelFacts, FunctionFirst
<1>2. PICK q \in 2..Len(stack) : g[q] = Len(cs)
  BY <1>1 DEF Labels, Paired
<1>3. Len(stack) \in 2..Len(stack) /\ q \in Nat /\ q <= Len(stack)
  BY <1>1
<1>4. g[Len(stack)] <= Len(cs) /\ g[Len(stack)] \in Nat
  BY <1>1, <1>3
<1>5. q < Len(stack) => g[q] < g[Len(stack)]
  BY <1>2, <1>3 DEF Labels, Paired
<1>6. ~(q < Len(stack))
  BY <1>1, <1>2, <1>4, <1>5
<1>7. q = Len(stack)
  BY <1>1, <1>3, <1>6
<1> QED
  BY <1>2, <1>3, <1>7

Reported(ls, fn) == {<<"undeclared", l, fn>> : l \in ls}
Unmet(s, bad) == \A l \in Label : l \in bad <=> l \in s.referenced /\ l \notin s.defined

\* A scope is left: its unresolved labels are reported.
LEMMA LabelsClosed ==
  ASSUME NEW g, NEW cs, NEW stack, NEW fn, NEW n, NEW loc, NEW got, NEW tar, NEW errs,
         Labels(g, cs, stack, fn, n, loc, got, tar, errs), cs # <<>>,
         cs[Len(cs)].at \in HasScope,
         NEW bad \in SUBSET Label, Unmet(stack[Len(stack)], bad)
  PROVE  \E h : Labels(h, SubSeq(cs, 1, Len(cs) - 1), SubSeq(stack, 1, Len(stack) - 1), fn, n,
                       loc, got, tar, errs \cup Reported(bad, fn))
<1> DEFINE rest == SubSeq(cs, 1, Len(cs) - 1)
           m == Len(cs) - 1
           d == Len(stack) - 1
           below == SubSeq(stack, 1, Len(stack) - 1)
           errs2 == errs \cup Reported(bad, fn)
           h == [q \in 2..d |-> g[q]]
<1>1. /\ Len(cs) = m + 1 /\ m \in Nat
      /\ rest \in Seq(OpenConstruct) /\ Len(rest) = m /\ \A k \in 1..m : rest[k] = cs[k]
  BY Shorter DEF Labels
<1>2. /\ Recorded(fn, n, loc, got, tar, errs) /\ Chained(cs, fn, n) /\ Paired(g, cs, stack)
      /\ Owned(cs, loc) /\ Owned(cs, got) /\ Owned(cs, tar)
      /\ Tallied(g, cs, stack, loc, got, tar) /\ Judged(cs, fn, n, got, tar, errs)
      /\ cs \in Seq(OpenConstruct) /\ stack \in Seq(ScopeFrame)
  BY DEF Labels
<1>3. /\ Chained(rest, fn, n)
      /\ Owned(rest, loc) /\ Owned(rest, got) /\ Owned(rest, tar)
      /\ \A i : (\A k \in 1..Len(rest) : rest[k].id # i) <=>
                  \/ \A k \in 1..Len(cs) : cs[k].id # i
                  \/ i = cs[Len(cs)].id
  BY <1>2, ChainShorter
<1>4. /\ Len(stack) \in Nat /\ 2 \in 2..Len(stack) /\ n \in Nat
      /\ \A q \in 2..Len(stack) : g[q] \in 1..Len(cs) /\ g[q] \in Nat
      /\ \A q \in 1..Len(stack) : stack[q] \in ScopeFrame
  BY LabelFacts, FunctionFirst
<1>5. /\ Len(stack) = d + 1 /\ d \in Nat /\ d > 0
      /\ below \in Seq(ScopeFrame) /\ Len(below) = d
      /\ \A q \in 1..d : below[q] = stack[q]
  <2>1. d \in Nat /\ d > 0 /\ Len(stack) = d + 1
    BY <1>4
  <2> HIDE DEF d
  <2>2. \A q \in 1..d : stack[q] \in ScopeFrame
    BY <1>4, <2>1
  <2>3. LET b == SubSeq(stack, 1, d) IN
        /\ b \in Seq(ScopeFrame)
        /\ Len(b) = IF 1 <= d THEN d - 1 + 1 ELSE 0
        /\ \A k \in 1..(d - 1 + 1) : b[k] = stack[1 + k - 1]
    BY <2>1, <2>2, SubSeqProperties
  <2>4. d - 1 + 1 = d /\ 1 <= d /\ \A k \in 1..d : 1 + k - 1 = k
    BY <2>1
  <2> QED
    BY <2>1, <2>3, <2>4 DEF d
<1>6. Recorded(fn, n, loc, got, tar, errs2)
  <2>1. \A l \in bad : l \in Label
    OBVIOUS
  <2>2. fn \in 0..n
    BY <1>2 DEF Recorded
  <2> QED
    BY <1>2, <2>1, <2>2 DEF Recorded, Reported
<1>7. \A l \in Label : <<"undeclared", l, fn>> \in errs2 <=> <<"undeclared", l, fn>> \in errs \/ l \in bad
  BY DEF Reported
<1> HIDE DEF rest, m, d, below, errs2
<1>8. /\ m + 1 \in 1..(m + 1)
      /\ \A k \in 1..m : k \in 1..(m + 1) /\ k # m + 1
      /\ \A k \in 1..(m + 1) : k # m + 1 => k \in 1..m
      /\ d + 1 \in 2..(d + 1)
      /\ \A q \in 2..d : q \in 2..(d + 1) /\ q < d + 1 /\ q \in 1..d
      /\ \A q \in 2..(d + 1) : q # d + 1 => q \in 2..d
  BY <1>1, <1>5
<1>9. g[d + 1] = m + 1
  BY <1>1, <1>5, TopScope
<1>10. \A q \in 2..d : g[q] \in 1..m /\ h[q] = g[q]
  <2>1. \A q \in 2..d : g[q] < g[d + 1] /\ g[q] \in 1..(m + 1)
    BY <1>1, <1>2, <1>4, <1>5, <1>8 DEF Paired
  <2>2. \A q \in 2..d : g[q] # m + 1
    BY <1>1, <1>9, <2>1
  <2> QED
    BY <1>8, <2>1, <2>2
<1>11. h \in [2..d -> 1..m]
  BY <1>10
<1> HIDE DEF h
<1>12. Paired(h, rest, below)
  <2>1. ASSUME NEW k \in 1..m
        PROVE  rest[k].at \in HasScope <=> \E q \in 2..d : h[q] = k
    <3>1. rest[k] = cs[k] /\ k \in 1..(m + 1) /\ k # m + 1
      BY <1>1, <1>8
    <3>2. cs[k].at \in HasScope <=> \E q \in 2..(d + 1) : g[q] = k
      BY <1>1, <1>2, <1>5, <3>1 DEF Paired
    <3> QED
      BY <1>8, <1>9, <1>10, <3>1, <3>2
  <2>2. \A p, q \in 2..d : p < q => h[p] < h[q]
    BY <1>2, <1>5, <1>8, <1>10 DEF Paired
  <2> QED
    BY <1>1, <1>5, <1>11, <2>1, <2>2 DEF Paired
<1>13. Tallied(h, rest, below, loc, got, tar)
  <2>1. below[1] = stack[1]
    BY <1>5
  <2>2. ASSUME NEW q \in 2..d
        PROVE  TalliedAt(q, below[q], rest[h[q]].id, loc, got, tar)
    <3>1. TalliedAt(q, stack[q], cs[g[q]].id, loc, got, tar)
      BY <1>2, <1>5, <1>8 DEF Tallied
    <3>2. below[q] = stack[q] /\ rest[h[q]] = cs[g[q]]
      BY <1>1, <1>5, <1>8, <1>10
    <3> QED
      BY <3>1, <3>2
  <2> QED
    BY <1>2, <1>5, <2>1, <2>2 DEF Tallied
<1>14. Judged(rest, fn, n, got, tar, errs2)
  <2>1. \A l \in Label : l \in bad <=> Missing(l, cs[m + 1].id, got, tar)
    <3>1. TalliedAt(d + 1, stack[d + 1], cs[m + 1].id, loc, got, tar)
      BY <1>2, <1>5, <1>8, <1>9 DEF Tallied
    <3> QED
      BY <1>5, <3>1 DEF TalliedAt, Missing, Unmet
  <2>2. cs[m + 1].id \in 1..n
    BY <1>1, <1>2, <1>8 DEF Chained
  <2>3. \A i : (\A k \in 1..Len(rest) : rest[k].id # i) <=>
                  \/ \A k \in 1..Len(cs) : cs[k].id # i
                  \/ i = cs[m + 1].id
    BY <1>1, <1>3
  <2>4. Judged(cs, fn, n, got, tar, errs)
    BY <1>2
  <2> SUFFICES ASSUME NEW l \in Label
               PROVE  <<"undeclared", l, fn>> \in errs2 <=>
                        \E i \in 1..n : /\ Missing(l, i, got, tar)
                                        /\ \A k \in 1..Len(rest) : rest[k].id # i
    BY DEF Judged
  <2> DEFINE last == cs[m + 1].id
             Lacks(i) == Missing(l, i, got, tar)
             Closed(i) == \A k \in 1..Len(cs) : cs[k].id # i
             ClosedNow(i) == \A k \in 1..Len(rest) : rest[k].id # i
  <2>5. <<"undeclared", l, fn>> \in errs <=> \E i \in 1..n : Lacks(i) /\ Closed(i)
    BY <2>4 DEF Judged
  <2>6. l \in bad <=> Lacks(last)
    BY <2>1
  <2>7. \A i : ClosedNow(i) <=> Closed(i) \/ i = last
    BY <2>3
  <2>8. last \in 1..n
    BY <2>2
  <2> HIDE DEF last, Lacks, Closed, ClosedNow
  <2>9. <<"undeclared", l, fn>> \in errs2 <=> \E i \in 1..n : Lacks(i) /\ ClosedNow(i)
    BY ONLY <1>7, <2>5, <2>6, <2>7, <2>8
  <2> QED
    BY <2>9 DEF Lacks, ClosedNow
<1>15. Labels(h, rest, below, fn, n, loc, got, tar, errs2)
  BY <1>1, <1>3, <1>5, <1>6, <1>12, <1>13, <1>14 DEF Labels
<1> QED
  BY <1>15 DEF rest, below, errs2

\* A function begins: its labels start anew, under an id not yet used.
LEMMA LabelsBegun ==
  ASSUME NEW g, NEW stack, NEW fn, NEW n, NEW loc, NEW got, NEW tar, NEW errs,
         Labels(g, <<>>, stack, fn, n, loc, got, tar, errs),
         NEW stack1 \in Seq(ScopeFrame), Len(stack1) = Len(stack),
         \A q \in 1..Len(stack) : SameLabels(stack1[q], stack[q]),
         NEW c \in OpenConstruct, c.at = "function", c.id = n + 1,
         NEW s \in ScopeFrame, s.kind = "function",
         s.defined = {}, s.referenced = {},
         NEW errs2, errs2 = errs \/ \E x : x[1] # "undeclared" /\ errs2 = errs \cup {x}
  PROVE  \E h : Labels(h, <<c>>, Append(stack1, s), n + 1, n + 1, {}, {}, {}, errs2)
<1> DEFINE cs2 == <<c>>
           stack2 == Append(stack1, s)
           h == [q \in 2..2 |-> 1]
<1>1. /\ n \in Nat /\ Len(stack) \in Nat /\ 1 \in 1..Len(stack)
      /\ \A q \in 2..Len(stack) : g[q] \in 1..Len(<<>>)
  BY LabelFacts
<1>2. Len(stack) = 1
  <2>1. Len(<<>>) = 0
    OBVIOUS
  <2>2. \A q \in 2..Len(stack) : FALSE
    BY <1>1, <2>1
  <2> QED
    BY <1>1, <2>2
<1>3. /\ stack2 \in Seq(ScopeFrame) /\ Len(stack2) = 2
      /\ stack2[1] = stack1[1] /\ stack2[2] = s
  <2>1. Len(stack1) = 1 /\ 1 \in 1..1
    BY <1>2
  <2>2. /\ stack2 \in Seq(ScopeFrame) /\ Len(stack2) = Len(stack1) + 1
        /\ \A q \in 1..Len(stack1) : stack2[q] = stack1[q]
        /\ stack2[Len(stack1) + 1] = s
    BY AppendProperties
  <2> HIDE DEF stack2
  <2>3. /\ Len(stack2) = 1 + 1 /\ stack2[1 + 1] = s
        /\ \A q \in 1..1 : stack2[q] = stack1[q]
    BY <2>1, <2>2
  <2> QED
    BY <2>1, <2>2, <2>3
<1>4. /\ cs2 \in Seq(OpenConstruct) /\ Len(cs2) = 1 /\ cs2[1] = c
  OBVIOUS
<1> HIDE DEF cs2, stack2
<1>5. \A x : x[1] = "undeclared" => (x \in errs2 <=> x \in errs)
  OBVIOUS
<1>6. n + 1 \in Nat /\ n + 1 \in 1..(n + 1) /\ n + 1 \in 0..(n + 1) /\ n + 1 \notin 0..n
      /\ \A i \in 0..n : i \in 0..(n + 1)
  BY <1>1
<1>7. \A x \in errs : x[1] = "undeclared" => \E l \in Label, i \in 0..n : x = <<"undeclared", l, i>>
  BY DEF Labels, Recorded
<1>8. Recorded(n + 1, n + 1, {}, {}, {}, errs2)
  BY <1>5, <1>6, <1>7 DEF Recorded
<1>9. Chained(cs2, n + 1, n + 1)
  BY <1>4, <1>6 DEF Chained
<1>10. Owned(cs2, {})
  BY DEF Owned
<1>11. Paired(h, cs2, stack2)
  <2>1. h \in [2..2 -> 1..1] /\ h[2] = 1 /\ 2 \in 2..2 /\ c.at \in HasScope
    BY DEF HasScope
  <2> HIDE DEF h
  <2>2. /\ \A k \in 1..1 : k = 1
        /\ \A q \in 2..2 : q = 2
    OBVIOUS
  <2>3. \A p, q \in 2..2 : p < q => h[p] < h[q]
    OBVIOUS
  <2>4. \A k \in 1..1 : cs2[k].at \in HasScope <=> \E q \in 2..2 : h[q] = k
    BY <1>4, <2>1, <2>2
  <2> QED
    BY <1>3, <1>4, <2>1, <2>3, <2>4 DEF Paired
<1>12. Tallied(h, cs2, stack2, {}, {}, {})
  <2>1. stack2[1].kind = "global" /\ stack2[1].referenced = {}
    BY <1>1, <1>3 DEF Labels, Tallied, SameLabels
  <2>2. ASSUME NEW q \in 2..2
        PROVE  TalliedAt(q, stack2[q], cs2[h[q]].id, {}, {}, {})
    <3>1. q = 2 /\ stack2[q] = s
      BY <1>3, <2>2
    <3>2. ~(2 > 2)
      OBVIOUS
    <3> QED
      BY <3>1, <3>2 DEF TalliedAt
  <2> QED
    BY <1>3, <2>1, <2>2 DEF Tallied
<1>13. Judged(cs2, n + 1, n + 1, {}, {}, errs2)
  <2>1. ASSUME NEW l \in Label PROVE <<"undeclared", l, n + 1>> \notin errs2
    <3> DEFINE x == <<"undeclared", l, n + 1>>
    <3>1. x[1] = "undeclared" /\ x[3] = n + 1
      OBVIOUS
    <3>2. ASSUME NEW m, NEW i \in 0..n PROVE x # <<"undeclared", m, i>>
      <4>1. i # n + 1 /\ <<"undeclared", m, i>>[3] = i
        BY <1>6
      <4> QED
        BY <3>1, <4>1
    <3> HIDE DEF x
    <3>3. x \notin errs2
      BY <1>5, <1>7, <3>1, <3>2
    <3> QED
      BY <3>3 DEF x
  <2> QED
    BY <2>1 DEF Judged, Missing
<1>14. Labels(h, cs2, stack2, n + 1, n + 1, {}, {}, {}, errs2)
  BY <1>3, <1>4, <1>8, <1>9, <1>10, <1>11, <1>12, <1>13 DEF Labels
<1> QED
  BY <1>14 DEF cs2, stack2

-----------------------------------------------------------------------------
(* What every action does to the count of the labels.                      *)
InPlace(cs, cs2) ==
  /\ cs2 \in Seq(OpenConstruct) /\ Len(cs2) = Len(cs)
  /\ \A k \in 1..Len(cs) : cs2[k].at = cs[k].at /\ cs2[k].id = cs[k].id
SameScopes(stack, stack2) ==
  /\ stack2 \in Seq(ScopeFrame) /\ Len(stack2) = Len(stack)
  /\ \A q \in 1..Len(stack) : SameLabels(stack2[q], stack[q])

LEMMA AdvancedInPlace ==
  ASSUME Restorable
  PROVE  InPlace(open, Advanced)
<1>1. open \in Seq(OpenConstruct)
  BY DEF Restorable
<1>2. ASSUME NEW s \in {"fresh", "head", "body", "done"}, open # <<>>
      PROVE  InPlace(open, [open EXCEPT ![Len(open)].stage = s])
  <2> DEFINE c == [open[Len(open)] EXCEPT !.stage = s]
             cs == [open EXCEPT ![Len(open)] = c]
  <2>1. Len(open) \in 1..Len(open) /\ open[Len(open)] \in OpenConstruct
    <3>1. Len(open) \in 1..Len(open)
      BY <1>1, <1>2, EmptySeq
    <3> QED
      BY <1>1, <3>1, ElementOfSeq
  <2>2. c \in OpenConstruct /\ c.at = open[Len(open)].at /\ c.id = open[Len(open)].id
    BY <2>1 DEF OpenConstruct
  <2> HIDE DEF c
  <2>3. /\ cs \in Seq(OpenConstruct) /\ Len(cs) = Len(open)
        /\ \A k \in 1..Len(open) : cs[k] = IF k = Len(open) THEN c ELSE open[k]
    BY <1>1, <2>1, <2>2, ExceptSeq
  <2> HIDE DEF cs
  <2>4. InPlace(open, cs)
    BY <2>2, <2>3 DEF InPlace
  <2> QED
    BY <2>4 DEF cs, c
<1>3. CASE open = <<>> \/ AtForHead
  <2>1. Advanced = open
    BY <1>3 DEF Advanced, AtForHead, AtItem, HoldsItems
  <2> QED
    BY <1>1, <2>1 DEF InPlace
<1>4. CASE ~(open = <<>> \/ AtForHead) /\ AtItem
  <2>1. Advanced = [open EXCEPT ![Len(open)].stage = "body"]
    BY <1>4 DEF Advanced
  <2> QED
    BY <1>2, <1>4, <2>1
<1>5. CASE ~(open = <<>> \/ AtForHead) /\ ~AtItem
  <2>1. Advanced = [open EXCEPT ![Len(open)].stage = "done"]
    BY <1>5 DEF Advanced
  <2> QED
    BY <1>2, <1>5, <2>1
<1> QED
  BY <1>3, <1>4, <1>5

LEMMA NotedInPlace ==
  ASSUME Restorable, NEW values \in SUBSET Literal, NEW default \in BOOLEAN
  PROVE  InPlace(open, Noted(values, default))
<1> DEFINE noted(c) == [c EXCEPT !.seen = @ \cup values, !.default = @ \/ default]
           cs == Noted(values, default)
<1>1. /\ open \in Seq(OpenConstruct) /\ Len(open) \in Nat /\ DOMAIN open = 1..Len(open)
      /\ \A k \in 1..Len(open) : open[k] \in OpenConstruct
  BY LenProperties, ElementOfSeq DEF Restorable
<1>2. \A c \in OpenConstruct : noted(c).at = c.at /\ noted(c).id = c.id
  BY DEF OpenConstruct
<1>3. \A k \in 1..Len(open) : cs[k] = noted(open[k]) \/ cs[k] = open[k]
  BY <1>1 DEF Noted
<1>4. cs \in Seq(OpenConstruct) /\ DOMAIN cs = 1..Len(open)
  BY <1>1, NotedTyped DEF Noted
<1> HIDE DEF noted, cs
<1>5. Len(cs) = Len(open)
  <2>1. Len(cs) \in Nat /\ DOMAIN cs = 1..Len(cs)
    BY <1>4, LenProperties
  <2> QED
    BY <1>1, <1>4, <2>1
<1>6. InPlace(open, cs)
  BY <1>1, <1>2, <1>3, <1>4, <1>5 DEF InPlace
<1> QED
  BY <1>6 DEF cs

LEMMA SelfInPlace ==
  ASSUME IInv
  PROVE  InPlace(open, open) /\ SameScopes(scopes, scopes)
BY DEF IInv, Restorable, TablesAgree, Consistent, Typed, InPlace, SameScopes, SameLabels

LEMMA RegisteredSame ==
  ASSUME NEW stack \in Seq(ScopeFrame), NEW n, NEW id,
         Registered(stack, n, id) \in Seq(ScopeFrame)
  PROVE  SameScopes(stack, Registered(stack, n, id))
<1> DEFINE stack2 == Registered(stack, n, id)
           names == [m \in DOMAIN stack[Len(stack)].ordinary \cup {n} |->
                       IF m = n THEN id ELSE stack[Len(stack)].ordinary[m]]
<1>1. /\ Len(stack) \in Nat /\ DOMAIN stack = 1..Len(stack)
      /\ Len(stack2) \in Nat /\ DOMAIN stack2 = 1..Len(stack2)
  BY LenProperties
<1>2. \A k \in 1..Len(stack) : stack[k] \in ScopeFrame
  BY ElementOfSeq
<1>3. /\ DOMAIN stack2 = DOMAIN stack
      /\ \A k \in DOMAIN stack :
           stack2[k] = IF k = Len(stack) THEN [stack[k] EXCEPT !.ordinary = names] ELSE stack[k]
  BY DEF Registered
<1> HIDE DEF names, stack2
<1>4. Len(stack2) = Len(stack)
  <2>1. 1..Len(stack2) = 1..Len(stack)
    BY <1>1, <1>3
  <2>2. Len(stack2) \in Nat /\ Len(stack) \in Nat
    BY <1>1
  <2> QED
    BY ONLY <2>1, <2>2
<1>5. ASSUME NEW k \in 1..Len(stack) PROVE SameLabels(stack2[k], stack[k])
  <2>1. stack[k] \in ScopeFrame
    BY <1>2
  <2>2. SameLabels([stack[k] EXCEPT !.ordinary = names], stack[k]) /\ SameLabels(stack[k], stack[k])
    BY <2>1 DEF ScopeFrame, SameLabels
  <2>3. stack2[k] = IF k = Len(stack) THEN [stack[k] EXCEPT !.ordinary = names] ELSE stack[k]
    BY <1>1, <1>3
  <2> QED
    BY <2>2, <2>3
<1> QED
  BY <1>4, <1>5 DEF SameScopes, stack2

LEMMA TallyTouched ==
  ASSUME Tally, UNCHANGED <<bailed, history>>,
         InPlace(open, open'), SameScopes(scopes, scopes'),
         errors' = errors \/ \E x : x[1] # "undeclared" /\ errors' = errors \cup {x}
  PROVE  Tally'
<1> SUFFICES ASSUME ~bailed
             PROVE  \E g : Labels(g, open', scopes', function', opened', localLabels', gotos',
                                  targets', errors')
  BY DEF Tally
<1>1. PICK g : Labels(g, open, scopes, function, opened, localLabels, gotos, targets, errors)
  BY DEF Tally
<1>2. /\ open' \in Seq(OpenConstruct) /\ Len(open') = Len(open)
      /\ \A k \in 1..Len(open) : open'[k].at = open[k].at /\ open'[k].id = open[k].id
      /\ scopes' \in Seq(ScopeFrame) /\ Len(scopes') = Len(scopes)
      /\ \A q \in 1..Len(scopes) : SameLabels(scopes'[q], scopes[q])
  BY DEF InPlace, SameScopes
<1>3. Labels(g, open', scopes', function, opened, localLabels, gotos, targets, errors')
  BY <1>1, <1>2, LabelsTouched
<1> QED
  BY <1>3 DEF history

LEMMA TallyDeclared ==
  ASSUME IInv, Tally, IInv', NEW n, NEW r,
         Register(n, r) \/ UNCHANGED <<scopes, errors>>,
         open' = Advanced, UNCHANGED <<bailed, history>>
  PROVE  Tally'
<1>1. /\ scopes \in Seq(ScopeFrame) /\ scopes' \in Seq(ScopeFrame)
      /\ InPlace(open, open')
  BY AdvancedInPlace DEF IInv, TablesAgree, Consistent, Typed
<1>2. SameScopes(scopes, scopes')
  <2>1. scopes' = scopes \/ scopes' = Registered(scopes, n, r.id)
    BY DEF Register
  <2> QED
    BY <1>1, <2>1, SelfInPlace, RegisteredSame
<1>3. errors' = errors \/ \E x : x[1] # "undeclared" /\ errors' = errors \cup {x}
  <2>1. <<"redefinition", n>>[1] # "undeclared"
    OBVIOUS
  <2> QED
    BY <2>1 DEF Register
<1> QED
  BY <1>1, <1>2, <1>3, TallyTouched

\* A goto or a label goes to the scope and the construct that own it.
LEMMA TallyGoto ==
  ASSUME IInv, Tally, NEW l \in Label, Goto(l)
  PROVE  Tally'
<1> SUFFICES ASSUME ~bailed
             PROVE  \E g : Labels(g, open', scopes', function', opened', localLabels', gotos',
                                  targets', errors')
  BY DEF Tally, Goto
<1>1. PICK g : Labels(g, open, scopes, function, opened, localLabels, gotos, targets, errors)
  BY DEF Tally
<1>2. open # <<>> /\ Restorable
  BY DEF Goto, AtStatement, AtItem, IInv
<1> DEFINE cs == Advanced
           q == LabelScope(l)
           t == [scopes[q] EXCEPT !.referenced = @ \cup {l}]
<1>3. InPlace(open, cs) /\ SameScopes(scopes, scopes)
  BY <1>2, AdvancedInPlace, SelfInPlace
<1>4. /\ q \in 2..Len(scopes) /\ open[g[q]].id = Home(l)
      /\ q > 2 => l \in scopes[q].locals
  BY <1>1, <1>2, HomeOfScope
<1>5. q \in 1..Len(scopes) /\ scopes[q] \in ScopeFrame /\ g[q] \in 1..Len(open)
  BY <1>1, <1>4, LabelFacts
<1>6. /\ t \in ScopeFrame /\ t.kind = scopes[q].kind /\ t.locals = scopes[q].locals
      /\ t.referenced = scopes[q].referenced \cup {l} /\ t.defined = scopes[q].defined
  BY <1>5 DEF ScopeFrame
<1>7. /\ open' = cs /\ scopes' = [scopes EXCEPT ![q] = t] /\ gotos' = gotos \cup {<<l, Home(l)>>}
      /\ UNCHANGED <<errors, opened, function, localLabels, targets>>
  BY DEF Goto
<1> HIDE DEF cs, q, t
<1>8. Labels(g, cs, scopes, function, opened, localLabels, gotos, targets, errors)
  BY <1>1, <1>3, LabelsTouched DEF InPlace, SameScopes
<1>9. cs[g[q]].id = Home(l)
  BY <1>3, <1>4, <1>5 DEF InPlace
<1>10. gotos' = gotos \cup {<<l, cs[g[q]].id>>}
  BY <1>7, <1>9
<1>11. Labels(g, cs, [scopes EXCEPT ![q] = t], function, opened, localLabels, gotos', targets, errors)
  BY <1>4, <1>6, <1>8, <1>10, LabelsCounted
<1> QED
  BY <1>7, <1>11

LEMMA TallyLabeled ==
  ASSUME IInv, Tally, NEW l \in Label, Labeled(l)
  PROVE  Tally'
<1> SUFFICES ASSUME ~bailed
             PROVE  \E g : Labels(g, open', scopes', function', opened', localLabels', gotos',
                                  targets', errors')
  BY DEF Tally, Labeled
<1>1. PICK g : Labels(g, open, scopes, function, opened, localLabels, gotos, targets, errors)
  BY DEF Tally
<1>2. open # <<>>
  BY DEF Labeled, AtStatement, AtItem
<1> DEFINE q == LabelScope(l)
           t == [scopes[q] EXCEPT !.defined = @ \cup {l}]
<1>3. InPlace(open, open) /\ SameScopes(scopes, scopes)
  BY SelfInPlace
<1>4. /\ q \in 2..Len(scopes) /\ open[g[q]].id = Home(l)
      /\ q > 2 => l \in scopes[q].locals
  BY <1>1, <1>2, HomeOfScope
<1>5. q \in 1..Len(scopes) /\ scopes[q] \in ScopeFrame
  BY <1>1, <1>4, LabelFacts
<1>6. /\ t \in ScopeFrame /\ t.kind = scopes[q].kind /\ t.locals = scopes[q].locals
      /\ t.referenced = scopes[q].referenced /\ t.defined = scopes[q].defined \cup {l}
  BY <1>5 DEF ScopeFrame
<1>7. /\ targets' = targets \cup {<<l, open[g[q]].id>>}
      /\ UNCHANGED <<open, opened, function, localLabels, gotos>>
  BY <1>4 DEF Labeled
<1>8. CASE l \in scopes[q].defined
  <2>1. scopes' = scopes /\ errors' = errors \cup {<<"label", l, function>>}
    BY <1>8 DEF Labeled
  <2>2. targets' = targets
    <3>1. TalliedAt(q, scopes[q], open[g[q]].id, localLabels, gotos, targets)
      BY <1>1, <1>4 DEF Labels, Tallied
    <3>2. <<l, open[g[q]].id>> \in targets
      BY <1>8, <3>1 DEF TalliedAt
    <3> QED
      BY <1>7, <3>2
  <2> HIDE DEF q, t
  <2>3. <<"label", l, function>>[1] # "undeclared"
    OBVIOUS
  <2>4. errors' = errors \/ \E x : x[1] # "undeclared" /\ errors' = errors \cup {x}
    BY <2>1, <2>3
  <2>5. Labels(g, open, scopes, function, opened, localLabels, gotos, targets, errors')
    BY <1>1, <1>3, <2>4, LabelsTouched DEF InPlace, SameScopes
  <2> QED
    BY <1>7, <2>1, <2>2, <2>5
<1>9. CASE l \notin scopes[q].defined
  <2>1. scopes' = [scopes EXCEPT ![q] = t] /\ UNCHANGED errors
    BY <1>9 DEF Labeled
  <2> HIDE DEF q, t
  <2>2. Labels(g, open, [scopes EXCEPT ![q] = t], function, opened, localLabels, gotos, targets', errors)
    BY <1>1, <1>4, <1>6, <1>7, LabelsCounted
  <2> QED
    BY <1>7, <2>1, <2>2
<1> QED
  BY <1>8, <1>9

LEMMA TallyLocalLabel ==
  ASSUME IInv, Tally, NEW l \in Label, LocalLabel(l)
  PROVE  Tally'
<1> SUFFICES ASSUME ~bailed
             PROVE  \E g : Labels(g, open', scopes', function', opened', localLabels', gotos',
                                  targets', errors')
  BY DEF Tally, LocalLabel
<1>1. PICK g : Labels(g, open, scopes, function, opened, localLabels, gotos, targets, errors)
  BY DEF Tally
<1>2. open # <<>> /\ Top.at \in HasScope
  BY DEF LocalLabel, AtItem, HoldsItems, HasScope
<1> DEFINE q == Len(scopes)
           s == scopes[q]
<1>3. q \in 2..Len(scopes) /\ g[q] = Len(open) /\ open[g[q]].id = Top.id
  BY <1>1, <1>2, TopScope DEF Top
<1>4. q \in 1..Len(scopes) /\ s \in ScopeFrame
  BY <1>1, <1>3, LabelFacts
<1>5. /\ localLabels' = localLabels \cup {<<l, open[g[q]].id>>}
      /\ UNCHANGED <<open, opened, function, gotos, targets>>
  BY <1>3 DEF LocalLabel
<1>6. CASE l \in s.locals \cup s.defined \cup s.referenced
  <2>1. scopes' = scopes /\ errors' = errors \cup {<<"label", l, function>>}
    BY <1>6 DEF LocalLabel
  <2>2. scopes = [scopes EXCEPT ![q] = s]
    BY <1>1 DEF Labels
  <2> HIDE DEF s, q
  <2>3. Labels(g, open, [scopes EXCEPT ![q] = s], function, opened, localLabels', gotos, targets, errors)
    BY <1>1, <1>3, <1>4, <1>5, <1>6, LabelsDeclared DEF s
  <2>4. Labels(g, open, scopes, function, opened, localLabels', gotos, targets, errors)
    BY <2>2, <2>3
  <2>5. <<"label", l, function>>[1] # "undeclared"
    OBVIOUS
  <2>6. errors' = errors \/ \E x : x[1] # "undeclared" /\ errors' = errors \cup {x}
    BY <2>1, <2>5
  <2>7. Labels(g, open, scopes, function, opened, localLabels', gotos, targets, errors')
    BY <2>4, <2>6, SelfInPlace, LabelsTouched DEF InPlace, SameScopes
  <2> QED
    BY <1>5, <2>1, <2>7
<1>7. CASE l \notin s.locals \cup s.defined \cup s.referenced
  <2> DEFINE u == [s EXCEPT !.locals = @ \cup {l}]
  <2>1. scopes' = [scopes EXCEPT ![q] = u] /\ UNCHANGED errors
    BY <1>7 DEF LocalLabel
  <2>2. /\ u \in ScopeFrame /\ u.kind = s.kind /\ u.referenced = s.referenced
        /\ u.defined = s.defined /\ u.locals = s.locals \cup {l}
    BY <1>4 DEF ScopeFrame
  <2> HIDE DEF u, q
  <2>3. Labels(g, open, [scopes EXCEPT ![q] = u], function, opened, localLabels', gotos, targets, errors)
    BY <1>1, <1>3, <1>5, <2>2, LabelsDeclared
  <2> QED
    BY <1>5, <2>1, <2>3
<1> QED
  BY <1>6, <1>7

\* What opens a construct counts its labels under a new id.
LEMMA TallyAdvanced ==
  ASSUME IInv, open # <<>>,
         NEW g, Labels(g, open, scopes, function, opened, localLabels, gotos, targets, errors),
         NEW at \in {"block", "expression", "for", "loop", "switch"},
         NEW stage \in {"fresh", "head", "body", "done"}
  PROVE  /\ Labels(g, Advanced, scopes, function, opened, localLabels, gotos, targets, errors)
         /\ Advanced # <<>>
         /\ Construct(at, stage) \in OpenConstruct
         /\ Construct(at, stage).at = at /\ Construct(at, stage).id = opened + 1
<1>1. InPlace(open, Advanced) /\ SameScopes(scopes, scopes) /\ Restorable
  BY AdvancedInPlace, SelfInPlace DEF IInv
<1>2. Labels(g, Advanced, scopes, function, opened, localLabels, gotos, targets, errors)
  BY <1>1, LabelsTouched DEF InPlace, SameScopes
<1>3. Advanced # <<>>
  <2>1. Len(open) > 0 /\ Len(Advanced) = Len(open)
    BY <1>1, EmptySeq DEF InPlace, Restorable
  <2> QED
    BY <2>1, EmptySeq
<1>4. Construct(at, stage) \in OpenConstruct
  BY <1>1, ConstructTyped
<1> QED
  BY <1>2, <1>3, <1>4 DEF Construct

LEMMA EmptyScope == Scope("block") \in ScopeFrame /\ Scope("function") \in ScopeFrame
<1>1. NoNames \in [{} -> Nat] /\ {} \in SUBSET Name
  BY DEF NoNames
<1>2. NoNames \in Ordinary
  BY <1>1 DEF Ordinary
<1> QED
  BY <1>2 DEF Scope, ScopeFrame

LEMMA TallyOpenScope ==
  ASSUME IInv, Tally, AtStatement \/ AtForHead,
         NEW at \in {"block", "expression", "for"}, NEW stage \in {"fresh", "head"},
         OpenScope(at, stage)
  PROVE  Tally'
<1> SUFFICES ASSUME ~bailed
             PROVE  \E g : Labels(g, open', scopes', function', opened', localLabels', gotos',
                                  targets', errors')
  BY DEF Tally, OpenScope
<1>1. PICK g : Labels(g, open, scopes, function, opened, localLabels, gotos, targets, errors)
  BY DEF Tally
<1>2. open # <<>>
  BY DEF AtStatement, AtItem, AtForHead
<1> DEFINE cs == Advanced
           c == Construct(at, stage)
           s == Scope("block")
<1>3. /\ Labels(g, cs, scopes, function, opened, localLabels, gotos, targets, errors)
      /\ cs # <<>> /\ c \in OpenConstruct /\ c.at = at /\ c.id = opened + 1
  BY <1>1, <1>2, TallyAdvanced
<1>4. c.at \in HasScope \ {"function"}
  BY <1>3 DEF HasScope
<1>5. s \in ScopeFrame /\ s.kind = "block" /\ s.locals = {} /\ s.defined = {} /\ s.referenced = {}
  BY EmptyScope DEF Scope
<1>6. /\ open' = Append(cs, c) /\ scopes' = Append(scopes, s) /\ opened' = opened + 1
      /\ UNCHANGED <<errors, function, localLabels, gotos, targets>>
  BY DEF OpenScope, PushScope
<1> HIDE DEF cs, c, s
<1>7. \E h : Labels(h, Append(cs, c), Append(scopes, s), function, opened + 1, localLabels, gotos,
                    targets, errors)
  BY <1>3, <1>4, <1>5, LabelsOpened
<1> QED
  BY <1>6, <1>7

LEMMA TallyBeginPlain ==
  ASSUME IInv, Tally, BeginLoop \/ BeginSwitch
  PROVE  Tally'
<1> SUFFICES ASSUME ~bailed
             PROVE  \E g : Labels(g, open', scopes', function', opened', localLabels', gotos',
                                  targets', errors')
  BY DEF Tally, BeginLoop, BeginSwitch
<1>1. PICK g : Labels(g, open, scopes, function, opened, localLabels, gotos, targets, errors)
  BY DEF Tally
<1>2. open # <<>>
  BY DEF BeginLoop, BeginSwitch, AtStatement, AtItem
<1>3. PICK at \in {"loop", "switch"} :
        /\ open' = Append(Advanced, Construct(at, "body")) /\ opened' = opened + 1
        /\ UNCHANGED <<scopes, errors, function, localLabels, gotos, targets>>
  BY DEF BeginLoop, BeginSwitch
<1> DEFINE cs == Advanced
           c == Construct(at, "body")
<1>4. /\ Labels(g, cs, scopes, function, opened, localLabels, gotos, targets, errors)
      /\ cs # <<>> /\ c \in OpenConstruct /\ c.at = at /\ c.id = opened + 1
  BY <1>1, <1>2, TallyAdvanced
<1>5. c.at \notin HasScope
  BY <1>4 DEF HasScope
<1>6. open' = Append(cs, c)
  BY <1>3
<1> HIDE DEF cs, c
<1>7. Labels(g, Append(cs, c), scopes, function, opened + 1, localLabels, gotos, targets, errors)
  BY <1>4, <1>5, LabelsOpenedPlain
<1> QED
  BY <1>3, <1>6, <1>7

LEMMA TallyBeginFunction ==
  ASSUME IInv, Tally, UNCHANGED menu, NEW f \in Name, NEW storage \in {"auto", "static"},
         NEW params \in Seq(Name), BeginFunction(f, storage, params)
  PROVE  Tally'
<1> SUFFICES ASSUME ~bailed
             PROVE  \E g : Labels(g, open', scopes', function', opened', localLabels', gotos',
                                  targets', errors')
  BY DEF Tally, BeginFunction
<1>1. PICK g : Labels(g, open, scopes, function, opened, localLabels, gotos, targets, errors)
  BY DEF Tally
<1>2. open = <<>>
  BY DEF BeginFunction, AtFileScope
<1>3. PICK under \in Seq(ScopeFrame), s \in ScopeFrame :
        /\ scopes' = Append(under, s)
        /\ under = scopes \/ \E i : under = Registered(scopes, f, i)
        /\ s.kind = "function" /\ s.defined = {} /\ s.referenced = {}
  BY BeginFunctionKeeps
<1>4. SameScopes(scopes, under)
  <2>1. scopes \in Seq(ScopeFrame)
    BY DEF IInv, TablesAgree, Consistent, Typed
  <2> QED
    BY <1>3, <2>1, SelfInPlace, RegisteredSame
<1> DEFINE c == Construct("function", "fresh")
<1>5. c \in OpenConstruct /\ c.at = "function" /\ c.id = opened + 1
  <2>1. c \in OpenConstruct
    BY ConstructTyped DEF IInv
  <2> QED
    BY <2>1 DEF Construct
<1>6. errors' = errors \/ \E x : x[1] # "undeclared" /\ errors' = errors \cup {x}
  <2>1. <<"redefinition", f>>[1] # "undeclared"
    OBVIOUS
  <2>2. errors' = errors \/ errors' = errors \cup {<<"redefinition", f>>}
    BY DEF BeginFunction
  <2> QED
    BY <2>1, <2>2
<1>7. /\ open' = <<c>> /\ opened' = opened + 1 /\ function' = opened + 1
      /\ localLabels' = {} /\ gotos' = {} /\ targets' = {}
  BY DEF BeginFunction
<1> HIDE DEF c
<1>8. Labels(g, <<>>, scopes, function, opened, localLabels, gotos, targets, errors)
  BY <1>1, <1>2
<1>9. \E h : Labels(h, <<c>>, Append(under, s), opened + 1, opened + 1, {}, {}, {}, errors')
  BY <1>3, <1>4, <1>5, <1>6, <1>8, LabelsBegun DEF SameScopes
<1> QED
  BY <1>3, <1>7, <1>9

\* A block is left: what its own labels miss is reported.
LEMMA TallyCloseScope ==
  ASSUME IInv, Tally, open # <<>>, Top.at \in {"block", "expression", "for"}, CloseScope
  PROVE  Tally'
<1> SUFFICES ASSUME ~bailed
             PROVE  \E g : Labels(g, open', scopes', function', opened', localLabels', gotos',
                                  targets', errors')
  BY DEF Tally, CloseScope
<1>1. PICK g : Labels(g, open, scopes, function, opened, localLabels, gotos, targets, errors)
  BY DEF Tally
<1>2. open[Len(open)].at \in HasScope /\ open[Len(open)].at # "function"
  BY DEF Top, HasScope
<1> DEFINE d == Len(scopes)
           s == scopes[d]
           bad == (s.referenced \cap s.locals) \ s.defined
<1>3. /\ d \in 2..d /\ g[d] = Len(open) /\ 2 \in 2..d /\ g[2] = 1
      /\ d \in 1..d /\ s \in ScopeFrame /\ d \in Nat /\ g[d] \in 1..Len(open)
  BY <1>1, <1>2, TopScope, FunctionFirst, LabelFacts
<1>4. d > 2
  <2>1. g[d] # 1
    BY <1>1, <1>2, <1>3 DEF Labels, Chained
  <2> HIDE DEF d
  <2>2. d # 2
    BY <1>3, <2>1
  <2> QED
    BY <1>3, <2>2
<1>5. TalliedAt(d, s, open[g[d]].id, localLabels, gotos, targets)
  BY <1>1, <1>3 DEF Labels, Tallied
<1>6. /\ bad \in SUBSET Label
      /\ \A l \in Label : l \in bad <=> l \in s.referenced /\ l \notin s.defined
  BY <1>3, <1>4, <1>5 DEF TalliedAt, ScopeFrame
<1>7. /\ open' = SubSeq(open, 1, Len(open) - 1) /\ scopes' = SubSeq(scopes, 1, Len(scopes) - 1)
      /\ errors' = errors \cup Reported(bad, function)
      /\ UNCHANGED <<opened, function, localLabels, gotos, targets>>
  BY DEF CloseScope, LeaveScope, PopScope, UnresolvedLocals, Undeclared, Reported, history
<1> HIDE DEF bad
<1>8. \E h : Labels(h, SubSeq(open, 1, Len(open) - 1), SubSeq(scopes, 1, Len(scopes) - 1), function,
                    opened, localLabels, gotos, targets,
                    errors \cup Reported(bad, function))
  <2>1. Unmet(scopes[Len(scopes)], bad)
    BY <1>6 DEF Unmet
  <2>2. bad \in SUBSET Label
    BY <1>6
  <2> QED
    BY ONLY <1>1, <1>2, <2>1, <2>2, open # <<>>, LabelsClosed
<1> QED
  BY <1>7, <1>8

LEMMA TallyEndPlain ==
  ASSUME IInv, Tally, EndLoop \/ EndSwitch
  PROVE  Tally'
<1> SUFFICES ASSUME ~bailed
             PROVE  \E g : Labels(g, open', scopes', function', opened', localLabels', gotos',
                                  targets', errors')
  BY DEF Tally, EndLoop, EndSwitch
<1>1. PICK g : Labels(g, open, scopes, function, opened, localLabels, gotos, targets, errors)
  BY DEF Tally
<1>2. /\ open # <<>> /\ open[Len(open)].at \notin HasScope
      /\ open' = SubSeq(open, 1, Len(open) - 1)
      /\ UNCHANGED <<scopes, errors, opened, function, localLabels, gotos, targets>>
  BY DEF EndLoop, EndSwitch, Top, HasScope, history
<1>3. Labels(g, SubSeq(open, 1, Len(open) - 1), scopes, function, opened, localLabels, gotos,
             targets, errors)
  BY <1>1, <1>2, LabelsClosedPlain
<1> QED
  BY <1>2, <1>3

\* A function is left: what is missing is reported, over all scopes.
LEMMA TallyEndFunction ==
  ASSUME IInv, Tally, EndFunction
  PROVE  Tally'
<1> SUFFICES ASSUME ~bailed
             PROVE  \E g : Labels(g, open', scopes', function', opened', localLabels', gotos',
                                  targets', errors')
  BY DEF Tally, EndFunction
<1>1. PICK g : Labels(g, open, scopes, function, opened, localLabels, gotos, targets, errors)
  BY DEF Tally
<1>2. open # <<>> /\ open[Len(open)].at = "function" /\ open[Len(open)].at \in HasScope
  BY DEF EndFunction, Top, HasScope
<1> DEFINE d == Len(scopes)
           s == scopes[d]
           bad == s.referenced \ s.defined
<1>3. /\ d \in 2..d /\ g[d] = Len(open) /\ 2 \in 2..d /\ g[2] = 1
      /\ d \in 1..d /\ s \in ScopeFrame /\ d \in Nat
      /\ Len(open) \in Nat /\ Len(open) \in 1..Len(open)
  <2>1. Len(open) \in 1..Len(open)
    BY <1>1, <1>2, EmptySeq DEF Labels
  <2> QED
    BY <1>1, <1>2, <2>1, TopScope, FunctionFirst, LabelFacts
<1>4. Len(open) = 1
  BY <1>1, <1>2, <1>3 DEF Labels, Chained
<1>5. d = 2
  <2>1. 2 < d => g[2] < g[d]
    BY <1>1, <1>3 DEF Labels, Paired
  <2> HIDE DEF d
  <2>2. ~(2 < d)
    BY <1>3, <1>4, <2>1
  <2> QED
    BY <1>3, <2>2
<1>6. DOMAIN scopes = {1, d}
  <2>1. DOMAIN scopes = 1..d
    BY <1>1, LenProperties DEF Labels
  <2> QED
    BY <1>5, <2>1
<1>7. scopes[1].referenced = {}
  BY <1>1 DEF Labels, Tallied
<1>8. bad \in SUBSET Label /\ \A l \in Label : l \in bad <=> l \in s.referenced /\ l \notin s.defined
  BY <1>3 DEF ScopeFrame
<1>9. UNION {Unresolved(scopes[k]) : k \in DOMAIN scopes} = Reported(bad, function)
  <2>1. Unresolved(scopes[1]) = {}
    BY <1>7 DEF Unresolved, Undeclared
  <2>2. Unresolved(scopes[d]) = Reported(bad, function)
    BY DEF Unresolved, Undeclared, Reported
  <2>3. UNION {Unresolved(scopes[k]) : k \in DOMAIN scopes} = Unresolved(scopes[1]) \cup Unresolved(scopes[d])
    BY <1>6
  <2> QED
    BY <2>1, <2>2, <2>3
<1>10. /\ open' = <<>> /\ scopes' = SubSeq(scopes, 1, Len(scopes) - 1)
       /\ errors' = errors \cup Reported(bad, function)
       /\ UNCHANGED <<opened, function, localLabels, gotos, targets>>
  BY <1>9 DEF EndFunction, LeaveScope, PopScope, history
<1> HIDE DEF bad
<1>11. SubSeq(open, 1, Len(open) - 1) = <<>>
  <2>1. /\ Len(SubSeq(open, 1, Len(open) - 1)) = Len(open) - 1
        /\ SubSeq(open, 1, Len(open) - 1) \in Seq(OpenConstruct)
    BY <1>1, <1>2, Shorter DEF Labels
  <2> QED
    BY <1>4, <2>1, EmptySeq
<1>12. \E h : Labels(h, SubSeq(open, 1, Len(open) - 1), SubSeq(scopes, 1, Len(scopes) - 1), function,
                     opened, localLabels, gotos, targets,
                     errors \cup Reported(bad, function))
  <2>1. Unmet(scopes[Len(scopes)], bad)
    BY <1>8 DEF Unmet
  <2>2. bad \in SUBSET Label
    BY <1>8
  <2> QED
    BY ONLY <1>1, <1>2, <2>1, <2>2, LabelsClosed
<1> QED
  BY <1>10, <1>11, <1>12

LEMMA TallyInit == Init => Tally
<1> SUFFICES ASSUME Init
             PROVE  \E g : Labels(g, open, scopes, function, opened, localLabels, gotos, targets, errors)
  BY DEF Tally
<1> DEFINE s == Scope("global")
           g == [q \in 2..1 |-> 0]
<1>1. open = <<>> /\ scopes = <<s>> /\ opened = 0 /\ function = 0
      /\ localLabels = {} /\ gotos = {} /\ targets = {} /\ errors = {}
  BY DEF Init
<1>2. open \in Seq(OpenConstruct) /\ Len(open) = 0 /\ scopes \in Seq(ScopeFrame)
  BY <1>1, InitIInv, EmptySeq DEF IInv, Restorable, TablesAgree, Consistent, Typed
<1>3. s.kind = "global" /\ s.referenced = {}
  BY DEF Scope
<1> HIDE DEF s
<1>4. Len(scopes) = 1 /\ scopes[1] = s
  BY <1>1
<1>5. Recorded(function, opened, localLabels, gotos, targets, errors)
  BY <1>1 DEF Recorded
<1>6. /\ Chained(open, function, opened)
      /\ Owned(open, localLabels) /\ Owned(open, gotos) /\ Owned(open, targets)
  BY <1>2 DEF Chained, Owned
<1>7. Paired(g, open, scopes)
  <2>1. 2..1 = {} /\ 1..0 = {}
    OBVIOUS
  <2>2. g \in [{} -> {}]
    BY <2>1
  <2> HIDE DEF g
  <2> QED
    BY <1>2, <1>4, <2>1, <2>2 DEF Paired
<1>8. Tallied(g, open, scopes, localLabels, gotos, targets)
  BY <1>3, <1>4 DEF Tallied
<1>9. Judged(open, function, opened, gotos, targets, errors)
  BY <1>1 DEF Judged, Missing
<1>10. Labels(g, open, scopes, function, opened, localLabels, gotos, targets, errors)
  BY <1>2, <1>4, <1>5, <1>6, <1>7, <1>8, <1>9 DEF Labels
<1> QED
  BY <1>10

LEMMA TallyNext == ASSUME IInv, Tally, [Next]_vars PROVE Tally'
<1>1. CASE UNCHANGED vars
  BY <1>1 DEF vars, history, Tally
<1>2. CASE Next
  <2>1. /\ Step /\ UNCHANGED menu /\ Restorable
        /\ menu.names \subseteq Name /\ menu.labels \subseteq Label
        /\ menu.literals \subseteq Literal
    BY <1>2, MenuFacts DEF Next, IInv
  <2>2. IInv'
    BY NextIInv
  <2>3. InPlace(open, open) /\ SameScopes(scopes, scopes) /\ InPlace(open, Advanced)
    BY <2>1, SelfInPlace, AdvancedInPlace
  <2>4. ASSUME NEW n \in menu.names, NEW d \in menu.declarations, Declare(n, d) PROVE Tally'
    <3>1. CASE Typedef(n)
      BY <2>2, <3>1, TallyDeclared DEF Typedef
    <3>2. CASE Enumerator(n)
      BY <2>2, <3>2, TallyDeclared DEF Enumerator
    <3>3. CASE Declaration(n, d.kind, d.storage, d.init)
      <4>1. PICK r : Register(n, r)
        BY <3>3 DEF Declaration
      <4> QED
        BY <2>2, <3>3, <4>1, TallyDeclared DEF Declaration
    <3> QED
      BY <2>4, <3>1, <3>2, <3>3 DEF Declare
  <2>5. ASSUME NEW n \in menu.names, Use(n) PROVE Tally'
    BY <2>3, <2>5, TallyTouched DEF Use
  <2>6. ASSUME NEW f \in menu.names, NEW storage \in {"auto", "static"},
               NEW params \in ParamLists, BeginFunction(f, storage, params)
        PROVE  Tally'
    <3>1. params \in Seq(Name)
      <4>1. CASE params = <<>>
        BY <4>1, EmptySeq
      <4>2. CASE \E p \in Name : params = <<p>>
        BY <4>2
      <4> QED
        BY <2>1, <4>1, <4>2 DEF ParamLists
    <3> QED
      BY <2>1, <2>6, <3>1, TallyBeginFunction
  <2>7. CASE Begin
    <3>1. CASE BeginBlock
      BY <3>1, TallyOpenScope DEF BeginBlock
    <3>2. CASE BeginStatementExpression
      BY <3>2, TallyOpenScope DEF BeginStatementExpression
    <3>3. CASE BeginFor
      BY <3>3, TallyOpenScope DEF BeginFor
    <3>4. CASE BeginLoop \/ BeginSwitch
      BY <3>4, TallyBeginPlain
    <3> QED
      BY <2>7, <3>1, <3>2, <3>3, <3>4 DEF Begin
  <2>8. CASE EndFunction
    BY <2>8, TallyEndFunction
  <2>9. CASE EndBlock \/ EndFor
    <3>1. open # <<>> /\ Top.at \in {"block", "expression", "for"} /\ CloseScope
      BY <2>9 DEF EndBlock, EndFor
    <3> QED
      BY <3>1, TallyCloseScope
  <2>10. CASE EndLoop \/ EndSwitch
    BY <2>10, TallyEndPlain
  <2>11. CASE ForBody
    <3>1. InPlace(open, open')
      <4>1. open # <<>> /\ open \in Seq(OpenConstruct) /\ Len(open) \in 1..Len(open)
        BY <2>1, <2>11, EmptySeq DEF ForBody, AtForHead, Restorable
      <4> DEFINE c == [open[Len(open)] EXCEPT !.stage = "body"]
      <4>2. c \in OpenConstruct /\ c.at = open[Len(open)].at /\ c.id = open[Len(open)].id
        <5>1. open[Len(open)] \in OpenConstruct
          BY <4>1, ElementOfSeq
        <5> QED
          BY <5>1 DEF OpenConstruct
      <4>3. open' = [open EXCEPT ![Len(open)] = c]
        BY <2>11 DEF ForBody
      <4> HIDE DEF c
      <4>4. /\ open' \in Seq(OpenConstruct) /\ Len(open') = Len(open)
            /\ \A k \in 1..Len(open) : open'[k] = IF k = Len(open) THEN c ELSE open[k]
        BY <4>1, <4>2, <4>3, ExceptSeq
      <4> QED
        BY <4>2, <4>4 DEF InPlace
    <3> QED
      BY <2>3, <2>11, <3>1, TallyTouched DEF ForBody
  <2>12. ASSUME NEW l \in menu.labels, Goto(l) \/ Labeled(l) \/ LocalLabel(l) PROVE Tally'
    BY <2>1, <2>12, TallyGoto, TallyLabeled, TallyLocalLabel
  <2>13. ASSUME NEW c \in menu.literals, Case(c) PROVE Tally'
    <3>1. InPlace(open, open')
      BY <2>1, <2>13, NotedInPlace DEF Case
    <3> QED
      BY <2>3, <2>13, <3>1, TallyTouched DEF Case
  <2>14. CASE Default
    <3>1. {} \in SUBSET Literal /\ TRUE \in BOOLEAN
      OBVIOUS
    <3>2. InPlace(open, open')
      BY <2>1, <2>14, <3>1, NotedInPlace DEF Default
    <3> QED
      BY <2>3, <2>14, <3>2, TallyTouched DEF Default
  <2>15. ASSUME NEW k \in 1..MaxNesting, Fail(k) PROVE Tally'
    BY <2>15 DEF Fail, Tally
  <2>16. CASE Finalize
    BY <2>16 DEF Finalize, history, Tally
  <2> QED
    BY <2>1, <2>4, <2>5, <2>6, <2>7, <2>8, <2>9, <2>10, <2>11, <2>12, <2>13, <2>14,
       <2>15, <2>16 DEF Step
<1> QED
  BY <1>1, <1>2

LEMMA TallyShows ==
  ASSUME Tally
  PROVE  LabelsJudged
<1> SUFFICES ASSUME AtFileScope, ~bailed
    PROVE  {e[2] : e \in {x \in errors : x[1] = "undeclared" /\ x[3] = function}}
             = {m[1] : m \in gotos \ targets}
  BY DEF LabelsJudged
<1> DEFINE E == {x \in errors : x[1] = "undeclared" /\ x[3] = function}
           G == gotos \ targets
<1>1. PICK g : Labels(g, open, scopes, function, opened, localLabels, gotos, targets, errors)
  BY DEF Tally
<1>2. /\ gotos \in SUBSET (Label \X (1..opened))
      /\ \A x \in errors : x[1] = "undeclared" => \E l \in Label, i \in 0..opened : x = <<"undeclared", l, i>>
  BY <1>1 DEF Labels, Recorded
<1>3. \A l \in Label : <<"undeclared", l, function>> \in errors <=> \E i \in 1..opened : Missing(l, i, gotos, targets)
  <2>1. open = <<>> /\ Len(open) = 0
    BY DEF AtFileScope
  <2>2. Judged(open, function, opened, gotos, targets, errors)
    BY <1>1 DEF Labels
  <2> QED
    BY <2>1, <2>2 DEF Judged
<1>4. ASSUME NEW e \in E PROVE \E m \in G : m[1] = e[2]
  <2>1. PICK l \in Label, i \in 0..opened : e = <<"undeclared", l, i>>
    BY <1>2
  <2>2. i = function /\ e[2] = l
    BY <2>1
  <2>3. PICK j \in 1..opened : Missing(l, j, gotos, targets)
    BY <1>3, <2>1, <2>2
  <2>4. <<l, j>> \in G /\ <<l, j>>[1] = l
    BY <2>3 DEF Missing
  <2> QED
    BY <2>2, <2>4
<1>5. ASSUME NEW m \in G PROVE \E e \in E : e[2] = m[1]
  <2>1. PICK l \in Label, j \in 1..opened : m = <<l, j>>
    BY <1>2
  <2>2. m[1] = l /\ Missing(l, j, gotos, targets)
    BY <2>1 DEF Missing
  <2>3. <<"undeclared", l, function>> \in errors
    BY <1>3, <2>2
  <2>4. <<"undeclared", l, function>> \in E /\ <<"undeclared", l, function>>[2] = l
    BY <2>3
  <2> QED
    BY <2>2, <2>4
<1> HIDE DEF E, G
<1>6. {e[2] : e \in E} = {m[1] : m \in G}
  BY <1>4, <1>5
<1> QED
  BY <1>6 DEF E, G

(* In every program, but after a statement left through an error, the      *)
(* labels reported as undeclared when a function has been analysed are the *)
(* ones some goto of it names and no statement of the construct that owns  *)
(* the label carries, __label__ in any nesting included                    *)
(* (validate_labels_in_scope, validate_local_labels_in_scope).             *)
THEOREM LabelsRight == Spec => []LabelsJudged
<1>1. Init => IInv /\ Tally
  BY InitIInv, TallyInit
<1>2. IInv /\ Tally /\ [Next]_vars => (IInv /\ Tally)'
  BY NextIInv, TallyNext
<1>3. IInv /\ Tally => LabelsJudged
  BY TallyShows
<1> QED
  BY <1>1, <1>2, <1>3, PTL DEF Spec
=============================================================================
