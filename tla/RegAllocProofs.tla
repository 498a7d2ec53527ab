--------------------------- MODULE RegAllocProofs ---------------------------
(***************************************************************************)
(* The allocator with its lists, RegAlloc, implements LinearScan, for      *)
(* every register file and every list of intervals; so what is proved of   *)
(* LinearScan holds of the code's lists too.                               *)
(***************************************************************************)
EXTENDS RegAlloc, Lemmas

\* LinearScan's lemmas, about this module's state.
L == INSTANCE LinearScanProofs WITH
       Pool   <- [c \in Class |-> Range(Allocatable[c])],
       free   <- [c \in Class |-> Range(freeList[c])],
       active <- Range(activeList)

ListsTyped == freeList \in [Class -> Seq(Reg)] /\ activeList \in Seq(1..input.n)

\* What holds between two iterations, in the code's lists.
CInv == L!IInv /\ ListsTyped /\ ListsInOrder

Sorted(list) ==
  \A p, q \in 1..Len(list) : p < q => input.end[list[p]] <= input.end[list[q]]

-----------------------------------------------------------------------------
\* LinearScan's assumptions on its constants.
LEMMA Assumptions ==
  /\ [c \in Class |-> Range(Allocatable[c])] \in [Class -> SUBSET Reg]
  /\ \A c, d \in Class :
       c # d => [e \in Class |-> Range(Allocatable[e])][c]
                  \cap [e \in Class |-> Range(Allocatable[e])][d] = {}
  /\ CalleeSaved \subseteq Reg
  /\ NoReg \notin Reg
  /\ \A f \in Inputs : L!WellFormed(f)
<1>1. \A c \in Class : Range(Allocatable[c]) \subseteq Reg
  BY AllocatableAssumption, RangeOf
<1>2. [c \in Class |-> Range(Allocatable[c])] \in [Class -> SUBSET Reg]
  BY <1>1
<1>3. \A f \in Inputs : L!WellFormed(f)
  BY InputsAssumption DEF L!WellFormed, Abs!WellFormed
<1>4. \A c, d \in Class :
        c # d => [e \in Class |-> Range(Allocatable[e])][c]
                   \cap [e \in Class |-> Range(Allocatable[e])][d] = {}
  BY AllocatableAssumption
<1> QED  BY <1>2, <1>3, <1>4, RegisterAssumption

\* The parts of the inductive invariant that the lists are read with.
LEMMA Facts ==
  ASSUME CInv
  PROVE  /\ input.n \in Nat /\ cur \in Nat /\ cur \in 1..input.n + 1
         /\ input.start \in [1..input.n -> Nat]
         /\ input.end \in [1..input.n -> Nat]
         /\ input.class \in [1..input.n -> Class]
         /\ assigned \in [1..input.n -> Reg \cup {NoReg}]
         /\ activeList \in Seq(1..input.n) /\ freeList \in [Class -> Seq(Reg)]
         /\ Range(activeList) \subseteq 1..(cur - 1)
         /\ Range(activeList) \subseteq 1..input.n
         /\ Sorted(activeList) /\ IsInjective(activeList)
         /\ \A c \in Class : IsInjective(freeList[c])
<1>1. L!TypeOK
  BY DEF CInv, L!IInv
<1>2. /\ L!WellFormed(input) /\ cur \in 1..input.n + 1
      /\ Range(activeList) \subseteq 1..(cur - 1)
      /\ assigned \in [1..input.n -> Reg \cup {NoReg}]
  BY <1>1 DEF L!TypeOK, L!Processed, L!Index
<1>3. /\ input.n \in Nat /\ input.start \in [1..input.n -> Nat]
      /\ input.end \in [1..input.n -> Nat]
      /\ input.class \in [1..input.n -> Class]
  BY <1>2 DEF L!WellFormed
<1>4. activeList \in Seq(1..input.n) /\ freeList \in [Class -> Seq(Reg)]
  BY DEF CInv, ListsTyped
<1>5. Range(activeList) \subseteq 1..input.n
  BY <1>4, RangeOf
<1>6. /\ Sorted(activeList) /\ IsInjective(activeList)
      /\ \A c \in Class : IsInjective(freeList[c])
  BY DEF CInv, ListsInOrder, Sorted
<1> QED  BY <1>2, <1>3, <1>4, <1>5, <1>6

\* Registers of active intervals: of their class's pool, none of them free,
\* and no two alike.
LEMMA Held ==
  ASSUME CInv
  PROVE  /\ \A a \in Range(activeList) :
              /\ input.class[a] \in Class
              /\ assigned[a] \in Reg
              /\ assigned[a] \notin Range(freeList[input.class[a]])
         /\ \A a, b \in Range(activeList) :
              input.class[a] = input.class[b] /\ assigned[a] = assigned[b] => a = b
<1>1. L!PoolConserved
  BY DEF CInv, L!IInv
<1>2. ASSUME NEW c \in Class
      PROVE  LET held == {a \in Range(activeList) : input.class[a] = c} IN
             /\ \A a \in held : assigned[a] \in Range(Allocatable[c])
             /\ \A a \in held : assigned[a] \notin Range(freeList[c])
             /\ \A a, b \in held : assigned[a] = assigned[b] => a = b
  BY <1>1, <1>2 DEF L!PoolConserved
<1>3. ASSUME NEW a \in Range(activeList) PROVE input.class[a] \in Class
  BY <1>3, Facts
<1>4. \A c \in Class : Range(Allocatable[c]) \subseteq Reg
  BY AllocatableAssumption, RangeOf
<1> QED  BY <1>2, <1>3, <1>4

-----------------------------------------------------------------------------
(* Expiry: retain on active and the registers put back on the pools give   *)
(* LinearScan's Alive and FreeAfter, without repetitions and in order.     *)
LEMMA AliveListFacts ==
  ASSUME CInv
  PROVE  /\ AliveList \in Seq(1..input.n)
         /\ Range(AliveList) = L!Alive
         /\ IsInjective(AliveList)
         /\ Sorted(AliveList)
<1> DEFINE A == 1..input.n
           S == 1..input.n \ Lapsed
<1>1. /\ activeList \in Seq(A) /\ input.end \in [A -> Int] /\ Sorted(activeList)
      /\ IsInjective(activeList) /\ Range(activeList) \subseteq A
  BY Facts
<1>2. Range(activeList) \cap S = L!Alive
  BY <1>1 DEF L!Alive, L!Expired, Lapsed
<1>3. /\ Kept(activeList, S) \in Seq(A)
      /\ Range(Kept(activeList, S)) = Range(activeList) \cap S
      /\ IsInjective(Kept(activeList, S))
  <2> HIDE DEF A, S
  <2> QED  BY <1>1, KeptRange
<1>4. Sorted(Kept(activeList, S))
  <2>1. \A p, q \in 1..Len(activeList) :
          p < q => input.end[activeList[p]] <= input.end[activeList[q]]
    BY <1>1 DEF Sorted
  <2> DEFINE key == input.end
  <2> HIDE DEF A, S
  <2> QED  BY <1>1, <2>1, KeptSorted DEF Sorted
<1> QED  BY <1>2, <1>3, <1>4 DEF AliveList

LEMMA FreeListFacts ==
  ASSUME CInv, NEW c \in Class
  PROVE  /\ FreeListAfter(c) \in Seq(Reg)
         /\ Range(FreeListAfter(c)) = L!FreeAfter(c)
         /\ IsInjective(FreeListAfter(c))
<1> DEFINE A == 1..input.n
           S == {a \in Lapsed : input.class[a] = c}
           gone == Kept(activeList, S)
           back == Backwards(gone, assigned)
<1>1. /\ activeList \in Seq(A) /\ IsInjective(activeList)
      /\ Range(activeList) \subseteq A
      /\ freeList[c] \in Seq(Reg) /\ IsInjective(freeList[c])
  BY Facts
<1>2. /\ gone \in Seq(A) /\ Range(gone) = Range(activeList) \cap S
      /\ IsInjective(gone)
  <2> HIDE DEF A, S
  <2> QED  BY <1>1, KeptRange
<1>3. Range(gone) = {e \in L!Expired : input.class[e] = c}
  BY <1>1, <1>2 DEF L!Expired, Lapsed
<1>4. /\ \A a \in Range(gone) : assigned[a] \in Reg
      /\ \A a \in Range(gone) : assigned[a] \notin Range(freeList[c])
      /\ \A a, b \in Range(gone) : assigned[a] = assigned[b] => a = b
  BY <1>3, Held DEF L!Expired
<1>5. /\ back \in Seq(Reg)
      /\ Range(back) = {assigned[a] : a \in Range(gone)}
      /\ IsInjective(back)
  <2> HIDE DEF gone, A
  <2>1. gone \in Seq(A) /\ \A a \in Range(gone) : assigned[a] \in Reg
    BY <1>2, <1>4
  <2>2. /\ back \in Seq(Reg)
        /\ Range(back) = {assigned[a] : a \in Range(gone)}
        /\ IsInjective(gone)
             /\ (\A a, b \in Range(gone) : assigned[a] = assigned[b] => a = b)
             => IsInjective(back)
    BY <2>1, BackwardsRange
  <2> QED  BY <1>2, <1>4, <2>2
<1>6. FreeListAfter(c) = freeList[c] \o back
  BY DEF FreeListAfter, Backwards
<1>7. L!FreeAfter(c) = Range(freeList[c]) \cup Range(back)
  <2> HIDE DEF gone, back
  <2> QED  BY <1>3, <1>5 DEF L!FreeAfter
<1>8. Range(freeList[c]) \cap Range(back) = {}
  <2> HIDE DEF gone, back
  <2> QED  BY <1>4, <1>5
<1> HIDE DEF gone, back
<1> QED  BY <1>1, <1>5, <1>6, <1>7, <1>8, ConcatRange

-----------------------------------------------------------------------------
(* The position popped from the pool of the current interval's class is a  *)
(* usable register's, if there is one.                                     *)
LEMMA PopFacts ==
  ASSUME CInv, cur <= input.n
  PROVE  LET pool == FreeListAfter(input.class[cur])
             at == PopPosition(pool)
         IN  /\ at # 0 => at \in 1..Len(pool) /\ pool[at] \in L!Usable
             /\ at = 0 => L!Usable = {}
<1> DEFINE c == input.class[cur]
           pool == FreeListAfter(c)
           at == PopPosition(pool)
<1>1. c \in Class
  BY Facts
<1>2. pool \in Seq(Reg) /\ Range(pool) = L!FreeAfter(c)
  BY <1>1, FreeListFacts
<1> HIDE DEF pool
<1>3. /\ Len(pool) \in Nat
      /\ \A x : x \in L!FreeAfter(c) <=> \E i \in 1..Len(pool) : pool[i] = x
  BY <1>2, RangeOf
<1>4. L!Usable = {r \in L!FreeAfter(c) : Crosses(cur) => r \in CalleeSaved}
  BY DEF L!Usable, L!Crosses, Crosses
<1>5. CASE ~Crosses(cur)
  <2>1. at = Len(pool)
    BY <1>5 DEF PopPosition
  <2>2. at # 0 => at \in 1..Len(pool)
    BY <1>3, <2>1
  <2>3. at = 0 => L!FreeAfter(c) = {}
    BY <1>3, <2>1
  <2> QED  BY <1>3, <1>4, <1>5, <2>2, <2>3 DEF pool
<1>6. CASE Crosses(cur)
  <2> DEFINE I == {i \in 1..Len(pool) : pool[i] \in CalleeSaved}
  <2>1. at = IF I # {} THEN CHOOSE x \in I : \A y \in I : x <= y ELSE 0
    BY <1>6 DEF PopPosition, SelectInSeq, Min
  <2>2. I \in SUBSET Nat /\ \A i \in I : i # 0
    OBVIOUS
  <2>3. I # {} => at \in I
    <3> HIDE DEF I, at
    <3>1. I # {} => \E x \in I : \A y \in I : x <= y
      BY <2>2, Least
    <3> QED  BY <2>1, <3>1
  <2> HIDE DEF at
  <2>4. at # 0 <=> I # {}
    BY <2>1, <2>2, <2>3
  <2>5. I = {} => L!Usable = {}
    BY <1>3, <1>4, <1>6
  <2>6. at \in I => at \in 1..Len(pool) /\ pool[at] \in L!Usable
    BY <1>3, <1>4
  <2> HIDE DEF I
  <2> QED  BY <2>3, <2>4, <2>5, <2>6 DEF at, pool
<1> QED  BY <1>5, <1>6

(* active.insert keeps the active list sorted by end.                      *)
LEMMA InsertByEndFacts ==
  ASSUME CInv, NEW list \in Seq(1..input.n), NEW k \in 1..input.n, Sorted(list)
  PROVE  /\ InsertByEnd(list, k) \in Seq(1..input.n)
         /\ Range(InsertByEnd(list, k)) = Range(list) \cup {k}
         /\ IsInjective(list) /\ k \notin Range(list)
              => IsInjective(InsertByEnd(list, k))
         /\ Sorted(InsertByEnd(list, k))
<1> DEFINE A == 1..input.n
           later == {p \in 1..Len(list) : input.end[list[p]] > input.end[k]}
           at == IF later = {} THEN Len(list) + 1
                 ELSE CHOOSE p \in later : \A q \in later : p <= q
<1>1. InsertByEnd(list, k) = InsertAt(list, at, k)
  BY DEF InsertByEnd
<1>2. /\ list \in Seq(A) /\ k \in A /\ input.end \in [A -> Int] /\ Len(list) \in Nat
      /\ \A p \in 1..Len(list) : list[p] \in A
  <2>1. input.end \in [A -> Int]
    BY Facts
  <2>2. list \in Seq(A) /\ k \in A
    OBVIOUS
  <2> HIDE DEF A
  <2>3. Len(list) \in Nat /\ \A p \in 1..Len(list) : list[p] \in A
    BY ONLY <2>2
  <2> QED  BY ONLY <2>1, <2>2, <2>3
<1>3. later \in SUBSET Nat /\ later \subseteq 1..Len(list)
  OBVIOUS
<1>4. /\ later = {} => at = Len(list) + 1
      /\ later # {} => at \in later /\ \A q \in later : at <= q
  <2> HIDE DEF later
  <2>1. later # {} => \E p \in later : \A q \in later : p <= q
    BY <1>3, Least
  <2> QED  BY <2>1
<1> HIDE DEF at
<1>5. at \in 1..Len(list) + 1
  BY <1>2, <1>3, <1>4
<1>6. SortedBy(list, input.end)
  BY DEF Sorted, SortedBy
<1>7. Fits(list, at, k, input.end)
  <2>1. ASSUME NEW p \in 1..Len(list), p < at
        PROVE  input.end[list[p]] <= input.end[k]
    <3>1. p \notin later
      BY <1>2, <1>4, <1>5, <2>1
    <3>2. input.end[list[p]] \in Int /\ input.end[k] \in Int
      BY <1>2
    <3> QED  BY <3>1, <3>2
  <2>2. ASSUME NEW p \in 1..Len(list), p >= at
        PROVE  input.end[k] <= input.end[list[p]]
    <3>1. at \in later
      BY <1>2, <1>4, <2>2
    <3>2. input.end[list[at]] <= input.end[list[p]]
      BY <1>2, <1>3, <2>2, <3>1 DEF Sorted
    <3>3. /\ input.end[list[p]] \in Int /\ input.end[list[at]] \in Int
          /\ input.end[k] \in Int /\ input.end[list[at]] > input.end[k]
      BY <1>2, <3>1
    <3> QED  BY <3>2, <3>3
  <2> QED  BY <2>1, <2>2 DEF Fits
<1>8. SortedBy(InsertAt(list, at, k), input.end)
  <2> HIDE DEF A
  <2> QED  BY <1>2, <1>5, <1>6, <1>7, InsertSorted
<1>9. /\ InsertAt(list, at, k) \in Seq(A)
      /\ Range(InsertAt(list, at, k)) = Range(list) \cup {k}
      /\ IsInjective(list) /\ k \notin Range(list)
           => IsInjective(InsertAt(list, at, k))
  <2> HIDE DEF A
  <2> QED  BY <1>2, <1>5, InsertAtRange
<1> QED  BY <1>1, <1>8, <1>9 DEF Sorted, SortedBy

(* max_by_key on the active intervals of the class finds a farthest one.   *)
LEMMA CandidateFacts ==
  ASSUME CInv, cur <= input.n
  PROVE  /\ SpillCandidate # 0 => SpillCandidate \in L!Farthest
         /\ SpillCandidate = 0 => L!Farthest = {}
<1> DEFINE list == AliveList
           same == {p \in 1..Len(list) : input.class[list[p]] = input.class[cur]}
           best == {p \in same : \A q \in same :
                      /\ input.end[list[q]] <= input.end[list[p]]
                      /\ input.end[list[q]] = input.end[list[p]] => q <= p}
           far == list[CHOOSE p \in best : TRUE]
           alike == {a \in L!Alive : input.class[a] = input.class[cur]}
<1>1. SpillCandidate = IF same = {} THEN 0 ELSE far
  BY DEF SpillCandidate
<1>2. L!Farthest = {a \in alike : \A b \in alike : input.end[b] <= input.end[a]}
  BY DEF L!Farthest
<1>3. list \in Seq(1..input.n) /\ Range(list) = L!Alive /\ Sorted(list)
  BY AliveListFacts
<1> HIDE DEF list
<1>4. /\ Len(list) \in Nat
      /\ \A p \in 1..Len(list) : list[p] \in 1..input.n
      /\ \A x : x \in L!Alive <=> \E p \in 1..Len(list) : list[p] = x
  BY <1>3, RangeOf
<1>5. \A x : x \in alike <=> \E p \in same : list[p] = x
  BY <1>4
<1>6. CASE same = {}
  <2>1. alike = {}
    BY <1>5, <1>6
  <2> QED  BY <1>1, <1>2, <1>6, <2>1
<1>7. CASE same # {}
  <2>1. \A p \in 1..Len(list) : input.end[list[p]] \in Nat
    BY <1>4, Facts
  <2>2. PICK p \in same : \A q \in same : q <= p
    <3>1. same \in SUBSET (0..Len(list))
      BY <1>4
    <3> HIDE DEF same
    <3> QED  BY <1>4, <1>7, <3>1, Greatest
  <2>3. p \in best
    <3> SUFFICES ASSUME NEW q \in same
                 PROVE  input.end[list[q]] <= input.end[list[p]]
      BY <2>2
    <3>1. q <= p /\ q \in Int /\ p \in Int
      BY <2>2
    <3>2. CASE q < p
      BY <1>3, <3>2 DEF Sorted
    <3>3. CASE q = p
      BY <2>1, <3>3
    <3> QED  BY <3>1, <3>2, <3>3
  <2>4. (CHOOSE b \in best : TRUE) \in best
    BY <2>3
  <2>5. PICK b \in best : far = list[b]
    BY <2>4
  <2>6. b \in same /\ \A q \in same : input.end[list[q]] <= input.end[list[b]]
    BY <2>5
  <2> HIDE DEF same, best, far, alike
  <2>7. far \in alike /\ \A a \in alike : input.end[a] <= input.end[far]
    BY <1>5, <2>5, <2>6
  <2>8. far # 0
    <3>1. far \in 1..input.n
      BY <1>4, <2>5, <2>6 DEF same
    <3> QED  BY <3>1
  <2> QED  BY <1>1, <1>2, <1>7, <2>7, <2>8
<1> QED  BY <1>6, <1>7

-----------------------------------------------------------------------------
(* Each branch of the loop is the branch of LinearScan, and leaves the     *)
(* lists in order.                                                         *)
LEMMA AssignFreeStep ==
  ASSUME CInv, AssignFree
  PROVE  L!AssignFree /\ ListsTyped' /\ ListsInOrder'
<1> DEFINE c == input.class[cur]
           pool == FreeListAfter(c)
           at == PopPosition(pool)
<1>1. /\ cur <= input.n /\ at # 0
      /\ assigned' = [assigned EXCEPT ![cur] = pool[at]]
      /\ freeList' = [d \in Class |-> IF d = c THEN RemoveAt(pool, at)
                                      ELSE FreeListAfter(d)]
      /\ NoteCalleeSaved(pool[at])
      /\ activeList' = InsertByEnd(AliveList, cur)
      /\ cur' = cur + 1
      /\ UNCHANGED <<input, slot, slots, frame>>
  BY DEF AssignFree
<1>2. at \in 1..Len(pool) /\ pool[at] \in L!Usable
  BY <1>1, PopFacts
<1>3. c \in Class /\ cur \in 1..input.n
  BY <1>1, Facts
<1>4. /\ pool \in Seq(Reg) /\ Range(pool) = L!FreeAfter(c) /\ IsInjective(pool)
      /\ \A d \in Class : /\ FreeListAfter(d) \in Seq(Reg)
                          /\ Range(FreeListAfter(d)) = L!FreeAfter(d)
                          /\ IsInjective(FreeListAfter(d))
  BY <1>3, FreeListFacts
<1> HIDE DEF c, pool, at
<1>5. /\ RemoveAt(pool, at) \in Seq(Reg) /\ IsInjective(RemoveAt(pool, at))
      /\ Range(RemoveAt(pool, at)) = Range(pool) \ {pool[at]}
  BY <1>2, <1>4, RemoveAtRange
<1>6. /\ freeList' \in [Class -> Seq(Reg)]
      /\ \A d \in Class : IsInjective(freeList'[d])
      /\ \A d \in Class : Range(freeList'[d]) =
            IF d = c THEN L!FreeAfter(d) \ {pool[at]} ELSE L!FreeAfter(d)
  BY <1>1, <1>4, <1>5
<1>7. /\ AliveList \in Seq(1..input.n) /\ Range(AliveList) = L!Alive
      /\ IsInjective(AliveList) /\ Sorted(AliveList)
  BY AliveListFacts
<1>8. cur \notin Range(AliveList)
  <2>1. L!Alive \subseteq 1..cur - 1
    BY Facts DEF L!Alive
  <2> QED  BY <1>3, <1>7, <2>1
<1>9. /\ activeList' \in Seq(1..input.n) /\ Range(activeList') = L!Alive \cup {cur}
      /\ IsInjective(activeList') /\ Sorted(activeList')
  BY <1>1, <1>3, <1>7, <1>8, InsertByEndFacts
<1>10. L!AssignFree
  <2>1. [d \in Class |-> Range(freeList[d])]' =
          [d \in Class |-> IF d = c THEN L!FreeAfter(d) \ {pool[at]}
                            ELSE L!FreeAfter(d)]
    BY <1>6
  <2>2. L!NoteCalleeSaved(pool[at])
    BY <1>1 DEF NoteCalleeSaved, L!NoteCalleeSaved
  <2>3. Range(activeList)' = L!Alive \cup {cur}
    BY <1>9
  <2> QED  BY <1>1, <1>2, <2>1, <2>2, <2>3 DEF L!AssignFree, c
<1>11. ListsTyped' /\ ListsInOrder'
  BY <1>1, <1>6, <1>9 DEF ListsTyped, ListsInOrder, Sorted
<1> QED  BY <1>10, <1>11

LEMMA PoolsAfterExpiry ==
  ASSUME CInv, freeList' = [c \in Class |-> FreeListAfter(c)]
  PROVE  /\ freeList' \in [Class -> Seq(Reg)]
         /\ \A c \in Class : IsInjective(freeList'[c])
         /\ [c \in Class |-> Range(freeList[c])]' = [c \in Class |-> L!FreeAfter(c)]
<1>1. \A c \in Class : /\ FreeListAfter(c) \in Seq(Reg)
                      /\ Range(FreeListAfter(c)) = L!FreeAfter(c)
                      /\ IsInjective(FreeListAfter(c))
  BY FreeListFacts
<1>2. \A c \in Class : freeList'[c] = FreeListAfter(c)
  OBVIOUS
<1>3. [c \in Class |-> Range(freeList[c])]' = [c \in Class |-> L!FreeAfter(c)]
  BY <1>1, <1>2
<1> QED  BY <1>1, <1>2, <1>3

LEMMA EvictFarthestStep ==
  ASSUME CInv, EvictFarthest
  PROVE  L!EvictFarthest /\ ListsTyped' /\ ListsInOrder'
<1> DEFINE far == SpillCandidate
           rest == Kept(AliveList, 1..input.n \ {far})
<1>1. /\ cur <= input.n /\ PoolEmpty /\ far # 0
      /\ input.end[far] > input.end[cur]
      /\ Spill(far)
      /\ assigned' = [assigned EXCEPT ![far] = NoReg, ![cur] = assigned[far]]
      /\ NoteCalleeSaved(assigned[far])
      /\ activeList' = InsertByEnd(rest, cur)
      /\ freeList' = [c \in Class |-> FreeListAfter(c)]
      /\ cur' = cur + 1
      /\ UNCHANGED input
  BY DEF EvictFarthest
<1>2. L!Usable = {}
  BY <1>1, PopFacts DEF PoolEmpty
<1>3. far \in L!Farthest
  BY <1>1, CandidateFacts
<1>4. cur \in 1..input.n
  BY <1>1, Facts
<1>5. /\ AliveList \in Seq(1..input.n) /\ Range(AliveList) = L!Alive
      /\ IsInjective(AliveList) /\ Sorted(AliveList)
  BY AliveListFacts
<1> HIDE DEF far
<1>6. /\ rest \in Seq(1..input.n) /\ IsInjective(rest)
      /\ Range(rest) = L!Alive \ {far}
  <2>1. Range(AliveList) \subseteq 1..input.n
    BY <1>5, RangeOf
  <2>2. /\ rest \in Seq(1..input.n) /\ IsInjective(rest)
        /\ Range(rest) = Range(AliveList) \cap (1..input.n \ {far})
    BY <1>5, KeptRange
  <2> QED  BY <1>5, <2>1, <2>2
<1>7. Sorted(rest)
  <2>1. input.end \in [1..input.n -> Int]
    BY Facts
  <2>2. \A p, q \in 1..Len(AliveList) :
          p < q => input.end[AliveList[p]] <= input.end[AliveList[q]]
    BY <1>5 DEF Sorted
  <2> QED  BY <1>5, <2>1, <2>2, KeptSorted DEF Sorted
<1> HIDE DEF rest
<1>8. cur \notin Range(rest)
  <2>1. L!Alive \subseteq 1..cur - 1
    BY Facts DEF L!Alive
  <2> QED  BY <1>4, <1>6, <2>1
<1>9. /\ activeList' \in Seq(1..input.n)
      /\ Range(activeList') = (L!Alive \ {far}) \cup {cur}
      /\ IsInjective(activeList') /\ Sorted(activeList')
  BY <1>1, <1>4, <1>6, <1>7, <1>8, InsertByEndFacts
<1>10. /\ freeList' \in [Class -> Seq(Reg)]
       /\ \A c \in Class : IsInjective(freeList'[c])
       /\ [c \in Class |-> Range(freeList[c])]' = [c \in Class |-> L!FreeAfter(c)]
  BY <1>1, PoolsAfterExpiry
<1>11. L!EvictFarthest
  <2>1. L!Spill(far)
    BY <1>1 DEF Spill, L!Spill
  <2>2. L!HandOver(far)
    BY <1>1 DEF L!HandOver
  <2>3. L!NoteCalleeSaved(assigned[far])
    BY <1>1 DEF NoteCalleeSaved, L!NoteCalleeSaved
  <2>4. Range(activeList)' = (L!Alive \ {far}) \cup {cur}
    BY <1>9
  <2> QED
    BY <1>1, <1>2, <1>3, <1>10, <2>1, <2>2, <2>3, <2>4 DEF L!EvictFarthest
<1>12. ListsTyped' /\ ListsInOrder'
  BY <1>1, <1>9, <1>10 DEF ListsTyped, ListsInOrder, Sorted
<1> QED  BY <1>11, <1>12

LEMMA SpillCurrentStep ==
  ASSUME CInv, SpillCurrent
  PROVE  L!SpillCurrent /\ ListsTyped' /\ ListsInOrder'
<1> DEFINE far == SpillCandidate
<1>1. /\ cur <= input.n /\ PoolEmpty
      /\ far # 0 => input.end[far] <= input.end[cur]
      /\ Spill(cur)
      /\ freeList' = [c \in Class |-> FreeListAfter(c)]
      /\ activeList' = AliveList
      /\ cur' = cur + 1
      /\ UNCHANGED <<input, assigned, calleeUsed>>
  BY DEF SpillCurrent
<1>2. L!Usable = {}
  BY <1>1, PopFacts DEF PoolEmpty
<1>3. ASSUME NEW a \in L!Farthest PROVE input.end[a] <= input.end[cur]
  <2>1. far # 0 /\ far \in L!Farthest
    BY <1>1, <1>3, CandidateFacts
  <2> HIDE DEF far
  <2>2. input.end[a] <= input.end[far] /\ a \in L!Alive /\ far \in L!Alive
    BY <1>3, <2>1 DEF L!Farthest
  <2>3. L!Alive \subseteq 1..input.n
    BY Facts DEF L!Alive
  <2>4. input.end[a] \in Nat /\ input.end[far] \in Nat /\ input.end[cur] \in Nat
    <3>1. cur \in 1..input.n /\ input.end \in [1..input.n -> Nat]
      BY <1>1, Facts
    <3> QED  BY <2>2, <2>3, <3>1
  <2> QED  BY <1>1, <2>1, <2>2, <2>4
<1>4. /\ AliveList \in Seq(1..input.n) /\ Range(AliveList) = L!Alive
      /\ IsInjective(AliveList) /\ Sorted(AliveList)
  BY AliveListFacts
<1>5. /\ freeList' \in [Class -> Seq(Reg)]
      /\ \A c \in Class : IsInjective(freeList'[c])
      /\ [c \in Class |-> Range(freeList[c])]' = [c \in Class |-> L!FreeAfter(c)]
  BY <1>1, PoolsAfterExpiry
<1>6. L!SpillCurrent
  <2>1. L!Spill(cur)
    BY <1>1 DEF Spill, L!Spill
  <2>2. Range(activeList)' = L!Alive
    BY <1>1, <1>4
  <2> QED  BY <1>1, <1>2, <1>3, <1>5, <2>1, <2>2 DEF L!SpillCurrent
<1>7. ListsTyped' /\ ListsInOrder'
  BY <1>1, <1>4, <1>5 DEF ListsTyped, ListsInOrder, Sorted
<1> QED  BY <1>6, <1>7

-----------------------------------------------------------------------------
LEMMA InitCInv == Init => CInv
<1> SUFFICES ASSUME Init PROVE CInv
  OBVIOUS
<1>1. /\ input \in Inputs /\ cur = 1
      /\ freeList = [c \in Class |-> Reverse(Allocatable[c])]
      /\ activeList = <<>>
      /\ assigned = [k \in 1..input.n |-> NoReg]
      /\ slot = [k \in 1..input.n |-> 0]
      /\ slots = <<>> /\ frame = 0 /\ calleeUsed = {}
  BY DEF Init
<1>2. ASSUME NEW c \in Class
      PROVE  /\ freeList[c] \in Seq(Reg) /\ IsInjective(freeList[c])
             /\ Range(freeList[c]) = Range(Allocatable[c])
  <2>1. Allocatable[c] \in Seq(Reg) /\ IsInjective(Allocatable[c])
    BY <1>2, AllocatableAssumption
  <2>2. freeList[c] = Reverse(Allocatable[c])
    BY <1>1, <1>2
  <2> QED  BY <2>1, <2>2, ReverseRange
<1>3. [c \in Class |-> Range(freeList[c])] = [c \in Class |-> Range(Allocatable[c])]
  BY <1>2
<1>4. Range(activeList) = {}
  BY <1>1 DEF Range
<1>5. L!Init
  BY <1>1, <1>3, <1>4 DEF L!Init, L!Start
<1>6. L!IInv
  BY <1>5, Assumptions, L!InitIInv
<1>7. ListsTyped
  BY <1>1, <1>2 DEF ListsTyped
<1>8. ListsInOrder
  <2>1. IsInjective(activeList) /\ Len(activeList) = 0
    BY <1>1 DEF IsInjective
  <2> QED  BY <1>2, <2>1 DEF ListsInOrder
<1> QED  BY <1>6, <1>7, <1>8 DEF CInv

\* An iteration of the code's loop keeps the invariant, and is one of
\* LinearScan's.
LEMMA StepCInv == CInv /\ Next => L!Next /\ CInv'
<1> SUFFICES ASSUME CInv, Next PROVE L!Next /\ CInv'
  OBVIOUS
<1>0. L!IInv
  BY DEF CInv
<1>1. CASE AssignFree
  <2>1. L!AssignFree /\ ListsTyped' /\ ListsInOrder'
    BY <1>1, AssignFreeStep
  <2>2. L!IInv'
    BY <1>0, <2>1, Assumptions, L!AssignFreeIInv
  <2> QED  BY <2>1, <2>2 DEF CInv, L!Next
<1>2. CASE EvictFarthest
  <2>1. L!EvictFarthest /\ ListsTyped' /\ ListsInOrder'
    BY <1>2, EvictFarthestStep
  <2>2. L!IInv'
    BY <1>0, <2>1, Assumptions, L!EvictFarthestIInv
  <2> QED  BY <2>1, <2>2 DEF CInv, L!Next
<1>3. CASE SpillCurrent
  <2>1. L!SpillCurrent /\ ListsTyped' /\ ListsInOrder'
    BY <1>3, SpillCurrentStep
  <2>2. L!IInv'
    BY <1>0, <2>1, Assumptions, L!SpillCurrentIInv
  <2> QED  BY <2>1, <2>2 DEF CInv, L!Next
<1> QED  BY <1>1, <1>2, <1>3 DEF Next

LEMMA StutterCInv == CInv /\ UNCHANGED vars => CInv'
<1> SUFFICES ASSUME CInv, UNCHANGED vars PROVE CInv'
  OBVIOUS
<1>1. UNCHANGED <<input, cur, freeList, activeList, assigned, slot, slots, frame,
                  calleeUsed>>
  BY DEF vars
<1>2. ListsTyped' /\ ListsInOrder'
  BY <1>1 DEF CInv, ListsTyped, ListsInOrder
<1>3. L!IInv
  BY DEF CInv
<1>4. L!TypeOK'
  BY <1>1, <1>3 DEF L!IInv, L!TypeOK, L!WellFormed, L!Index, L!Processed, L!SlotRecord
<1>5. L!PoolConserved'
  BY <1>1, <1>3 DEF L!IInv, L!PoolConserved
<1>6. L!AheadUntouched' /\ L!RetiredEnded'
  BY <1>1, <1>3 DEF L!IInv, L!AheadUntouched, L!RetiredEnded, L!Index, L!Processed
<1>7. L!NoInterference' /\ L!CallSafe' /\ L!PrologueSaves' /\ L!ExactlyOneHome'
  BY <1>1, <1>3 DEF L!IInv, L!NoInterference, L!CallSafe, L!PrologueSaves,
     L!ExactlyOneHome, L!Processed, L!Overlap, L!Crosses
<1>8. L!SlotsDisjoint'
  BY <1>1, <1>3 DEF L!IInv, L!SlotsDisjoint, L!Index
<1>9. L!IInv'
  BY <1>4, <1>5, <1>6, <1>7, <1>8 DEF L!IInv
<1> QED  BY <1>2, <1>9 DEF CInv

(* The strengthening is inductive over the loop with its lists.            *)
THEOREM Inductive == Spec => []CInv
<1>1. CInv /\ [Next]_vars => CInv'
  BY StepCInv, StutterCInv
<1> QED  BY <1>1, InitCInv, PTL DEF Spec

(* active stays sorted by interval end, over any insertions, expiries and  *)
(* evictions, and no list ever holds a register or interval twice.         *)
THEOREM ListsStayInOrder == Spec => []ListsInOrder
<1>1. CInv => ListsInOrder
  BY DEF CInv
<1> QED  BY <1>1, Inductive, PTL

(* Every iteration of allocate_registers, whatever the order its lists     *)
(* have come into, is an iteration of LinearScan.                          *)
THEOREM Refinement == Spec => RefinesLinearScan
<1>1. Init => Abs!Start
  <2> SUFFICES ASSUME Init PROVE Abs!Start
    OBVIOUS
  <2>1. \A c \in Class : Range(freeList[c]) = Range(Allocatable[c])
    BY AllocatableAssumption, ReverseRange DEF Init
  <2>2. Range(activeList) = {}
    BY DEF Init, Range
  <2> QED  BY <2>1, <2>2 DEF Init, Abs!Start
<1>2. CInv /\ [Next]_vars => [Abs!Next]_(Abs!vars)
  <2>1. CInv /\ Next => Abs!Next
    <3> SUFFICES ASSUME L!Next PROVE Abs!Next
      BY StepCInv
    <3> QED
      BY DEF L!Next, L!AssignFree, L!EvictFarthest, L!SpillCurrent, L!Usable,
         L!FreeAfter, L!Expired, L!Alive, L!Farthest, L!Spill, L!HandOver,
         L!NoteCalleeSaved, L!Crosses,
         Abs!Next, Abs!AssignFree, Abs!EvictFarthest, Abs!SpillCurrent,
         Abs!Usable, Abs!FreeAfter, Abs!Expired, Abs!Alive, Abs!Farthest,
         Abs!Spill, Abs!HandOver, Abs!NoteCalleeSaved, Abs!Crosses
  <2>2. UNCHANGED vars => UNCHANGED Abs!vars
    BY DEF vars, Abs!vars
  <2> QED  BY <2>1, <2>2
<1> QED  BY <1>1, <1>2, Inductive, PTL DEF Spec, RefinesLinearScan

(* So what LinearScan promises holds of the code's own lists: no register  *)
(* for two overlapping intervals, no value lost in a call, every saved     *)
(* register reported, one home each, disjoint slots.                       *)
Promises ==
  /\ Abs!NoInterference
  /\ Abs!CallSafe
  /\ Abs!PrologueSaves
  /\ Abs!ExactlyOneHome
  /\ Abs!SlotsDisjoint

THEOREM CodeKeepsPromises == Spec => []Promises
<1>1. CInv => Promises
  BY DEF CInv, L!IInv, Promises, L!NoInterference, Abs!NoInterference, L!CallSafe,
     Abs!CallSafe, L!PrologueSaves, Abs!PrologueSaves, L!ExactlyOneHome,
     Abs!ExactlyOneHome, L!SlotsDisjoint, Abs!SlotsDisjoint, L!Processed,
     Abs!Processed, L!Overlap, Abs!Overlap, L!Crosses, Abs!Crosses, L!Index, Abs!Index
<1> QED  BY <1>1, Inductive, PTL
=============================================================================
