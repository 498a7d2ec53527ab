-------------------------- MODULE LinearScanProofs --------------------------
(***************************************************************************)
(* The safety properties of LinearScan, for every register file and every  *)
(* list of intervals.                                                      *)
(***************************************************************************)
EXTENDS LinearScan, FiniteSetTheorems, TLAPS

(* What is true of the intervals between two iterations, besides the       *)
(* properties themselves: those still ahead have no home yet, and a        *)
(* register leaves the active list only when its interval has ended.       *)
AheadUntouched ==
  \A k \in Index : k >= cur => assigned[k] = NoReg /\ slot[k] = 0

RetiredEnded ==
  \A k \in Processed : assigned[k] # NoReg =>
     k \in active \/ input.end[k] < input.start[cur - 1]

IInv ==
  /\ TypeOK
  /\ PoolConserved
  /\ AheadUntouched
  /\ RetiredEnded
  /\ NoInterference
  /\ CallSafe
  /\ PrologueSaves
  /\ ExactlyOneHome
  /\ SlotsDisjoint

-----------------------------------------------------------------------------
LEMMA InitIInv == Init => IInv
<1> SUFFICES ASSUME Init PROVE IInv
  OBVIOUS
<1> USE DEF Init, Start
<1>1. WellFormed(input)
  BY InputsAssumption
<1>2. input.n \in Nat
  BY <1>1 DEF WellFormed
<1>3. Processed = {}
  BY DEF Processed
<1>4. TypeOK
  <2>1. slots \in Seq(SlotRecord)
    OBVIOUS
  <2>2. cur \in 1..(input.n + 1)
    BY <1>2
  <2>3. free \in [Class -> SUBSET Reg]
    BY PoolAssumption
  <2> QED  BY <1>1, <2>1, <2>2, <2>3 DEF TypeOK, Index
<1>5. PoolConserved
  BY DEF PoolConserved
<1>6. SlotsDisjoint
  BY DEF SlotsDisjoint, Index
<1> QED
  BY <1>3, <1>4, <1>5, <1>6 DEF IInv, AheadUntouched, RetiredEnded,
     NoInterference, CallSafe, PrologueSaves, ExactlyOneHome, Index

-----------------------------------------------------------------------------
(* What the head of an iteration leaves: the current interval is in no     *)
(* list, the intervals still active reach it, every other processed one    *)
(* ended before it, and each register is free or held by one active        *)
(* interval.                                                               *)
LEMMA ExpiryFacts ==
  ASSUME IInv, cur <= input.n
  PROVE  /\ cur \in Index /\ cur \in Nat /\ cur \notin active
         /\ Processed \subseteq Index /\ active \subseteq Index
         /\ Alive \subseteq active
         /\ \A k \in Processed : /\ k < cur
                                 /\ input.start[k] <= input.start[cur]
         /\ \A k \in Processed : assigned[k] # NoReg =>
               k \in Alive \/ input.end[k] < input.start[cur]
         /\ \A a \in Alive : /\ assigned[a] \in Reg
                             /\ assigned[a] \in Pool[input.class[a]]
                             /\ assigned[a] \notin FreeAfter(input.class[a])
         /\ \A a, b \in Alive : assigned[a] = assigned[b] => a = b
         /\ \A c \in Class :
               FreeAfter(c) \cup
                 {assigned[a] : a \in {b \in Alive : input.class[b] = c}} = Pool[c]
<1>1. /\ WellFormed(input) /\ cur \in 1..(input.n + 1)
      /\ input.n \in Nat /\ active \subseteq Processed
      /\ assigned \in [Index -> Reg \cup {NoReg}]
  BY DEF IInv, TypeOK, WellFormed
<1>2. cur \in Index /\ cur \in Nat /\ Processed \subseteq Index
  BY <1>1 DEF Index, Processed
<1>3. /\ cur \notin active /\ active \subseteq Index /\ Alive \subseteq active
  BY <1>1, <1>2 DEF Processed, Alive
<1>4. /\ input.start \in [Index -> Nat] /\ input.end \in [Index -> Nat]
      /\ input.class \in [Index -> Class]
      /\ \A j, k \in Index : j <= k => input.start[j] <= input.start[k]
  BY <1>1 DEF WellFormed, Index
<1>5. \A k \in Processed : k < cur /\ input.start[k] <= input.start[cur]
  BY <1>1, <1>2, <1>4 DEF Processed
<1>6. ASSUME NEW k \in Processed, assigned[k] # NoReg, k \notin Alive
      PROVE  input.end[k] < input.start[cur]
  <2>1. CASE k \in active
    BY <1>6, <2>1 DEF Alive, Expired
  <2>2. CASE k \notin active
    <3>1. input.end[k] < input.start[cur - 1]
      BY <1>6, <2>2 DEF IInv, RetiredEnded
    <3>2. cur - 1 \in Processed
      BY <1>2, <1>6 DEF Processed
    <3> QED  BY <3>1, <3>2, <1>2, <1>4, <1>5, <1>6
  <2> QED  BY <2>1, <2>2
<1>7. ASSUME NEW a \in active
      PROVE  /\ assigned[a] \in Pool[input.class[a]] /\ assigned[a] \in Reg
             /\ assigned[a] \notin free[input.class[a]]
  <2>1. input.class[a] \in Class
    BY <1>3, <1>4, <1>7
  <2>2. assigned[a] \in Pool[input.class[a]] /\ assigned[a] \notin free[input.class[a]]
    BY <1>7, <2>1 DEF IInv, PoolConserved
  <2> QED  BY <2>1, <2>2, PoolAssumption
<1>8. ASSUME NEW a \in active, NEW b \in active, assigned[a] = assigned[b]
      PROVE  a = b
  <2>1. input.class[a] \in Class /\ input.class[b] \in Class
    BY <1>3, <1>4, <1>8
  <2>2. input.class[a] = input.class[b]
    BY <1>7, <1>8, <2>1, PoolAssumption
  <2> QED  BY <1>8, <2>1, <2>2 DEF IInv, PoolConserved
<1>9. ASSUME NEW a \in Alive
      PROVE  assigned[a] \notin FreeAfter(input.class[a])
  BY <1>7, <1>8, <1>9 DEF Alive, Expired, FreeAfter
<1>10. ASSUME NEW c \in Class
       PROVE  FreeAfter(c) \cup
                {assigned[a] : a \in {b \in Alive : input.class[b] = c}} = Pool[c]
  <2>1. free[c] \cup {assigned[a] : a \in {b \in active : input.class[b] = c}} = Pool[c]
    BY <1>10 DEF IInv, PoolConserved
  <2> QED  BY <2>1 DEF Alive, Expired, FreeAfter
<1> QED
  BY <1>2, <1>3, <1>5, <1>6, <1>7, <1>8, <1>9, <1>10

\* The types of an input's fields, over its indices.
LEMMA InputTypes ==
  ASSUME TypeOK
  PROVE  /\ input.n \in Nat /\ cur \in 1..(input.n + 1)
         /\ input.start \in [Index -> Nat] /\ input.end \in [Index -> Nat]
         /\ input.class \in [Index -> Class]
         /\ input.size \in [Index -> Nat \ {0}]
         /\ input.calls \subseteq Nat
         /\ \A k \in Index : input.start[k] <= input.end[k]
BY DEF TypeOK, WellFormed, Index

-----------------------------------------------------------------------------
\* A register from the pool: nobody alive holds it.
LEMMA AssignFreeIInv == ASSUME IInv, AssignFree PROVE IInv'
<1> USE DEF Index
<1>0. cur <= input.n
  BY DEF AssignFree
<1>1. PICK r \in Usable :
        /\ assigned' = [assigned EXCEPT ![cur] = r]
        /\ free' = [c \in Class |-> IF c = input.class[cur]
                                    THEN FreeAfter(c) \ {r} ELSE FreeAfter(c)]
        /\ NoteCalleeSaved(r)
  BY DEF AssignFree
<1>2. /\ active' = Alive \cup {cur} /\ cur' = cur + 1
      /\ UNCHANGED <<input, slot, slots, frame>>
  BY DEF AssignFree
<1>3. TypeOK
  BY DEF IInv
<1>4. /\ cur \in Index /\ cur \in Nat /\ cur \notin active
      /\ Alive \subseteq active /\ active \subseteq Index
      /\ active \subseteq Processed /\ Processed \subseteq Index
      /\ assigned \in [Index -> Reg \cup {NoReg}]
      /\ input.class[cur] \in Class /\ input.class \in [Index -> Class]
  BY <1>0, <1>3, ExpiryFacts, InputTypes DEF TypeOK
<1>5. Processed' = Processed \cup {cur}
  BY <1>2, <1>4 DEF Processed
<1>6. /\ r \in FreeAfter(input.class[cur]) /\ r \in Pool[input.class[cur]]
      /\ r \in Reg /\ r # NoReg
      /\ Crosses(cur) => r \in CalleeSaved
  BY <1>0, <1>1, <1>4, ExpiryFacts, PoolAssumption, NoRegAssumption DEF Usable
<1>7. \A a \in Alive : assigned[a] # r
  <2> SUFFICES ASSUME NEW a \in Alive, assigned[a] = r PROVE FALSE
    OBVIOUS
  <2>1. input.class[a] \in Class /\ assigned[a] \in Pool[input.class[a]]
    BY <1>0, <1>4, ExpiryFacts
  <2>2. input.class[a] = input.class[cur]
    BY <2>1, <1>4, <1>6, PoolAssumption
  <2> QED  BY <1>0, <1>6, <2>2, ExpiryFacts
<1>8. /\ assigned'[cur] = r
      /\ \A k \in Index : k # cur => assigned'[k] = assigned[k]
      /\ \A k \in Processed : k # cur /\ assigned'[k] = assigned[k]
  BY <1>0, <1>1, <1>4, ExpiryFacts
<1>9. TypeOK'
  <2>1. free' \in [Class -> SUBSET Reg]
    BY <1>0, <1>1, <1>4, ExpiryFacts, PoolAssumption
  <2>2. cur' \in 1..(input'.n + 1)
    BY <1>2, <1>4, <1>3, InputTypes
  <2>3. calleeUsed' \subseteq CalleeSaved
    BY <1>1, <1>3 DEF NoteCalleeSaved, TypeOK
  <2> QED
    BY <1>1, <1>2, <1>3, <1>4, <1>5, <1>6, <2>1, <2>2, <2>3 DEF TypeOK
<1>10. PoolConserved'
  <2> SUFFICES ASSUME NEW c \in Class
      PROVE  LET held == {a \in active' : input'.class[a] = c} IN
             /\ free'[c] \cup {assigned'[a] : a \in held} = Pool[c]
             /\ \A a \in held : assigned'[a] \notin free'[c]
             /\ \A a, b \in held : assigned'[a] = assigned'[b] => a = b
    BY DEF PoolConserved
  <2> DEFINE old == {b \in Alive : input.class[b] = c}
  <2>1. /\ FreeAfter(c) \cup {assigned[a] : a \in old} = Pool[c]
        /\ \A a \in old : assigned[a] \notin FreeAfter(c)
        /\ \A a, b \in old : assigned[a] = assigned[b] => a = b
    BY <1>0, ExpiryFacts
  <2>2. /\ \A a \in old : assigned'[a] = assigned[a] /\ a # cur /\ assigned[a] # r
    BY <1>4, <1>7, <1>8
  <2>3. CASE c = input.class[cur]
    <3>1. {a \in active' : input'.class[a] = c} = old \cup {cur}
      BY <1>2, <2>3
    <3>2. free'[c] = FreeAfter(c) \ {r}
      BY <1>1, <2>3
    <3>3. {assigned'[a] : a \in old \cup {cur}} = {assigned[a] : a \in old} \cup {r}
      BY <1>8, <2>2
    <3> QED  BY <1>6, <1>8, <2>1, <2>2, <2>3, <3>1, <3>2, <3>3
  <2>4. CASE c # input.class[cur]
    <3>1. {a \in active' : input'.class[a] = c} = old
      BY <1>2, <2>4
    <3>2. free'[c] = FreeAfter(c)
      BY <1>1, <2>4
    <3>3. {assigned'[a] : a \in old} = {assigned[a] : a \in old}
      BY <2>2
    <3> QED  BY <2>1, <2>2, <3>1, <3>2, <3>3
  <2> QED  BY <2>3, <2>4
<1>11. AheadUntouched'
  BY <1>2, <1>4, <1>8 DEF IInv, AheadUntouched
<1>12. RetiredEnded'
  BY <1>0, <1>2, <1>4, <1>5, <1>8, ExpiryFacts DEF RetiredEnded
<1>13. NoInterference'
  <2>1. ASSUME NEW k \in Processed, assigned[k] # NoReg, assigned[k] = r
        PROVE  ~Overlap(k, cur) /\ ~Overlap(cur, k)
    <3>1. input.end[k] < input.start[cur]
      BY <1>0, <1>7, <2>1, ExpiryFacts
    <3>2. /\ input.end[k] \in Nat /\ input.start[cur] \in Nat
      BY <1>3, <1>4, <2>1, InputTypes
    <3> QED  BY <3>1, <3>2 DEF Overlap
  <2> QED  BY <1>2, <1>5, <1>8, <2>1 DEF IInv, NoInterference, Overlap
<1>14. CallSafe'
  BY <1>2, <1>5, <1>6, <1>8 DEF IInv, CallSafe, Crosses
<1>15. PrologueSaves'
  BY <1>1, <1>5, <1>8 DEF IInv, PrologueSaves, NoteCalleeSaved
<1>16. ExactlyOneHome'
  <2>1. slot[cur] = 0
    BY <1>4 DEF IInv, AheadUntouched
  <2> QED  BY <1>2, <1>5, <1>6, <1>8, <2>1 DEF IInv, ExactlyOneHome
<1>17. SlotsDisjoint'
  BY <1>2 DEF IInv, SlotsDisjoint
<1> QED
  BY <1>9, <1>10, <1>11, <1>12, <1>13, <1>14, <1>15, <1>16, <1>17 DEF IInv

-----------------------------------------------------------------------------
\* A new spill slot lies below all earlier ones.
LEMMA SpillSlots ==
  ASSUME TypeOK, SlotsDisjoint, NEW k \in Index, slot[k] = 0, Spill(k),
         UNCHANGED input
  PROVE  /\ SlotsDisjoint'
         /\ slots' \in Seq(SlotRecord) /\ frame' \in Nat
         /\ slot' \in [Index -> Nat]
         /\ slot'[k] # 0
         /\ \A j \in Index : j # k => slot'[j] = slot[j]
<1> DEFINE new == [size |-> input.size[k], offset |-> -frame - input.size[k]]
<1>1. /\ slots \in Seq(SlotRecord) /\ frame \in Nat /\ slot \in [Index -> Nat]
      /\ input.size[k] \in Nat \ {0}
  BY InputTypes DEF TypeOK
<1>2. /\ slots' = Append(slots, new) /\ frame' = frame + input.size[k]
      /\ slot' = [slot EXCEPT ![k] = Len(slots) + 1]
  BY DEF Spill
<1>3. new \in SlotRecord /\ Len(slots) \in Nat
  BY <1>1 DEF SlotRecord
<1>4. /\ slots' \in Seq(SlotRecord) /\ Len(slots') = Len(slots) + 1
      /\ slots'[Len(slots) + 1] = new
      /\ \A p \in 1..Len(slots) : slots'[p] = slots[p]
  BY <1>1, <1>2, <1>3
<1>5. /\ frame' \in Nat /\ slot' \in [Index -> Nat] /\ slot'[k] = Len(slots) + 1
      /\ \A j \in Index : j # k => slot'[j] = slot[j]
  BY <1>1, <1>2, <1>3
<1>6. \A p \in 1..Len(slots) :
        /\ slots[p].size \in Nat /\ slots[p].offset \in Int
        /\ -frame <= slots[p].offset /\ slots[p].offset + slots[p].size <= 0
  <2>1. \A p \in 1..Len(slots) : slots[p] \in SlotRecord
    BY <1>1
  <2>2. \A p \in 1..Len(slots) :
          -frame <= slots[p].offset /\ slots[p].offset + slots[p].size <= 0
    BY DEF SlotsDisjoint
  <2>3. \A p \in 1..Len(slots) : slots[p].size \in Nat /\ slots[p].offset \in Int
    BY <2>1 DEF SlotRecord
  <2> QED  BY <2>2, <2>3
<1>7. \A p, q \in 1..Len(slots') :
        p < q => slots'[q].offset + slots'[q].size <= slots'[p].offset
  <2> SUFFICES ASSUME NEW p \in 1..Len(slots'), NEW q \in 1..Len(slots'), p < q
               PROVE  slots'[q].offset + slots'[q].size <= slots'[p].offset
    OBVIOUS
  <2>1. p \in 1..Len(slots) /\ slots'[p] = slots[p]
    BY <1>3, <1>4
  <2>2. CASE q = Len(slots) + 1
    BY <1>1, <1>4, <1>6, <2>1, <2>2
  <2>3. CASE q # Len(slots) + 1
    <3>1. q \in 1..Len(slots) /\ slots'[q] = slots[q]
      BY <1>3, <1>4, <2>3
    <3> QED  BY <2>1, <3>1 DEF SlotsDisjoint
  <2> QED  BY <2>2, <2>3
<1>8. \A p \in 1..Len(slots') :
        -frame' <= slots'[p].offset /\ slots'[p].offset + slots'[p].size <= 0
  <2> SUFFICES ASSUME NEW p \in 1..Len(slots')
               PROVE  /\ -frame' <= slots'[p].offset
                      /\ slots'[p].offset + slots'[p].size <= 0
    OBVIOUS
  <2>1. CASE p = Len(slots) + 1
    BY <1>1, <1>2, <1>4, <2>1
  <2>2. CASE p # Len(slots) + 1
    <3>1. p \in 1..Len(slots) /\ slots'[p] = slots[p]
      BY <1>3, <1>4, <2>2
    <3> QED  BY <1>1, <1>2, <1>6, <3>1
  <2> QED  BY <2>1, <2>2
<1>9. /\ \A i, j \in Index : i # j /\ slot'[i] # 0 => slot'[i] # slot'[j]
      /\ \A j \in Index : slot'[j] <= Len(slots')
  <2>1. \A j \in Index : slot[j] \in Nat /\ slot[j] <= Len(slots)
    BY <1>1 DEF SlotsDisjoint
  <2>2. \A i, j \in Index : i # j /\ slot[i] # 0 => slot[i] # slot[j]
    BY DEF SlotsDisjoint
  <2> QED  BY <1>3, <1>4, <1>5, <2>1, <2>2
<1>10. Index' = Index
  BY DEF Index
<1> QED
  BY <1>3, <1>4, <1>5, <1>7, <1>8, <1>9, <1>10 DEF SlotsDisjoint

-----------------------------------------------------------------------------
\* The evicted interval started earlier and ends later than the current one:
\* it crosses every call the current one crosses, so its register serves.
LEMMA EvictFarthestIInv == ASSUME IInv, EvictFarthest PROVE IInv'
<1> USE DEF Index
<1>0. cur <= input.n
  BY DEF EvictFarthest
<1>1. PICK far \in Farthest :
        /\ input.end[far] > input.end[cur]
        /\ Spill(far)
        /\ HandOver(far)
        /\ NoteCalleeSaved(assigned[far])
        /\ active' = (Alive \ {far}) \cup {cur}
  BY DEF EvictFarthest
<1>2. /\ free' = [c \in Class |-> FreeAfter(c)] /\ cur' = cur + 1
      /\ UNCHANGED input
  BY DEF EvictFarthest
<1>3. TypeOK /\ SlotsDisjoint
  BY DEF IInv
<1>4. /\ cur \in Index /\ cur \in Nat /\ cur \notin active
      /\ Alive \subseteq active /\ active \subseteq Index
      /\ active \subseteq Processed /\ Processed \subseteq Index
      /\ assigned \in [Index -> Reg \cup {NoReg}]
      /\ input.class[cur] \in Class /\ input.class \in [Index -> Class]
  BY <1>0, <1>3, ExpiryFacts, InputTypes DEF TypeOK
<1>5. Processed' = Processed \cup {cur}
  BY <1>2, <1>4 DEF Processed
<1>6. /\ far \in Alive /\ input.class[far] = input.class[cur]
      /\ far \in Processed /\ far \in Index /\ far # cur
  BY <1>1, <1>4 DEF Farthest
<1> DEFINE r == assigned[far]
<1>7. /\ r \in Reg /\ r # NoReg /\ r \in Pool[input.class[cur]]
      /\ r \notin FreeAfter(input.class[cur])
      /\ \A a \in Alive : a # far => assigned[a] # r
  BY <1>0, <1>6, ExpiryFacts, NoRegAssumption
<1>8. /\ assigned'[cur] = r /\ assigned'[far] = NoReg
      /\ \A k \in Index : k # cur /\ k # far => assigned'[k] = assigned[k]
      /\ \A k \in Processed : k # cur
  BY <1>0, <1>1, <1>4, <1>6, ExpiryFacts DEF HandOver
<1>9. slot[far] = 0
  BY <1>6, <1>7 DEF IInv, ExactlyOneHome
<1>10. /\ SlotsDisjoint' /\ slots' \in Seq(SlotRecord) /\ frame' \in Nat
       /\ slot' \in [Index -> Nat] /\ slot'[far] # 0
       /\ \A j \in Index : j # far => slot'[j] = slot[j]
  BY <1>1, <1>2, <1>3, <1>6, <1>9, SpillSlots
<1>11. Crosses(cur) => Crosses(far)
  <2>1. input.start[far] <= input.start[cur] /\ input.end[cur] < input.end[far]
    BY <1>0, <1>1, <1>3, <1>4, <1>6, ExpiryFacts, InputTypes
  <2>2. /\ input.start[far] \in Nat /\ input.start[cur] \in Nat
        /\ input.end[far] \in Nat /\ input.end[cur] \in Nat
        /\ input.calls \subseteq Nat
    BY <1>3, <1>4, <1>6, InputTypes
  <2> QED  BY <2>1, <2>2 DEF Crosses
<1>12. TypeOK'
  <2>1. free' \in [Class -> SUBSET Reg]
    BY <1>0, <1>2, ExpiryFacts, PoolAssumption
  <2>2. cur' \in 1..(input'.n + 1)
    BY <1>2, <1>4, <1>3, InputTypes
  <2>3. calleeUsed' \subseteq CalleeSaved
    BY <1>1, <1>3 DEF NoteCalleeSaved, TypeOK
  <2>4. assigned' \in [Index -> Reg \cup {NoReg}]
    BY <1>1, <1>4, <1>7 DEF HandOver
  <2> QED
    BY <1>1, <1>2, <1>3, <1>4, <1>5, <1>10, <2>1, <2>2, <2>3, <2>4 DEF TypeOK
<1>13. PoolConserved'
  <2> SUFFICES ASSUME NEW c \in Class
      PROVE  LET held == {a \in active' : input'.class[a] = c} IN
             /\ free'[c] \cup {assigned'[a] : a \in held} = Pool[c]
             /\ \A a \in held : assigned'[a] \notin free'[c]
             /\ \A a, b \in held : assigned'[a] = assigned'[b] => a = b
    BY DEF PoolConserved
  <2> DEFINE old == {b \in Alive : input.class[b] = c}
  <2>1. /\ FreeAfter(c) \cup {assigned[a] : a \in old} = Pool[c]
        /\ \A a \in old : assigned[a] \notin FreeAfter(c)
        /\ \A a, b \in old : assigned[a] = assigned[b] => a = b
    BY <1>0, ExpiryFacts
  <2>2. /\ free'[c] = FreeAfter(c)
        /\ \A a \in old \ {far} : assigned'[a] = assigned[a] /\ a # cur
    BY <1>2, <1>4, <1>8
  <2>3. CASE c = input.class[cur]
    <3>1. {a \in active' : input'.class[a] = c} = (old \ {far}) \cup {cur}
      BY <1>1, <1>2, <2>3
    <3>2. far \in old
      BY <1>6, <2>3
    <3>3. {assigned'[a] : a \in (old \ {far}) \cup {cur}} = {assigned[a] : a \in old}
      BY <1>8, <2>2, <3>2
    <3>4. \A a \in old \ {far} : assigned[a] # r
      BY <1>7
    <3> QED  BY <1>7, <1>8, <2>1, <2>2, <2>3, <3>1, <3>3, <3>4
  <2>4. CASE c # input.class[cur]
    <3>1. {a \in active' : input'.class[a] = c} = old /\ far \notin old
      BY <1>1, <1>2, <1>6, <2>4
    <3>2. {assigned'[a] : a \in old} = {assigned[a] : a \in old}
      BY <2>2, <3>1
    <3> QED  BY <2>1, <2>2, <3>1, <3>2
  <2> QED  BY <2>3, <2>4
<1>14. AheadUntouched'
  <2>1. \A k \in Index : k >= cur + 1 => k # far /\ k # cur /\ k >= cur
    BY <1>0, <1>4, <1>6, ExpiryFacts
  <2> QED  BY <1>2, <1>8, <1>10, <2>1 DEF IInv, AheadUntouched
<1>15. RetiredEnded'
  BY <1>0, <1>1, <1>2, <1>4, <1>5, <1>8, ExpiryFacts DEF RetiredEnded
<1>16. NoInterference'
  <2>1. ASSUME NEW k \in Processed, k # far, assigned[k] # NoReg, assigned[k] = r
        PROVE  ~Overlap(k, cur) /\ ~Overlap(cur, k)
    <3>1. input.end[k] < input.start[cur]
      BY <1>0, <1>7, <2>1, ExpiryFacts
    <3>2. /\ input.end[k] \in Nat /\ input.start[cur] \in Nat
      BY <1>3, <1>4, <2>1, InputTypes
    <3> QED  BY <3>1, <3>2 DEF Overlap
  <2>2. \A j, k : Overlap(j, k)' <=> Overlap(j, k)
    BY <1>2 DEF Overlap
  <2> SUFFICES ASSUME NEW j \in Processed', NEW k \in Processed', j # k,
                      assigned'[j] # NoReg, assigned'[j] = assigned'[k]
               PROVE  ~Overlap(j, k)
    BY <2>2 DEF NoInterference
  <2>3. j # far /\ k # far
    BY <1>8
  <2>4. CASE j = cur
    <3>1. k \in Processed /\ assigned[k] = r
      BY <1>4, <1>5, <1>8, <2>3, <2>4
    <3> QED  BY <1>7, <2>1, <2>3, <2>4, <3>1
  <2>5. CASE k = cur
    <3>1. j \in Processed /\ assigned[j] = r
      BY <1>4, <1>5, <1>8, <2>3, <2>5
    <3> QED  BY <1>7, <2>1, <2>3, <2>5, <3>1
  <2>6. CASE j # cur /\ k # cur
    <3>1. /\ j \in Processed /\ k \in Processed
          /\ assigned'[j] = assigned[j] /\ assigned'[k] = assigned[k]
      BY <1>4, <1>5, <1>8, <2>3, <2>6
    <3> QED  BY <3>1 DEF IInv, NoInterference
  <2> QED  BY <2>4, <2>5, <2>6
<1>17. CallSafe'
  <2>1. Crosses(cur) => r \in CalleeSaved
    BY <1>6, <1>7, <1>11 DEF IInv, CallSafe
  <2>2. \A k : Crosses(k)' <=> Crosses(k)
    BY <1>2 DEF Crosses
  <2> QED  BY <1>4, <1>5, <1>8, <2>1, <2>2 DEF IInv, CallSafe
<1>18. PrologueSaves'
  <2>1. calleeUsed \subseteq calleeUsed'
    BY <1>1 DEF NoteCalleeSaved
  <2>2. r \in CalleeSaved => r \in calleeUsed'
    BY <1>1 DEF NoteCalleeSaved
  <2>3. NoReg \notin CalleeSaved
    BY CalleeSavedAssumption, NoRegAssumption
  <2> QED  BY <1>4, <1>5, <1>8, <2>1, <2>2, <2>3 DEF IInv, PrologueSaves
<1>19. ExactlyOneHome'
  <2>1. slot[cur] = 0
    BY <1>4 DEF IInv, AheadUntouched
  <2> QED  BY <1>4, <1>5, <1>6, <1>7, <1>8, <1>10, <2>1 DEF IInv, ExactlyOneHome
<1> QED
  BY <1>10, <1>12, <1>13, <1>14, <1>15, <1>16, <1>17, <1>18, <1>19 DEF IInv

-----------------------------------------------------------------------------
LEMMA SpillCurrentIInv == ASSUME IInv, SpillCurrent PROVE IInv'
<1> USE DEF Index
<1>0. cur <= input.n
  BY DEF SpillCurrent
<1>1. /\ Spill(cur) /\ active' = Alive
      /\ free' = [c \in Class |-> FreeAfter(c)] /\ cur' = cur + 1
      /\ UNCHANGED <<input, assigned, calleeUsed>>
  BY DEF SpillCurrent
<1>2. TypeOK /\ SlotsDisjoint
  BY DEF IInv
<1>3. /\ cur \in Index /\ cur \in Nat /\ cur \notin active
      /\ Alive \subseteq active /\ active \subseteq Processed
      /\ Processed \subseteq Index
  BY <1>0, <1>2, ExpiryFacts DEF TypeOK
<1>4. Processed' = Processed \cup {cur}
  BY <1>1, <1>3 DEF Processed
<1>5. assigned[cur] = NoReg /\ slot[cur] = 0
  BY <1>3 DEF IInv, AheadUntouched
<1>6. /\ SlotsDisjoint' /\ slots' \in Seq(SlotRecord) /\ frame' \in Nat
      /\ slot' \in [Index -> Nat] /\ slot'[cur] # 0
      /\ \A j \in Index : j # cur => slot'[j] = slot[j]
  BY <1>1, <1>2, <1>3, <1>5, SpillSlots
<1>7. \A k \in Processed : k # cur
  BY <1>0, ExpiryFacts
<1>8. TypeOK'
  <2>1. free' \in [Class -> SUBSET Reg]
    BY <1>0, <1>1, ExpiryFacts, PoolAssumption
  <2>2. cur' \in 1..(input'.n + 1)
    BY <1>1, <1>2, <1>3, InputTypes
  <2> QED
    BY <1>1, <1>2, <1>3, <1>4, <1>6, <2>1, <2>2 DEF TypeOK
<1>9. PoolConserved'
  BY <1>0, <1>1, ExpiryFacts DEF PoolConserved
<1>10. AheadUntouched'
  BY <1>1, <1>3, <1>6 DEF IInv, AheadUntouched
<1>11. RetiredEnded'
  BY <1>0, <1>1, <1>3, <1>4, <1>5, ExpiryFacts DEF RetiredEnded
<1>12. NoInterference'
  BY <1>1, <1>4, <1>5 DEF IInv, NoInterference, Overlap
<1>13. CallSafe'
  BY <1>1, <1>4, <1>5 DEF IInv, CallSafe, Crosses
<1>14. PrologueSaves'
  BY <1>1, <1>4, <1>5, CalleeSavedAssumption, NoRegAssumption
     DEF IInv, PrologueSaves
<1>15. ExactlyOneHome'
  BY <1>1, <1>3, <1>4, <1>5, <1>6, <1>7 DEF IInv, ExactlyOneHome
<1> QED
  BY <1>6, <1>8, <1>9, <1>10, <1>11, <1>12, <1>13, <1>14, <1>15 DEF IInv

-----------------------------------------------------------------------------
(* The strengthening is inductive over the allocator's loop.               *)
THEOREM Inductive == Spec => []IInv
<1>1. IInv /\ [Next]_vars => IInv'
  <2> SUFFICES ASSUME IInv, [Next]_vars PROVE IInv'
    OBVIOUS
  <2>1. CASE AssignFree
    BY <2>1, AssignFreeIInv
  <2>2. CASE EvictFarthest
    BY <2>2, EvictFarthestIInv
  <2>3. CASE SpillCurrent
    BY <2>3, SpillCurrentIInv
  <2>4. CASE UNCHANGED vars
    BY <2>4 DEF vars, IInv, TypeOK, PoolConserved, AheadUntouched, RetiredEnded,
       NoInterference, CallSafe, PrologueSaves, ExactlyOneHome, SlotsDisjoint,
       Index, Processed, Overlap, Crosses
  <2> QED  BY <2>1, <2>2, <2>3, <2>4 DEF Next
<1> QED  BY <1>1, InitIInv, PTL DEF Spec

(* Every reachable allocator state has the expected types.                 *)
THEOREM TypeCorrect == Spec => []TypeOK
<1>1. IInv => TypeOK
  BY DEF IInv
<1> QED  BY <1>1, Inductive, PTL

(* allocate_registers never gives one physical register to two intervals   *)
(* that overlap, whatever the register file and the intervals.             *)
THEOREM NeverInterferes == Spec => []NoInterference
<1>1. IInv => NoInterference
  BY DEF IInv
<1> QED  BY <1>1, Inductive, PTL

(* A value live across a call is never in a register the call may clobber, *)
(* although the eviction path does not look at callee_saved.               *)
THEOREM CallsPreserveValues == Spec => []CallSafe
<1>1. IInv => CallSafe
  BY DEF IInv
<1> QED  BY <1>1, Inductive, PTL

(* Every callee-saved register in use is in callee_saved_used.             *)
THEOREM PrologueComplete == Spec => []PrologueSaves
<1>1. IInv => PrologueSaves
  BY DEF IInv
<1> QED  BY <1>1, Inductive, PTL

(* A processed interval has a register or a spill slot, and only one of    *)
(* them (the arms of allocate_registers).                                  *)
THEOREM HomesSound == Spec => []ExactlyOneHome
<1>1. IInv => ExactlyOneHome
  BY DEF IInv
<1> QED  BY <1>1, Inductive, PTL

(* Spill slots are disjoint byte ranges within the frame, and belong to    *)
(* one interval each, evicted or not.                                      *)
THEOREM SlotsSound == Spec => []SlotsDisjoint
<1>1. IInv => SlotsDisjoint
  BY DEF IInv
<1> QED  BY <1>1, Inductive, PTL

(* No register is lost or handed out twice, over any number of expiries    *)
(* and evictions.                                                          *)
THEOREM PoolSound == Spec => []PoolConserved
<1>1. IInv => PoolConserved
  BY DEF IInv
<1> QED  BY <1>1, Inductive, PTL

-----------------------------------------------------------------------------
\* The registers an interval of class c can count on.
Supply(c) ==
  IF \E j \in Index : input.class[j] = c /\ Crosses(j)
  THEN Pool[c] \cap CalleeSaved ELSE Pool[c]

Crowded(p, c) == Cardinality(LiveAt(p, c)) > Cardinality(Supply(c))

\* With nothing usable free, every register the current interval can count
\* on is held by another interval of its class that is live here.
LEMMA Pressure ==
  ASSUME IInv, cur <= input.n, Usable = {}
  PROVE  Crowded(input.start[cur], input.class[cur])
<1> DEFINE c == input.class[cur]
           held == {a \in Alive : input.class[a] = c}
           here == LiveAt(input.start[cur], c)
<1>1. TypeOK
  BY DEF IInv
<1>2. /\ cur \in Index /\ cur \notin active /\ Alive \subseteq active
      /\ active \subseteq Processed /\ Processed \subseteq Index
      /\ input.start \in [Index -> Nat] /\ input.end \in [Index -> Nat]
      /\ input.class \in [Index -> Class] /\ input.n \in Nat /\ cur \in Nat
  BY <1>1, ExpiryFacts, InputTypes DEF TypeOK
<1>3. IsFiniteSet(Index)
  <2>1. 1 \in Int /\ input.n \in Int
    BY <1>2
  <2>2. IsFiniteSet(1..input.n)
    BY <2>1, FS_Interval
  <2> QED  BY <2>2 DEF Index
<1>4. IsFiniteSet(held) /\ cur \notin held
  <2>1. held \in SUBSET Index
    BY <1>2
  <2> HIDE DEF held
  <2>2. IsFiniteSet(held)
    BY <1>3, <2>1, FS_Subset
  <2> QED  BY <1>2, <2>2 DEF held
<1>5. held \cup {cur} \subseteq here /\ here \in SUBSET Index
  <2>1. ASSUME NEW a \in held
        PROVE  input.start[a] <= input.start[cur] /\ input.start[cur] <= input.end[a]
    <3>1. input.start[a] <= input.start[cur]
      BY <1>2, ExpiryFacts
    <3>2. ~(input.end[a] < input.start[cur])
      BY DEF Alive, Expired
    <3> QED  BY <1>2, <3>1, <3>2
  <2>2. input.start[cur] <= input.end[cur]
    BY <1>1, <1>2, InputTypes
  <2>3. input.start[cur] <= input.start[cur]
    BY <1>2
  <2> QED  BY <1>2, <2>1, <2>2, <2>3 DEF LiveAt
<1>6. \A r \in Supply(c) : \E a \in held : assigned[a] = r
  <2>1. c \in Class
    BY <1>2
  <2>2. FreeAfter(c) \cup {assigned[a] : a \in held} = Pool[c]
    BY <2>1, ExpiryFacts
  <2>3. \A r \in Supply(c) : r \in Pool[c] /\ r \notin FreeAfter(c)
    BY <1>2 DEF Usable, Supply
  <2> QED  BY <2>2, <2>3
<1> HIDE DEF held, here, c
<1>7. IsFiniteSet(Supply(c)) /\ Cardinality(Supply(c)) <= Cardinality(held)
  <2> DEFINE f == [r \in Supply(c) |-> CHOOSE a \in held : assigned[a] = r]
  <2>1. \A r \in Supply(c) : f[r] \in held /\ assigned[f[r]] = r
    BY <1>6
  <2>2. f \in Injection(Supply(c), held)
    <3>1. f \in [Supply(c) -> held] /\ DOMAIN f = Supply(c)
      BY <2>1
    <3> HIDE DEF f
    <3>2. \A r, s \in Supply(c) : f[r] = f[s] => r = s
      BY <2>1
    <3> QED  BY <3>1, <3>2 DEF Injection, IsInjective
  <2> HIDE DEF f
  <2> QED  BY <1>4, <2>2, FS_Injection
<1>8. Cardinality(held \cup {cur}) = Cardinality(held) + 1 /\ IsFiniteSet(held \cup {cur})
  BY <1>4, FS_AddElement
<1>9. IsFiniteSet(here) /\ Cardinality(held \cup {cur}) <= Cardinality(here)
  <2>1. IsFiniteSet(here)
    BY <1>3, <1>5, FS_Subset
  <2> QED  BY <1>5, <2>1, FS_Subset
<1>10. /\ Cardinality(held) \in Nat /\ Cardinality(here) \in Nat
  BY <1>4, <1>9, FS_CardinalityType
<1>11. Cardinality(Supply(c)) \in Nat
  BY <1>7, FS_CardinalityType
<1> QED  BY <1>7, <1>8, <1>9, <1>10, <1>11 DEF Crowded, here, c

SpilledInCrowd ==
  \A k \in Processed : slot[k] # 0 =>
     \E j \in Processed : Crowded(input.start[j], input.class[k])

LEMMA SpillStep ==
  ASSUME IInv, SpilledInCrowd, cur <= input.n, cur' = cur + 1, UNCHANGED input,
         NEW k \in Index, input.class[k] = input.class[cur],
         k \in Processed \/ k = cur, slot' = [slot EXCEPT ![k] = Len(slots) + 1],
         Usable = {}
  PROVE  SpilledInCrowd'
<1>1. /\ cur \in Index /\ cur \in Nat /\ Processed \subseteq Index
      /\ slot \in [Index -> Nat]
      /\ \A i \in Index : i >= cur => slot[i] = 0
      /\ \A i \in Processed : i < cur
  BY ExpiryFacts DEF IInv, TypeOK, AheadUntouched
<1>2. Processed' = Processed \cup {cur}
  BY <1>1 DEF Processed, Index
<1>3. Crowded(input.start[cur], input.class[cur])
  BY Pressure
<1>4. \A p, c : Crowded(p, c)' <=> Crowded(p, c)
  BY DEF Crowded, LiveAt, Supply, Index, Crosses
<1> SUFFICES ASSUME NEW i \in Processed', slot'[i] # 0
             PROVE  \E j \in Processed' : Crowded(input.start[j], input.class[i])
  BY <1>4 DEF SpilledInCrowd
<1>5. CASE i = k
  BY <1>2, <1>3, <1>5
<1>6. CASE i # k
  <2>1. slot[i] # 0 /\ i \in Processed
    BY <1>1, <1>2, <1>6
  <2> QED  BY <1>2, <2>1 DEF SpilledInCrowd
<1> QED  BY <1>5, <1>6

(* An interval is spilled only when more intervals of its class are live   *)
(* at some index than the class has registers to serve them, whoever of    *)
(* them the allocator then chose to spill (allocate_registers).            *)
THEOREM SpillsUnderPressure == Spec => []SpillOnlyUnderPressure
<1>1. Init => SpilledInCrowd
  BY DEF Init, Start, SpilledInCrowd, Processed
<1>2. IInv /\ SpilledInCrowd /\ [Next]_vars => SpilledInCrowd'
  <2> SUFFICES ASSUME IInv, SpilledInCrowd, [Next]_vars PROVE SpilledInCrowd'
    OBVIOUS
  <2>1. CASE AssignFree
    <3>1. cur <= input.n /\ cur' = cur + 1 /\ slot' = slot /\ input' = input
      BY <2>1 DEF AssignFree
    <3>2. cur \in Index /\ cur \in Nat /\ slot[cur] = 0
      BY <3>1, ExpiryFacts DEF IInv, AheadUntouched
    <3>3. Processed' = Processed \cup {cur}
      BY <3>1, <3>2 DEF Processed, Index
    <3>4. \A p, c : Crowded(p, c)' <=> Crowded(p, c)
      BY <3>1 DEF Crowded, LiveAt, Supply, Index, Crosses
    <3> QED  BY <3>1, <3>2, <3>3, <3>4 DEF SpilledInCrowd
  <2>2. CASE EvictFarthest
    <3>1. PICK far \in Farthest : Spill(far)
      BY <2>2 DEF EvictFarthest
    <3>2. cur <= input.n /\ cur' = cur + 1 /\ UNCHANGED input /\ Usable = {}
      BY <2>2 DEF EvictFarthest
    <3>3. /\ far \in Index /\ far \in Processed
          /\ input.class[far] = input.class[cur]
      BY <3>1, <3>2, ExpiryFacts DEF Farthest, IInv, TypeOK
    <3>4. slot' = [slot EXCEPT ![far] = Len(slots) + 1]
      BY <3>1 DEF Spill
    <3> QED  BY <3>2, <3>3, <3>4, SpillStep
  <2>3. CASE SpillCurrent
    <3>1. /\ cur <= input.n /\ cur' = cur + 1 /\ UNCHANGED input /\ Usable = {}
          /\ Spill(cur)
      BY <2>3 DEF SpillCurrent
    <3>2. cur \in Index
      BY <3>1, ExpiryFacts
    <3>3. slot' = [slot EXCEPT ![cur] = Len(slots) + 1]
      BY <3>1 DEF Spill
    <3> QED  BY <3>1, <3>2, <3>3, SpillStep
  <2>4. CASE UNCHANGED vars
    <3>1. UNCHANGED <<input, cur, slot>>
      BY <2>4 DEF vars
    <3>2. \A p, c : Crowded(p, c)' <=> Crowded(p, c)
      BY <3>1 DEF Crowded, LiveAt, Supply, Index, Crosses
    <3> QED  BY <3>1, <3>2 DEF SpilledInCrowd, Processed
  <2> QED  BY <2>1, <2>2, <2>3, <2>4 DEF Next
<1>3. SpilledInCrowd => SpillOnlyUnderPressure
  BY DEF SpilledInCrowd, SpillOnlyUnderPressure, Crowded, Supply
<1> QED  BY <1>1, <1>2, <1>3, Inductive, PTL DEF Spec
=============================================================================
