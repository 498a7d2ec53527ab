------------------------------ MODULE RegAlloc ------------------------------
(***************************************************************************)
(* allocate_registers of backend/register_allocator.rs with its lists as   *)
(* the code keeps them: free_gpr and free_fpr are stacks popped at the     *)
(* end, active is sorted by interval end, expired positions are collected  *)
(* first and removed back to front.  It implements LinearScan, in which    *)
(* these lists are sets.                                                   *)
(***************************************************************************)
EXTENDS Integers, Sequences, SequencesExt, Lists

CONSTANTS
  Reg, Class, CalleeSaved, NoReg, Inputs,  \* as in LinearScan
  Allocatable   \* allocatable_gpr, allocatable_fpr in preference order

VARIABLES input, cur, freeList, activeList, assigned, slot, slots, frame,
          calleeUsed

vars == <<input, cur, freeList, activeList, assigned, slot, slots, frame,
          calleeUsed>>

(* The same state in the terms of LinearScan: its lists read as sets.      *)
Abs == INSTANCE LinearScan WITH
         Pool   <- [c \in Class |-> Range(Allocatable[c])],
         free   <- [c \in Class |-> Range(freeList[c])],
         active <- Range(activeList)

\* The lists of a target name registers, each once, and none in both.
ASSUME AllocatableAssumption ==
  /\ Allocatable \in [Class -> Seq(Reg)]
  /\ \A c \in Class : IsInjective(Allocatable[c])
  /\ \A c, d \in Class :
       c # d => Range(Allocatable[c]) \cap Range(Allocatable[d]) = {}
ASSUME RegisterAssumption == CalleeSaved \subseteq Reg /\ NoReg \notin Reg
ASSUME InputsAssumption == \A f \in Inputs : Abs!WellFormed(f)

Crosses(k) == \E cp \in input.calls : input.start[k] < cp /\ cp < input.end[k]

Init ==
  /\ input \in Inputs
  /\ cur = 1
  /\ freeList = [c \in Class |-> Reverse(Allocatable[c])]
  /\ activeList = <<>>
  /\ assigned = [k \in 1..input.n |-> NoReg]
  /\ slot = [k \in 1..input.n |-> 0]
  /\ slots = <<>>
  /\ frame = 0
  /\ calleeUsed = {}

-----------------------------------------------------------------------------
Lapsed == {a \in 1..input.n : input.end[a] < input.start[cur]}

\* The active list without the expired positions, in the same order.
AliveList == Kept(activeList, 1..input.n \ Lapsed)

\* The pool of class c after expiry: registers come back in reverse order of
\* the active list, since positions are removed from the last to the first.
FreeListAfter(c) ==
  LET gone == Kept(activeList, {a \in Lapsed : input.class[a] = c})
  IN  freeList[c] \o [p \in 1..Len(gone) |-> assigned[gone[Len(gone) + 1 - p]]]

\* active with k inserted before the first interval that ends later.
InsertLast(list, k) == Append(list, k)  \* mutant: the order not kept
InsertByEnd(list, k) ==
  LET later == {p \in 1..Len(list) : input.end[list[p]] > input.end[k]}
      at == IF later = {} THEN Len(list) + 1
            ELSE CHOOSE p \in later : \A q \in later : p <= q
  IN  InsertAt(list, at, k)

\* The position popped from a pool: the first callee-saved register for an
\* interval that crosses a call, the last register otherwise; 0 for none.
PopPosition(pool) ==
  IF Crosses(cur)
  THEN SelectInSeq(pool, LAMBDA r : r \in CalleeSaved)
  ELSE Len(pool)

\* max_by_key keeps the last of the equally far intervals; 0 for none.
SpillNearest ==  \* mutant: the nearest end, as if active began with the last
  LET same == Kept(AliveList, {a \in 1..input.n : input.class[a] = input.class[cur]})
  IN  IF same = <<>> THEN 0 ELSE same[1]
SpillCandidate ==
  LET list == AliveList
      same == {p \in 1..Len(list) : input.class[list[p]] = input.class[cur]}
      best == {p \in same : \A q \in same :
                 /\ input.end[list[q]] <= input.end[list[p]]
                 /\ input.end[list[q]] = input.end[list[p]] => q <= p}
  IN  IF same = {} THEN 0 ELSE list[CHOOSE p \in best : TRUE]

NoteCalleeSaved(r) == calleeUsed' = calleeUsed \cup ({r} \cap CalleeSaved)

Spill(k) ==
  /\ slots' = Append(slots, [size |-> input.size[k],
                             offset |-> -frame - input.size[k]])
  /\ slot' = [slot EXCEPT ![k] = Len(slots) + 1]
  /\ frame' = frame + input.size[k]

AssignFree ==
  /\ cur <= input.n
  /\ LET c == input.class[cur]
         pool == FreeListAfter(c)
         at == PopPosition(pool)
     IN  /\ at # 0
         /\ assigned' = [assigned EXCEPT ![cur] = pool[at]]
         /\ freeList' = [d \in Class |-> IF d = c THEN RemoveAt(pool, at)
                                         ELSE FreeListAfter(d)]
         /\ NoteCalleeSaved(pool[at])
  /\ activeList' = InsertByEnd(AliveList, cur)
  /\ cur' = cur + 1
  /\ UNCHANGED <<input, slot, slots, frame>>

PoolEmpty == PopPosition(FreeListAfter(input.class[cur])) = 0

EvictFarthest ==
  /\ cur <= input.n
  /\ PoolEmpty
  /\ LET far == SpillCandidate IN
       /\ far # 0
       /\ input.end[far] > input.end[cur]
       /\ Spill(far)
       /\ assigned' = [assigned EXCEPT ![far] = NoReg, ![cur] = assigned[far]]
       /\ NoteCalleeSaved(assigned[far])
       /\ activeList' = InsertByEnd(Kept(AliveList, 1..input.n \ {far}), cur)
  /\ freeList' = [c \in Class |-> FreeListAfter(c)]
  /\ cur' = cur + 1
  /\ UNCHANGED input

SpillCurrent ==
  /\ cur <= input.n
  /\ PoolEmpty
  /\ LET far == SpillCandidate
     IN  far # 0 => input.end[far] <= input.end[cur]
  /\ Spill(cur)
  /\ freeList' = [c \in Class |-> FreeListAfter(c)]
  /\ activeList' = AliveList
  /\ cur' = cur + 1
  /\ UNCHANGED <<input, assigned, calleeUsed>>

Next == AssignFree \/ EvictFarthest \/ SpillCurrent

Spec == Init /\ [][Next]_vars

-----------------------------------------------------------------------------
(* The active list stays sorted by interval end although insertions search *)
(* from the front and expiry removes from the middle (active.insert), and  *)
(* neither it nor a pool holds anything twice: a register given back by    *)
(* expiry and by a spill would be handed to two intervals.                 *)
ListsInOrder ==
  /\ \A p, q \in 1..Len(activeList) :
       p < q => input.end[activeList[p]] <= input.end[activeList[q]]
  /\ IsInjective(activeList)
  /\ \A c \in Class : IsInjective(freeList[c])

(* Refinement: with the lists read as sets, every iteration of the code's  *)
(* loop is an iteration of LinearScan (backend/register_allocator.rs).     *)
(* This is Abs!Spec without the conjunct on the input, which Init shares.  *)
RefinesLinearScan == Abs!Start /\ [][Abs!Next]_(Abs!vars)
=============================================================================
