----------------------------- MODULE LinearScan -----------------------------
(***************************************************************************)
(* The linear-scan register allocator of backend/register_allocator.rs,    *)
(* allocate_registers, with its Vec-based free pools and active list       *)
(* abstracted to sets: any register of a pool may be popped, any of the    *)
(* farthest-ending active intervals may be the spill candidate.  Module    *)
(* RegAlloc is the same loop with the lists kept in the order the code     *)
(* keeps them, and implements this one.                                    *)
(*                                                                         *)
(* One step of the specification is one iteration of the loop over the     *)
(* intervals: expire, then assign, evict or spill.                         *)
(***************************************************************************)
EXTENDS Integers, Sequences, FiniteSets

CONSTANTS
  Reg,          \* physical registers (PhysReg)
  Class,        \* register classes (RegClass: Integer, Float)
  Pool,         \* Pool[c]: the allocatable registers of class c
  CalleeSaved,  \* registers the callee preserves (RegisterInfo.callee_saved)
  NoReg,        \* "assigned: None"
  Inputs        \* interval lists the allocator may be given

(***************************************************************************)
(* An input is what compute_live_intervals hands over: intervals 1..n      *)
(* sorted by start, and the linear indices of the call instructions.       *)
(***************************************************************************)
WellFormed(f) ==
  /\ f = [n |-> f.n, start |-> f.start, end |-> f.end, class |-> f.class,
          size |-> f.size, calls |-> f.calls]
  /\ f.n \in Nat
  /\ f.start \in [1..f.n -> Nat]
  /\ f.end \in [1..f.n -> Nat]
  /\ f.class \in [1..f.n -> Class]
  /\ f.size \in [1..f.n -> Nat \ {0}]
  /\ f.calls \subseteq Nat
  /\ \A k \in 1..f.n : f.start[k] <= f.end[k]
  /\ \A j, k \in 1..f.n : j <= k => f.start[j] <= f.start[k]

ASSUME PoolAssumption ==
  /\ Pool \in [Class -> SUBSET Reg]
  /\ \A c, d \in Class : c # d => Pool[c] \cap Pool[d] = {}
ASSUME CalleeSavedAssumption == CalleeSaved \subseteq Reg
ASSUME NoRegAssumption == NoReg \notin Reg
ASSUME InputsAssumption == \A f \in Inputs : WellFormed(f)

VARIABLES
  input,      \* the intervals and call positions, fixed
  cur,        \* index of the interval the loop is at
  free,       \* free[c]: free_gpr, free_fpr
  active,     \* indices of the active intervals
  assigned,   \* LiveInterval.assigned, which the assignments map mirrors
  slot,       \* LiveInterval.spill_slot, which spill_map mirrors; 0 is None
  slots,      \* spill_slots, in order of allocation
  frame,      \* frame_size
  calleeUsed  \* callee_saved_used

vars == <<input, cur, free, active, assigned, slot, slots, frame, calleeUsed>>

Index == 1..input.n
Processed == 1..(cur - 1)

\* intervals[k] is live across a call: cp > start && cp < end.
Crosses(k) == \E cp \in input.calls : input.start[k] < cp /\ cp < input.end[k]

\* Before the first iteration, whatever the input.
Start ==
  /\ cur = 1
  /\ free = Pool
  /\ active = {}
  /\ assigned = [k \in 1..input.n |-> NoReg]
  /\ slot = [k \in 1..input.n |-> 0]
  /\ slots = <<>>
  /\ frame = 0
  /\ calleeUsed = {}

Init == input \in Inputs /\ Start

-----------------------------------------------------------------------------
(* Expiry: what the head of every iteration does to active and the pools.  *)

\* Mutants: a tie expires too, as the doc comment says; one index too late.
ExpiredAtTie == {a \in active : input.end[a] <= input.start[cur]}
ExpiredLate == {a \in active : input.end[a] + 1 < input.start[cur]}

Expired == {a \in active : input.end[a] < input.start[cur]}
Alive == active \ Expired

FreeAfterLeak(c) == free[c]  \* mutant: expired registers never come back
FreeAfter(c) ==
  free[c] \cup {assigned[a] : a \in {e \in Expired : input.class[e] = c}}

\* What the current interval may take from its pool: an interval that
\* crosses a call takes callee-saved registers only.
UsableAnyReg == FreeAfter(input.class[cur])  \* mutant: calls ignored
Usable ==
  {r \in FreeAfter(input.class[cur]) : Crosses(cur) => r \in CalleeSaved}

\* The active intervals of the class with the farthest end.
Farthest ==
  LET same == {a \in Alive : input.class[a] = input.class[cur]}
  IN  {a \in same : \A b \in same : input.end[b] <= input.end[a]}

\* Mutants: the contains test dropped; the last register only.
NoteLastRegister(r) == calleeUsed' = {r} \cap CalleeSaved
NoteCalleeSaved(r) == calleeUsed' = calleeUsed \cup ({r} \cap CalleeSaved)

\* Allocate the next spill slot, below every earlier one, for interval k.
SpillAtTop(k) ==  \* mutant: the offset forgets the slot's own size
  /\ slots' = Append(slots, [size |-> input.size[k], offset |-> -frame])
  /\ slot' = [slot EXCEPT ![k] = Len(slots) + 1]
  /\ frame' = frame + input.size[k]

Spill(k) ==
  /\ slots' = Append(slots, [size |-> input.size[k],
                             offset |-> -frame - input.size[k]])
  /\ slot' = [slot EXCEPT ![k] = Len(slots) + 1]
  /\ frame' = frame + input.size[k]

\* The evicted interval's register goes to the current one.
HandOver(far) ==
  assigned' = [assigned EXCEPT ![far] = NoReg, ![cur] = assigned[far]]

\* A usable register is free: assign it.
AssignFree ==
  /\ cur <= input.n
  /\ \E r \in Usable :
       /\ assigned' = [assigned EXCEPT ![cur] = r]
       /\ free' = [c \in Class |-> IF c = input.class[cur]
                                   THEN FreeAfter(c) \ {r} ELSE FreeAfter(c)]
       /\ NoteCalleeSaved(r)
  /\ active' = Alive \cup {cur}
  /\ cur' = cur + 1
  /\ UNCHANGED <<input, slot, slots, frame>>

\* None is, and the farthest-ending active interval of the class outlives
\* the current one: evict it to the stack and take over its register.
EvictFarthest ==
  /\ cur <= input.n
  /\ Usable = {}
  /\ \E far \in Farthest :
       /\ input.end[far] > input.end[cur]
       /\ Spill(far)
       /\ HandOver(far)
       /\ NoteCalleeSaved(assigned[far])
       /\ active' = (Alive \ {far}) \cup {cur}
  /\ free' = [c \in Class |-> FreeAfter(c)]
  /\ cur' = cur + 1
  /\ UNCHANGED input

\* None is, and no active interval of the class outlives the current one:
\* spill the current interval.
SpillCurrent ==
  /\ cur <= input.n
  /\ Usable = {}
  /\ \A far \in Farthest : input.end[far] <= input.end[cur]
  /\ Spill(cur)
  /\ free' = [c \in Class |-> FreeAfter(c)]
  /\ active' = Alive
  /\ cur' = cur + 1
  /\ UNCHANGED <<input, assigned, calleeUsed>>

Next == AssignFree \/ EvictFarthest \/ SpillCurrent

Spec == Init /\ [][Next]_vars

-----------------------------------------------------------------------------
SlotRecord == [size : Nat \ {0}, offset : Int]

(* Types of the allocator's state.                                         *)
TypeOK ==
  /\ WellFormed(input)
  /\ cur \in 1..(input.n + 1)
  /\ free \in [Class -> SUBSET Reg]
  /\ active \subseteq Processed
  /\ assigned \in [Index -> Reg \cup {NoReg}]
  /\ slot \in [Index -> Nat]
  /\ slots \in Seq(SlotRecord)
  /\ frame \in Nat
  /\ calleeUsed \subseteq CalleeSaved

Overlap(j, k) ==
  input.start[j] <= input.end[k] /\ input.start[k] <= input.end[j]

(* Two intervals that overlap never hold the same physical register, even  *)
(* when one got it by evicting a third (register_allocator.rs, the whole   *)
(* loop of allocate_registers).                                            *)
NoInterference ==
  \A j, k \in Processed :
     j # k /\ assigned[j] # NoReg /\ assigned[j] = assigned[k] => ~Overlap(j, k)

(* A value live across a call is in a callee-saved register or on the      *)
(* stack.  The eviction path hands over the evicted interval's register    *)
(* without looking at callee_saved, so this rests on the evicted interval  *)
(* crossing every call the current one crosses.                            *)
CallSafe ==
  \A k \in Processed :
     Crosses(k) /\ assigned[k] # NoReg => assigned[k] \in CalleeSaved

(* Every callee-saved register some interval ends up in is reported for    *)
(* the prologue and epilogue to save and restore.                          *)
PrologueSaves ==
  \A k \in Processed : assigned[k] \in CalleeSaved => assigned[k] \in calleeUsed

(* After its turn an interval has a register or a spill slot, not both and *)
(* not neither, even if evicted later ("exactly one of assigned or         *)
(* spill_slot is Some").                                                   *)
ExactlyOneHome ==
  \A k \in Processed : (assigned[k] # NoReg) <=> (slot[k] = 0)

(* The byte ranges of two spill slots are disjoint and inside the frame,   *)
(* and no two intervals share a slot.                                      *)
SlotsDisjoint ==
  /\ \A p, q \in 1..Len(slots) :
       p < q => slots[q].offset + slots[q].size <= slots[p].offset
  /\ \A p \in 1..Len(slots) :
       -frame <= slots[p].offset /\ slots[p].offset + slots[p].size <= 0
  /\ \A j, k \in Index : j # k /\ slot[j] # 0 => slot[j] # slot[k]
  /\ \A k \in Index : slot[k] <= Len(slots)

(* No register is lost or duplicated: each register of a pool is free or   *)
(* held by exactly one active interval of that class.                      *)
PoolConserved ==
  \A c \in Class :
    LET held == {a \in active : input.class[a] = c} IN
    /\ free[c] \cup {assigned[a] : a \in held} = Pool[c]
    /\ \A a \in held : assigned[a] \notin free[c]
    /\ \A a, b \in held : assigned[a] = assigned[b] => a = b

(* An interval is spilled only under pressure: at some index more          *)
(* intervals of its class are live than the class has callee-saved         *)
(* registers (than it has registers at all, if nothing crosses a call).    *)
LiveAt(p, c) ==
  {k \in Index : input.class[k] = c /\ input.start[k] <= p /\ p <= input.end[k]}

SpillOnlyUnderPressure ==
  \A k \in Processed :
    slot[k] # 0 =>
      LET c == input.class[k]
          supply == IF \E j \in Index : input.class[j] = c /\ Crosses(j)
                    THEN Pool[c] \cap CalleeSaved ELSE Pool[c]
      IN  \E j \in Processed :
            Cardinality(LiveAt(input.start[j], c)) > Cardinality(supply)
=============================================================================
