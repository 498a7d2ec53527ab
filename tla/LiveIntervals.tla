---------------------------- MODULE LiveIntervals ----------------------------
(***************************************************************************)
(* compute_live_intervals of backend/register_allocator.rs, with the       *)
(* reverse_postorder of ir/function.rs it starts from.                     *)
(*                                                                         *)
(* The maps starts and ends have one independent entry per value, so the   *)
(* module follows one value through a function.  An instruction is what it *)
(* does to that value: "def" (it is the result), "use" (it is an operand), *)
(* "phi" (the same, of a phi) or "nop".  Every block ends in a terminator, *)
(* which is no "def".                                                      *)
(***************************************************************************)
EXTENDS Integers, Sequences, FiniteSets, SequencesExt, FiniteSetsExt

CONSTANTS
  Block,    \* basic blocks; block 1 is the entry block
  Cfgs,     \* successor lists: functions from Block to sequences of blocks
  Codes     \* functions from Block to instruction lists

Entry == 1

\* succ is a successor list per block, without duplicates (add_successor).
IsCfg(s) ==
  /\ s \in [Block -> Seq(Block)]
  /\ \A b \in Block : IsInjective(s[b])

ASSUME BlockAssumption ==
  /\ IsFiniteSet(Block) /\ Block \subseteq Nat \ {0} /\ Entry \in Block
ASSUME CfgsAssumption == \A s \in Cfgs : IsCfg(s)
ASSUME CodesAssumption ==
  \A c \in Codes : c \in [Block -> Seq({"def", "use", "phi", "nop"}) \ {<<>>}]

VARIABLES
  pc,         \* the loop the function is in: "dfs" to "done"
  succ,       \* the control-flow graph
  code,       \* the value's instructions, block by block
  param,      \* the value is a function parameter
  phiFrom,    \* blocks from whose end some phi takes the value
  stack,      \* DFS stack of <<block, successors looked at>>
  visited,    \* DFS visited flags
  postorder,  \* blocks the DFS has finished
  blockStart, \* linear index of each block's first instruction
  start, end, \* starts[value], ends[value]; Absent when there is no entry
  at          \* RPO position the loop over the blocks has reached

vars == <<pc, succ, code, param, phiFrom, stack, visited, postorder,
          blockStart, start, end, at>>
function == <<succ, code, param, phiFrom>>
dfs == <<stack, visited, postorder, blockStart>>

Absent == -1

Init ==
  /\ pc = "dfs"
  /\ succ \in Cfgs
  /\ code = [b \in Block |-> <<"nop">>]
  /\ param = FALSE
  /\ phiFrom = {}
  /\ stack = <<<<Entry, 0>>>>
  /\ visited = {Entry}
  /\ postorder = <<>>
  /\ blockStart = [b \in Block |-> 0]
  /\ start = Absent /\ end = Absent
  /\ at = 1

-----------------------------------------------------------------------------
(* reverse_postorder: an iterative depth-first search.                     *)

Top == stack[Len(stack)]
TopSuccs == succ[Top[1]]

Fresh(b) == b \notin visited

\* The block on top has a successor left: look at it, descend if new.
Descend ==
  /\ pc = "dfs" /\ stack # <<>> /\ Top[2] < Len(TopSuccs)
  /\ LET next == TopSuccs[Top[2] + 1]
         bumped == [stack EXCEPT ![Len(stack)] = <<Top[1], Top[2] + 1>>]
     IN  /\ stack' = IF Fresh(next) THEN Append(bumped, <<next, 0>>)
                     ELSE bumped
         /\ visited' = visited \cup {next}
  /\ UNCHANGED <<pc, function, postorder, blockStart, start, end, at>>

\* All its successors are looked at: the block is done.
Finish ==
  /\ pc = "dfs" /\ stack # <<>> /\ Top[2] = Len(TopSuccs)
  /\ postorder' = Append(postorder, Top[1])
  /\ stack' = Front(stack)
  /\ pc' = IF Len(stack) = 1 THEN "code" ELSE pc
  /\ UNCHANGED <<function, visited, blockStart, start, end, at>>

rpoForward == postorder  \* mutant: the final reversal forgotten
rpo == Reverse(postorder)
RpoPos(b) == CHOOSE p \in 1..Len(rpo) : rpo[p] = b

-----------------------------------------------------------------------------
(* Step 1: the blocks one after the other in RPO.  Index 0 is reserved for *)
(* the parameters.                                                         *)

FirstIndexZero == 0  \* mutant: parameters share the first instruction's index
FirstIndex == 1

BlockLast(b) == blockStart[b] + Len(code[b]) - 1
NextIndex ==
  IF at = 1 THEN FirstIndex ELSE BlockLast(rpo[at - 1]) + 1

Linearise ==
  /\ pc = "linear"
  /\ blockStart' = [blockStart EXCEPT ![rpo[at]] = NextIndex]
  /\ IF at < Len(rpo) THEN at' = at + 1 /\ pc' = pc
                      ELSE at' = 1 /\ pc' = "scan"
  /\ UNCHANGED <<function, stack, visited, postorder, start, end>>

(* Step 2: starts keeps the first index the value is seen at, 0 for a      *)
(* parameter or for a value used before any definition was seen; ends      *)
(* keeps the last.  The operands of a phi count like any others.           *)
Sites == UNION {{<<b, i>> : i \in 1..Len(code[b])} : b \in Range(rpo)}
Kind(site) == code[site[1]][site[2]]
Index(site) == blockStart[site[1]] + site[2] - 1

Touching == {site \in Sites : Kind(site) # "nop"}
FirstSeen == CHOOSE s \in Touching : \A t \in Touching : Index(s) <= Index(t)

Scan ==
  /\ pc = "scan"
  /\ start' = IF param THEN 0
              ELSE IF Touching = {} THEN Absent
              ELSE IF Kind(FirstSeen) = "def" THEN Index(FirstSeen) ELSE 0
  /\ end' = IF Touching # {} THEN Max({Index(s) : s \in Touching})
            ELSE IF param THEN 0 ELSE Absent
  /\ pc' = "phi"
  /\ UNCHANGED <<function, dfs, at>>

(* Step 3: a phi operand lives to the last instruction of its predecessor; *)
(* block_end of a block out of reach is 0.                                 *)
PhiReach == {IF b \in Range(rpo) THEN BlockLast(b) ELSE 0 : b \in phiFrom}

ExtendPhi ==
  /\ pc = "phi"
  /\ end' = Max(PhiReach \cup {end})
  /\ start' = IF PhiReach # {} /\ start = Absent THEN 0 ELSE start
  /\ pc' = "loops"
  /\ UNCHANGED <<function, dfs, at>>

(* Step 3.5: for the block at position "at", every successor that is not   *)
(* later in RPO is a loop header; a value that reaches it from before is   *)
(* kept to the end of the block.                                           *)
HeadersOther(p) ==  \* mutant: a block that loops to itself is no loop
  {h \in Range(succ[rpo[p]]) : RpoPos(h) < p}
Headers(p) == {h \in Range(succ[rpo[p]]) : RpoPos(h) <= p}

Reaches(h) == start < blockStart[h] /\ blockStart[h] <= end

LoopEndShort(p) == BlockLast(rpo[p]) - 1  \* mutant: the terminator left out
LoopEnd(p) == BlockLast(rpo[p])

ExtendLoops ==
  /\ pc = "loops" /\ at <= Len(rpo)
  /\ end' = IF start # Absent /\ \E h \in Headers(at) : Reaches(h)
            THEN Max({end, LoopEnd(at)}) ELSE end
  /\ at' = at + 1
  /\ pc' = IF at = Len(rpo) THEN "done" ELSE pc
  /\ UNCHANGED <<function, dfs, start>>

\* crosses_call for a call at linear index cp.
Crosses(cp) == start < cp /\ cp < end

-----------------------------------------------------------------------------
(* Liveness as the code generator needs it: along paths, not along the     *)
(* linear order.                                                           *)

UsedFrom(b, i) ==
  \E j \in i..Len(code[b]) :
    code[b][j] = "use" /\ \A k \in i..(j - 1) : code[b][k] # "def"
ClearFrom(b, i) == \A k \in i..Len(code[b]) : code[b][k] # "def"

LiveIn ==
  LET step[n \in 0..Cardinality(Block)] ==
        IF n = 0 THEN {}
        ELSE {b \in Block :
                \/ UsedFrom(b, 1)
                \/ /\ ClearFrom(b, 1)
                   /\ b \in phiFrom \/ Range(succ[b]) \cap step[n - 1] # {}}
  IN  step[Cardinality(Block)]

\* Live just after instruction i of block b.
LiveAfter(b, i, liveIn) ==
  \/ UsedFrom(b, i + 1)
  \/ ClearFrom(b, i + 1) /\ (b \in phiFrom \/ Range(succ[b]) \cap liveIn # {})

(***************************************************************************)
(* The functions the pass is given: what the earlier passes guarantee is   *)
(* that a value with definitions has one on every path to a use, and only  *)
(* one while there are phis.  A value without is a parameter, a global or  *)
(* a constant.                                                             *)
(***************************************************************************)
Defs == UNION {{<<b, i>> : i \in {j \in 1..Len(code[b]) : code[b][j] = "def"}} :
                 b \in Block}
PhiBlocks == {b \in Block : code[b][1] = "phi"}
Strict ==
  /\ \A b \in phiFrom : PhiBlocks \cap Range(succ[b]) # {}
  /\ \A h \in PhiBlocks : \E b \in phiFrom : h \in Range(succ[b])
  /\ Defs # {} => Entry \notin LiveIn
  /\ param => Defs = {}
  /\ phiFrom # {} => Cardinality(Defs) <= 1

\* The search does not look at instructions: which of them mention the value
\* is chosen once it is over.
Populate ==
  /\ pc = "code"
  /\ UNCHANGED <<succ, dfs, start, end, at>>
  /\ code' \in Codes
  /\ param' \in BOOLEAN
  /\ phiFrom' \in SUBSET Block
  /\ Strict'
  /\ pc' = "linear"

Next == Descend \/ Finish \/ Populate \/ Linearise \/ Scan \/ ExtendPhi \/ ExtendLoops

Spec == Init /\ [][Next]_vars

-----------------------------------------------------------------------------
\* There is a path from a to b: no set that has a and is left by no edge is
\* without b.
Leads(a, b) ==
  \A S \in SUBSET Block :
    a \in S /\ (\A c \in S : Range(succ[c]) \subseteq S) => b \in S

(* reverse_postorder: the entry comes first, and every other block comes   *)
(* after one of its predecessors, and after all of them when it is on no   *)
(* cycle: an edge that goes back in the order, or stays, closes a cycle.   *)
(* Nothing a block in the order leads to is left out.                      *)
RpoSound ==
  pc = "code" =>
    /\ rpo[1] = Entry
    /\ \A p \in 2..Len(rpo) : \E q \in 1..(p - 1) : rpo[p] \in Range(succ[rpo[q]])
    /\ \A q \in 1..Len(rpo) : \A p \in 1..q :
         rpo[p] \in Range(succ[rpo[q]]) => Leads(rpo[p], rpo[q])
    /\ \A p \in 1..Len(rpo) : Range(succ[rpo[p]]) \subseteq Range(rpo)

(* compute_live_intervals: wherever the value is live, on any path around  *)
(* any loop, reducible or not, its interval contains the linear index.     *)
LiveCovered ==
  pc = "done" =>
    LET liveIn == LiveIn IN
    \A site \in Sites :
       LiveAfter(site[1], site[2], liveIn) => start <= Index(site) /\ Index(site) <= end

(* crosses_call: a value live across an instruction that is a call is      *)
(* flagged, so that it gets no caller-saved register.                      *)
CallsFlagged ==
  pc = "done" =>
    LET liveIn == LiveIn IN
    \A site \in Sites :
       /\ site[2] < Len(code[site[1]])
       /\ Kind(site) # "def"
       /\ LiveAfter(site[1], site[2], liveIn)
       => Crosses(Index(site))

(* Step 3.5 looks at each back edge once, in RPO; no later extension makes *)
(* a value reach the header of an edge already passed over.                *)
BackEdgesClosed ==
  pc = "done" /\ start # Absent =>
    \A p \in 1..(at - 1) : \A h \in Headers(p) :
       Reaches(h) => BlockLast(rpo[p]) <= end
=============================================================================
