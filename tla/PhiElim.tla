------------------------------- MODULE PhiElim -------------------------------
(***************************************************************************)
(* eliminate_phi_nodes of ir/mem2reg/phi_eliminate.rs: out of SSA form.    *)
(* Trivial phis are replaced by their operand, critical edges are split,   *)
(* and the phis become copies in the predecessors, put in order by         *)
(* ParallelCopy.                                                           *)
(*                                                                         *)
(* When the pass is over the module runs the function it was given and the *)
(* function it made side by side, over the same edges, so that what the    *)
(* pass promises can be stated: both see the same values.                  *)
(***************************************************************************)
EXTENDS Cfg, Lists, ParallelCopy

CONSTANTS
  Inputs,  \* functions in SSA form the pass may be given
  Token    \* what an ordinary instruction may compute

\* SSA values are those below value_count, Undef among them.
Undef == 0

(***************************************************************************)
(* A function: blocks 1..n (1 is the entry) with successor lists, the      *)
(* blocks that end in an IndirectBranch, the phis, and the block of the    *)
(* other definitions; a value with none is a parameter.  A phi has a block,*)
(* a result and, for each predecessor, the value it takes from there.      *)
(***************************************************************************)
DefBlock(f, v) ==
  IF \E p \in f.phis : p.dest = v THEN (CHOOSE p \in f.phis : p.dest = v).block
  ELSE IF v \in DOMAIN f.defs THEN f.defs[v] ELSE 1

\* How many links of a chain of trivial phis are followed.
ChainLimit == 1002

\* The way into the function brings no operand, so the entry has no phis.
InSSAForm(f) ==
  /\ f.n \in Nat \ {0} /\ f.succ \in [1..f.n -> Seq(1..f.n)] /\ f.indirect \subseteq 1..f.n
  /\ DOMAIN f.defs \subseteq Value \ {Undef} /\ f.defs \in [DOMAIN f.defs -> 1..f.n]
  /\ Cardinality(f.phis) <= ChainLimit
  /\ \A p, q \in f.phis : p.dest = q.dest => p = q
  /\ \A p \in f.phis :
       /\ p \in [block : 2..f.n, dest : Value \ {Undef},
                 from : [Preds(f.succ, p.block) -> Value]]
       /\ p.dest \notin DOMAIN f.defs
       /\ \A b \in DOMAIN p.from : Dominates(f.succ, DefBlock(f, p.from[b]), b)

ASSUME FunctionsAssumption == \A f \in Inputs : InSSAForm(f)

VARIABLES
  func,     \* the function as given
  pc,       \* "trivial", "split", "copy", "run"
  succ,     \* successor lists, as the pass rewrites them
  phis,     \* the phis left
  stands,   \* the value each value's uses refer to by now (replace_value_uses)
  toSplit,  \* edges_to_split, those left
  splitOf,  \* the block put on each edge that was split
  pending,  \* predecessors whose copies are still to be put in order
  pred,     \* the one being done, 0 for none
  effect,   \* what the copies at the end of each block do
  at, ssa, out  \* the block reached and the values, in both functions

pass == <<func, pc, succ, phis, stands, toSplit, splitOf, pending, pred, effect>>
running == <<at, ssa, out>>
vars == <<pass, copying, running>>

Identity == [v \in Value |-> v]

Init ==
  /\ func \in Inputs
  /\ pc = "trivial"
  /\ succ = func.succ
  /\ phis = func.phis
  /\ stands = Identity
  /\ toSplit = {} /\ splitOf = <<>>
  /\ pending = {} /\ pred = 0
  /\ given = {} /\ remaining = {} /\ nextValue = ValueCount /\ holds = Identity
  /\ effect = [b \in 1..func.n |-> Identity]
  /\ at = 1 /\ ssa = Identity /\ out = Identity

-----------------------------------------------------------------------------
(* Step 1: phis whose operands, apart from themselves, are one value.      *)

Operands(p) == {p.from[b] : b \in DOMAIN p.from} \ {p.dest}
Trivial == {p \in phis : Cardinality(Operands(p)) <= 1}
Replacement(p) == IF Operands(p) = {} THEN Undef ELSE CHOOSE v \in Operands(p) : TRUE

\* The trivial phis a value leads to, followed to the end.
Resolved ==
  LET next == [v \in Value |-> IF \E p \in Trivial : p.dest = v
                               THEN Replacement(CHOOSE p \in Trivial : p.dest = v)
                               ELSE v]
      chase[k \in 0..Cardinality(Trivial)] ==
        IF k = 0 THEN Identity ELSE [v \in Value |-> chase[k - 1][next[v]]]
  IN  chase[Cardinality(Trivial)]

EliminateTrivial ==
  /\ pc = "trivial" /\ Trivial # {}
  /\ phis' = {[p EXCEPT !.from = [b \in DOMAIN p.from |-> Resolved[p.from[b]]]] :
                p \in phis \ Trivial}
  /\ stands' = [v \in Value |-> Resolved[stands[v]]]
  /\ UNCHANGED <<func, pc, succ, toSplit, splitOf, pending, pred, effect,
                 copying, running>>

(* Step 3: an edge from a block with several successors to a block with    *)
(* several predecessors has no place for copies; except after a computed   *)
(* goto, it gets a block of its own.                                       *)
IsCriticalSwitch(a, b) ==  \* mutant: a two-way branch is not critical
  Len(succ[a]) > 2 /\ Cardinality(Preds(succ, b)) > 1
IsCritical(a, b) == Len(succ[a]) > 1 /\ Cardinality(Preds(succ, b)) > 1

CollectEdges ==
  /\ pc = "trivial" /\ Trivial = {}
  /\ toSplit' = {e \in UNION {(DOMAIN p.from) \X {p.block} : p \in phis} :
                   IsCritical(e[1], e[2]) /\ e[1] \notin func.indirect}
  /\ pc' = "split"
  /\ UNCHANGED <<func, succ, phis, stands, splitOf, pending, pred, effect,
                 copying, running>>

RetargetNone(from, a, new) == from  \* mutant: the phis keep the old block
Retarget(from, a, new) ==
  [b \in (DOMAIN from \ {a}) \cup {new} |-> IF b = new THEN from[a] ELSE from[b]]

Succs(a, b, new) == Append(Kept(succ[a], DOMAIN succ \ {b}), new)

SplitEdge(a, b) ==
  LET new == Cardinality(DOMAIN succ) + 1 IN
  /\ succ' = [c \in DOMAIN succ \cup {new} |->
                IF c = new THEN <<b>>
                ELSE IF c = a THEN Succs(a, b, new)
                ELSE succ[c]]
  /\ phis' = {IF p.block = b THEN [p EXCEPT !.from = Retarget(p.from, a, new)]
              ELSE p : p \in phis}
  /\ splitOf' = [e \in DOMAIN splitOf \cup {<<a, b>>} |->
                   IF e = <<a, b>> THEN new ELSE splitOf[e]]
  /\ effect' = [c \in DOMAIN effect \cup {new} |->
                  IF c = new THEN Identity ELSE effect[c]]

SplitCriticalEdge ==
  /\ pc = "split"
  /\ \E e \in toSplit : SplitEdge(e[1], e[2]) /\ toSplit' = toSplit \ {e}
  /\ UNCHANGED <<func, pc, stands, pending, pred, copying, running>>

(* Steps 4 to 8: the copies of each predecessor, in any order of the       *)
(* predecessors, before its first terminator; then the phis go.            *)
CopiesAt(b) ==
  {[dest |-> p.dest, src |-> p.from[b]] :
     p \in {q \in phis : b \in DOMAIN q.from /\ q.from[b] # q.dest}}

GenerateCopies ==
  /\ pc = "split" /\ toSplit = {}
  /\ pending' = {b \in DOMAIN succ : CopiesAt(b) # {}}
  /\ pc' = "copy"
  /\ UNCHANGED <<func, succ, phis, stands, toSplit, splitOf, pred, effect,
                 copying, running>>

BeginPred ==
  /\ pc = "copy" /\ pred = 0
  /\ \E b \in pending :
       /\ pred' = b /\ pending' = pending \ {b}
       /\ given' = CopiesAt(b)
       /\ remaining' = CopiesAt(b)
  /\ holds' = Identity
  /\ UNCHANGED <<func, pc, succ, phis, stands, toSplit, splitOf, effect,
                 nextValue, running>>

Sequentialize ==
  /\ pc = "copy" /\ pred # 0
  /\ CopyNext  \* sequentialize_copies on it
  /\ UNCHANGED <<pass, running>>

InsertCopies ==
  /\ pc = "copy" /\ pred # 0 /\ remaining = {}
  /\ effect' = [effect EXCEPT ![pred] = [v \in Value |-> holds[v]]]
  /\ pred' = 0
  /\ UNCHANGED <<func, pc, succ, phis, stands, toSplit, splitOf, pending,
                 copying, running>>

RemovePhis ==
  /\ pc = "copy" /\ pred = 0 /\ pending = {}
  /\ phis' = {}
  /\ pc' = "run"
  /\ UNCHANGED <<func, succ, stands, toSplit, splitOf, pending, pred, effect,
                 copying, running>>

-----------------------------------------------------------------------------
(* Both functions over one edge of the original.                           *)

AfterPhis(b) ==
  [v \in Value |->
     IF \E p \in func.phis : p.block = b /\ p.dest = v
     THEN ssa[(CHOOSE p \in func.phis : p.dest = v).from[at]] ELSE ssa[v]]

AfterCopies(b) ==
  LET end == [v \in Value |-> out[effect[at][v]]]
  IN  IF <<at, b>> \in DOMAIN splitOf
      THEN [v \in Value |-> end[effect[splitOf[<<at, b>>]][v]]] ELSE end

Step ==
  /\ pc = "run"
  /\ \E b \in Range(func.succ[at]), t \in Token :
       LET own == {v \in DOMAIN func.defs : func.defs[v] = b}
           compute(env) == [v \in Value |-> IF v \in own THEN t ELSE env[v]]
       IN  /\ at' = b
           /\ ssa' = compute(AfterPhis(b))
           /\ out' = compute(AfterCopies(b))
  /\ UNCHANGED <<pass, copying>>

Next ==
  \/ EliminateTrivial \/ CollectEdges \/ SplitCriticalEdge \/ GenerateCopies
  \/ BeginPred \/ Sequentialize \/ InsertCopies \/ RemovePhis \/ Step

Spec == Init /\ [][Next]_vars

-----------------------------------------------------------------------------
(* While there are phis, each has exactly one operand per predecessor of   *)
(* its block, also between two splits: no edge loses its copies.           *)
PhiPredsMatch ==
  \A p \in phis : DOMAIN p.from = Preds(succ, p.block)

(* Phi elimination preserves the function: on every path, every value in   *)
(* scope has the same contents in the function without phis (lost copies,  *)
(* swapped phis and stale trivial phis would all break it).                *)
Agreement ==
  pc = "run" =>
    \A v \in Value \ {Undef} :
      Dominates(func.succ, DefBlock(func, v), at) => ssa[v] = out[stands[v]]
=============================================================================
