------------------------------- MODULE Mem2Reg -------------------------------
(***************************************************************************)
(* promote_allocas_to_ssa of ir/mem2reg: variables that only loads and     *)
(* stores touch become SSA values.  Dominators and frontiers say where     *)
(* phis go; a walk over the dominator tree keeps a stack of definitions    *)
(* per variable, notes what each load stands for, and fills the phis.      *)
(*                                                                         *)
(* When the pass is over the function it was given, with its variables in  *)
(* memory, and the function it made run side by side.                      *)
(***************************************************************************)
EXTENDS Dominators, Lists

CONSTANTS
  Var,         \* the scalar allocas of the entry block, by their numbers
  ValueCount,  \* func.value_count: other values are below it, Undef among them
  Inputs,      \* functions: successor lists and the body of each block
  Token        \* what an ordinary instruction, or a callee, may compute

ASSUME ConstantsAssumption ==
  ValueCount \in Nat \ {0} /\ Var \subseteq Nat /\ IsFiniteSet(Var)

Undef == 0
Value == 0..(ValueCount - 1)

(***************************************************************************)
(* An instruction loads a variable into a value, stores a value into one,  *)
(* passes a variable's address to a callee, which may write through it, or *)
(* computes a value.                                                       *)
(***************************************************************************)
Instr == [op : {"load", "store", "call"}, var : Var, val : Value]
           \cup [op : {"def"}, val : Value]

Defines(i, v) == i.op \in {"load", "def"} /\ i.val = v
DefBlock(f, v) ==
  IF \E b \in DOMAIN f.body : \E i \in Range(f.body[b]) : Defines(i, v)
  THEN CHOOSE b \in DOMAIN f.body : \E i \in Range(f.body[b]) : Defines(i, v)
  ELSE 1

\* An instruction before the k-th of block b defines v, on every path to b.
DefinedBefore(f, v, b, k) ==
  \E a \in DOMAIN f.body : \E j \in DOMAIN f.body[a] :
    /\ Defines(f.body[a][j], v)
    /\ IF a = b THEN j < k ELSE Dominates(f.succ, a, b)

(* What the lowering hands over: nothing jumps back to the entry block,    *)
(* every value has a number of its own and is computed before it is stored.*)
FromLowering(f) ==
  /\ f.succ # <<>> /\ f.succ \in Seq(Seq(1..Len(f.succ)))
  /\ Preds(f.succ, 1) = {}
  /\ DOMAIN f.body = DOMAIN f.succ
  /\ \A b \in DOMAIN f.body : f.body[b] \in Seq(Instr)
  /\ \A b \in DOMAIN f.body : \A k \in DOMAIN f.body[b] :
       LET i == f.body[b][k] IN
       /\ i.op \in {"load", "def"} =>
            /\ i.val # Undef
            /\ \A a \in DOMAIN f.body : \A j \in DOMAIN f.body[a] :
                 Defines(f.body[a][j], i.val) => a = b /\ j = k
       /\ i.op = "store" => i.val = Undef \/ DefinedBefore(f, i.val, b, k)

ASSUME InputsAssumption == \A f \in Inputs : FromLowering(f)

VARIABLES
  func,          \* the function as given
  pc,            \* "begin", "tree", "place", "rename", "finish", "ready", "run"
  phiOf,         \* phi_map: the phi of a block and a variable
  incoming,      \* the entries of each phi, in the order they are pushed
  reachingDefs,  \* a stack of values per promoted variable
  replacements,  \* what the result of a promoted load stands for
  frames,        \* the calls of rename_block that are open
  body,          \* the blocks' instructions, phis apart, as the pass leaves them
  at, memory, env,       \* running the function as given: block, variables, values
  newMemory, newEnv      \* running the one the pass made

treeVars == <<cfg, tree>>
renaming == <<phiOf, incoming, reachingDefs, replacements, frames>>
running == <<at, memory, env, newMemory, newEnv>>
vars == <<func, pc, treeVars, renaming, body, running>>

Promotable ==
  {x \in Var : \A b \in DOMAIN func.body :
                 \A i \in Range(func.body[b]) : i.op = "call" => i.var # x}

Of(i, op) == i.op = op /\ i.var \in Promotable

Init ==
  /\ func \in Inputs
  /\ pc = "begin"
  /\ cfg = func.succ /\ TreeInit
  /\ phiOf = <<>> /\ incoming = <<>> /\ frames = <<>>
  /\ reachingDefs = [x \in Promotable |-> <<>>] /\ replacements = <<>>
  /\ body = func.body
  /\ at = 1
  /\ memory = [x \in Var |-> Undef] /\ newMemory = memory
  /\ env = [v \in Value |-> Undef] /\ newEnv = env

-----------------------------------------------------------------------------
(* The walk over one block: a load stands for the variable's current       *)
(* definition, a store makes a new one of what its operand stands for.     *)

CurrentDef(stacks, x) == IF stacks[x] = <<>> THEN Undef ELSE Last(stacks[x])
ResolveNot(repl, v) == v  \* mutant
Resolve(repl, v) == IF v \in DOMAIN repl THEN repl[v] ELSE v

WalkOne(s, i) ==
  IF Of(i, "load")
  THEN [s EXCEPT !.repl = [v \in DOMAIN @ \cup {i.val} |->
                             IF v = i.val THEN CurrentDef(s.defs, i.var) ELSE @[v]]]
  ELSE IF Of(i, "store")
  THEN [s EXCEPT !.defs[i.var] = Append(@, Resolve(s.repl, i.val))]
  ELSE s

Walk(stacks, block) ==
  LET after[k \in 0..Len(block)] ==
        IF k = 0 THEN [defs |-> stacks, repl |-> replacements]
        ELSE WalkOne(after[k - 1], block[k])
  IN  after[Len(block)]

(* cleanup_promoted_instructions, in every block, reached or not, after    *)
(* the operands left were replaced.                                        *)
Stays(i) == ~Of(i, "load") /\ ~Of(i, "store")

Rewritten(repl, block) ==
  LET kept == Kept(block, {i \in Instr : Stays(i)}) IN
  [k \in DOMAIN kept |->
     IF kept[k].op = "store" THEN [kept[k] EXCEPT !.val = Resolve(repl, @)]
     ELSE kept[k]]

Begin ==
  /\ pc = "begin" /\ Promotable # {} /\ Len(cfg) > 1
  /\ pc' = "tree"
  /\ UNCHANGED <<func, treeVars, renaming, body, running>>

NothingToPromote ==
  /\ pc = "begin" /\ Promotable = {}
  /\ pc' = "ready"
  /\ UNCHANGED <<func, treeVars, renaming, body, running>>

PromoteSingleBlock ==
  /\ pc = "begin" /\ Promotable # {} /\ Len(cfg) = 1
  /\ LET repl == Walk(reachingDefs, body[1]).repl IN
     /\ replacements' = repl
     /\ body' = <<Rewritten(repl, body[1])>>
  /\ pc' = "ready"
  /\ UNCHANGED <<func, treeVars, phiOf, incoming, reachingDefs, frames, running>>

BuildTree ==
  /\ pc = "tree" /\ idom = <<>>
  /\ TreeNext
  /\ UNCHANGED <<func, pc, renaming, body, running>>

(* A phi for each variable at every block of the iterated frontier of its  *)
(* stores, with fresh values in the order of block and variable.           *)
DefBlocks(x) ==
  {b \in DOMAIN body : \E i \in Range(body[b]) : i.op = "store" /\ i.var = x}

PhiLocations ==
  LET frontier == Frontier IN
  UNION {IteratedFrontier(frontier, DefBlocks(x)) \X {x} : x \in Promotable}

UpTo(p) == {q \in PhiLocations : q[1] < p[1] \/ (q[1] = p[1] /\ q[2] <= p[2])}

InsertPhis ==
  /\ pc = "tree" /\ idom # <<>>
  /\ phiOf' = [p \in PhiLocations |-> ValueCount - 1 + Cardinality(UpTo(p))]
  /\ incoming' = [v \in {phiOf'[p] : p \in DOMAIN phiOf'} |-> <<>>]
  /\ pc' = "rename"
  /\ UNCHANGED <<func, treeVars, reachingDefs, replacements, frames, body, running>>

(* rename_block: the block's phis, its instructions, the phis of its       *)
(* successors; then its children in the tree, one by one; then the stacks  *)
(* go back to the depths they had.                                         *)
FillSuccessorPhis(defs, b) ==
  [v \in DOMAIN incoming |->
     LET p == CHOOSE q \in DOMAIN phiOf : phiOf[q] = v
     IN  IF p[1] \in Range(cfg[b])
         THEN Append(incoming[v], [pred |-> b, val |-> CurrentDef(defs, p[2])])
         ELSE incoming[v]]

RenameBlock(b) ==
  LET withPhis == [x \in Promotable |->
                     IF <<b, x>> \in DOMAIN phiOf
                     THEN Append(reachingDefs[x], phiOf[<<b, x>>])
                     ELSE reachingDefs[x]]
      walked == Walk(withPhis, body[b])
  IN  /\ reachingDefs' = walked.defs
      /\ replacements' = walked.repl
      /\ incoming' = FillSuccessorPhis(walked.defs, b)

Frame(b) ==
  [todo |-> Children(b), saved |-> [x \in Promotable |-> Len(reachingDefs[x])]]

RenameEntry ==
  /\ pc = "rename" /\ frames = <<>>
  /\ RenameBlock(1)
  /\ frames' = <<Frame(1)>>
  /\ UNCHANGED <<func, pc, treeVars, phiOf, body, running>>

RenameChild ==
  /\ pc = "rename" /\ frames # <<>>
  /\ LET todo == Last(frames).todo
         child == CHOOSE c \in todo : \A o \in todo : c <= o
     IN  /\ todo # {}
         /\ RenameBlock(child)
         /\ frames' = Append([frames EXCEPT ![Len(frames)].todo = @ \ {child}],
                             Frame(child))
  /\ UNCHANGED <<func, pc, treeVars, phiOf, body, running>>

TruncateOne(stack, depth) ==  \* mutant: one definition is popped
  IF Len(stack) > depth THEN Front(stack) ELSE stack
Truncate(stack, depth) == SubSeq(stack, 1, depth)

RestoreStacks ==
  /\ pc = "rename" /\ frames # <<>> /\ Last(frames).todo = {}
  /\ reachingDefs' = [x \in Promotable |->
                        Truncate(reachingDefs[x], Last(frames).saved[x])]
  /\ frames' = Front(frames)
  /\ pc' = IF Len(frames) = 1 THEN "finish" ELSE pc
  /\ UNCHANGED <<func, treeVars, phiOf, incoming, replacements, body, running>>

(* apply_replacements, one step through the map for each operand, the      *)
(* phis' included; then the promoted instructions go.                      *)
ReplaceAndRemove ==
  /\ pc = "finish"
  /\ incoming' = [v \in DOMAIN incoming |->
                    [k \in DOMAIN incoming[v] |->
                       [incoming[v][k] EXCEPT !.val = Resolve(replacements, @)]]]
  /\ body' = [b \in DOMAIN body |-> Rewritten(replacements, body[b])]
  /\ pc' = "ready"
  /\ UNCHANGED <<func, treeVars, phiOf, reachingDefs, replacements, frames, running>>

-----------------------------------------------------------------------------
(* Both functions, block by block; an instruction computes, and a callee   *)
(* writes, the same in both.                                               *)
ExecuteOne(s, i, t) ==
  CASE i.op = "load" -> [s EXCEPT !.e[i.val] = s.m[i.var]]
    [] i.op = "store" -> [s EXCEPT !.m[i.var] = s.e[i.val]]
    [] i.op = "call" -> [s EXCEPT !.m[i.var] = t]
    [] i.op = "def" -> [s EXCEPT !.e[i.val] = t]

Execute(block, m, e, t) ==
  LET after[k \in 0..Len(block)] ==
        IF k = 0 THEN [m |-> m, e |-> e] ELSE ExecuteOne(after[k - 1], block[k], t)
  IN  after[Len(block)]

ExecuteBoth(b, incomingEnv, t) ==
  LET old == Execute(func.body[b], memory, env, t)
      new == Execute(body[b], newMemory, incomingEnv, t)
  IN  /\ at' = b
      /\ memory' = old.m /\ env' = old.e
      /\ newMemory' = new.m /\ newEnv' = new.e

Start ==
  /\ pc = "ready"
  /\ \E t \in Token :
       ExecuteBoth(1, [v \in Value \cup DOMAIN incoming |-> Undef], t)
  /\ pc' = "run"
  /\ UNCHANGED <<func, treeVars, renaming, body>>

\* The phis of b, all from the values at the end of the block left.
AfterPhis(b) ==
  [v \in DOMAIN newEnv |->
     IF v \in DOMAIN incoming /\ \E x \in Promotable :
                                   <<b, x>> \in DOMAIN phiOf /\ phiOf[<<b, x>>] = v
     THEN newEnv[(CHOOSE n \in Range(incoming[v]) : n.pred = at).val]
     ELSE newEnv[v]]

Step ==
  /\ pc = "run"
  /\ \E b \in Range(func.succ[at]), t \in Token : ExecuteBoth(b, AfterPhis(b), t)
  /\ UNCHANGED <<func, pc, treeVars, renaming, body>>

Next ==
  \/ Begin \/ NothingToPromote \/ PromoteSingleBlock \/ BuildTree \/ InsertPhis
  \/ RenameEntry \/ RenameChild \/ RestoreStacks \/ ReplaceAndRemove
  \/ Start \/ Step

Spec == Init /\ [][Next]_vars

-----------------------------------------------------------------------------
(* The tree is the dominator tree by its definition: the parent of a       *)
(* reached block dominates it, is not the block, and is dominated by every *)
(* other block that does; blocks never reached have no parent.             *)
ImmediateDominators ==
  idom # <<>> =>
    /\ DOMAIN idom = DOMAIN cfg /\ idom[1] = 1
    /\ \A b \in DOMAIN cfg \ {1} :
      LET above == {a \in Reachable(cfg) \ {b} : Dominates(cfg, a, b)} IN
      IF b \notin Reachable(cfg) THEN idom[b] = 0
      ELSE idom[b] \in above /\ \A a \in above : Dominates(cfg, a, idom[b])

(* When the walk is over, every phi of a reached block has one entry for   *)
(* each predecessor that is reached, and its value is defined where that   *)
(* predecessor ends: by a phi or an instruction that is still there, in a  *)
(* block that dominates it.                                                *)
NewDefBlock(v) ==
  IF v \in DOMAIN incoming THEN (CHOOSE p \in DOMAIN phiOf : phiOf[p] = v)[1]
  ELSE DefBlock([body |-> body], v)
StillDefined(v) ==
  \/ v = Undef \/ v \in DOMAIN incoming
  \/ \E b \in DOMAIN body : \E i \in Range(body[b]) : Defines(i, v)
PhisComplete ==
  pc = "ready" =>
    \A p \in DOMAIN phiOf :
      p[1] \in Reachable(cfg) =>
        LET entries == incoming[phiOf[p]] IN
        /\ {n.pred : n \in Range(entries)} = Preds(cfg, p[1]) \cap Reachable(cfg)
        /\ \A k, m \in DOMAIN entries :
             k # m => entries[k].pred # entries[m].pred
        /\ \A n \in Range(entries) :
             StillDefined(n.val) /\ Dominates(cfg, NewDefBlock(n.val), n.pred)

(* Promotion preserves the function: on every path, what a load read from  *)
(* memory is what it stands for now, every other value in scope is the     *)
(* same, and so is each variable that stayed in memory.                    *)
Agreement ==
  pc = "run" =>
    /\ \A v \in Value \ {Undef} :
         Dominates(cfg, DefBlock(func, v), at) =>
           env[v] = newEnv[Resolve(replacements, v)]
    /\ \A x \in Var \ Promotable : memory[x] = newMemory[x]
=============================================================================
