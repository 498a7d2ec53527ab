------------------------------ MODULE LoweredRun ------------------------------
(***************************************************************************)
(* Lowering, and then the blocks it made run beside the statements they    *)
(* were made from: both stop where a variable is read, and get one value.  *)
(***************************************************************************)
EXTENDS Lowering, CStatements

CONSTANT IntWidth   \* bits of an int (32)

ASSUME IntWidthAssumption == IntWidth \in 1..Width

VARIABLES
  at,      \* block and instruction; <<>> while the function is lowered
  cont,    \* the continuation of the abstract machine
  homes    \* which alloca was used for which object

running == <<at, cont, homes>>
vars == <<fn, lowering, running>>

Params ==
  [i \in DOMAIN fn.params |-> [var |-> fn.params[i], id |-> 0 - i]]

(* A switch value as x86-64 holds it: an int has zeros above its bits, a   *)
(* short was extended with its sign to a whole register.                   *)
Held(type, v) == IF type = "int" THEN v % 2^IntWidth ELSE Wrap(v)
Bits(type) == IF type = "long" THEN Width ELSE IntWidth
SameBits(type, v, w) == (v - w) % 2^Bits(type) = 0

\* The instruction of a read or a return that is reached with the value v.
RECURSIVE SettleAt(_, _, _, _)
SettleAt(blocks, b, i, v) ==
  LET instr == blocks[b].code[i]
      go(to) == SettleAt(blocks, to, 1, v)
  IN
  CASE instr.op \in {"eval", "ret"} -> <<b, i>>
    [] instr.op = "br" -> go(instr.to)
    [] instr.op = "cond" -> go(IF v # 0 THEN instr.yes ELSE instr.no)
    [] instr.op = "range" ->
         go(IF Wrap(Held(instr.type, v) - instr.lo) <= instr.span THEN instr.yes ELSE instr.no)
    [] instr.op = "switch" ->
         LET hits == {j \in DOMAIN instr.cases : SameBits(instr.type, v, instr.cases[j].val)}
         IN  go(IF hits = {} THEN instr.default
                ELSE instr.cases[CHOOSE j \in hits : \A l \in hits : j <= l].block)
    [] instr.op = "ibr" -> go(labelBlocks[v])

Instr == ir.blocks[at[1]].code[at[2]]
Waiting == Head(cont)

InitBoth == Init /\ at = <<>> /\ cont = <<>> /\ homes = {}

LowerNext == LowerStep /\ UNCHANGED running

Start ==
  /\ at = <<>>
  /\ Terminate
  /\ at' = SettleAt(ir'.blocks, 1, 1, 0)
  /\ cont' = Settle(<<Run(fn.body, Params)>>, fn.body, Params)
  /\ UNCHANGED homes

SameEvent ==
  IF Waiting.t = "return" THEN Instr.op = "ret"
  ELSE Instr.op = "eval" /\ Instr.atom = Waiting.e[1]

\* The values of a type; a short here has as many as an int.
OfType(type) == -(2^(Bits(type) - 1))..(2^(Bits(type) - 1) - 1)
Values ==
  CASE Waiting.t = "test" -> {0, 1}
    [] Waiting.t = "select" -> OfType(Waiting.type)
    [] Waiting.t = "anywhere" -> Range(LabelNames(<<fn.body>>))

Step ==
  /\ at # <<>> /\ SameEvent /\ Waiting.t # "return"
  /\ \E v \in Values :
       /\ at' = SettleAt(ir.blocks, at[1], at[2] + 1, v)
       /\ cont' = After(cont, v, fn.body, Params)
  /\ homes' = homes \cup {[id |-> Denotes(Waiting.env, VarOf[Instr.atom]),
                           alloca |-> Instr.alloca]}
  /\ UNCHANGED <<fn, lowering>>

Next == LowerNext \/ Start \/ Step

Spec == InitBoth /\ [][Next]_vars

-----------------------------------------------------------------------------
(* The blocks do what the statements say: they read the same variables in  *)
(* the same order whatever the values are, and return when those do        *)
(* (lower_statement and all it calls).                                     *)
Agreement == at # <<>> => SameEvent

(* Every object has one alloca, and no two objects that exist at the same  *)
(* time share one; what is global has none (ensure_allocas_for_declaration *)
(* and the scopes saved and restored around blocks).                       *)
Together(a, b) ==
  0 \in {a, b} \/ \E env \in Environments(fn.body, Params) :
                    {a, b} \subseteq {env[i].id : i \in DOMAIN env}
ObjectsApart ==
  \A h, g \in homes :
    /\ (h.id = 0) = (h.alloca = 0)
    /\ h.id = g.id => h.alloca = g.alloca
    /\ h.id # g.id /\ h.alloca = g.alloca => ~Together(h.id, g.id)

(* The stored edges of a lowered function are those of its terminators,    *)
(* in both directions: dominators, phis and reachability rest on them      *)
(* (add_cfg_edge beside every terminator that is emitted).                 *)
TargetsOf(i) ==
  CASE i.op = "br" -> {i.to}
    [] i.op \in {"cond", "range"} -> {i.yes, i.no}
    [] i.op = "switch" -> {i.default} \cup {i.cases[j].block : j \in DOMAIN i.cases}
    [] i.op = "ibr" -> i.targets
    [] OTHER -> {}
EdgesOfTerminators ==
  todo = <<>> =>
    \A b \in DOMAIN ir.blocks :
      /\ ir.blocks[b].succ = UNION {TargetsOf(i) : i \in Range(ir.blocks[b].code)}
      /\ ir.blocks[b].pred = {a \in DOMAIN ir.blocks : b \in ir.blocks[a].succ}
=============================================================================
