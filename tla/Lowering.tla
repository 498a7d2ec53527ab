------------------------------- MODULE Lowering -------------------------------
(***************************************************************************)
(* ir/lowering/stmt_lowering.rs: a function body, a tree of statements,    *)
(* becomes basic blocks with stored edges.  Each action is one handler up  *)
(* to the point where it lowers a nested statement; what the handler does  *)
(* after that is put on todo.                                              *)
(*                                                                         *)
(* An expression is a sequence of atoms joined by &&; an atom reads one    *)
(* variable.  Declarations bind names to allocas, all of one type.         *)
(* Initialisers, asm, VLAs and static or extern locals are left out.       *)
(***************************************************************************)
EXTENDS Integers, Sequences, FiniteSets, SequencesExt

CONSTANTS
  Functions,       \* bodies, as records [params, body]
  Var,             \* names of variables
  VarOf,           \* the variable each atom reads
  Width,           \* bits of a case value (64)
  MaxEnumerated    \* case ranges up to this size are listed (256)

ASSUME WidthAssumption == Width \in Nat \ {0} /\ MaxEnumerated \in Nat

VARIABLES
  fn,              \* the function
  todo,            \* what is left of the handlers that are on the call stack
  ir,              \* its blocks so far, and the insertion block
  ended,           \* the last lower_statement returned None
  loopStack,       \* loop_stack
  switchCtx,       \* switch_ctx
  labelBlocks,     \* label_blocks
  localVars,       \* local_vars: name to alloca, 0 for none
  claimed,         \* claimed_vars
  allocas          \* how many there are

frame == <<loopStack, switchCtx, labelBlocks>>
names == <<localVars, claimed, allocas>>
lowering == <<todo, ir, ended, frame, names>>

Passes == 0   \* BlockId(u32::MAX): continue passes through to a loop
NoContext == [none |-> TRUE]

-----------------------------------------------------------------------------
(* Blocks.                                                                 *)

EmptyBlock == [code |-> <<>>, succ |-> {}, pred |-> {}]
Count == Len(ir.blocks)
WithBlocks(f, n) == [f EXCEPT !.blocks = @ \o [i \in 1..n |-> EmptyBlock]]
InBlock(f, b) == [f EXCEPT !.cur = b]
Emit(f, i) == [f EXCEPT !.blocks[f.cur].code = Append(@, i)]

OneWay(f, a, b) == [f EXCEPT !.blocks[a].succ = @ \cup {b}]  \* mutant: no predecessor
Edge(f, a, b) ==
  [f EXCEPT !.blocks[a].succ = @ \cup {b}, !.blocks[b].pred = @ \cup {a}]

Terminators == {"br", "cond", "range", "switch", "ibr", "ret"}
IsTerminated(f) ==
  LET code == f.blocks[f.cur].code IN code # <<>> /\ Last(code).op \in Terminators

Jump(f, to) == Edge(Emit(f, [op |-> "br", to |-> to]), f.cur, to)
JumpIfOpen(f, to) == IF IsTerminated(f) THEN f ELSE Jump(f, to)
Branch(f, yes, no) ==
  Edge(Edge(Emit(f, [op |-> "cond", yes |-> yes, no |-> no]), f.cur, yes), f.cur, no)

(* lower_logical_and: the right side in a block of its own, and a block    *)
(* where the result is known, in which the code goes on.                   *)
Eval(f, atom) ==
  Emit(f, [op |-> "eval", atom |-> atom, alloca |-> localVars[VarOf[atom]]])
LowerExpr(f, e) ==
  IF Len(e) = 1 THEN Eval(f, e[1])
  ELSE LET right == Len(f.blocks) + 1
           merge == Len(f.blocks) + 2
           left == Branch(Eval(WithBlocks(f, 2), e[1]), right, merge)
       IN  InBlock(Jump(Eval(InBlock(left, right), e[2]), merge), merge)

-----------------------------------------------------------------------------
(* Walks over the tree before anything is lowered.                         *)

Children(s) ==
  CASE s.k = "if" -> <<s.then>> \o s.els
    [] s.k \in {"while", "do", "for", "switch", "case", "range", "default", "label"} ->
         <<s.body>>
    [] s.k = "block" -> s.items
    [] OTHER -> <<>>

RECURSIVE IsLabelLike(_), LabelNames(_), DeclaredNames(_)

TopOnly(s) == s.k \in {"label", "case", "default", "range"}  \* mutant: not within
IsLabelLike(s) ==
  \/ s.k \in {"label", "case", "default", "range"}
  \/ \E i \in DOMAIN Children(s) : IsLabelLike(Children(s)[i])

\* collect_label_names and collect_locals_recursive, in order; neither sees
\* into a statement expression.
LabelNames(list) ==
  IF list = <<>> THEN <<>>
  ELSE LET s == Head(list) IN
       (IF s.k = "label" THEN <<s.name>> ELSE <<>>)
         \o LabelNames(Children(s) \o Tail(list))
DeclaredNames(list) ==
  IF list = <<>> THEN <<>>
  ELSE LET s == Head(list) IN
       (IF s.k = "decl" THEN <<s.var>> ELSE IF s.k = "for" THEN s.init ELSE <<>>)
         \o DeclaredNames(Children(s) \o Tail(list))

LastIndex(seq, x) ==
  IF x \in Range(seq) THEN CHOOSE i \in DOMAIN seq : seq[i] = x /\
                                     \A j \in DOMAIN seq : seq[j] = x => j <= i
  ELSE 0

(* The allocas of the parameters, then one for each local, of which a name *)
(* is bound to the last; a parameter's name to the parameter.              *)
ParamAlloca(x) == LastIndex(fn.params, x)

Init ==
  /\ fn \in Functions
  /\ LET labels == LabelNames(<<fn.body>>)
         locals == DeclaredNames(<<fn.body>>)
     IN  /\ ir = WithBlocks([blocks |-> <<EmptyBlock>>, cur |-> 1], Len(labels))
         /\ labelBlocks = [l \in Range(labels) |-> 1 + LastIndex(labels, l)]
         /\ localVars = [x \in Var |->
              IF x \in Range(fn.params) THEN ParamAlloca(x)
              ELSE IF x \in Range(locals) THEN Len(fn.params) + LastIndex(locals, x)
              ELSE 0]
         /\ allocas = Len(fn.params) + Len(locals)
  /\ todo = <<[do |-> "lower", s |-> fn.body]>>
  /\ ended = FALSE
  /\ loopStack = <<>> /\ switchCtx = NoContext
  /\ claimed = {}

-----------------------------------------------------------------------------
Doing(what) == todo # <<>> /\ Head(todo).do = what
Lowering(kind) == Doing("lower") /\ Head(todo).s.k = kind
Stmt == Head(todo).s
Then(items) == todo' = items \o Tail(todo)

Lower(s) == [do |-> "lower", s |-> s]
JoinAt(b) == [do |-> "join", to |-> b]
GoOnAt(b) == [do |-> "goOn", at |-> b]
PopLoop == [do |-> "popLoop"]
RestoreNames == [do |-> "restoreNames", localVars |-> localVars, claimed |-> claimed]

\* What most handlers do after a nested statement: a branch, unless that
\* statement ended its block; then on with another block.
Join ==
  /\ Doing("join")
  /\ ir' = IF ended THEN ir ELSE JumpIfOpen(ir, Head(todo).to)
  /\ Then(<<>>)
  /\ UNCHANGED <<fn, ended, frame, names>>

GoOn ==
  /\ Doing("goOn")
  /\ ir' = InBlock(ir, Head(todo).at)
  /\ ended' = FALSE
  /\ Then(<<>>)
  /\ UNCHANGED <<fn, frame, names>>

-----------------------------------------------------------------------------
(* Expressions, declarations and blocks.                                   *)

ExpressionStatement ==
  /\ Lowering("expr")
  /\ ir' = LowerExpr(ir, Stmt.e)
  /\ ended' = FALSE
  /\ Then(<<>>)
  /\ UNCHANGED <<fn, frame, names>>

(* ensure_allocas_for_declaration: the alloca of the walk the first time a *)
(* declaration of the name is met, a new one when it hides another.        *)
ReuseAlways(x) == localVars[x] # 0  \* mutant: hides nothing
Reuse(x) ==
  /\ localVars[x] # 0 /\ x \notin claimed
  /\ ~(x \in Range(fn.params) /\ localVars[x] = ParamAlloca(x))

EnsureAlloca(x) ==
  IF Reuse(x) THEN claimed' = claimed \cup {x} /\ UNCHANGED <<localVars, allocas>>
  ELSE /\ allocas' = allocas + 1
       /\ localVars' = [localVars EXCEPT ![x] = allocas']
       /\ UNCHANGED claimed

Declaration ==
  /\ Lowering("decl")
  /\ EnsureAlloca(Stmt.var)
  /\ Then(<<>>)
  /\ UNCHANGED <<fn, ir, ended, frame>>

Compound ==
  /\ Lowering("block")
  /\ ended' = FALSE
  /\ Then(<<[do |-> "items", left |-> Stmt.items], RestoreNames>>)
  /\ UNCHANGED <<fn, ir, frame, names>>

\* Of what follows the end of a block, only what contains a label.
NextItem ==
  /\ Doing("items") /\ Head(todo).left # <<>>
  /\ LET left == Head(todo).left
         rest == [do |-> "items", left |-> Tail(left)]
     IN  Then((IF (ended \/ IsTerminated(ir)) /\ ~IsLabelLike(Head(left)) THEN <<>>
               ELSE <<Lower(Head(left))>>) \o <<rest>>)
  /\ UNCHANGED <<fn, ir, ended, frame, names>>

ItemsDone ==
  /\ Doing("items") /\ Head(todo).left = <<>>
  /\ Then(<<>>)
  /\ UNCHANGED <<fn, ir, ended, frame, names>>

LeaveScope ==
  /\ Doing("restoreNames")
  /\ localVars' = Head(todo).localVars /\ claimed' = Head(todo).claimed
  /\ Then(<<>>)
  /\ UNCHANGED <<fn, ir, ended, frame, allocas>>

(* lower_statement_expression: its variables first, labels of its own, no  *)
(* switch, the loops around it; nothing in it is passed over.              *)
StatementExpression ==
  /\ Lowering("stmtexpr")
  /\ LET declared == SelectSeq(Stmt.items, LAMBDA i : i.k = "decl")
         vars == [i \in DOMAIN declared |-> declared[i].var]
     IN  /\ localVars' = [x \in Var |-> IF x \in Range(vars)
                                        THEN allocas + LastIndex(vars, x)
                                        ELSE localVars[x]]
         /\ allocas' = allocas + Len(vars)
  /\ claimed' = {} /\ labelBlocks' = << >> /\ switchCtx' = NoContext
  /\ Then([i \in DOMAIN Stmt.items |-> Lower(Stmt.items[i])]
            \o <<[do |-> "endExpr", labels |-> labelBlocks, switch |-> switchCtx],
                 RestoreNames>>)
  /\ UNCHANGED <<fn, ir, ended, loopStack>>

EndStatementExpression ==
  /\ Doing("endExpr")
  /\ labelBlocks' = Head(todo).labels /\ switchCtx' = Head(todo).switch
  /\ ended' = FALSE
  /\ Then(<<>>)
  /\ UNCHANGED <<fn, ir, loopStack, names>>

-----------------------------------------------------------------------------
(* if and the loops.                                                       *)

If ==
  /\ Lowering("if")
  /\ LET then == Count + 1
         merge == Count + 2
         else == IF Stmt.els = <<>> THEN merge ELSE Count + 3
         made == WithBlocks(ir, IF Stmt.els = <<>> THEN 2 ELSE 3)
     IN  /\ ir' = InBlock(Branch(LowerExpr(made, Stmt.cond), then, else), then)
         /\ Then(<<Lower(Stmt.then), JoinAt(merge)>>
                   \o (IF Stmt.els = <<>> THEN <<>>
                       ELSE <<GoOnAt(else), Lower(Stmt.els[1]), JoinAt(merge)>>)
                   \o <<GoOnAt(merge)>>)
  /\ UNCHANGED <<fn, ended, frame, names>>

Loop(break, continue) == [break |-> break, continue |-> continue]

While ==
  /\ Lowering("while")
  /\ LET header == Count + 1
         body == Count + 2
         exit == Count + 3
         entered == InBlock(Jump(WithBlocks(ir, 3), header), header)
     IN  /\ ir' = InBlock(Branch(LowerExpr(entered, Stmt.cond), body, exit), body)
         /\ loopStack' = Append(loopStack, Loop(exit, header))
         /\ Then(<<Lower(Stmt.body), JoinAt(header), PopLoop, GoOnAt(exit)>>)
  /\ UNCHANGED <<fn, ended, switchCtx, labelBlocks, names>>

\* A condition <<>> is the constant 0: no block tests it.
DoWhile ==
  /\ Lowering("do")
  /\ LET body == Count + 1
         once == Stmt.cond = <<>>
         exit == IF once THEN Count + 2 ELSE Count + 3
         again == IF once THEN exit ELSE Count + 2
     IN  /\ ir' = InBlock(Jump(WithBlocks(ir, IF once THEN 2 ELSE 3), body), body)
         /\ loopStack' = Append(loopStack, Loop(exit, again))
         /\ Then(<<Lower(Stmt.body), JoinAt(again), PopLoop>>
                   \o (IF once THEN <<>>
                       ELSE <<GoOnAt(again), [do |-> "test", e |-> Stmt.cond,
                                              yes |-> body, no |-> exit]>>)
                   \o <<GoOnAt(exit)>>)
  /\ UNCHANGED <<fn, ended, switchCtx, labelBlocks, names>>

DoWhileTest ==
  /\ Doing("test")
  /\ ir' = Branch(LowerExpr(ir, Head(todo).e), Head(todo).yes, Head(todo).no)
  /\ Then(<<>>)
  /\ UNCHANGED <<fn, ended, frame, names>>

\* The scope of the init clause is entered before the rest is lowered.
ForInit ==
  /\ Lowering("for") /\ Stmt.init # <<>>
  /\ EnsureAlloca(Stmt.init[1])
  /\ Then(<<Lower([Stmt EXCEPT !.init = <<>>]), RestoreNames>>)
  /\ UNCHANGED <<fn, ir, ended, frame>>

For ==
  /\ Lowering("for") /\ Stmt.init = <<>>
  /\ LET cond == Count + 1
         body == Count + 2
         incr == Count + 3
         exit == Count + 4
         entered == InBlock(Jump(WithBlocks(ir, 4), cond), cond)
     IN  /\ ir' = InBlock(IF Stmt.cond = <<>> THEN Jump(entered, body)
                           ELSE Branch(LowerExpr(entered, Stmt.cond), body, exit), body)
         /\ loopStack' = Append(loopStack, Loop(exit, incr))
         /\ Then(<<Lower(Stmt.body), JoinAt(incr), PopLoop, GoOnAt(incr),
                   [do |-> "increment", e |-> Stmt.incr, to |-> cond, from |-> incr],
                   GoOnAt(exit)>>)
  /\ UNCHANGED <<fn, ended, switchCtx, labelBlocks, names>>

\* The edge is stored for the block the increment starts in.
ForIncrement ==
  /\ Doing("increment")
  /\ LET i == Head(todo)
         lowered == IF i.e = <<>> THEN ir ELSE LowerExpr(ir, i.e)
     IN  ir' = Edge(Emit(lowered, [op |-> "br", to |-> i.to]), i.from, i.to)
  /\ Then(<<>>)
  /\ UNCHANGED <<fn, ended, frame, names>>

LeaveLoop ==
  /\ Doing("popLoop")
  /\ loopStack' = Front(loopStack)
  /\ Then(<<>>)
  /\ UNCHANGED <<fn, ir, ended, switchCtx, labelBlocks, names>>

-----------------------------------------------------------------------------
(* switch: the cases register themselves while the body is lowered, and    *)
(* the dispatch is built then, in the block where the value was computed.  *)
(* The value has a type: it is an int, a long (Width bits), or a short     *)
(* that was promoted to int.                                               *)

Switch ==
  /\ Lowering("switch")
  /\ LET exit == Count + 1
         tested == LowerExpr(WithBlocks(ir, 1), Stmt.cond)
         body == Len(tested.blocks) + 1
     IN  /\ ir' = InBlock(WithBlocks(tested, 1), body)
         /\ loopStack' = Append(loopStack, Loop(exit, Passes))
         /\ Then(<<Lower(Stmt.body),
                   [do |-> "dispatch", type |-> Stmt.type, from |-> tested.cur,
                    exit |-> exit, outer |-> switchCtx]>>)
  /\ switchCtx' = [none |-> FALSE, cases |-> <<>>, ranges |-> <<>>, default |-> <<>>]
  /\ UNCHANGED <<fn, ended, labelBlocks, names>>

Wrap(n) == n % 2^Width
Signed(n) == Wrap(n + 2^(Width - 1)) - 2^(Width - 1)
\* The value is subtracted from and compared at Width bits, as it is held.
RangeTest(type, f, r) ==
  LET next == Len(f.blocks) + 1
      test == [op |-> "range", type |-> type, lo |-> r.lo, span |-> Wrap(r.hi - r.lo),
               yes |-> r.block, no |-> next]
  IN  InBlock(Edge(Edge(Emit(WithBlocks(f, 1), test), f.cur, r.block), f.cur, next), next)

Dispatch ==
  /\ Doing("dispatch")
  /\ LET d == Head(todo)
         default == IF switchCtx.default = <<>> THEN d.exit ELSE Last(switchCtx.default)
         closed == InBlock(JumpIfOpen(ir, d.exit), d.from)
         ranges == FoldLeft(LAMBDA f, r : RangeTest(d.type, f, r), closed, switchCtx.ranges)
         emitted == Emit(ranges, [op |-> "switch", type |-> d.type,
                                  cases |-> switchCtx.cases, default |-> default])
         targets == <<default>> \o [i \in DOMAIN switchCtx.cases |->
                                      switchCtx.cases[i].block]
     IN  /\ ir' = InBlock(FoldLeft(LAMBDA f, b : Edge(f, f.cur, b), emitted, targets),
                           d.exit)
         /\ switchCtx' = d.outer
  /\ loopStack' = Front(loopStack)
  /\ ended' = FALSE
  /\ Then(<<>>)
  /\ UNCHANGED <<fn, labelBlocks, names>>

\* The statement after a label goes into the label's block, which an open
\* block before it falls into.
LabelledBy(f, block) ==
  /\ ir' = InBlock(JumpIfOpen(f, block), block)
  /\ Then(<<Lower(Stmt.body)>>)
  /\ UNCHANGED <<fn, ended, loopStack, names>>

Case ==
  /\ Lowering("case")
  /\ switchCtx' = [switchCtx EXCEPT !.cases =
                     Append(@, [val |-> Stmt.val, block |-> Count + 1])]
  /\ LabelledBy(WithBlocks(ir, 1), Count + 1)
  /\ UNCHANGED labelBlocks

RangeSize(lo, hi) == Wrap(hi - lo + 1)
CaseRange ==
  /\ Lowering("range")
  /\ LET n == RangeSize(Stmt.lo, Stmt.hi) IN
     switchCtx' =
       IF n <= MaxEnumerated
       THEN [switchCtx EXCEPT !.cases = @ \o
               [i \in 1..n |-> [val |-> Signed(Stmt.lo + i - 1), block |-> Count + 1]]]
       ELSE [switchCtx EXCEPT !.ranges =
               Append(@, [lo |-> Stmt.lo, hi |-> Stmt.hi, block |-> Count + 1])]
  /\ LabelledBy(WithBlocks(ir, 1), Count + 1)
  /\ UNCHANGED labelBlocks

Default ==
  /\ Lowering("default")
  /\ switchCtx' = [switchCtx EXCEPT !.default = Append(@, Count + 1)]
  /\ LabelledBy(WithBlocks(ir, 1), Count + 1)
  /\ UNCHANGED labelBlocks

-----------------------------------------------------------------------------
(* Jumps.  Each ends its block.                                            *)

Ends(f) ==
  /\ ir' = f
  /\ ended' = TRUE
  /\ Then(<<>>)
  /\ UNCHANGED <<fn, loopStack, switchCtx, names>>

Break ==
  /\ Lowering("break")
  /\ Ends(Jump(ir, Last(loopStack).break))
  /\ UNCHANGED labelBlocks

\* Of the innermost loop, not of a switch within it.
ContinueTarget ==
  Last(SelectSeq(loopStack, LAMBDA l : l.continue # Passes)).continue
Continue ==
  /\ Lowering("continue")
  /\ Ends(Jump(ir, ContinueTarget))
  /\ UNCHANGED labelBlocks

Return ==
  /\ Lowering("return")
  /\ Ends(Emit(IF Stmt.e = <<>> THEN ir ELSE LowerExpr(ir, Stmt.e), [op |-> "ret"]))
  /\ UNCHANGED labelBlocks

\* get_or_create_label_block
Known(name) == name \in DOMAIN labelBlocks
LabelBlock(name) == IF Known(name) THEN labelBlocks[name] ELSE Count + 1
WithLabel(name) == IF Known(name) THEN ir ELSE WithBlocks(ir, 1)
NoteLabel(name) ==
  labelBlocks' = [l \in DOMAIN labelBlocks \cup {name} |->
                    IF l = name THEN LabelBlock(name) ELSE labelBlocks[l]]

Goto ==
  /\ Lowering("goto")
  /\ NoteLabel(Stmt.name)
  /\ Ends(Jump(WithLabel(Stmt.name), LabelBlock(Stmt.name)))

ComputedGoto ==
  /\ Lowering("cgoto")
  /\ LET targets == Range(labelBlocks)
         emitted == Emit(LowerExpr(ir, Stmt.e), [op |-> "ibr", targets |-> targets])
     IN  Ends(FoldLeft(LAMBDA f, b : Edge(f, f.cur, b), emitted,
                       SetToSortSeq(targets, <)))
  /\ UNCHANGED labelBlocks

Label ==
  /\ Lowering("label")
  /\ NoteLabel(Stmt.name)
  /\ LabelledBy(WithLabel(Stmt.name), LabelBlock(Stmt.name))
  /\ UNCHANGED switchCtx

\* __label__ registers a block under a name of its own that no goto uses.
LocalLabel ==
  /\ Lowering("locallabel")
  /\ NoteLabel(Stmt.registers)
  /\ ir' = WithLabel(Stmt.registers)
  /\ ended' = FALSE
  /\ Then(<<>>)
  /\ UNCHANGED <<fn, loopStack, switchCtx, names>>

-----------------------------------------------------------------------------
LowerStep ==
  \/ Join \/ GoOn \/ ExpressionStatement \/ Declaration
  \/ Compound \/ NextItem \/ ItemsDone \/ LeaveScope
  \/ StatementExpression \/ EndStatementExpression
  \/ If \/ While \/ DoWhile \/ DoWhileTest \/ ForInit \/ For \/ ForIncrement \/ LeaveLoop
  \/ Switch \/ Dispatch \/ Case \/ CaseRange \/ Default
  \/ Break \/ Continue \/ Return \/ Goto \/ ComputedGoto \/ Label \/ LocalLabel

\* verify_function_termination: what is still open returns.
Terminate ==
  /\ todo = <<>>
  /\ ir' = [ir EXCEPT !.blocks = [b \in DOMAIN ir.blocks |->
              IF IsTerminated(InBlock(ir, b)) THEN ir.blocks[b]
              ELSE [ir.blocks[b] EXCEPT !.code = Append(@, [op |-> "ret"])]]]
  /\ UNCHANGED <<fn, todo, ended, frame, names>>
=============================================================================
