----------------------------- MODULE ScalarPasses -----------------------------
(***************************************************************************)
(* The passes that -O1 and above add to a round of                         *)
(* optimize_function_at_level (passes/pass_manager.rs), each one action:   *)
(* copy propagation, global value numbering, instruction combining,        *)
(* loop-invariant code motion, aggressive dead code elimination, tail call *)
(* detection, peephole rewriting and register coalescing.  SCCP and        *)
(* strength reduction look for constants in instructions, where this IR    *)
(* has none, and change nothing; the passes of every level are in          *)
(* CfgCleanup.  When the rounds are over the function that was given and   *)
(* the function that was made run side by side.                            *)
(***************************************************************************)
EXTENDS Cfg

CONSTANTS
  ValueCount,     \* SSA values are below it; 0 is Value::UNDEF
  Params,         \* the values that are parameters
  Inputs,         \* the functions given, sequences of blocks
  Spared,         \* the functions register coalescing is kept from
  MaxIterations,  \* MAX_ITERATIONS
  MaxSteps        \* how many blocks of a function are run

Value == 0..(ValueCount - 1)

(***************************************************************************)
(* A block has phis [dest, in], in a list of [val, pred]; a body of        *)
(* instructions [op, dest, args, from, to]; and a terminator               *)
(* [kind, to, arg].  Types are numbers, those of integers their width in   *)
(* bits, of floating point its negation: from and to are what a conversion *)
(* converts, from the type of what a store writes, to that of what a load  *)
(* reads.  A bitcast and a store say only one of them, or none: the other  *)
(* is that of the operand, which no pass looks at.                         *)
(***************************************************************************)
Succ(f) == [b \in DOMAIN f |-> f[b].term.to]
Phis(f) == UNION {Range(f[b].phis) : b \in DOMAIN f}
Insts(f) == UNION {Range(f[b].body) : b \in DOMAIN f}

\* Every operand, by the function put.
Renamed(f, put) ==
  [b \in DOMAIN f |->
     [f[b] EXCEPT
        !.phis = [k \in DOMAIN @ |->
                    [@[k] EXCEPT !.in = [x \in DOMAIN @ |-> [@[x] EXCEPT !.val = put[@]]]]],
        !.body = [k \in DOMAIN @ |->
                    [@[k] EXCEPT !.args = [x \in DOMAIN @ |-> put[@[x]]]]],
        !.term.arg = put[@]]]

Unchanged == [v \in Value |-> v]
\* A replacement map, and one followed to the end of its chains.
ReplacedBy(pairs) ==
  [v \in Value |-> IF \E p \in pairs : p[1] = v
                   THEN (CHOOSE p \in pairs : p[1] = v)[2] ELSE v]
Chased(put) ==
  LET chase[k \in 0..ValueCount] ==
        IF k = 0 THEN put ELSE [v \in Value |-> put[chase[k - 1][v]]]
  IN  chase[ValueCount]

-----------------------------------------------------------------------------
(* Dominance of uses by definitions, the form SSA construction leaves and  *)
(* every pass has to keep.                                                 *)

\* Value v is there for the first n instructions of block b.
DefinedAt(f, v, b, n) ==
  \/ v \in Params \cup {0}
  \/ \E p \in Range(f[b].phis) : p.dest = v
  \/ \E k \in 1..n : f[b].body[k].dest = v
  \/ \E a \in DOMAIN f \ {b} :
       /\ \E x \in Range(f[a].phis) \cup Range(f[a].body) : x.dest = v
       /\ Dominates(Succ(f), a, b)

Dominated(f) ==
  \A b \in Reachable(Succ(f)) :
    /\ \A p \in Range(f[b].phis) : \A x \in Range(p.in) :
         DefinedAt(f, x.val, x.pred, Len(f[x.pred].body))
    /\ \A k \in DOMAIN f[b].body : \A v \in Range(f[b].body[k].args) :
         f[b].body[k].op # "const" => DefinedAt(f, v, b, k - 1)
    /\ DefinedAt(f, f[b].term.arg, b, Len(f[b].body))

WellFormed(f) ==
  /\ Dominated(f)
  /\ \A b \in DOMAIN f :
       /\ Range(f[b].term.to) \subseteq DOMAIN f \ {1}
       /\ \A p \in Range(f[b].phis) :
            {x.pred : x \in Range(p.in)} = Preds(Succ(f), b)

ASSUME InputsAssumption == \A f \in Inputs : WellFormed(f)

VARIABLES
  func,     \* the function as given
  blocks,   \* func.blocks, as the passes leave it
  pc,       \* the pass that comes next
  round,    \* _iteration
  changed,  \* changed_this_round
  steps,    \* blocks run so far
  at,       \* the block both functions are at
  old, new  \* the values, the memory and what was done, in either

pass == <<func, blocks, pc, round, changed>>
running == <<steps, at, old, new>>
vars == <<pass, running>>

Pipeline ==
  <<"copies", "gvn", "combine", "licm", "adce", "tail", "peephole", "coalesce", "round">>

Finish(name, result) ==
  /\ pc = name
  /\ blocks' = result
  /\ changed' = (changed \/ result # blocks)
  /\ \E k \in DOMAIN Pipeline : Pipeline[k] = name /\ pc' = Pipeline[k + 1]
  /\ UNCHANGED <<func, round, running>>

-----------------------------------------------------------------------------
(* Copy propagation: every bitcast, whatever it converts, extensions that  *)
(* extend nothing, and phis that select one value.                         *)

Selects(p) == {x.val : x \in Range(p.in)} \ {p.dest}

IsCopy(i) == i.op = "bitcast" \/ (i.op \in {"zext", "sext"} /\ i.from = i.to)

Copies(f) ==
  {<<i.dest, i.args[1]>> : i \in {j \in Insts(f) : IsCopy(j)}} \cup
  {<<p.dest, CHOOSE v \in Selects(p) : TRUE>> :
     p \in {q \in Phis(f) : Cardinality(Selects(q)) = 1}}

CopyPropagation ==
  Finish("copies", Renamed(blocks, Chased(ReplacedBy(Copies(blocks)))))

-----------------------------------------------------------------------------
(* Global value numbering, in reverse postorder over the whole function:   *)
(* the first of several instructions with one key stands for all of them.  *)

ReversePostorder(succ) ==
  LET fresh(s) == SelectSeq(succ[Last(s.stack)], LAMBDA b : b \notin s.seen)
      step(s, k) ==
        IF s.stack = <<>> THEN s
        ELSE IF fresh(s) = <<>>
             THEN [s EXCEPT !.stack = Front(@), !.post = <<Last(s.stack)>> \o @]
             ELSE [s EXCEPT !.stack = Append(@, Head(fresh(s))),
                            !.seen = @ \cup {Head(fresh(s))}]
  IN  FoldLeftDomain(step, [stack |-> <<1>>, seen |-> {1}, post |-> <<>>],
                     succ \o succ).post

Extensions == {"zext", "sext", "trunc"}
Numbered == {"add", "const", "sub", "div", "bitcast"} \cup Extensions

\* A constant is the sum of itself and UNDEF, so its key is its own; the
\* key of a bitcast does not have its type.
Key(i, vn) ==
  LET a == [k \in DOMAIN i.args |-> vn[i.args[k]]] IN
  <<IF i.op = "const" THEN "add" ELSE i.op, IF i.op \in Extensions THEN i.to ELSE 0,
    IF i.op \in {"add", "const"} THEN SortSeq(a, LAMBDA x, y : x < y) ELSE a>>

Numbering(f) ==
  LET order == ReversePostorder(Succ(f))
      code == SelectSeq(FlattenSeq([k \in DOMAIN order |-> f[order[k]].body]),
                        LAMBDA i : i.op \in Numbered)
      number(acc, i) ==
        LET key == Key(i, acc.vn)
            same == {e \in acc.table : e.key = key}
        IN  IF same = {}
            THEN [acc EXCEPT !.table = @ \cup {[key |-> key, val |-> i.dest]}]
            ELSE [acc EXCEPT !.vn[i.dest] = (CHOOSE e \in same : TRUE).val]
  IN  FoldLeft(number, [table |-> {}, vn |-> Unchanged], code).vn

GlobalValueNumbering == Finish("gvn", Renamed(blocks, Numbering(blocks)))

-----------------------------------------------------------------------------
(* Instruction combining: what is widened and truncated to where it came   *)
(* from is what it was.  The rules about constants match nothing.          *)

Combined(f) ==
  LET code == FlattenSeq([b \in DOMAIN f |-> f[b].body]) IN
  {<<code[p[2]].dest, code[p[1]].args[1]>> : p \in
     {q \in (DOMAIN code) \X (DOMAIN code) :
        /\ q[1] < q[2] /\ code[q[1]].op \in {"zext", "sext"} /\ code[q[2]].op = "trunc"
        /\ code[q[2]].args[1] = code[q[1]].dest /\ code[q[2]].to = code[q[1]].from}}

InstructionCombining ==
  Finish("combine", Renamed(blocks, ReplacedBy(Combined(blocks))))

-----------------------------------------------------------------------------
(* Loop-invariant code motion.  Loops are found once, with the blocks that *)
(* define each value; each loop in turn has its invariants moved to the    *)
(* end of its preheader, in the order its set of blocks is walked in: any  *)
(* order, one for all the loops.                                           *)

LoopBody(f, h, latch) ==
  LET grow[k \in 0..Len(f)] ==
        IF k = 0 THEN {latch}
        ELSE grow[k - 1] \cup UNION {Preds(Succ(f), b) : b \in grow[k - 1] \ {h}}
  IN  {h} \cup grow[Len(f)]

\* dominates() answers no for a block that is not reached.
IsBackEdge(f, b, h) ==
  b = h \/ (b \in Reachable(Succ(f)) /\ Dominates(Succ(f), h, b))

\* The edges into the header from outside; there must be exactly one.
Entries(f, h, body) ==
  {e \in UNION {{<<p, k>> : k \in DOMAIN f[p].term.to} : p \in DOMAIN f \ body} :
     f[e[1]].term.to[e[2]] = h}

Loops(f) ==
  LET from(b) == SelectSeq(f[b].term.to, LAMBDA h : IsBackEdge(f, b, h))
      one(b, h) == [header |-> h, body |-> LoopBody(f, h, b)]
  IN  FlattenSeq([b \in DOMAIN f |->
        LET hs == from(b) IN [k \in DOMAIN hs |-> one(b, hs[k])]])

Hoistable == {"add", "const", "sub", "bitcast"} \cup Extensions

\* Values defined in the loop whose operands are not, or are invariant.
InvariantsStopAtOne(f, body, defined) ==  \* mutant: one operand is enough
  LET code == UNION {Range(f[b].body) : b \in body}
      grow[k \in 0..ValueCount] ==
        IF k = 0 THEN {}
        ELSE {i.dest : i \in {j \in code : j.op \in Hoistable /\
                \E v \in Range(j.args) : v \notin defined \/ v \in grow[k - 1]}}
  IN  grow[ValueCount]
Invariants(f, body, defined) ==
  LET code == UNION {Range(f[b].body) : b \in body}
      grow[k \in 0..ValueCount] ==
        IF k = 0 THEN {}
        ELSE {i.dest : i \in {j \in code : j.op \in Hoistable /\
                \A v \in Range(j.args) : v \notin defined \/ v \in grow[k - 1]}}
  IN  grow[ValueCount]

DefinedIn(f, body) ==
  UNION {{x.dest : x \in Range(f[b].phis) \cup Range(f[b].body)} : b \in body}

RemainingAll(code, gone) == code  \* mutant: hoisted instructions stay as well
Remaining(code, gone) == SelectSeq(code, LAMBDA i : i.dest \notin gone)

Hoisted(f, lp, original, order) ==
  LET entries == Entries(original, lp.header, lp.body)
      invariant == Invariants(f, lp.body, DefinedIn(original, lp.body))
      walk == SelectSeq(order, LAMBDA b : b \in lp.body)
      moved == FlattenSeq([k \in DOMAIN walk |->
                 SelectSeq(f[walk[k]].body, LAMBDA i : i.dest \in invariant)])
      preheader == (CHOOSE e \in entries : TRUE)[1]
  IN  IF Cardinality(entries) # 1 \/ invariant = {} THEN f
      ELSE [b \in DOMAIN f |->
              IF b \in lp.body THEN [f[b] EXCEPT !.body = Remaining(@, invariant)]
              ELSE IF b = preheader THEN [f[b] EXCEPT !.body = @ \o moved]
              ELSE f[b]]

LoopInvariantCodeMotion ==
  LET loops == Loops(blocks) IN
  \E order \in SetToSeqs(UNION {lp.body : lp \in Range(loops)}) :
    Finish("licm", FoldLeft(LAMBDA f, lp : Hoisted(f, lp, blocks, order), blocks, loops))

-----------------------------------------------------------------------------
(* Aggressive dead code elimination: what no essential instruction depends *)
(* on goes.                                                                *)

EssentialCalls == {"call"}  \* mutant: stores and volatile loads forgotten
Essential == {"store", "call", "vload"}

Needed(f) ==
  LET defs == [v \in Value |->
                 UNION {Range(i.args) : i \in {j \in Insts(f) : j.dest = v}} \cup
                 UNION {{x.val : x \in Range(p.in)} : p \in {q \in Phis(f) : q.dest = v}}]
      mark[k \in 0..ValueCount] ==
        IF k = 0
        THEN {f[b].term.arg : b \in DOMAIN f} \cup
             UNION {Range(i.args) : i \in {j \in Insts(f) : j.op \in Essential}}
        ELSE mark[k - 1] \cup UNION {defs[v] : v \in mark[k - 1]}
  IN  mark[ValueCount]

Swept(f) ==
  LET needed == Needed(f) IN
  [b \in DOMAIN f |->
     [f[b] EXCEPT
        !.phis = SelectSeq(@, LAMBDA p : p.dest \in needed),
        !.body = SelectSeq(@, LAMBDA i : i.op \in Essential \/ i.dest \in needed)]]

AggressiveDeadCodeElimination == Finish("adce", Swept(blocks))

-----------------------------------------------------------------------------
(* Tail calls are only found; finding one is reported as a change.         *)

HasTailCall(f) ==
  \E b \in DOMAIN f :
    /\ f[b].term.kind = "return" /\ f[b].body # <<>>
    /\ Last(f[b].body).op = "call"
    /\ f[b].term.arg \in {0, Last(f[b].body).dest}

TailCallOptimization ==
  /\ pc = "tail" /\ pc' = "peephole"
  /\ changed' = (changed \/ HasTailCall(blocks))
  /\ UNCHANGED <<func, blocks, round, running>>

-----------------------------------------------------------------------------
(* Peephole rewriting, block by block: loads from where something has just *)
(* been stored, stores that are overwritten, and conditional branches with *)
(* one target.  Pointers are told apart as values, and accesses not by     *)
(* their types.                                                            *)

Forwarded(f) ==
  LET see(acc, i) ==
        CASE i.op = "store" ->
               [acc EXCEPT !.last = {s \in @ : s[1] # i.args[2]} \cup
                                    {<<i.args[2], i.args[1]>>}]
          [] i.op = "load" ->
               [acc EXCEPT !.put = @ \cup
                  {<<i.dest, s[2]>> : s \in {t \in acc.last : t[1] = i.args[1]}}]
          [] i.op = "call" -> [acc EXCEPT !.last = {}]
          [] OTHER -> acc
      block(b) == FoldLeft(see, [last |-> {}, put |-> {}], f[b].body).put
  IN  UNION {block(b) : b \in DOMAIN f}

\* The store at k is followed by one to the same pointer, and nothing in
\* between reads it.
Overwritten(code, k) ==
  /\ code[k].op = "store"
  /\ \E m \in (k + 1)..Len(code) :
       /\ code[m].op = "store" /\ code[m].args[2] = code[k].args[2]
       /\ \A n \in (k + 1)..(m - 1) :
            /\ code[n].op # "call"
            /\ code[n].op = "load" => code[n].args[1] # code[k].args[2]

StoresPruned(f) ==
  [b \in DOMAIN f |->
     LET code == f[b].body
         kept == SelectSeq([k \in DOMAIN code |-> k], LAMBDA k : ~Overwritten(code, k))
     IN  [f[b] EXCEPT !.body = [k \in DOMAIN kept |-> code[kept[k]]]]]

Straightened(f) ==
  [b \in DOMAIN f |->
     IF f[b].term.kind = "cond" /\ f[b].term.to[1] = f[b].term.to[2]
     THEN [f[b] EXCEPT !.term = [kind |-> "br", to |-> <<@.to[1]>>, arg |-> 0]]
     ELSE f[b]]

Peephole ==
  Finish("peephole",
         Straightened(StoresPruned(Renamed(blocks, ReplacedBy(Forwarded(blocks))))))

-----------------------------------------------------------------------------
(* Register coalescing: a phi and what it selects, or a bitcast and its    *)
(* source, become one value unless some other instruction has both.        *)

Candidates(f) ==
  LET phi(p) == LET in == SelectSeq(p.in, LAMBDA x : x.val # p.dest)
                IN  [k \in DOMAIN in |-> <<p.dest, in[k].val>>]
      copies(b) == SelectSeq(f[b].body, LAMBDA i : i.op = "bitcast")
      pairs(b) == FlattenSeq([k \in DOMAIN f[b].phis |-> phi(f[b].phis[k])]) \o
                  [k \in DOMAIN copies(b) |-> <<copies(b)[k].dest, copies(b)[k].args[1]>>]
  IN  FlattenSeq([b \in DOMAIN f |-> pairs(b)])

Interfere(f, a, b) ==
  \/ \E i \in Insts(f) :
       /\ {a, b} \subseteq Range(i.args) \cup {i.dest}
       /\ ~(i.op = "bitcast" /\ i.dest \in {a, b})
  \/ \E p \in Phis(f) :
       {a, b} \subseteq {x.val : x \in Range(p.in)} /\ p.dest \notin {a, b}

Coalesced(f) ==
  LET merge(put, pair) ==
        LET dst == Chased(put)[pair[1]]
            src == Chased(put)[pair[2]]
        IN  IF dst = src \/ Interfere(f, src, dst) THEN put ELSE [put EXCEPT ![dst] = src]
  IN  Renamed(f, Chased(FoldLeft(merge, Unchanged, Candidates(f))))

RegisterCoalescing ==
  Finish("coalesce", IF func \in Spared THEN blocks ELSE Coalesced(blocks))

\* Another round, until one changes nothing or MAX_ITERATIONS are over.
RoundEnd ==
  /\ pc = "round"
  /\ IF changed /\ round < MaxIterations
     THEN pc' = Pipeline[1] /\ round' = round + 1 /\ changed' = FALSE
     ELSE pc' = "run" /\ UNCHANGED <<round, changed>>
  /\ UNCHANGED <<func, blocks, running>>
-----------------------------------------------------------------------------
(* What a function does: values are terms over what the run cannot look    *)
(* into, memory is what was written since the last call, and what others   *)
(* can see is tests, calls, volatile loads and what is returned.           *)

Term(op, n, args) == <<op, n, args>>

\* Addition is the one operation that does not tell its operands apart.
Operation(i, a) ==
  CASE i.op = "const" -> Term("const", <<i.dest>>, {})
    [] i.op \in {"bitcast", "zext", "sext"} /\ i.from = i.to -> a[1]
    [] i.op = "trunc" /\ a[1][1] \in {"zext", "sext"} /\ a[1][2][1] = i.to ->
         (CHOOSE x \in a[1][3] : TRUE)[2]
    [] OTHER -> Term(i.op, <<i.from, i.to>>,
                     {<<IF i.op = "add" THEN 0 ELSE k, a[k]>> : k \in DOMAIN a})

Event(kind, a, s) == [kind |-> kind, args |-> a, epoch |-> s.epoch, cells |-> s.cells]

(* A cell is what a store wrote: where, of which type, and the value.  A   *)
(* store overwrites what is no wider, so of the cells of one place the     *)
(* narrowest is the last.  A load of its type reads it; one of another     *)
(* type reads something made of what is there.                             *)
Bits(type) == IF type < 0 THEN 0 - type ELSE type
CellsAt(s, p) == {c \in s.cells : c[1] = p}
Written(s, p, type, val) ==
  {c \in s.cells : c[1] # p \/ Bits(c[2]) > Bits(type)} \cup {<<p, type, val>>}
Read(s, p, type) ==
  LET last == {c \in CellsAt(s, p) : \A d \in CellsAt(s, p) : Bits(c[2]) <= Bits(d[2])}
      whole == {c \in last : c[2] = type}
  IN  IF whole # {} THEN (CHOOSE c \in whole : TRUE)[3]
      ELSE Term("memory", <<s.epoch, type>>,
                {<<0, p>>} \cup {<<c[2], c[3]>> : c \in CellsAt(s, p)})

Execute(s, i) ==
  LET a == [k \in DOMAIN i.args |-> s.env[i.args[k]]] IN
  CASE i.op = "store" -> [s EXCEPT !.cells = Written(s, a[2], i.from, a[1])]
    [] i.op = "load" -> [s EXCEPT !.env[i.dest] = Read(s, a[1], i.to)]
    [] i.op = "vload" ->
         [s EXCEPT !.env[i.dest] = Term("volatile", <<s.reads>>, {}), !.reads = @ + 1,
                   !.did = Append(@, Event("volatile", a, s))]
    [] i.op = "call" ->
         [s EXCEPT !.env[i.dest] = Term("result", <<s.epoch>>, {}), !.epoch = @ + 1,
                   !.cells = {}, !.did = Append(@, Event("call", a, s))]
    [] OTHER -> [s EXCEPT !.env[i.dest] = Operation(i, a)]

\* Block b of f, entered from block a.
RunBlock(f, s, a, b) ==
  LET selected(p) == (CHOOSE x \in Range(p.in) : x.pred = a).val
      phis == [v \in Value |->
                 IF \E p \in Range(f[b].phis) : p.dest = v
                 THEN s.env[selected(CHOOSE p \in Range(f[b].phis) : p.dest = v)]
                 ELSE s.env[v]]
      end == FoldLeft(Execute, [s EXCEPT !.env = phis, !.did = <<>>], f[b].body)
      arg == <<end.env[f[b].term.arg]>>
  IN  CASE f[b].term.kind = "return" ->
             [end EXCEPT !.did = Append(@, Event("return", arg, end))]
        [] Cardinality(Range(f[b].term.to)) = 2 ->
             [end EXCEPT !.did = Append(@, [Event("test", arg, end) EXCEPT !.cells = {}])]
        [] OTHER -> end

\* The first two parameters may be the same.
Entered(same) ==
  [env |-> [v \in Value |->
              IF v = 2 /\ same THEN Term("param", <<1>>, {})
              ELSE Term(IF v \in Params THEN "param" ELSE "undef", <<v>>, {})],
   epoch |-> 0, reads |-> 0, cells |-> {}, did |-> <<>>]

Enter ==
  /\ pc = "run" /\ at = 0
  /\ \E same \in BOOLEAN :
       /\ old' = RunBlock(func, Entered(same), 0, 1)
       /\ new' = RunBlock(blocks, Entered(same), 0, 1)
  /\ at' = 1 /\ steps' = 1
  /\ UNCHANGED pass

Leave ==
  /\ at # 0 /\ steps < MaxSteps
  /\ \E b \in Range(func[at].term.to) :
       /\ old' = RunBlock(func, old, at, b)
       /\ new' = RunBlock(blocks, new, at, b)
       /\ at' = b
  /\ steps' = steps + 1
  /\ UNCHANGED pass

Init ==
  /\ func \in Inputs /\ blocks = func
  /\ pc = Pipeline[1] /\ round = 1 /\ changed = FALSE
  /\ steps = 0 /\ at = 0 /\ old = Entered(FALSE) /\ new = Entered(FALSE)

Next ==
  \/ CopyPropagation \/ GlobalValueNumbering \/ InstructionCombining
  \/ LoopInvariantCodeMotion \/ AggressiveDeadCodeElimination
  \/ TailCallOptimization \/ Peephole \/ RegisterCoalescing \/ RoundEnd
  \/ Enter \/ Leave

Spec == Init /\ [][Next]_vars

-----------------------------------------------------------------------------
(* On every path, and whether or not two pointers are the same, the        *)
(* optimised function makes the same tests, calls and volatile loads with  *)
(* the same values as the function it was made from, finds the same memory *)
(* written at each call and return, and returns the same value             *)
(* (optimize_function_at_level over all its passes).                       *)
Agreement == old.did = new.did

(* After each pass every use is dominated by the definition it reads, and  *)
(* phis have one operand per predecessor: replacing and moving             *)
(* instructions keeps the form the next pass starts from (run_gvn's table  *)
(* over the whole function, run_licm's move to the preheader).             *)
UsesDominated == at = 0 => WellFormed(blocks)

(* The rounds end because one of them changed nothing and not because      *)
(* MAX_ITERATIONS were over: no pass undoes another, and none reports a    *)
(* change it did not make, but for tail calls, which are reported anew in  *)
(* every round (the loop in optimize_function_at_level).                   *)
Settled == pc = "run" => ~changed \/ HasTailCall(blocks)
=============================================================================
