----------------------------- MODULE CStatements ------------------------------
(***************************************************************************)
(* What statements mean in C, for the statement trees of Lowering: an      *)
(* abstract machine whose state is the continuation, the sequence of what  *)
(* is still to be done, each statement with the declarations in scope.     *)
(* It stops where a value is needed, and goes on when it is given one.     *)
(***************************************************************************)
EXTENDS Integers, Sequences, FiniteSets, SequencesExt

\* Elements of a continuation.  A loop mark is where the body ends and
\* continue goes: it says what comes then; a switch mark says nothing.
Run(s, env) == [t |-> "run", s |-> s, env |-> env]
Test(e, env, yes, no) == [t |-> "test", e |-> e, env |-> env, yes |-> yes, no |-> no]
LoopMark(again) == [t |-> "loop", again |-> again]
SwitchMark == [t |-> "switch"]
Select(s, env) ==
  [t |-> "select", e |-> s.cond, env |-> env, body |-> s.body, type |-> s.type]
Anywhere(e, env) == [t |-> "anywhere", e |-> e, env |-> env]
Returns == [t |-> "return"]

\* Declarations in scope, the innermost last; each is itself (an id).
Declares(s) == IF s.k = "decl" THEN <<[var |-> s.var, id |-> s.id]>> ELSE <<>>
EnvAt(items, env, i) ==
  env \o FlattenSeq([j \in 1..(i - 1) |-> Declares(items[j])])
From(items, env, i) ==
  [j \in 1..(Len(items) - i + 1) |-> Run(items[i + j - 1], EnvAt(items, env, i + j - 1))]

ForEnv(s, env) == env \o (IF s.init = <<>> THEN <<>>
                          ELSE <<[var |-> s.init[1], id |-> s.id]>>)
ForTest(s, env) == Run([s EXCEPT !.k = "fortest"], env)
ForAgain(s, env) ==
  IF s.incr = <<>> THEN <<ForTest(s, env)>>
  ELSE <<Test(s.incr, env, <<ForTest(s, env)>>, <<ForTest(s, env)>>)>>
DoAgain(s, env) ==
  IF s.cond = <<>> THEN <<>> ELSE <<Test(s.cond, env, <<Run(s, env)>>, <<>>)>>

-----------------------------------------------------------------------------
(* Where a jump arrives: the continuation within s that begins at the      *)
(* statement with the given label; cases of a switch inside s are not      *)
(* those of a switch around it.                                            *)

Labelled(s, label) ==
  CASE s.k = "label" -> label = [k |-> "label", name |-> s.name]
    [] s.k = "case" -> label = [k |-> "case", val |-> s.val]
    [] s.k = "range" -> label.k = "case" /\ label.val \in s.lo..s.hi
    [] s.k = "default" -> label.k = "default"
    [] OTHER -> FALSE

RECURSIVE Arrive(_, _, _)
Arrive(s, env, label) ==
  IF Labelled(s, label) THEN {<<Run(s.body, env)>>}
  ELSE
  CASE s.k = "if" ->
         Arrive(s.then, env, label)
           \cup (IF s.els = <<>> THEN {} ELSE Arrive(s.els[1], env, label))
    [] s.k = "while" ->
         {k \o <<LoopMark(<<Run(s, env)>>)>> : k \in Arrive(s.body, env, label)}
    [] s.k = "do" ->
         {k \o <<LoopMark(DoAgain(s, env))>> : k \in Arrive(s.body, env, label)}
    [] s.k = "for" ->
         {k \o <<LoopMark(ForAgain(s, ForEnv(s, env)))>> :
            k \in Arrive(s.body, ForEnv(s, env), label)}
    [] s.k = "switch" ->
         IF label.k = "label"
         THEN {Append(k, SwitchMark) : k \in Arrive(s.body, env, label)} ELSE {}
    [] s.k \in {"case", "range", "default", "label"} -> Arrive(s.body, env, label)
    [] s.k \in {"block", "stmtexpr"} ->
         UNION {{k \o From(s.items, env, i + 1) :
                   k \in Arrive(s.items[i], EnvAt(s.items, env, i), label)} :
                i \in DOMAIN s.items}
    [] OTHER -> {}

The(set) == CHOOSE x \in set : TRUE

\* The continuation a switch goes on with for a value.
Selected(body, env, v) ==
  LET cases == Arrive(body, env, [k |-> "case", val |-> v])
      default == Arrive(body, env, [k |-> "default"])
  IN  IF cases # {} THEN Append(The(cases), SwitchMark)
      ELSE IF default # {} THEN Append(The(default), SwitchMark)
      ELSE <<>>

-----------------------------------------------------------------------------
(* The machine runs until it needs a value or returns.                     *)

RECURSIVE Past(_, _)
Past(k, marks) == IF Head(k).t \in marks THEN k ELSE Past(Tail(k), marks)

Waits == {"test", "select", "anywhere", "return"}

RECURSIVE Settle(_, _, _)
Settle(k, body, outer) ==
  IF k = <<>> THEN <<Returns>>
  ELSE IF Head(k).t \in Waits THEN k
  ELSE IF Head(k).t = "loop" THEN Settle(Head(k).again \o Tail(k), body, outer)
  ELSE IF Head(k).t = "switch" THEN Settle(Tail(k), body, outer)
  ELSE
  LET s == Head(k).s
      env == Head(k).env
      go(next) == Settle(next \o Tail(k), body, outer)
  IN
  CASE s.k = "expr" -> go(<<Test(s.e, env, <<>>, <<>>)>>)
    [] s.k \in {"decl", "locallabel"} -> go(<<>>)
    [] s.k \in {"block", "stmtexpr"} -> go(From(s.items, env, 1))
    [] s.k = "if" ->
         go(<<Test(s.cond, env, <<Run(s.then, env)>>,
                   IF s.els = <<>> THEN <<>> ELSE <<Run(s.els[1], env)>>)>>)
    [] s.k = "while" ->
         go(<<Test(s.cond, env, <<Run(s.body, env), LoopMark(<<Run(s, env)>>)>>, <<>>)>>)
    [] s.k = "do" -> go(<<Run(s.body, env), LoopMark(DoAgain(s, env))>>)
    [] s.k = "for" -> go(<<ForTest(s, ForEnv(s, env))>>)
    [] s.k = "fortest" ->
         LET round == <<Run(s.body, env), LoopMark(ForAgain([s EXCEPT !.k = "for"], env))>>
         IN  go(IF s.cond = <<>> THEN round ELSE <<Test(s.cond, env, round, <<>>)>>)
    [] s.k = "switch" -> go(<<Select(s, env)>>)
    [] s.k \in {"case", "range", "default", "label"} -> go(<<Run(s.body, env)>>)
    [] s.k = "break" -> Settle(Tail(Past(k, {"loop", "switch"})), body, outer)
    [] s.k = "continue" -> Settle(Past(k, {"loop"}), body, outer)
    [] s.k = "return" ->
         IF s.e = <<>> THEN <<Returns>> ELSE <<Test(s.e, env, <<Returns>>, <<Returns>>)>>
    [] s.k = "goto" ->
         Settle(The(Arrive(body, outer, [k |-> "label", name |-> s.name])), body, outer)
    [] s.k = "cgoto" -> <<Anywhere(s.e, env)>>

(* After a value v for the first operand of the expression waited for; in  *)
(* a computed goto the value is a label.                                   *)
After(k, v, body, outer) ==
  LET w == Head(k)
      go(next) == Settle(next \o Tail(k), body, outer)
  IN
  IF Len(w.e) > 1 /\ v # 0 /\ w.t # "anywhere"
  THEN <<[w EXCEPT !.e = Tail(@)]>> \o Tail(k)
  ELSE CASE w.t = "test" -> go(IF v # 0 THEN w.yes ELSE w.no)
         [] w.t = "select" -> go(Selected(w.body, w.env, v))
         [] w.t = "anywhere" ->
              Settle(The(Arrive(body, outer, [k |-> "label", name |-> v])), body, outer)

(* The environments there are within s: two objects whose declarations are *)
(* in one of them exist at the same time.                                  *)
RECURSIVE Environments(_, _)
Environments(s, env) ==
  CASE s.k = "if" ->
         Environments(s.then, env)
           \cup (IF s.els = <<>> THEN {} ELSE Environments(s.els[1], env))
    [] s.k = "for" -> {ForEnv(s, env)} \cup Environments(s.body, ForEnv(s, env))
    [] s.k \in {"while", "do", "switch", "case", "range", "default", "label"} ->
         Environments(s.body, env)
    [] s.k \in {"block", "stmtexpr"} ->
         {EnvAt(s.items, env, Len(s.items) + 1)}
           \cup UNION {Environments(s.items[i], EnvAt(s.items, env, i)) :
                         i \in DOMAIN s.items}
    [] OTHER -> {}

\* The object a name stands for; 0 is the global one.
Denotes(env, x) ==
  LET own == SelectSeq(env, LAMBDA d : d.var = x)
  IN  IF own = <<>> THEN 0 ELSE Last(own).id
=============================================================================
