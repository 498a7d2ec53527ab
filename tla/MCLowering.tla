------------------------------ MODULE MCLowering ------------------------------
(***************************************************************************)
(* Instance of LoweredRun: functions of six families, in which every       *)
(* statement that ends a block is put wherever it makes sense.             *)
(*                                                                         *)
(* Left out: increments with &&; the shapes of MCShadows; jumps out of a   *)
(* statement expression to a label outside it; empty case ranges and the   *)
(* range of all values; the shapes of MCNegativeRanges.                    *)
(***************************************************************************)
EXTENDS LoweredRun

MCVar == {"g", "p", "x"}
MCVarOf == <<"g", "g", "g", "p", "x", "x">>   \* atoms 1 to 6

E(a) == [k |-> "expr", e |-> <<a>>]
And(a, b) == [k |-> "expr", e |-> <<a, b>>]
Decl(x, i) == [k |-> "decl", var |-> x, id |-> i]
Block(items) == [k |-> "block", items |-> items]
StmtExpr(items) == [k |-> "stmtexpr", items |-> items]
If_(e, s) == [k |-> "if", cond |-> e, then |-> s, els |-> <<>>]
IfElse(e, s, t) == [k |-> "if", cond |-> e, then |-> s, els |-> <<t>>]
While_(e, s) == [k |-> "while", cond |-> e, body |-> s]
Do(s, e) == [k |-> "do", body |-> s, cond |-> e]
For_(x, i, e, n, s) ==
  [k |-> "for", init |-> x, id |-> i, cond |-> e, incr |-> n, body |-> s]
SwitchOn(type, e, s) == [k |-> "switch", type |-> type, cond |-> e, body |-> s]
Switch_(e, s) == SwitchOn("int", e, s)
Case_(v, s) == [k |-> "case", val |-> v, body |-> s]
Range_(l, h, s) == [k |-> "range", lo |-> l, hi |-> h, body |-> s]
Default_(s) == [k |-> "default", body |-> s]
Label_(l, s) == [k |-> "label", name |-> l, body |-> s]
Goto_(l) == [k |-> "goto", name |-> l]
Break_ == [k |-> "break"]
Continue_ == [k |-> "continue"]
Return_(e) == [k |-> "return", e |-> e]
CGoto == [k |-> "cgoto", e |-> <<3>>]

Function(items) == [params |-> <<"p">>, body |-> Block(items)]

-----------------------------------------------------------------------------
Leaves == {Goto_("L"), Return_(<<>>)}
InSwitch == Leaves \cup {Break_}
InLoop == InSwitch \cup {Continue_}

LoopsWith(id, s) ==
  {While_(<<1>>, s), While_(<<1, 2>>, s), Do(s, <<1>>), Do(s, <<1, 2>>), Do(s, <<>>),
   For_(<<"x">>, id, <<1, 5>>, <<6>>, s), For_(<<>>, 0, <<>>, <<1>>, s),
   For_(<<>>, 0, <<1>>, <<>>, s)}
LoopsOf(s) == LoopsWith(11, s)

\* A loop whose body may leave in two ways, after and before a label that
\* is jumped to from outside, or from within.
LoopFunctions ==
  {Function(<<E(1), loop, Label_("L", E(4)), E(3)>>) :
     loop \in UNION {LoopsOf(Block(<<If_(<<2>>, s), E(3), t>>)) :
                       s \in InLoop, t \in InLoop \cup {And(2, 4)}}}
    \cup
  {Function(<<If_(<<1, 3>>, Goto_("L")), E(2), loop, E(4)>>) :
     loop \in UNION {LoopsOf(Block(<<s, Label_("L", E(3)), IfElse(<<2>>, t, E(4))>>)) :
                       s \in InLoop, t \in InLoop \cup {CGoto}}}

\* Names: a local hides a parameter and a local, in blocks and in a for.
ScopeFunctions ==
  {Function(<<Decl("x", 1), E(5), s, E(6)>>) :
     s \in UNION
       {{Block(<<E(5), Decl("x", 2), E(6), t>>), Block(<<Decl("x", 2), E(5), Block(<<t>>)>>),
         For_(<<"x">>, 2, <<5>>, <<6>>, Block(<<E(4), t>>)),
         For_(<<"x">>, 2, <<5>>, <<>>, Block(<<Decl("x", 4), E(6), t>>)),
         Block(<<Block(<<Decl("p", 5), E(4)>>), StmtExpr(<<Decl("x", 2), E(5), t>>), E(4)>>)} :
        t \in {E(6), Block(<<Decl("x", 3), E(5)>>), Block(<<Decl("p", 3), E(4)>>),
               StmtExpr(<<Decl("p", 3), E(4)>>)}}}
    \cup
  {Function(<<Block(<<Decl("x", 1), E(5)>>), Block(<<Decl("x", 2), E(6)>>)>>),
   Function(<<Decl("x", 1), Switch_(<<5>>,
     Block(<<Decl("p", 2), Case_(0, Block(<<Decl("x", 3), E(5), Break_>>)), E(4),
             Default_(E(6))>>)), E(4)>>)}

\* Cases in order, ranges, falling through, in a loop; labels of a switch
\* within its loops and branches.
SwitchBodies ==
  {Block(<<Case_(0, E(2)), s, Range_(1, 2, E(3)), t, Default_(E(4))>>) :
     s \in InLoop \cup {E(1)}, t \in InLoop \cup {E(1)}}
    \cup
  {Block(<<Range_(0, 3, E(1)), Case_(-4, Do(Block(<<E(2), s, Case_(-2, E(3))>>), <<2>>)),
           IfElse(<<3>>, Break_, Case_(-1, E(4)))>>) : s \in InLoop \cup {E(1)}}
    \cup
  {Block(<<Case_(0, Switch_(<<2>>, Block(<<Case_(1, E(3)), s>>))), t>>) :
     s \in InLoop, t \in InLoop \cup {Default_(E(1))}}
RangeBody(r, s, t) ==
  Block(<<E(4), Default_(E(2)), s, Range_(r[1], r[2], Case_(2, E(3))), t>>)
InWhile(s) == Function(<<While_(<<1>>, Block(<<s, E(3)>>)), Label_("L", E(4))>>)
SwitchFunctions ==
  {InWhile(Switch_(<<2>>, s)) : s \in SwitchBodies}
    \cup
  {InWhile(SwitchOn(type, <<2>>, RangeBody(r, s, t))) :
     type \in {"long", "short"}, r \in {<<-4, -1>>, <<-3, 1>>},
     s \in InLoop, t \in InLoop \cup {E(1)}}
    \cup
  {InWhile(SwitchOn("long", <<2>>, RangeBody(r, Break_, t))) :
     r \in {<<-8, -4>>, <<3, 7>>, <<-8, 1>>}, t \in InLoop \cup {E(1)}}

\* What follows the end of a block is passed over unless a label is in it.
DeadFunctions ==
  {Function(<<If_(<<1>>, Goto_("M")), t, E(1), s, E(3), Label_("L", E(4))>>) :
     t \in Leaves,
     s \in {If_(<<2>>, Label_("M", E(2))), While_(<<2>>, Block(<<E(2), Label_("M", E(3))>>)),
            Do(Block(<<Label_("M", E(2)), E(4)>>), <<2>>),
            Block(<<Decl("x", 1), E(5), Label_("M", E(6))>>),
            Switch_(<<2>>, Block(<<Label_("M", E(2)), Break_, Case_(1, E(3))>>)),
            For_(<<>>, 0, <<2>>, <<3>>, Block(<<Label_("M", Continue_)>>))}}
    \cup
  {Function(<<CGoto, E(1), Label_("L", E(2)), t, Label_("M", Return_(<<1, 2>>))>>) :
     t \in Leaves \cup {E(3), Goto_("M"), CGoto}}

\* Statement expressions leave their loop, or have labels of their own.
ExpressionFunctions ==
  {Function(<<loop, Label_("L", E(4))>>) :
     loop \in UNION {LoopsOf(Block(<<StmtExpr(<<If_(<<2>>, s), E(3)>>), t, E(4)>>)) :
       s \in {Break_, Continue_, Return_(<<3>>)},
       t \in {StmtExpr(<<[k |-> "locallabel", registers |-> "local M"], If_(<<1>>, Goto_("M")), E(2),
                         Label_("M", E(3))>>),
              StmtExpr(<<Switch_(<<1>>, Block(<<Case_(1, Continue_), Break_>>))>>)}}}

\* A loop or a switch within a loop, each left in two ways.
NestedFunctions ==
  {Function(<<loop, Label_("L", E(4))>>) :
     loop \in UNION {LoopsOf(Block(<<inner, If_(<<3>>, t), E(4)>>)) :
       t \in {Break_, Continue_},
       inner \in UNION {LoopsWith(12, Block(<<If_(<<2>>, s), E(3), u>>))
                          \cup {Switch_(<<2>>, Block(<<Case_(0, s), Default_(E(3)), u>>))} :
                           s \in InLoop, u \in InLoop \cup {E(2)}}}}

MCFunctions ==
  LoopFunctions \cup ScopeFunctions \cup SwitchFunctions \cup DeadFunctions
    \cup ExpressionFunctions \cup NestedFunctions

\* A name that is global after its block; a parameter hidden twice; a block
\* within a statement expression; a declaration that control jumps past.
MCShadows ==
  {Function(<<Block(<<Decl("x", 1), E(5)>>), E(6)>>),
   Function(<<Block(<<Decl("p", 1), E(4), Block(<<Decl("p", 2), E(4)>>)>>)>>),
   Function(<<Decl("x", 1), E(5), StmtExpr(<<Block(<<Decl("x", 2), E(6)>>)>>)>>),
   Function(<<Decl("x", 1), E(5),
              Block(<<Goto_("L"), Decl("x", 2), Label_("L", E(6))>>)>>)}

\* Loops whose increment has a block of its own.
MCIncrements ==
  {Function(<<For_(<<>>, 0, <<1>>, n, E(2)), E(4)>>) : n \in {<<3>>, <<3, 4>>}}

\* A wide range with negative values in a switch on an int.
MCNegativeRanges ==
  {InWhile(Switch_(<<2>>, RangeBody(r, Break_, E(1)))) : r \in {<<-4, -1>>, <<-3, 1>>}}
=============================================================================
