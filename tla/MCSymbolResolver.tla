--------------------------- MODULE MCSymbolResolver ---------------------------
(* Instances of SymbolResolver.                                            *)
EXTENDS SymbolResolver

Sym(n, b, v, d) == [name |-> n, binding |-> b, vis |-> v, def |-> d]
Def(n) == Sym(n, "global", 0, TRUE)
WeakDef(n) == Sym(n, "weak", 0, TRUE)
Ref(n) == Sym(n, "global", 0, FALSE)
WeakRef(n) == Sym(n, "weak", 0, FALSE)
In(objs, archs, allow, whole) ==
  [objects |-> objs, archives |-> archs, allowUndefined |-> allow, whole |-> whole]

\* Up to three objects that mention one name, in every way.
OneName == {<<Sym("f", b, v, d)>> : b \in {"local", "global", "weak"},
                                    v \in Visibility, d \in BOOLEAN}
Objects == {In(<<a, b, c>>, <<>>, allow, FALSE) :
              a \in OneName, b \in OneName, c \in OneName, allow \in BOOLEAN}

\* Archives whose members need and define each other's symbols.
Member == {<<Def("f"), Ref("g")>>, <<Def("g")>>, <<WeakDef("g"), Ref("_end")>>,
           <<Def("f"), Def("_end")>>, <<Def("_end"), WeakRef("f")>>}
Archives ==
  {In(objs, archs, allow, TRUE) :
     objs \in {<<<<Ref("f")>>>>, <<<<Ref("g"), Ref("g")>>, <<WeakRef("f")>>>>},
     archs \in {<<<<a, b, c>>>> : a \in Member, b \in Member, c \in Member} \cup
               {<<<<a, b>>, <<c, d>>>> : a \in Member, b \in Member, c \in Member, d \in Member},
     allow \in BOOLEAN}

\* Objects that mention a symbol of the linker.
Linker ==
  {In(<<<<a>>, <<b>>>>, <<>>, allow, FALSE) :
     a \in {Def("_end"), Ref("_end"), WeakDef("_end"), Def("f")},
     b \in {Ref("_end"), WeakRef("_end"), Ref("f")}, allow \in BOOLEAN}

MCName == {"f", "g", "_end"}
MCInputs == Objects \cup Archives \cup Linker
===============================================================================
