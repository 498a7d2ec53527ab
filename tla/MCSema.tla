------------------------------- MODULE MCSema -------------------------------
(***************************************************************************)
(* Instance of Sema: programs about the scopes of one or two names, about  *)
(* labels and about loops and switches, and short ones of everything.      *)
(***************************************************************************)
EXTENDS Sema

MCName == {"x", "y"}
MCLabel == {"l", "m"}
MCLiteral == {1, 2}

Form(kind, storage, init) == [kind |-> kind, storage |-> storage, init |-> init]
Object == Form("variable", "auto", FALSE)
Initialized == Form("variable", "auto", TRUE)
Extern == Form("variable", "extern", FALSE)
Prototype == Form("function", "auto", FALSE)
TypeName == Form("typedef", "auto", TRUE)
Constant == Form("enumerator", "auto", TRUE)

MCMenus ==
  {[names |-> {"x"}, labels |-> {}, literals |-> {},
    declarations |-> {Object, Extern, Prototype}, uses |-> TRUE, errors |-> TRUE,
    constructs |-> {"block", "expression", "for"}, items |-> 6],
   [names |-> {"x", "y"}, labels |-> {}, literals |-> {},
    declarations |-> {Initialized, TypeName, Constant}, uses |-> FALSE, errors |-> FALSE,
    constructs |-> {"block"}, items |-> 5],
   [names |-> {"x"}, labels |-> {"l"}, literals |-> {},
    declarations |-> {}, uses |-> FALSE, errors |-> FALSE,
    constructs |-> {"block", "expression", "loop"}, items |-> 8],
   [names |-> {"x"}, labels |-> {"l", "m"}, literals |-> {},
    declarations |-> {}, uses |-> FALSE, errors |-> TRUE,
    constructs |-> {"expression"}, items |-> 5],
   [names |-> {"x"}, labels |-> {}, literals |-> {1},
    declarations |-> {}, uses |-> TRUE, errors |-> TRUE,
    constructs |-> {"for", "loop", "switch", "block"}, items |-> 8]}
=============================================================================
