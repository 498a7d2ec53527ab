-------------------------------- MODULE Sema --------------------------------
(***************************************************************************)
(* Phase 5, the part that keeps track of names: the symbol table           *)
(* (sema/symbol_table.rs), the scope stack (sema/scope.rs) and the         *)
(* statement handlers of the analyzer (sema/mod.rs) that open and close    *)
(* scopes, resolve labels and carry the loop and switch state.             *)
(*                                                                         *)
(* The analyzer walks a program one construct at a time; the program is    *)
(* whatever the actions make of it, with the items its menu offers.  A     *)
(* symbol's type is abstracted to what redeclaration tells apart, function *)
(* or object, and the list of the ids of a name to the set of them: ids    *)
(* only grow, so the last of the list is the latest.                       *)
(***************************************************************************)
EXTENDS Integers, Sequences, FiniteSets

CONSTANTS
  Name,        \* identifiers
  Label,       \* names of labels
  Literal,     \* values of case labels
  Menus,       \* what a program may be made of, and of how many items
  MaxNesting   \* constructs open at once

DeclarationForm ==
  [kind : {"variable", "function", "typedef", "enumerator"},
   storage : {"auto", "static", "extern"}, init : BOOLEAN]

ASSUME MenusAssumption ==
  /\ MaxNesting \in Nat
  /\ \A m \in Menus :
       /\ m.names \subseteq Name /\ m.labels \subseteq Label /\ m.literals \subseteq Literal
       /\ m.declarations \subseteq DeclarationForm
       /\ m.constructs \subseteq {"block", "expression", "for", "loop", "switch"}
       /\ m.uses \in BOOLEAN /\ m.errors \in BOOLEAN /\ m.items \in Nat

VARIABLES
  menu,        \* what this program may be made of
  symbols,     \* SymbolTable.symbols
  nameToIds,   \* SymbolTable.name_to_ids
  depth,       \* SymbolTable.current_scope_depth
  scopes,      \* ScopeStack.scopes, its depth being Len(scopes) - 1
  inLoop, inSwitch, cases, hasDefault,   \* in_loop .. switch_has_default
  errors,      \* what was reported, as pairs of a message and a name
  open,        \* the constructs being analysed, with what their calls keep
  items,       \* items analysed so far
  bailed,      \* a construct was left through `?`
  done,        \* finalize has run
  opened, function, localLabels, gotos, targets  \* history: see the properties

tables == <<symbols, nameToIds, depth>>
switches == <<inLoop, inSwitch, cases, hasDefault>>
history == <<opened, function, localLabels, gotos, targets>>
vars == <<menu, tables, scopes, switches, errors, open, items, bailed, done, history>>

Entry(n, kind, storage, linkage, defined, tentative) ==
  [name |-> n, kind |-> kind, storage |-> storage, linkage |-> linkage,
   defined |-> defined, tentative |-> tentative, used |-> FALSE, depth |-> depth]

NoNames == [n \in {} |-> 0]
Scope(kind) ==
  [kind |-> kind, ordinary |-> NoNames,
   locals |-> {}, defined |-> {}, referenced |-> {}]

\* stage: "fresh" and "body" of what holds a list of items; "head", "body"
\* and "done" of what has one statement for its body.
Construct(at, stage) ==
  [at |-> at, stage |-> stage, id |-> opened + 1,
   inLoop |-> inLoop, inSwitch |-> inSwitch, cases |-> cases, hasDefault |-> hasDefault,
   seen |-> {}, default |-> FALSE]

Init ==
  /\ menu \in Menus
  /\ symbols = <<>> /\ nameToIds = [n \in Name |-> {}] /\ depth = 0
  /\ scopes = <<Scope("global")>>
  /\ inLoop = FALSE /\ inSwitch = FALSE /\ cases = {} /\ hasDefault = FALSE
  /\ errors = {} /\ open = <<>> /\ items = 0 /\ bailed = FALSE /\ done = FALSE
  /\ opened = 0 /\ function = 0 /\ localLabels = {} /\ gotos = {} /\ targets = {}

-----------------------------------------------------------------------------
(* Where the walk is.                                                      *)

Top == open[Len(open)]
HoldsItems == {"function", "block", "expression"}

AtFileScope == open = <<>>
AtItem == open # <<>> /\ Top.at \in HoldsItems
AtStatement == AtItem \/ (open # <<>> /\ Top.stage = "body")
AtForHead == open # <<>> /\ Top.at = "for" /\ Top.stage = "head"

\* The constructs once the innermost has its next item or its statement.
Advanced ==
  CASE open = <<>> \/ AtForHead -> open
    [] AtItem -> [open EXCEPT ![Len(open)].stage = "body"]
    [] OTHER -> [open EXCEPT ![Len(open)].stage = "done"]

Item == ~done /\ items < menu.items /\ items' = items + 1

-----------------------------------------------------------------------------
(* Lookup, redeclaration and linkage.                                      *)

Latest(S) == CHOOSE i \in S : \A j \in S : j <= i

\* SymbolTable.lookup and ScopeStack.lookup_ordinary; 0 is None.
Lookup(n) == IF nameToIds[n] = {} THEN 0 ELSE Latest(nameToIds[n])
ScopesOf(n) == {k \in DOMAIN scopes : n \in DOMAIN scopes[k].ordinary}
LookupOrdinary(n) ==
  IF ScopesOf(n) = {} THEN 0 ELSE scopes[Latest(ScopesOf(n))].ordinary[n]

InCurrentScope(n) == {i \in nameToIds[n] : symbols[i].depth = depth}

\* A redeclaration merges into the entry, or is an error.
Merges(x, e) ==
  \/ x.kind = "typedef" /\ e.kind = "typedef"
  \/ /\ x.kind # "enumerator"
     /\ (x.kind = "function") = (e.kind = "function")
     /\ ~(x.defined /\ e.defined)
Merged(x, e) ==
  IF e.defined /\ ~x.defined
  THEN [x EXCEPT !.defined = TRUE, !.tentative = FALSE] ELSE x

\* SymbolTable.declare: the id it returns, 0 for Err, and the entries after.
Declared(e) ==
  LET here == InCurrentScope(e.name)
      i == Latest(here)
  IN  IF here = {} THEN [id |-> Len(symbols) + 1, symbols |-> Append(symbols, e)]
      ELSE IF Merges(symbols[i], e)
      THEN [id |-> i, symbols |-> [symbols EXCEPT ![i] = Merged(@, e)]]
      ELSE [id |-> 0, symbols |-> symbols]

\* An extern takes the linkage of what it finds, at file scope only internal.
Linkage(n, storage, d) ==
  LET prior == IF Lookup(n) = 0 THEN "none" ELSE symbols[Lookup(n)].linkage
      inherited == {"internal"} \cup (IF d = 0 THEN {} ELSE {"external"})
  IN  IF storage = "extern" THEN IF prior \in inherited THEN prior ELSE "external"
      ELSE IF d > 0 THEN "none"
      ELSE IF storage = "static" THEN "internal" ELSE "external"

\* declare_ordinary, in the scope on top of the stack
Registered(stack, n, id) ==
  [stack EXCEPT ![Len(stack)].ordinary =
     [m \in DOMAIN @ \cup {n} |-> IF m = n THEN id ELSE @[m]]]

\* What every caller does with the id that declare returned.
Register(n, r) ==
  /\ symbols' = r.symbols
  /\ nameToIds' = IF r.id = 0 THEN nameToIds ELSE [nameToIds EXCEPT ![n] = @ \cup {r.id}]
  /\ scopes' = IF r.id = 0 THEN scopes ELSE Registered(scopes, n, r.id)
  /\ errors' = IF r.id = 0 THEN errors \cup {<<"redefinition", n>>} ELSE errors

-----------------------------------------------------------------------------
(* Declarations.                                                           *)

AtDeclaration == AtFileScope \/ AtItem \/ AtForHead

Declaration(n, kind, storage, init) ==
  /\ AtDeclaration /\ Item
  /\ LET file == scopes[Len(scopes)].kind = "global"
         linkage == Linkage(n, storage, Len(scopes) - 1)
         tentative == ~init /\ file /\ storage # "extern" /\ kind = "variable"
     IN  Register(n, Declared(Entry(n, kind, storage, linkage, init, tentative)))
  /\ open' = Advanced
  /\ UNCHANGED <<depth, switches, bailed, done, history>>

Typedef(n) ==
  /\ AtDeclaration /\ Item
  /\ Register(n, Declared(Entry(n, "typedef", "typedef", "none", TRUE, FALSE)))
  /\ open' = Advanced
  /\ UNCHANGED <<depth, switches, bailed, done, history>>

\* declare_enum_constant: a name the scope has already is refused silently.
Enumerator(n) ==
  /\ AtDeclaration /\ Item
  /\ IF InCurrentScope(n) = {}
     THEN Register(n, Declared(Entry(n, "enumerator", "auto", "none", TRUE, FALSE)))
     ELSE UNCHANGED <<symbols, nameToIds, scopes, errors>>
  /\ open' = Advanced
  /\ UNCHANGED <<depth, switches, bailed, done, history>>

(* analyze_identifier: the type comes from the scope stack, the mark goes  *)
(* to the symbol table.                                                    *)
Use(n) ==
  /\ AtStatement \/ AtForHead
  /\ Item
  /\ symbols' = IF LookupOrdinary(n) # 0 /\ Lookup(n) # 0
                THEN [symbols EXCEPT ![Lookup(n)].used = TRUE] ELSE symbols
  /\ open' = Advanced
  /\ UNCHANGED <<nameToIds, depth, scopes, switches, errors, bailed, done, history>>

-----------------------------------------------------------------------------
(* Labels.                                                                 *)

LabelScopeOfFunction(l) ==  \* mutant
  Latest({1} \cup {k \in DOMAIN scopes : scopes[k].kind = "function"})
LabelScope(l) ==
  LET candidates == {k \in DOMAIN scopes : \/ scopes[k].kind = "function"
                                           \/ scopes[k].kind = "block" /\ l \in scopes[k].locals}
  IN  IF candidates = {} THEN 1 ELSE Latest(candidates)

\* The construct that owns a label by the rules of C: the innermost that
\* declares it __label__, or the function.
Home(l) ==
  LET owners == {k \in DOMAIN open : <<l, open[k].id>> \in localLabels}
  IN  open[IF owners = {} THEN 1 ELSE Latest(owners)].id

Goto(l) ==
  /\ AtStatement /\ Item
  /\ scopes' = [scopes EXCEPT ![LabelScope(l)].referenced = @ \cup {l}]
  /\ gotos' = gotos \cup {<<l, Home(l)>>}
  /\ open' = Advanced
  /\ UNCHANGED <<tables, switches, errors, bailed, done, opened, function, localLabels, targets>>

Labeled(l) ==
  /\ AtStatement /\ Item
  /\ IF l \in scopes[LabelScope(l)].defined
     THEN errors' = errors \cup {<<"label", l, function>>} /\ UNCHANGED scopes
     ELSE /\ scopes' = [scopes EXCEPT ![LabelScope(l)].defined = @ \cup {l}]
          /\ UNCHANGED errors
  /\ targets' = targets \cup {<<l, Home(l)>>}
  /\ UNCHANGED <<tables, switches, open, bailed, done, opened, function, localLabels, gotos>>

\* __label__ l; stands before the other items of its block.
LocalLabel(l) ==
  /\ AtItem /\ Top.stage = "fresh" /\ Item
  /\ LET s == scopes[Len(scopes)] IN
     IF l \in s.locals \cup s.defined \cup s.referenced
     THEN errors' = errors \cup {<<"label", l, function>>} /\ UNCHANGED scopes
     ELSE /\ scopes' = [scopes EXCEPT ![Len(scopes)].locals = @ \cup {l}]
          /\ UNCHANGED errors
  /\ localLabels' = localLabels \cup {<<l, Top.id>>}
  /\ UNCHANGED <<tables, switches, open, bailed, done, opened, function, gotos, targets>>

Undeclared(ls) == {<<"undeclared", l, function>> : l \in ls}
\* validate_labels_in_scope and validate_local_labels_in_scope
Unresolved(s) == Undeclared(s.referenced \ s.defined)
UnresolvedLocals(s) == Undeclared((s.referenced \cap s.locals) \ s.defined)

-----------------------------------------------------------------------------
(* Opening and closing scopes: both structures go in step.                 *)

PushScope(stack, kind) == Append(stack, Scope(kind))
PopScope == SubSeq(scopes, 1, Len(scopes) - 1)
PrunedAfterwards(n) == {i \in nameToIds[n] : symbols[i].depth # depth - 1}  \* mutant
Pruned(n) == {i \in nameToIds[n] : symbols[i].depth # depth}

LeaveScope ==
  /\ nameToIds' = [n \in Name |-> Pruned(n)]
  /\ depth' = IF depth > 0 THEN depth - 1 ELSE 0
  /\ scopes' = PopScope

\* analyze_function_definition, to the point where it analyses the body
BeginFunction(f, storage, params) ==
  /\ AtFileScope /\ MaxNesting > 0 /\ Item
  /\ LET linkage == Linkage(f, storage, depth)
         r == Declared(Entry(f, "function", storage, linkage, FALSE, FALSE))
         known == IF r.id = 0 THEN r.symbols
                  ELSE [r.symbols EXCEPT ![r.id].defined = TRUE, ![r.id].tentative = FALSE]
         stack == IF r.id = 0 THEN scopes ELSE Registered(scopes, f, r.id)
         param(p) == [Entry(p, "variable", "auto", "none", TRUE, FALSE) EXCEPT !.depth = depth + 1]
         id(p) == Len(known) + CHOOSE k \in DOMAIN params : params[k] = p
         named == {params[k] : k \in DOMAIN params}
         outer == [nameToIds EXCEPT ![f] = IF r.id = 0 THEN @ ELSE @ \cup {r.id}]
     IN  /\ symbols' = known \o [k \in DOMAIN params |-> param(params[k])]
         /\ nameToIds' = [n \in Name |-> IF n \in named THEN outer[n] \cup {id(n)} ELSE outer[n]]
         /\ scopes' = Append(stack, [Scope("function") EXCEPT !.ordinary = [p \in named |-> id(p)]])
         /\ errors' = IF r.id = 0 THEN errors \cup {<<"redefinition", f>>} ELSE errors
  /\ depth' = depth + 1
  /\ open' = <<Construct("function", "fresh")>>
  /\ opened' = opened + 1 /\ function' = opened + 1
  /\ localLabels' = {} /\ gotos' = {} /\ targets' = {}
  /\ UNCHANGED <<switches, bailed, done>>

\* The labels are validated over all scopes, then again as the scope goes.
EndFunction ==
  /\ open # <<>> /\ Top.at = "function"
  /\ errors' = errors \cup UNION {Unresolved(scopes[k]) : k \in DOMAIN scopes}
  /\ LeaveScope
  /\ open' = <<>>
  /\ UNCHANGED <<symbols, switches, items, bailed, done, history>>

OpenScope(at, stage) ==
  /\ Len(open) < MaxNesting /\ Item
  /\ scopes' = PushScope(scopes, "block") /\ depth' = depth + 1
  /\ open' = Append(Advanced, Construct(at, stage))
  /\ opened' = opened + 1
  /\ UNCHANGED <<symbols, nameToIds, switches, errors, bailed, done, function, localLabels, gotos, targets>>

BeginBlock == AtStatement /\ OpenScope("block", "fresh")
BeginStatementExpression == (AtStatement \/ AtForHead) /\ OpenScope("expression", "fresh")
BeginFor == AtStatement /\ OpenScope("for", "head")

CloseScope ==
  /\ errors' = errors \cup UnresolvedLocals(scopes[Len(scopes)])
  /\ LeaveScope
  /\ open' = SubSeq(open, 1, Len(open) - 1)
  /\ UNCHANGED <<symbols, items, bailed, done, history>>

EndBlock ==
  /\ open # <<>> /\ Top.at \in {"block", "expression"}
  /\ CloseScope
  /\ UNCHANGED switches

-----------------------------------------------------------------------------
(* Loops and switches keep what they replace in the call that analyses     *)
(* them.                                                                   *)

\* the body of a for statement is next
ForBody ==
  /\ AtForHead
  /\ open' = [open EXCEPT ![Len(open)].stage = "body"]
  /\ inLoop' = TRUE
  /\ UNCHANGED <<tables, scopes, inSwitch, cases, hasDefault, errors, items, bailed, done, history>>

EndFor ==
  /\ open # <<>> /\ Top.at = "for" /\ Top.stage = "done"
  /\ inLoop' = Top.inLoop
  /\ CloseScope
  /\ UNCHANGED <<inSwitch, cases, hasDefault>>

\* while and do-while
BeginLoop ==
  /\ AtStatement /\ Len(open) < MaxNesting /\ Item
  /\ open' = Append(Advanced, Construct("loop", "body"))
  /\ opened' = opened + 1
  /\ inLoop' = TRUE
  /\ UNCHANGED <<tables, scopes, inSwitch, cases, hasDefault, errors, bailed, done,
                 function, localLabels, gotos, targets>>

EndLoop ==
  /\ open # <<>> /\ Top.at = "loop" /\ Top.stage = "done"
  /\ inLoop' = Top.inLoop
  /\ open' = SubSeq(open, 1, Len(open) - 1)
  /\ UNCHANGED <<tables, scopes, inSwitch, cases, hasDefault, errors, items, bailed, done, history>>

BeginSwitch ==
  /\ AtStatement /\ Len(open) < MaxNesting /\ Item
  /\ open' = Append(Advanced, Construct("switch", "body"))
  /\ opened' = opened + 1
  /\ inSwitch' = TRUE /\ cases' = {} /\ hasDefault' = FALSE
  /\ UNCHANGED <<tables, scopes, inLoop, errors, bailed, done, function, localLabels, gotos, targets>>

EndSwitchForgets ==  \* mutant
  /\ open # <<>> /\ Top.at = "switch" /\ Top.stage = "done"
  /\ inSwitch' = Top.inSwitch /\ cases' = {} /\ hasDefault' = FALSE
  /\ open' = SubSeq(open, 1, Len(open) - 1)
  /\ UNCHANGED <<tables, scopes, inLoop, errors, items, bailed, done, history>>
EndSwitch ==
  /\ open # <<>> /\ Top.at = "switch" /\ Top.stage = "done"
  /\ inSwitch' = Top.inSwitch /\ cases' = Top.cases /\ hasDefault' = Top.hasDefault
  /\ open' = SubSeq(open, 1, Len(open) - 1)
  /\ UNCHANGED <<tables, scopes, inLoop, errors, items, bailed, done, history>>

SwitchesOpen == {k \in DOMAIN open : open[k].at = "switch"}
\* Labels of the switch the statement is in, noted there for the properties.
Noted(values, default) ==
  [k \in DOMAIN open |->
     IF SwitchesOpen # {} /\ k = Latest(SwitchesOpen)
     THEN [open[k] EXCEPT !.seen = @ \cup values, !.default = @ \/ default]
     ELSE open[k]]

Case(c) ==
  /\ AtStatement /\ Item
  /\ cases' = cases \cup {c}
  /\ open' = Noted({c}, FALSE)
  /\ UNCHANGED <<tables, scopes, inLoop, inSwitch, hasDefault, errors, bailed, done, history>>

Default ==
  /\ AtStatement /\ Item
  /\ hasDefault' = TRUE
  /\ open' = Noted({}, TRUE)
  /\ UNCHANGED <<tables, scopes, inLoop, inSwitch, cases, errors, bailed, done, history>>

-----------------------------------------------------------------------------
(* An expression or a declaration has an error.  The calls return through  *)
(* `?` and leave the k innermost constructs without closing them, up to    *)
(* the list of items that goes on with the next.  A statement expression   *)
(* is left by the error of one of its own expression statements.           *)
Abandons(k) ==
  LET inner(j) == open[Len(open) + 1 - j] IN
  /\ k \in 1..(Len(open) - 1)
  /\ \A j \in 1..k :
       /\ inner(j).at \notin {"function", "block"}
       /\ inner(j).at = "expression" /\ j > 1 => inner(j - 1).at = "expression"
  /\ inner(k + 1).at \in HoldsItems

Fail(k) ==
  /\ AtStatement \/ AtForHead
  /\ Abandons(k) /\ Item
  /\ open' = SubSeq(open, 1, Len(open) - k)
  /\ errors' = errors \cup {<<"error", "statement">>}
  /\ bailed' = TRUE
  /\ UNCHANGED <<tables, scopes, switches, done, history>>

Finalize ==
  /\ AtFileScope /\ ~done
  /\ symbols' = [i \in DOMAIN symbols |->
       LET s == symbols[i] IN
       IF s.depth = 0 /\ s.kind = "variable" /\ s.tentative /\ ~s.defined
       THEN [s EXCEPT !.defined = TRUE, !.tentative = FALSE] ELSE s]
  /\ done' = TRUE
  /\ UNCHANGED <<nameToIds, depth, scopes, switches, errors, open, items, bailed, history>>

-----------------------------------------------------------------------------
ParamLists == {<<>>} \cup {<<p>> : p \in menu.names}

Declare(n, d) ==
  CASE d.kind = "typedef" -> Typedef(n)
    [] d.kind = "enumerator" -> Enumerator(n)
    [] OTHER -> Declaration(n, d.kind, d.storage, d.init)

Begin ==
  \/ "block" \in menu.constructs /\ BeginBlock
  \/ "expression" \in menu.constructs /\ BeginStatementExpression
  \/ "for" \in menu.constructs /\ BeginFor
  \/ "loop" \in menu.constructs /\ BeginLoop
  \/ "switch" \in menu.constructs /\ BeginSwitch

Step ==
  \/ \E n \in menu.names, d \in menu.declarations : Declare(n, d)
  \/ menu.uses /\ \E n \in menu.names : Use(n)
  \/ \E f \in menu.names, storage \in {"auto", "static"}, params \in ParamLists :
       BeginFunction(f, storage, params)
  \/ Begin
  \/ EndFunction \/ EndBlock \/ ForBody \/ EndFor \/ EndLoop \/ EndSwitch
  \/ \E l \in menu.labels : Goto(l) \/ Labeled(l) \/ LocalLabel(l)
  \/ \E c \in menu.literals : Case(c)
  \/ menu.literals # {} /\ Default
  \/ menu.errors /\ \E k \in 1..MaxNesting : Fail(k)
  \/ Finalize

Next == Step /\ UNCHANGED menu

Spec == Init /\ [][Next]_vars

-----------------------------------------------------------------------------
(* The symbol table and the scope stack are at the same depth and find the *)
(* same declaration of every name, also after statements left through an   *)
(* error: analyze_identifier reads the type from one and marks the use in  *)
(* the other.                                                              *)
ScopesAgree ==
  /\ Len(scopes) = depth + 1
  /\ \A n \in Name : Lookup(n) = LookupOrdinary(n)

(* When a function has been analysed, the labels reported as undeclared    *)
(* are those some goto names and no statement of the construct that owns   *)
(* the label carries; only statements left through an error disturb this.  *)
LabelsJudged ==
  AtFileScope /\ ~bailed =>
    {e[2] : e \in {x \in errors : x[1] = "undeclared" /\ x[3] = function}}
      = {g[1] : g \in gotos \ targets}

(* The loop and switch state is that of the constructs the statement is    *)
(* in: a nested switch gives the outer one its values and its default      *)
(* back, and the head of a for statement is not in its loop.               *)
SwitchesNest ==
  ~bailed =>
    /\ inLoop = (\E k \in DOMAIN open :
                   open[k].at = "loop" \/ (open[k].at = "for" /\ open[k].stage # "head"))
    /\ inSwitch = (SwitchesOpen # {})
    /\ SwitchesOpen # {} =>
         LET o == open[Latest(SwitchesOpen)] IN cases = o.seen /\ hasDefault = o.default
=============================================================================
