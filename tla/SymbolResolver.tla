---------------------------- MODULE SymbolResolver ----------------------------
(***************************************************************************)
(* SymbolResolver of backend/linker_common/symbol_resolver.rs and the two  *)
(* ways it is driven: by link of linker_common/mod.rs and of the           *)
(* architectures' linkers (no archives, linker symbols defined at the      *)
(* end), and by resolve_all_symbols (archives, no linker symbols).         *)
(*                                                                         *)
(* A symbol is its name, binding, visibility and whether it is a           *)
(* definition.  Addresses, sizes and types do not take part in resolution. *)
(***************************************************************************)
EXTENDS Integers, Sequences, FiniteSets, SequencesExt, Lists

CONSTANTS
  Name,        \* symbol names
  LinkerName,  \* the ones define_linker_symbols provides
  Inputs       \* what is linked

\* The ELF numbers; 1 is internal, 2 hidden.
STV_DEFAULT == 0
STV_HIDDEN == 2
STV_PROTECTED == 3
Visibility == STV_DEFAULT..STV_PROTECTED

Symbol == [name : Name, binding : {"local", "global", "weak"},
           vis : Visibility, def : BOOLEAN]

\* An input: objects and archive members are lists of symbols; whole tells
\* resolve_all_symbols from link.
IsInput(in) ==
  /\ in.objects \in Seq(Seq(Symbol))
  /\ in.archives \in Seq(Seq(Seq(Symbol)))
  /\ in.allowUndefined \in BOOLEAN /\ in.whole \in BOOLEAN
  /\ in.archives # <<>> => in.whole

ASSUME NamesAssumption == LinkerName \subseteq Name
ASSUME InputsAssumption == \A in \in Inputs : IsInput(in)

VARIABLES
  input,      \* the objects and archives given
  pc,         \* "collect", "archives", "pass", "resolve", "check", "define",
              \* "done" or "failed"
  at,         \* the next object, archive or archive member ...
  archive,    \* ... of this archive
  table,      \* global_symbols: the non-local symbols by name, as collected
  wanted,     \* currently_undefined of the pass over the archive
  included,   \* members of the archives that were included
  changed,    \* the pass included a member
  resolved, undefined, errors  \* the resolver's fields of these names

vars == <<input, pc, at, archive, table, wanted, included, changed,
          resolved, undefined, errors>>
scan == <<archive, wanted, included, changed>>
outcome == <<resolved, undefined, errors>>

Init ==
  /\ input \in Inputs
  /\ pc = "collect" /\ at = 1 /\ archive = 1
  /\ table = [n \in Name |-> <<>>]
  /\ wanted = {} /\ included = {} /\ changed = FALSE
  /\ resolved = <<>> /\ undefined = {} /\ errors = {}

-----------------------------------------------------------------------------
(* Collecting: a local symbol is kept out of the table.                    *)

Participates(s) == s.binding # "local"

Collect(tbl, id, symbols) ==
  LET new(n) == Kept(symbols, {s \in Symbol : s.name = n /\ Participates(s)})
  IN  [n \in Name |->
         tbl[n] \o [i \in DOMAIN new(n) |-> [sym |-> new(n)[i], from |-> id]]]

CollectObject ==
  /\ pc = "collect" /\ at <= Len(input.objects)
  /\ table' = Collect(table, at - 1, input.objects[at])
  /\ at' = at + 1
  /\ UNCHANGED <<input, pc, scan, outcome>>

AllCollected ==
  /\ pc = "collect" /\ at > Len(input.objects)
  /\ pc' = IF input.archives = <<>> THEN "resolve" ELSE "archives"
  /\ UNCHANGED <<input, at, table, scan, outcome>>

-----------------------------------------------------------------------------
(* scan_archive: passes over the members until one includes nothing.  What *)
(* is undefined is worked out once per pass.                               *)

HasDef(n) == \E i \in DOMAIN table[n] : table[n][i].sym.def
HasRef(n) == \E i \in DOMAIN table[n] : ~table[n][i].sym.def
UndefinedNames == {n \in Name : HasRef(n) /\ ~HasDef(n)}

Members == input.archives[archive]

ChangedKept == changed  \* mutant: the flag is not cleared for a new pass
ChangedAtStart == FALSE

BeginPass ==
  /\ pc = "archives"
  /\ wanted' = UndefinedNames
  /\ changed' = ChangedAtStart
  /\ at' = 1
  /\ pc' = "pass"
  /\ UNCHANGED <<input, archive, table, included, outcome>>

Defines(symbols, names) ==
  \E s \in Range(symbols) : s.def /\ s.binding # "local" /\ s.name \in names
Needed(m) == <<archive, m>> \notin included /\ Defines(Members[m], wanted)

IncludeMember ==
  /\ pc = "pass" /\ at <= Len(Members) /\ Needed(at)
  /\ included' = included \cup {<<archive, at>>}
  /\ changed' = TRUE
  /\ table' = Collect(table, at - 1, Members[at])
  /\ at' = at + 1
  /\ UNCHANGED <<input, pc, archive, wanted, outcome>>

SkipMember ==
  /\ pc = "pass" /\ at <= Len(Members) /\ ~Needed(at)
  /\ at' = at + 1
  /\ UNCHANGED <<input, pc, table, scan, outcome>>

AnotherNever == FALSE  \* mutant: one pass over an archive is enough
Another == changed

EndPass ==
  /\ pc = "pass" /\ at > Len(Members)
  /\ archive' = IF Another THEN archive ELSE archive + 1
  /\ pc' = IF Another \/ archive < Len(input.archives) THEN "archives" ELSE "resolve"
  /\ UNCHANGED <<input, at, table, wanted, included, changed, outcome>>

-----------------------------------------------------------------------------
(* resolve: the names one by one, independent of each other.               *)

MergeLast(a, b) == IF b = STV_DEFAULT THEN a ELSE b  \* mutant: the last one wins
Merge(a, b) ==
  IF a = STV_DEFAULT THEN b
  ELSE IF b = STV_DEFAULT THEN a
  ELSE IF a < b THEN a ELSE b

\* Folded over the occurrences of the name, in the order of the table.
MergedVis(n) ==
  LET upTo[i \in 0..Len(table[n])] ==
        IF i = 0 THEN STV_DEFAULT ELSE Merge(upTo[i - 1], table[n][i].sym.vis)
  IN  upTo[Len(table[n])]

Defs(n, binding) ==
  Kept(table[n], {e \in Range(table[n]) : e.sym.def /\ e.sym.binding = binding})
AllWeak(n) == \A e \in Range(table[n]) : e.sym.binding = "weak"

ConflictsLate == {n \in Name : Len(Defs(n, "global")) > 2}  \* mutant
Conflicts == {n \in Name : Len(Defs(n, "global")) > 1}

Winner(n) == Head(IF Defs(n, "global") # <<>> THEN Defs(n, "global") ELSE Defs(n, "weak"))

\* A name nobody defines is put into resolved as well, for the relocations.
Resolution(n) ==
  IF HasDef(n)
  THEN [defined |-> TRUE, binding |-> Winner(n).sym.binding, vis |-> MergedVis(n),
        from |-> Winner(n).from,
        export |-> /\ MergedVis(n) \in {STV_DEFAULT, STV_PROTECTED}
                   /\ Winner(n).sym.binding # "weak"]
  ELSE [defined |-> FALSE,
        binding |-> IF AllWeak(n) THEN "weak" ELSE Head(table[n]).sym.binding,
        vis |-> MergedVis(n), from |-> Head(table[n]).from, export |-> FALSE]

Fatal == errors' # {} /\ (input.whole \/ ~input.allowUndefined)

Resolve ==
  /\ pc = "resolve"
  /\ resolved' = [n \in {m \in Name : table[m] # <<>>} |-> Resolution(n)]
  /\ undefined' = UndefinedNames
  /\ errors' = Conflicts
  /\ pc' = IF Fatal THEN "failed" ELSE "check"
  /\ UNCHANGED <<input, at, table, scan>>

(* check_undefined.                                                        *)
Unresolved == {n \in undefined : ~AllWeak(n) /\ n \notin DOMAIN resolved}

CheckUndefined ==
  /\ pc = "check"
  /\ pc' = IF ~input.allowUndefined /\ Unresolved # {} THEN "failed"
           ELSE IF input.whole THEN "done" ELSE "define"
  /\ UNCHANGED <<input, at, table, scan, outcome>>

(* define_linker_symbols, for the names resolved has nothing for.          *)
LinkerSymbol == [defined |-> TRUE, binding |-> "global", vis |-> STV_HIDDEN,
                 from |-> 0, export |-> FALSE]

DefineLinkerSymbols ==
  /\ pc = "define"
  /\ resolved' = [n \in DOMAIN resolved \cup LinkerName |->
                    IF n \in DOMAIN resolved THEN resolved[n] ELSE LinkerSymbol]
  /\ undefined' = undefined \ (LinkerName \ DOMAIN resolved)
  /\ pc' = "done"
  /\ UNCHANGED <<input, at, table, scan, errors>>

Next ==
  \/ CollectObject \/ AllCollected \/ BeginPass \/ IncludeMember \/ SkipMember
  \/ EndPass \/ Resolve \/ CheckUndefined \/ DefineLinkerSymbols

Spec == Init /\ [][Next]_vars /\ WF_vars(Next)

-----------------------------------------------------------------------------
(* What the input says, whatever the resolver made of it: the symbols of   *)
(* the objects and of the members included, each with its place.           *)

ListSymbols(where, symbols) == {<<where, i, symbols[i]>> : i \in DOMAIN symbols}
Linked ==
  (UNION {ListSymbols(<<0, o>>, input.objects[o]) : o \in DOMAIN input.objects}) \cup
  (UNION {ListSymbols(m, input.archives[m[1]][m[2]]) : m \in included})
Visible(n) == {l \in Linked : l[3].name = n /\ l[3].binding # "local"}
StrongDefs(n) == {l \in Visible(n) : l[3].def /\ l[3].binding = "global"}
WeakDefs(n) == {l \in Visible(n) : l[3].def /\ l[3].binding = "weak"}
StrongRefs(n) == {l \in Visible(n) : ~l[3].def /\ l[3].binding = "global"}

(* A link that goes through without leave to leave symbols undefined has   *)
(* one strong definition per name at most, in whatever objects and archive *)
(* members it came to include, and a name is defined by the strong one if  *)
(* there is one and otherwise by a weak one.                               *)
OneDefinition ==
  pc \in {"check", "done"} /\ ~input.allowUndefined =>
    \A n \in Name :
      /\ Cardinality(StrongDefs(n)) <= 1
      /\ StrongDefs(n) # {} => resolved[n].defined /\ resolved[n].binding = "global"
      /\ StrongDefs(n) = {} /\ WeakDefs(n) # {} =>
           resolved[n].defined /\ resolved[n].binding = "weak"

(* merge_visibility, folded over all occurrences of a name in the order    *)
(* the objects come in, gives the most restrictive of them: internal, then *)
(* hidden, then protected, then default.  Hidden symbols stay out of the   *)
(* dynamic symbol table.                                                   *)
Restrictiveness(v) == (4 - v) % 4
MostRestrictive ==
  pc = "check" =>
    \A n \in DOMAIN resolved :
      /\ \A l \in Visible(n) : Restrictiveness(l[3].vis) <= Restrictiveness(resolved[n].vis)
      /\ \E l \in Visible(n) : l[3].vis = resolved[n].vis
      /\ resolved[n].export =>
           \A l \in Visible(n) : l[3].vis \in {STV_DEFAULT, STV_PROTECTED}

(* scan_archive stops at the fixpoint: when it leaves an archive, no       *)
(* member left out defines a name that is still undefined.                 *)
ArchiveFixpoint ==
  pc \in {"archives", "resolve"} /\ archive > 1 /\ (pc = "resolve" \/ ~changed) =>
    \A m \in DOMAIN input.archives[archive - 1] :
      <<archive - 1, m>> \notin included =>
        ~Defines(input.archives[archive - 1][m], UndefinedNames)

(* The passes over the archives come to an end, and the link with them.    *)
LinkEnds == <>(pc \in {"done", "failed"})

(* check_undefined: "any undefined non-weak symbol produces an error", so  *)
(* that a link which goes through has a definition for every strong        *)
(* reference (to a name that is not the linker's own).                     *)
UndefinedReported ==
  pc = "done" /\ ~input.allowUndefined =>
    \A n \in Name \ LinkerName : StrongRefs(n) # {} => resolved[n].defined
===============================================================================
