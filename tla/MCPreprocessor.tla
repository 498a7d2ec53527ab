--------------------------- MODULE MCPreprocessor ----------------------------
(***************************************************************************)
(* Instance of Preprocessor: a main file, two headers of which one exists  *)
(* in a user and a system directory, with guards, wrappers that go on with *)
(* #include_next, files that include each other, and nested groups with    *)
(* several branches that depend on what was included before.               *)
(*                                                                         *)
(* The reference reads a file as the standard does: a group is its         *)
(* branches, of which the first that holds is read, and an #include is the *)
(* text of the file, whether or not it is open, within the same limit on   *)
(* the depth.                                                              *)
(***************************************************************************)
EXTENDS Preprocessor

MCName == {"a", "b", "c"}
MCUserPaths == <<"u">>
MCSystemPaths == <<"s">>
MCMacro == {"G", "M", "N"}
MCMain == <<"u", "a">>

T(i) == [k |-> "text", id |-> i]
D(k, m) == [k |-> k, macro |-> m]
I(k, n) == [k |-> k, name |-> n]
Else_ == [k |-> "else"]
End == [k |-> "endif"]
Guarded(m, body) == <<D("ifndef", m), D("define", m)>> \o body \o <<End>>

MainFiles ==
  {<<I("include", "b"), I("system", "b"), T(1)>>,
   <<[k |-> "once"], D("ifdef", "M"), I("include", "b"), D("elif", "N"), T(1), Else_,
     I("include", "c"), End, D("ifdef", "N"), T(2), End>>,
   <<D("define", "M"), D("push_macro", "M"), D("undef", "M"), I("include", "b"),
     D("pop_macro", "M"), D("ifndef", "M"), T(1), Else_, I("include", "b"), End>>,
   Guarded("M", <<I("include", "b"), D("ifdef", "M"), D("ifdef", "N"), T(1),
                  D("elif", "G"), T(2), D("elif", "M"), T(3), Else_, T(4), End,
                  D("elif", "N"), T(5), End>>) \o <<I("include", "c"), T(6)>>}
Headers ==
  {<<T(1)>>,
   <<T(1), I("include_next", "b"), D("undef", "N")>>,
   <<D("ifdef", "M"), T(1), D("ifdef", "N"), T(2), Else_, D("define", "N"), End,
     D("elif", "N"), T(3), Else_, D("define", "M"), End>>,
   Guarded("G", <<T(1), I("include", "c"), T(2)>>),
   Guarded("N", <<I("system", "b"), T(1), I("include", "b")>>),
   <<I("include", "a"), D("pop_macro", "N"), T(1)>>}
SystemHeaders ==
  {<<T(1), D("define", "N"), I("include", "c")>>,
   Guarded("N", <<I("include", "c"), I("include_next", "b"), T(1)>>)}

Systems(once) ==
  {[f \in {MCMain, <<"u", "b">>, <<"u", "c">>, <<"s", "b">>} |->
      CASE f = MCMain -> a [] f = <<"u", "b">> -> once \o b
        [] f = <<"u", "c">> -> c [] f = <<"s", "b">> -> s] :
     a \in MainFiles, b \in Headers, c \in Headers, s \in SystemHeaders}
    \cup {[f \in {MCMain, <<"u", "b">>} |-> IF f = MCMain THEN a ELSE once \o b] :
            a \in MainFiles, b \in Headers}

MCSources == Systems(<<>>)
MCOnceSources == Systems(<<[k |-> "once"]>>)

-----------------------------------------------------------------------------
(* The reference.  Within a file, nesting gives each line its level; the   *)
(* lines of a group are those one level below its #if up to its #endif.    *)

Level(lines) ==
  LET level[i \in 1..(Len(lines) + 1)] ==
        IF i = 1 THEN 0
        ELSE level[i - 1] + (IF lines[i - 1].k \in {"ifdef", "ifndef"} THEN 1
                             ELSE IF lines[i - 1].k = "endif" THEN -1 ELSE 0)
  IN  level

\* Where the branches of the group opened at line i begin, and its #endif.
Branches(lines, i) ==
  LET level == Level(lines)
      inside == {j \in (i + 1)..Len(lines) :
                   level[j] = level[i] + 1 /\ lines[j].k \in {"elif", "else", "endif"}}
      end == CHOOSE j \in inside : lines[j].k = "endif" /\
                \A l \in inside : lines[l].k = "endif" => j <= l
  IN  <<i>> \o SetToSortSeq({j \in inside : j <= end}, <)

Holds(line, defined) ==
  CASE line.k \in {"ifdef", "elif"} -> line.macro \in defined
    [] line.k = "ifndef" -> line.macro \notin defined
    [] line.k = "else" -> TRUE

\* Reading lines lo to hi of file f.  "again" notes that a file was read
\* within itself and was not without effect.
RECURSIVE Read(_, _, _, _, _)
Read(f, lo, hi, open, st) ==
  IF lo > hi THEN st
  ELSE
  LET line == source[f][lo]
      rest(s) == Read(f, lo + 1, hi, open, s)
  IN
  CASE line.k = "text" -> rest([st EXCEPT !.out = Append(@, <<f, line.id>>)])
    [] line.k = "define" -> rest([st EXCEPT !.defs = @ \cup {line.macro}])
    [] line.k = "undef" -> rest([st EXCEPT !.defs = @ \ {line.macro}])
    [] line.k = "once" -> rest(st)
    [] line.k = "push_macro" ->
         rest([st EXCEPT !.saved[line.macro] = <<line.macro \in st.defs>> \o @])
    [] line.k = "pop_macro" ->
         rest(IF st.saved[line.macro] = <<>> THEN st
              ELSE [st EXCEPT !.saved[line.macro] = Tail(@),
                              !.defs = IF Head(st.saved[line.macro])
                                       THEN @ \cup {line.macro} ELSE @ \ {line.macro}])
    [] line.k \in {"ifdef", "ifndef"} ->
         LET bs == Branches(source[f], lo)
             arms == {i \in 1..(Len(bs) - 1) : Holds(source[f][bs[i]], st.defs)}
             first == CHOOSE i \in arms : \A j \in arms : i <= j
             read == IF arms = {} THEN st
                     ELSE Read(f, bs[first] + 1, bs[first + 1] - 1, open, st)
         IN  Read(f, Last(bs) + 1, hi, open, read)
    [] line.k \in {"include", "system", "include_next"} ->
         LET g == IF line.k = "include_next" THEN ResolveNext(line.name, f)
                  ELSE ResolveInclude(line.name, line.k = "system", f)
             new == Read(g, 1, Len(source[g]), Append(open, g), st)
         IN  IF Len(open) > MaxIncludeDepth
             THEN rest([st EXCEPT !.errors = @ \cup {"too deep"}])
             ELSE IF g = <<>> THEN rest([st EXCEPT !.errors = @ \cup {"not found"}])
             ELSE IF g \notin Range(open) THEN rest(new)
             ELSE IF \A k \in {"out", "defs", "errors", "again"} : new[k] = st[k]
                  THEN rest(new)
             ELSE [st EXCEPT !.again = TRUE]

Expected ==
  Read(Main, 1, Len(source[Main]), <<Main>>,
       [defs |-> {}, saved |-> [m \in Macro |-> <<>>], out |-> <<>>,
        errors |-> {}, again |-> FALSE])

(* Unless a file is read within itself with effect, the output is what the *)
(* standard makes of the files, the same macros are defined at the end,    *)
(* and the only errors are headers that do not exist and depth.            *)
AsTheStandardReads ==
  pc = "done" =>
    LET e == Expected IN
    ~e.again => /\ output = e.out
                /\ macros = e.defs
                /\ errors = e.errors
=============================================================================
