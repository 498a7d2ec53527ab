----------------------------- MODULE Preprocessor -----------------------------
(***************************************************************************)
(* The directives of frontend/preprocessor/mod.rs that decide which lines  *)
(* of which files become output: #include and #include_next with their     *)
(* search order, the conditionals, and the definition of macros, with      *)
(* #pragma push_macro and pop_macro.  A step is one line.                  *)
(*                                                                         *)
(* The lines between directives are opaque; macro expansion and the        *)
(* evaluation of #if beyond "defined" are left out.                        *)
(***************************************************************************)
EXTENDS Integers, Sequences, FiniteSets, SequencesExt

CONSTANTS
  Name,             \* names that an #include may give
  UserPaths,        \* directories of -I, in order
  SystemPaths,      \* and of the system
  Macro,
  MaxIncludeDepth,  \* max_include_depth
  Main,             \* the file given to preprocess_file
  Sources           \* file systems: the lines of each file there is

(***************************************************************************)
(* A file is a directory and a name.  A line is text, a directive with a   *)
(* macro, or an #include with a name.                                      *)
(***************************************************************************)
Dir == Range(UserPaths) \cup Range(SystemPaths) \cup {Main[1]}
File == Dir \X (Name \cup {Main[2]})
Line == [k : {"text"}, id : Nat]
          \cup [k : {"define", "undef", "push_macro", "pop_macro",
                     "ifdef", "ifndef", "elif"}, macro : Macro]
          \cup [k : {"else", "endif", "once"}]
          \cup [k : {"include", "system", "include_next"}, name : Name]

ASSUME SourcesAssumption ==
  /\ MaxIncludeDepth \in Nat
  /\ \A s \in Sources :
       /\ Main \in DOMAIN s /\ DOMAIN s \subseteq File
       /\ \A f \in DOMAIN s : Range(s[f]) \subseteq Line

VARIABLES
  source,        \* the file system
  pc,            \* "run", "done"
  frames,        \* open files with the line reached; include_stack is theirs
  conditionals,  \* conditional_stack
  macros,        \* the macros that are defined
  pushed,        \* macro_push_stack
  output,        \* text lines that were output, with their file
  errors         \* kinds of error reported

vars == <<source, pc, frames, conditionals, macros, pushed, output, errors>>

Init ==
  /\ source \in Sources
  /\ pc = "run"
  /\ frames = <<[file |-> Main, pos |-> 1]>>
  /\ conditionals = <<>>
  /\ macros = {} /\ pushed = [m \in Macro |-> <<>>]
  /\ output = <<>>
  /\ errors = {}

-----------------------------------------------------------------------------
Top == Last(frames)
MoreLines == pc = "run" /\ frames # <<>> /\ Top.pos <= Len(source[Top.file])
Current == source[Top.file][Top.pos]
At(kinds) == MoreLines /\ Current.k \in kinds
Active == \A i \in DOMAIN conditionals : conditionals[i].active

NextLine(fs) == [fs EXCEPT ![Len(fs)].pos = @ + 1]

Text ==
  /\ At({"text"}) /\ Active
  /\ output' = Append(output, <<Top.file, Current.id>>)
  /\ frames' = NextLine(frames)
  /\ UNCHANGED <<source, pc, conditionals, macros, pushed, errors>>

\* In a region that is not active only conditionals are looked at.
SkipLine ==
  /\ MoreLines /\ ~Active
  /\ Current.k \notin {"ifdef", "ifndef", "elif", "else", "endif"}
  /\ frames' = NextLine(frames)
  /\ UNCHANGED <<source, pc, conditionals, macros, pushed, output, errors>>

Define ==
  /\ At({"define"}) /\ Active
  /\ macros' = macros \cup {Current.macro}
  /\ frames' = NextLine(frames)
  /\ UNCHANGED <<source, pc, conditionals, pushed, output, errors>>

Undef ==
  /\ At({"undef"}) /\ Active
  /\ macros' = macros \ {Current.macro}
  /\ frames' = NextLine(frames)
  /\ UNCHANGED <<source, pc, conditionals, pushed, output, errors>>

\* The definition, or that there is none, goes on the macro's own stack.
PushMacro ==
  /\ At({"push_macro"}) /\ Active
  /\ pushed' = [pushed EXCEPT ![Current.macro] =
                  Append(@, Current.macro \in macros)]
  /\ frames' = NextLine(frames)
  /\ UNCHANGED <<source, pc, conditionals, macros, output, errors>>

PopMacro ==
  /\ At({"pop_macro"}) /\ Active
  /\ LET m == Current.macro IN
     IF pushed[m] = <<>> THEN UNCHANGED <<macros, pushed>>
     ELSE /\ macros' = IF Last(pushed[m]) THEN macros \cup {m} ELSE macros \ {m}
          /\ pushed' = [pushed EXCEPT ![m] = Front(@)]
  /\ frames' = NextLine(frames)
  /\ UNCHANGED <<source, pc, conditionals, output, errors>>

\* process_pragma, "once": nothing is noted anywhere.
PragmaOnce ==
  /\ At({"once"}) /\ Active
  /\ frames' = NextLine(frames)
  /\ UNCHANGED <<source, pc, conditionals, macros, pushed, output, errors>>

-----------------------------------------------------------------------------
(* Conditionals.  A group opened where nothing is active is a group no     *)
(* branch of which was taken; its enclosing group keeps it from output.    *)

Condition(active) == [active |-> active, seenActive |-> active, seenElse |-> FALSE]

IfDirective ==
  /\ At({"ifdef", "ifndef"})
  /\ conditionals' =
       Append(conditionals,
              Condition(Active /\ (Current.macro \in macros <=> Current.k = "ifdef")))
  /\ frames' = NextLine(frames)
  /\ UNCHANGED <<source, pc, macros, pushed, output, errors>>

\* #elif defined(m): evaluated only if the enclosing groups are active and
\* no branch was taken; then it may be taken.
ElifIgnoringEarlier(top, parentActive, holds) ==  \* mutant: a later branch again
  [top EXCEPT !.active = parentActive /\ holds, !.seenActive = @ \/ holds]
Elif(top, parentActive, holds) ==
  LET taken == parentActive /\ ~top.seenActive /\ holds IN
  [top EXCEPT !.active = taken, !.seenActive = @ \/ taken]

Else(top) == [top EXCEPT !.seenElse = TRUE, !.active = ~top.seenActive]

ParentActive == \A i \in 1..(Len(conditionals) - 1) : conditionals[i].active

BranchDirective ==
  /\ At({"elif", "else"})
  /\ IF conditionals = <<>>
     THEN errors' = errors \cup {"without #if"} /\ UNCHANGED conditionals
     ELSE IF Last(conditionals).seenElse
     THEN errors' = errors \cup {"after #else"} /\ UNCHANGED conditionals
     ELSE /\ conditionals' =
               Append(Front(conditionals),
                      IF Current.k = "else" THEN Else(Last(conditionals))
                      ELSE Elif(Last(conditionals), ParentActive,
                                Current.macro \in macros))
          /\ UNCHANGED errors
  /\ frames' = NextLine(frames)
  /\ UNCHANGED <<source, pc, macros, pushed, output>>

Endif ==
  /\ At({"endif"})
  /\ IF conditionals = <<>>
     THEN errors' = errors \cup {"without #if"} /\ UNCHANGED conditionals
     ELSE conditionals' = Front(conditionals) /\ UNCHANGED errors
  /\ frames' = NextLine(frames)
  /\ UNCHANGED <<source, pc, macros, pushed, output>>

-----------------------------------------------------------------------------
(* resolve_include and resolve_include_next: the first directory of a      *)
(* search list that has the name; <<>> if none has.                        *)

FirstIn(dirs, name) ==
  LET found == SelectSeq(dirs, LAMBDA dir : <<dir, name>> \in DOMAIN source)
  IN  IF found = <<>> THEN <<>> ELSE <<Head(found), name>>

ResolveInclude(name, system, including) ==
  FirstIn(IF system THEN SystemPaths \o UserPaths
          ELSE <<including[1]>> \o UserPaths \o SystemPaths, name)

\* From after the directory of the including file; if that finds nothing, as
\* a system include.
ResolveNext(name, including) ==
  LET all == UserPaths \o SystemPaths
      places == {i \in DOMAIN all : all[i] = including[1]}
      from == IF places = {} THEN 1
              ELSE 1 + CHOOSE i \in places : \A j \in places : i <= j
      next == FirstIn(SubSeq(all, from, Len(all)), name)
  IN  IF next = <<>> THEN ResolveInclude(name, TRUE, including) ELSE next

Resolved ==
  IF Current.k = "include_next" THEN ResolveNext(Current.name, Top.file)
  ELSE ResolveInclude(Current.name, Current.k = "system", Top.file)

IsOpen(f) == \E i \in DOMAIN frames : frames[i].file = f
TooDeep == Len(frames) - 1 >= MaxIncludeDepth

(* process_include.  should_skip_file asks a handler made a moment ago,    *)
(* which knows no file; a file that is open is included as nothing.        *)
Include ==
  /\ At({"include", "system", "include_next"}) /\ Active
  /\ ~TooDeep /\ Resolved # <<>> /\ ~IsOpen(Resolved)
  /\ frames' = Append(NextLine(frames), [file |-> Resolved, pos |-> 1])
  /\ UNCHANGED <<source, pc, conditionals, macros, pushed, output, errors>>

IncludeNothing ==
  /\ At({"include", "system", "include_next"}) /\ Active
  /\ TooDeep \/ Resolved = <<>> \/ IsOpen(Resolved)
  /\ errors' = errors \cup (IF TooDeep THEN {"too deep"}
                            ELSE IF Resolved = <<>> THEN {"not found"} ELSE {})
  /\ frames' = NextLine(frames)
  /\ UNCHANGED <<source, pc, conditionals, macros, pushed, output>>

EndOfFile ==
  /\ pc = "run" /\ frames # <<>> /\ ~MoreLines
  /\ frames' = Front(frames)
  /\ UNCHANGED <<source, pc, conditionals, macros, pushed, output, errors>>

\* preprocess_file, once the initial file is done.
Finish ==
  /\ pc = "run" /\ frames = <<>>
  /\ errors' = errors \cup (IF conditionals # <<>> THEN {"unterminated"} ELSE {})
  /\ pc' = "done"
  /\ UNCHANGED <<source, frames, conditionals, macros, pushed, output>>

Next ==
  \/ Text \/ SkipLine \/ Define \/ Undef \/ PushMacro \/ PopMacro \/ PragmaOnce
  \/ IfDirective \/ BranchDirective \/ Endif
  \/ Include \/ IncludeNothing \/ EndOfFile \/ Finish

Spec == Init /\ [][Next]_vars

-----------------------------------------------------------------------------
(* A file marked with #pragma once is not read again: none of its lines is *)
(* output twice (include_handler.rs tracks such files to prevent it).      *)
OnceIsOnce ==
  \A i, j \in DOMAIN output :
    [k |-> "once"] \in Range(source[output[i][1]]) /\ i # j => output[i] # output[j]
=============================================================================
