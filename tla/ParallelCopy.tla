---------------------------- MODULE ParallelCopy ----------------------------
(***************************************************************************)
(* sequentialize_copies of ir/mem2reg/phi_eliminate.rs: a set of copies    *)
(* dest <- src meant to happen at once becomes a list of copies to execute *)
(* one after the other.                                                    *)
(*                                                                         *)
(* The vector "remaining" is a set here, and any of its safe copies may be *)
(* emitted: its order comes from iterating a hash map of blocks, and the   *)
(* result must not depend on it.  The list emitted is represented by its   *)
(* length and by what every value holds once it has been executed.         *)
(***************************************************************************)
EXTENDS Integers, FiniteSets

CONSTANT ValueCount  \* func.value_count: every value in use is below it

ASSUME ValueCountAssumption == ValueCount \in Nat \ {0}

Value == 0..(ValueCount - 1)
Copy == [dest : Value, src : Value]

\* One copy per phi and predecessor: the destinations differ.
IsCopySet(cs) ==
  /\ cs \subseteq Copy
  /\ \A c, d \in cs : c.dest = d.dest => c = d

\* The parallel copies one predecessor block may have.
CopySets ==
  {{[dest |-> v, src |-> f[v]] : v \in DOMAIN f} :
     f \in UNION {[D -> Value] : D \in SUBSET Value}}

VARIABLES
  given,      \* the parallel copies
  remaining,  \* those not emitted yet
  nextValue,  \* next_value, for fresh temporaries
  holds       \* holds[v]: the value of Value whose initial contents v holds
              \* after the copies emitted so far

copying == <<given, remaining, nextValue, holds>>

CopyInit ==
  /\ given \in CopySets
  /\ remaining = {c \in given : c.dest # c.src}
  /\ nextValue = ValueCount
  /\ holds = [v \in Value |-> v]

\* Executing dest <- src.
Execute(dest, src) ==
  holds' = [v \in DOMAIN holds \cup {dest} |-> IF v = dest THEN holds[src]
                                               ELSE holds[v]]

NeededAsSrc == {c.src : c \in remaining}

SafeAlways == remaining  \* mutant: any copy is taken to be safe
SafeAtFirst ==           \* mutant: the sources are collected before the loop
  {c \in remaining : c.dest \notin {d.src : d \in given}}
Safe == {c \in remaining : c.dest \notin NeededAsSrc}

WithoutKept(c) == remaining  \* mutant: an emitted copy is not removed
Without(c) == remaining \ {c}

\* No remaining copy reads the destination: emit the copy.
EmitSafe ==
  \E c \in Safe :
    /\ Execute(c.dest, c.src)
    /\ remaining' = Without(c)
    /\ UNCHANGED <<given, nextValue>>

\* Every remaining copy is on a cycle: save one source in a fresh temporary
\* and let its copy read that.
Redirected(c) == (remaining \ {c}) \cup {[dest |-> c.dest, src |-> nextValue]}

BreakCycle ==
  /\ Safe = {}
  /\ \E c \in remaining :
       /\ Execute(nextValue, c.src)
       /\ remaining' = Redirected(c)
       /\ nextValue' = nextValue + 1
       /\ UNCHANGED given

CopyNext == EmitSafe \/ BreakCycle

CopySpec == CopyInit /\ [][CopyNext]_copying /\ WF_copying(CopyNext)

-----------------------------------------------------------------------------
CopyTypeOK ==
  /\ IsCopySet(given)
  /\ nextValue \in Nat /\ ValueCount <= nextValue
  /\ remaining \subseteq [dest : Value, src : 0..(nextValue - 1)]
  /\ holds \in [0..(nextValue - 1) -> Value]

Dests == {c.dest : c \in given}

(* Once all copies are out, executing the list has the effect of doing all *)
(* of them at once: each destination holds what its source held at the     *)
(* start, and no other value of the function has changed.                  *)
ParallelEffect ==
  remaining = {} =>
    /\ \A c \in given : holds[c.dest] = c.src
    /\ \A v \in Value \ Dests : holds[v] = v

(* However the cycles lie and are broken, at most half as many temporaries *)
(* are taken as there are copies (sequentialize_copies).                   *)
TempsAtMostHalf == 2 * (nextValue - ValueCount) <= Cardinality(given)

(* The loop ends: breaking a cycle always makes a copy safe, so it cannot  *)
(* go on taking temporaries for ever.                                      *)
Terminates == <>(remaining = {})
=============================================================================
