--------------------------------- MODULE Cfg ---------------------------------
(***************************************************************************)
(* Control-flow graphs as the passes see them: block 1 is the entry and    *)
(* succ gives each block its list of successors (BasicBlock keeps them     *)
(* without duplicates, and its predecessors likewise).  Dominance is       *)
(* stated here by its definition, for modules that say what they promise   *)
(* in terms of it.                                                         *)
(***************************************************************************)
EXTENDS Integers, Sequences, FiniteSets, SequencesExt

Preds(succ, b) == {a \in DOMAIN succ : b \in Range(succ[a])}

\* Blocks on some path from the entry that avoids block a.
ReachedAvoiding(succ, a) ==
  LET step[k \in 0..Cardinality(DOMAIN succ)] ==
        IF k = 0 THEN {1} \ {a}
        ELSE step[k - 1] \cup
             ((UNION {Range(succ[b]) : b \in step[k - 1]}) \ {a})
  IN  step[Cardinality(DOMAIN succ)]

Reachable(succ) == ReachedAvoiding(succ, 0)
Dominates(succ, a, b) == b \notin ReachedAvoiding(succ, a)
=============================================================================
