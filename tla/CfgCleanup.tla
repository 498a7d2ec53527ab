------------------------------ MODULE CfgCleanup ------------------------------
(***************************************************************************)
(* The cleanup every function gets at every optimisation level             *)
(* (optimize_function_at_level of passes/pass_manager.rs with level 0):    *)
(* rounds of dead code elimination and control-flow simplification until a *)
(* round changes nothing.  Constant folding, the third pass of a round,    *)
(* finds no constants in this IR, which has no instruction for them, and   *)
(* is left out.                                                            *)
(*                                                                         *)
(* When the rounds are over the module runs the function it was given and  *)
(* the function it made side by side: the same calls, with the same        *)
(* arguments, must be made on the same decisions.                          *)
(***************************************************************************)
EXTENDS Integers, Sequences, FiniteSets, SequencesExt

CONSTANTS
  ValueCount,  \* SSA values are below it, 0 stands for no value
  Inputs,      \* the functions given: sequences of blocks, the first the entry
  Token        \* what a call may return

Value == 0..(ValueCount - 1)
MaxChainHops == 10

(***************************************************************************)
(* A block has phis, each with a set of incoming [val, pred]; a body of    *)
(* instructions that are calls or pure; a terminator with the blocks it    *)
(* may continue at; and the stored predecessors and successors.            *)
(***************************************************************************)
Targets(t) == Range(t.to)
ActualPreds(bs, b) == {a \in DOMAIN bs : b \in Targets(bs[a].term)}

\* What lowering and SSA construction hand over.
WellFormed(bs) ==
  \A b \in DOMAIN bs :
    /\ Targets(bs[b].term) \subseteq DOMAIN bs \ {1}
    /\ bs[b].succs = Targets(bs[b].term) /\ bs[b].preds = ActualPreds(bs, b)
    /\ \A i \in DOMAIN bs[b].phis :
         /\ \A x \in bs[b].phis[i].in : x.pred \in bs[b].preds
         /\ \A x, y \in bs[b].phis[i].in : x.pred = y.pred => x = y

ASSUME InputsAssumption == \A bs \in Inputs : WellFormed(bs)

VARIABLES
  func,     \* the function as given
  blocks,   \* func.blocks, as the passes leave it
  pc,       \* the pass, or its stage, that comes next
  removed,  \* blocks marked for removal in this stage
  cursor,   \* the block its loop is at
  again,    \* merged_this_pass, eliminated_this_pass
  changed,  \* changed_this_round
  token,    \* what calls return until the next decision
  old, new  \* where the two functions are, the values, and what they did

pass == <<func, blocks, pc, removed, cursor, again, changed>>
running == <<token, old, new>>
vars == <<pass, running>>

Parked == [at |-> 0, env |-> [v \in Value |-> <<0, v>>], did |-> <<>>]

Init ==
  /\ func \in Inputs /\ blocks = func
  /\ pc = "unreachable"
  /\ removed = {} /\ cursor = 1 /\ again = FALSE /\ changed = FALSE
  /\ token = 0 /\ old = Parked /\ new = Parked

-----------------------------------------------------------------------------
(* Blocks and their parts.                                                 *)

IsEmpty(b) == b.body = <<>> /\ b.term.kind = "br"
IsTrampoline(b) == b.phis = <<>> /\ IsEmpty(b)

RedirectThen(t, from, to) ==  \* mutant: only the first arm is redirected
  IF Head(t.to) = from THEN [t EXCEPT !.to[1] = to] ELSE t
Redirect(t, from, to) == [t EXCEPT !.to = ReplaceAll(t.to, from, to)]

MapPhis(phis, F(_)) == [i \in DOMAIN phis |-> [phis[i] EXCEPT !.in = F(@)]]

Without(in, p) == {x \in in : x.pred # p}
From(in, p) == {x \in in : x.pred = p}

PhiUses(b) == {x.val : x \in UNION {p.in : p \in Range(b.phis)}}
OtherUses(b) == {b.body[i].arg : i \in DOMAIN b.body} \cup {b.term.arg}

\* replace_value_in_function, for several pairs <<value, replacement>> one
\* after the other.
Replaced(bs, pairs) ==
  LET put == [v \in Value |->
                FoldLeft(LAMBDA x, p : IF x = p[1] THEN p[2] ELSE x, v, pairs)]
  IN  [b \in DOMAIN bs |->
         [bs[b] EXCEPT
            !.phis = MapPhis(@, LAMBDA in : {[x EXCEPT !.val = put[@]] : x \in in}),
            !.body = [i \in DOMAIN @ |-> [@[i] EXCEPT !.arg = put[@]]],
            !.term.arg = put[@]]]

\* Removes blocks and renumbers the rest.  An incoming entry or a target
\* that refers to a removed block keeps its number; so do the terminators
\* of the kinds the pass does not renumber.
Compact(bs, gone, skipped) ==
  LET kept == SelectSeq([b \in DOMAIN bs |-> b], LAMBDA b : b \notin gone)
      num(b) == IF b \in gone THEN b ELSE b - Cardinality({g \in gone : g < b})
      nums(S) == {num(b) : b \in S \ gone}
      one(b) == [b EXCEPT
        !.phis = MapPhis(@, LAMBDA in : {[x EXCEPT !.pred = num(@)] : x \in in}),
        !.term.to = IF b.term.kind \in skipped THEN @
                    ELSE [i \in DOMAIN @ |-> num(@[i])],
        !.preds = nums(@), !.succs = nums(@)]
  IN  [i \in DOMAIN kept |-> one(bs[kept[i]])]

\* Merging and elimination start after the entry, jump threading at it.
Enter(stage) ==
  /\ pc' = stage /\ cursor' = IF stage = "chains" THEN 1 ELSE 2
  /\ removed' = {} /\ again' = FALSE

Mark(stage) ==  \* the pass reports a change if it made one
  changed' = (changed \/ blocks' # blocks) /\ Enter(stage)

-----------------------------------------------------------------------------
(* Dead code elimination.                                                  *)

\* Blocks reached from the entry over the stored successors.
Reachable(bs) ==
  LET r[k \in 0..Len(bs)] ==
        IF k = 0 THEN {1}
        ELSE LET S == r[k - 1] IN S \cup UNION {bs[b].succs : b \in S}
  IN  r[Len(bs)]

FilterPhis(b, preds) ==
  [b EXCEPT !.phis = MapPhis(@, LAMBDA in : {x \in in : x.pred \in preds})]

EliminateUnreachable ==
  LET dead == DOMAIN blocks \ Reachable(blocks)
      cut(b) == [b EXCEPT !.preds = @ \ dead,
                          !.phis = FilterPhis(b, b.preds \ dead).phis]
      rest == Compact([b \in DOMAIN blocks |-> cut(blocks[b])], dead, {"indirect"})
  IN
  /\ pc = "unreachable"
  /\ blocks' = IF dead = {} THEN blocks
               ELSE [b \in DOMAIN rest |-> FilterPhis(rest[b], rest[b].preds)]
  /\ Mark("dead")
  /\ UNCHANGED <<func, running>>

Used(bs) == UNION {PhiUses(bs[b]) \cup OtherUses(bs[b]) : b \in DOMAIN bs}

DropUnused(bs) ==
  [b \in DOMAIN bs |->
     [bs[b] EXCEPT
        !.phis = SelectSeq(@, LAMBDA p : p.dest \in Used(bs)),
        !.body = SelectSeq(@, LAMBDA i : i.kind = "call" \/ i.dest \in Used(bs))]]

EliminateDeadInstructions ==
  /\ pc = "dead" /\ DropUnused(blocks) # blocks
  /\ blocks' = DropUnused(blocks)
  /\ Mark("dead")
  /\ UNCHANGED <<func, running>>

-----------------------------------------------------------------------------
(* Control-flow simplification.  First the stored edges are recomputed,    *)
(* and incoming entries from blocks that are no predecessors dropped.      *)

RecomputeCfg ==
  /\ pc = "dead" /\ DropUnused(blocks) = blocks
  /\ blocks' = [b \in DOMAIN blocks |->
                  LET ps == ActualPreds(blocks, b) IN
                  [FilterPhis(blocks[b], ps) EXCEPT
                     !.preds = ps, !.succs = Targets(blocks[b].term)]]
  /\ changed' = (changed \/ \E b \in DOMAIN blocks : blocks'[b].phis # blocks[b].phis)
  /\ Enter("phis")
  /\ UNCHANGED <<func, running>>

(* Trivial phis: every one a round of the loop finds is replaced, in block *)
(* order, by the operand it had when the round began.                      *)
Operands(p) == {x.val : x \in p.in} \ {p.dest}
IsTrivial(p) == Cardinality(Operands(p)) = 1
Replacement(p) == CHOOSE v \in Operands(p) : TRUE

TrivialPhis(bs) ==
  LET at(b) == SelectSeq(bs[b].phis, IsTrivial)
  IN  FoldLeftDomain(LAMBDA acc, b : acc \o at(b), <<>>, bs)

SimplifyTrivialPhis ==
  LET found == TrivialPhis(blocks)
      gone == {found[i].dest : i \in DOMAIN found}
      replaced == Replaced(blocks,
                    [i \in DOMAIN found |-> <<found[i].dest, Replacement(found[i])>>])
  IN
  /\ pc = "phis" /\ found # <<>>
  /\ blocks' = [b \in DOMAIN blocks |->
                  [replaced[b] EXCEPT
                     !.phis = SelectSeq(@, LAMBDA p : p.dest \notin gone)]]
  /\ Mark("phis")
  /\ UNCHANGED <<func, running>>

NoTrivialPhis ==
  /\ pc = "phis" /\ TrivialPhis(blocks) = <<>>
  /\ blocks' = blocks
  /\ Mark("merge")
  /\ UNCHANGED <<func, running>>

(* A stage that scans the blocks, changing the first one that qualifies    *)
(* from the cursor on, and starts over until a scan changes nothing.       *)
ScanEnd(stage, next, Candidates) ==
  /\ pc = stage
  /\ \A b \in Candidates : b < cursor
  /\ IF again
     THEN /\ cursor' = 2 /\ again' = FALSE
          /\ UNCHANGED <<blocks, pc, removed, changed>>
     ELSE /\ blocks' = Compact(blocks, removed, {})
          /\ Enter(next) /\ UNCHANGED changed
  /\ UNCHANGED <<func, running>>

ScanAt(stage, b, Candidates) ==
  /\ pc = stage
  /\ b \in Candidates /\ b >= cursor
  /\ \A c \in Candidates : c >= cursor => b <= c
  /\ cursor' = b + 1 /\ again' = TRUE /\ changed' = TRUE
  /\ removed' = removed \cup {b}
  /\ UNCHANGED <<func, pc, running>>

ScannedAll == DOMAIN blocks \ {1}  \* mutant: removed blocks are not skipped
Scanned == DOMAIN blocks \ (removed \cup {1})

(* Block merging: b into its only predecessor, whose only successor it is. *)
Mergeable ==
  {b \in Scanned :
     \E a \in DOMAIN blocks \ removed :
       /\ blocks[b].preds = {a} /\ blocks[a].succs = {b}
       /\ blocks[a].term.kind = "br" /\ blocks[a].term.to = <<b>>}

Drained == [phis |-> <<>>, body |-> <<>>, preds |-> {}, succs |-> {},
            term |-> [kind |-> "none", to |-> <<>>, id |-> 0, arg |-> 0]]

MovedPredKept(b, from, to) == b  \* mutant: successors keep the old block
MovedPred(b, from, to) ==
  [b EXCEPT !.preds = (@ \ {from}) \cup {to},
            !.phis = MapPhis(@, LAMBDA in :
                       {[x EXCEPT !.pred = IF @ = from THEN to ELSE @] : x \in in})]

MergeBlock ==
  \E b \in DOMAIN blocks :
    /\ ScanAt("merge", b, Mergeable)
    /\ LET a == CHOOSE a \in blocks[b].preds : TRUE
           phis == SelectSeq(blocks[b].phis, LAMBDA p : p.in # {})
           bs == Replaced(blocks,
                   [i \in DOMAIN phis |->
                      <<phis[i].dest, (CHOOSE x \in phis[i].in : TRUE).val>>])
           joined == [bs[a] EXCEPT !.body = @ \o bs[b].body, !.term = bs[b].term,
                                   !.succs = bs[b].succs]
           merged == [bs EXCEPT ![a] = joined, ![b] = Drained]
       IN  blocks' = [c \in DOMAIN bs |->
                        IF c \in bs[b].succs \ removed
                        THEN MovedPred(merged[c], b, a) ELSE merged[c]]

MergeEnd == ScanEnd("merge", "empty", Mergeable)

(* Empty block elimination: e only selects values and branches on.         *)
Target(e) == Head(blocks[e].term.to)

\* The value that comes through e when it is entered from p.
Through(e, v, p) ==
  IF \E i \in DOMAIN blocks[e].phis : blocks[e].phis[i].dest = v
  THEN LET in == (CHOOSE q \in Range(blocks[e].phis) : q.dest = v).in
       IN  IF From(in, p) = {} THEN v ELSE (CHOOSE x \in From(in, p) : TRUE).val
  ELSE v

\* would_conflict: a predecessor of e already gives t another value.
NoConflict(e, t) == FALSE  \* mutant: the check is missing
Conflict(e, t) ==
  \E i \in DOMAIN blocks[t].phis :
    LET in == blocks[t].phis[i].in IN
    \E x \in From(in, e), y \in Without(in, e) :
      y.pred \in blocks[e].preds /\ y.val # Through(e, x.val, y.pred)

UsedNowhere(e, t) == FALSE  \* mutant: the check is missing
\* phi_used_outside: other blocks use the values e selects, the phis of t
\* not counted.
UsedOutside(e, t) ==
  LET dests == {p.dest : p \in Range(blocks[e].phis)} IN
  \E b \in DOMAIN blocks \ {e} :
    \/ OtherUses(blocks[b]) \cap dests # {}
    \/ b # t /\ PhiUses(blocks[b]) \cap dests # {}

Eliminable ==
  {e \in Scanned :
     /\ IsEmpty(blocks[e])
     /\ Target(e) \notin removed \cup {e}
     /\ blocks[e].preds # {} =>
          ~Conflict(e, Target(e)) /\ ~UsedOutside(e, Target(e))}

Expanded(e, in) ==
  Without(in, e) \cup
  {[val |-> Through(e, x.val, p), pred |-> p] :
     x \in From(in, e), p \in blocks[e].preds}

Bypass(e, t) ==
  LET P == blocks[e].preds
      turn(b) == IF b \in P \ removed
                 THEN [blocks[b] EXCEPT !.term = Redirect(@, e, t),
                                        !.succs = (@ \ {e}) \cup {t}]
                 ELSE blocks[b]
      join(b) == [b EXCEPT !.preds = (@ \cup P) \ {e},
                           !.phis = MapPhis(@, LAMBDA in : Expanded(e, in))]
  IN  [b \in DOMAIN blocks |->
         IF b = t THEN join(turn(b))
         ELSE IF b = e THEN [turn(b) EXCEPT !.preds = {}, !.succs = {}]
         ELSE turn(b)]

EliminateEmpty ==
  \E e \in DOMAIN blocks :
    /\ ScanAt("empty", e, Eliminable)
    /\ blocks' = IF blocks[e].preds = {} THEN blocks ELSE Bypass(e, Target(e))

EmptyEnd == ScanEnd("empty", "chains", Eliminable)

(* Branch chains: a branch to a trampoline goes where the trampoline goes, *)
(* unless the phis there would get two values from the same block.         *)
ChainConflict(mid, final, a) ==
  \E i \in DOMAIN blocks[final].phis :
    LET in == blocks[final].phis[i].in IN
    \E x \in From(in, mid), y \in From(in, a) : x.val # y.val

Follow(a, target) ==
  LET f[k \in 0..MaxChainHops] ==
        IF k = 0 THEN target
        ELSE LET t == f[k - 1] IN
             IF /\ IsTrampoline(blocks[t]) /\ Target(t) # t
                /\ ~ChainConflict(t, Target(t), a)
             THEN Target(t) ELSE t
  IN  f[MaxChainHops]

Chained ==
  {a \in DOMAIN blocks :
     /\ a >= cursor /\ blocks[a].term.kind \in {"br", "cond"}
     /\ \E t \in Targets(blocks[a].term) : Follow(a, t) # t}

\* One arm of a, from mid to final, with its phi entries.
MoveArm(bs, a, mid, final) ==
  LET give(in) == in \cup
        IF From(in, a) = {} THEN {[x EXCEPT !.pred = a] : x \in From(in, mid)} ELSE {}
      s1 == [bs EXCEPT ![a].succs = (@ \ {mid}) \cup {final},
                       ![mid].preds = @ \ {a}]
  IN  [s1 EXCEPT ![final].preds = @ \cup {a},
                 ![final].phis = MapPhis(@, give)]

SimplifyBranchChain ==
  /\ pc = "chains"
  /\ \E a \in Chained :
       /\ \A b \in Chained : a <= b
       /\ LET to == blocks[a].term.to
              final == [i \in DOMAIN to |-> Follow(a, to[i])]
              arms == SelectSeq([i \in DOMAIN to |-> <<to[i], final[i]>>],
                                LAMBDA m : m[1] # m[2])
              moved == FoldLeft(LAMBDA bs, m : MoveArm(bs, a, m[1], m[2]), blocks, arms)
          IN  blocks' = [moved EXCEPT ![a].term.to = final]
       /\ cursor' = a + 1
  /\ changed' = TRUE
  /\ UNCHANGED <<func, pc, removed, again, running>>

(* A round that changed something is followed by another one.              *)
RoundEnd ==
  /\ pc = "chains" /\ Chained = {}
  /\ pc' = IF changed THEN "unreachable" ELSE "run"
  /\ cursor' = 1 /\ changed' = FALSE
  /\ UNCHANGED <<func, blocks, removed, again, running>>

-----------------------------------------------------------------------------
(* Both functions, each up to its next decision and then together: a call  *)
(* returns the token, and what is passed to calls, returns and conditions  *)
(* is recorded.                                                            *)

Nothing == <<-1, 0>>

Selected(b, from, env) ==
  [v \in Value |->
     IF \E p \in Range(b.phis) : p.dest = v
     THEN LET in == From((CHOOSE p \in Range(b.phis) : p.dest = v).in, from)
          IN  IF in = {} THEN Nothing ELSE env[(CHOOSE x \in in : TRUE).val]
     ELSE env[v]]

\* m once it has run block b from the block it is at.
Arrive(bs, m, b, did, t) ==
  LET exec(x, i) == [env |-> [x.env EXCEPT ![i.dest] = <<i.id, t>>],
                     did |-> IF i.kind # "call" THEN x.did
                             ELSE Append(x.did, <<i.id, x.env[i.arg]>>)]
      end == FoldLeft(exec, [env |-> Selected(bs[b], m.at, m.env), did |-> did],
                      bs[b].body)
      term == bs[b].term
  IN  [at |-> b, env |-> end.env,
       did |-> IF term.kind = "br" THEN end.did
               ELSE Append(end.did, <<term.id, end.env[term.arg]>>)]

Decides(bs, m) == m.at # 0 /\ bs[m.at].term.kind # "br"

\* A computed goto jumps to the address it was given: to the block that has
\* the number the label's block had, for no pass renumbers a BlockAddress.
Goes(bs, at, k) ==
  IF bs[at].term.kind = "indirect"
  THEN LET b == func[old.at].term.to[k] IN IF b \in DOMAIN bs THEN b ELSE 1
  ELSE bs[at].term.to[k]

Begin ==
  /\ pc = "run" /\ old.at = 0
  /\ \E t \in Token :
       /\ token' = t
       /\ old' = Arrive(func, old, 1, <<>>, t)
       /\ new' = Arrive(blocks, new, 1, <<>>, t)
  /\ UNCHANGED pass

Continue ==
  /\ pc = "run" /\ old.at # 0
  /\ IF Decides(func, old)
     THEN /\ ~Decides(blocks, new)
          /\ new' = Arrive(blocks, new, blocks[new.at].term.to[1], new.did, token)
          /\ UNCHANGED old
     ELSE /\ old' = Arrive(func, old, func[old.at].term.to[1], old.did, token)
          /\ UNCHANGED new
  /\ UNCHANGED <<pass, token>>

Decide ==
  /\ pc = "run" /\ Decides(func, old) /\ Decides(blocks, new)
  /\ \E t \in Token, k \in DOMAIN func[old.at].term.to :
       /\ token' = t
       /\ old' = Arrive(func, old, func[old.at].term.to[k], <<>>, t)
       /\ new' = Arrive(blocks, new, Goes(blocks, new.at, k), <<>>, t)
  /\ UNCHANGED pass

Optimize ==
  \/ EliminateUnreachable \/ EliminateDeadInstructions
  \/ RecomputeCfg \/ SimplifyTrivialPhis \/ NoTrivialPhis
  \/ MergeBlock \/ MergeEnd \/ EliminateEmpty \/ EmptyEnd
  \/ SimplifyBranchChain \/ RoundEnd

Next == Optimize \/ Begin \/ Continue \/ Decide

\* The passes are loops that run until they are done: weak fairness of
\* Optimize, which is enabled until pc is "run", written out.
Fairness == []<>(pc = "run") \/ []<><<TRUE>>_vars

Spec == Init /\ [][Next]_vars /\ Fairness

-----------------------------------------------------------------------------
TypeOK ==
  /\ pc \in {"unreachable", "dead", "phis", "merge", "empty", "chains", "run"}
  /\ \A b \in DOMAIN blocks \ removed :
       /\ Targets(blocks[b].term) \subseteq DOMAIN blocks \ (removed \cup {1})
       /\ blocks[b].preds \cup blocks[b].succs \subseteq DOMAIN blocks
       /\ PhiUses(blocks[b]) \cup OtherUses(blocks[b]) \subseteq Value
  /\ removed \subseteq DOMAIN blocks \ {1}

(* At no point does a phi have two values for one predecessor: the copies  *)
(* made of it would overwrite each other (the conflict checks of empty     *)
(* block elimination and jump threading are there for this).               *)
OneValuePerPred ==
  \A b \in DOMAIN blocks \ removed : \A p \in Range(blocks[b].phis) :
    \A x, y \in p.in : x.pred = y.pred => x = y

(* Dead code elimination trusts the stored edges: whenever it runs they    *)
(* are those of the terminators, after any number of merges, eliminations  *)
(* and redirections.                                                       *)
EdgesFresh ==
  pc = "unreachable" =>
    \A b \in DOMAIN blocks :
      /\ blocks[b].succs = Targets(blocks[b].term)
      /\ blocks[b].preds = ActualPreds(blocks, b)

(* Every value used is a parameter or still defined: the passes preserve   *)
(* SSA form.                                                               *)
UsesDefined ==
  LET defs(bs) == UNION {{p.dest : p \in Range(bs[b].phis)} \cup
                         {i.dest : i \in Range(bs[b].body)} : b \in DOMAIN bs}
  IN  pc \in {"unreachable", "run"} =>
        Used(blocks) \cap defs(func) \subseteq defs(blocks)

(* The function the cleanup leaves makes the same calls with the same      *)
(* arguments and ends the same way as the function it was given, whatever  *)
(* the calls return and the conditions decide.                             *)
Agreement ==
  pc = "run" /\ Decides(func, old) /\ Decides(blocks, new) => old.did = new.did

(* The rounds end: no two passes undo each other's work forever, so        *)
(* MAX_ITERATIONS is never needed.                                         *)
RoundsEnd == <>(pc = "run")
=============================================================================
