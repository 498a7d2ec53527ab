------------------------ MODULE LiveIntervalsProofs ------------------------
(***************************************************************************)
(* Theorems about LiveIntervals, for every function and every control-flow *)
(* graph: the order the search leaves the blocks in, the interval that     *)
(* covers the value wherever it is live, and the calls it is live across.  *)
(*                                                                         *)
(* The argument has four parts: what the depth-first search knows while it *)
(* runs (Search), the linear order of the instructions (Ordered), what the *)
(* interval contains after each of the three passes over it (Covers), and  *)
(* the fixed point that LiveIn is.                                         *)
(***************************************************************************)
EXTENDS LiveIntervals, Lemmas, FiniteSetTheorems

-----------------------------------------------------------------------------
(* The search.                                                             *)

Shape ==
  /\ pc \in {"dfs", "code", "linear", "scan", "phi", "loops", "done"}
  /\ succ \in Cfgs
  /\ stack \in Seq(Block \X Nat)
  /\ visited \subseteq Block
  /\ postorder \in Seq(Block)
  /\ pc = "dfs" <=> Len(stack) # 0

\* The blocks on the stack form a path from the entry block.
Path ==
  /\ Len(stack) # 0 => stack[1][1] = Entry
  /\ \A i \in 2..Len(stack) : stack[i][1] \in Range(succ[stack[i - 1][1]])
  /\ \A i, j \in 1..Len(stack) : stack[i][1] = stack[j][1] => i = j
  /\ \A i \in 1..Len(stack) :
       /\ stack[i][1] \in visited
       /\ stack[i][2] \in 0..Len(succ[stack[i][1]])
       /\ \A j \in 1..stack[i][2] : succ[stack[i][1]][j] \in visited

\* A block is finished once all its successors are visited, and before the
\* block it was entered from.
Finished ==
  /\ \A b \in visited : \/ \E i \in 1..Len(stack) : stack[i][1] = b
                        \/ \E p \in 1..Len(postorder) : postorder[p] = b
  /\ \A p \in 1..Len(postorder) :
       /\ postorder[p] \in visited
       /\ \A i \in 1..Len(stack) : postorder[p] # stack[i][1]
       /\ \A j \in 1..Len(succ[postorder[p]]) : succ[postorder[p]][j] \in visited
  /\ \A p, q \in 1..Len(postorder) : postorder[p] = postorder[q] => p = q

\* Where a finished block was entered from: a block still on the stack, or
\* one finished later.
Entered(p) ==
  \/ \E i \in 1..Len(stack) : postorder[p] \in Range(succ[stack[i][1]])
  \/ \E q \in 1..Len(postorder) : q > p /\ postorder[p] \in Range(succ[postorder[q]])
EnteredFrom ==
  /\ \A p \in 1..Len(postorder) : postorder[p] # Entry => Entered(p)
  /\ Len(stack) = 0 =>
       Len(postorder) # 0 /\ postorder[Len(postorder)] = Entry

\* The successors of a finished block were finished before it, or lead back
\* to it.
Retreats ==
  \A p \in 1..Len(postorder) : \A v \in Range(succ[postorder[p]]) :
    (\E h \in 1..(p - 1) : postorder[h] = v) \/ Leads(v, postorder[p])

Search == Shape /\ Path /\ Finished /\ EnteredFrom /\ Retreats

(* Successor lists are lists of blocks.                                    *)
LEMMA SuccLists ==
  ASSUME succ \in Cfgs
  PROVE  \A b \in Block :
           /\ succ[b] \in Seq(Block) /\ Len(succ[b]) \in Nat
           /\ \A j \in 1..Len(succ[b]) : succ[b][j] \in Block
           /\ \A x : x \in Range(succ[b]) <=> \E j \in 1..Len(succ[b]) : succ[b][j] = x
<1>1. \A b \in Block : succ[b] \in Seq(Block)
  BY CfgsAssumption DEF IsCfg
<1> TAKE b \in Block
<1>2. succ[b] \in Seq(Block)
  BY <1>1
<1>3. \A x : x \in Range(succ[b]) <=> \E j \in 1..Len(succ[b]) : succ[b][j] = x
  BY <1>2, RangeOf
<1> QED  BY <1>2, <1>3

LEMMA SearchStarts == Init => Search
<1> SUFFICES ASSUME Init
    PROVE  Search
  OBVIOUS
<1>1. /\ pc = "dfs" /\ succ \in Cfgs /\ stack = <<<<Entry, 0>>>>
      /\ visited = {Entry} /\ postorder = <<>>
  BY DEF Init
<1>2. Entry \in Block
  BY BlockAssumption
<1>3. /\ stack \in Seq(Block \X Nat) /\ Len(stack) = 1
      /\ stack[1] = <<Entry, 0>> /\ stack[1][1] = Entry /\ stack[1][2] = 0
      /\ postorder \in Seq(Block) /\ Len(postorder) = 0
  BY <1>1, <1>2
<1>4. Len(succ[Entry]) \in Nat
  BY <1>1, <1>2, SuccLists
<1>5. Shape
  BY <1>1, <1>2, <1>3 DEF Shape
<1>6. Path
  BY <1>1, <1>3, <1>4 DEF Path
<1>7. Finished /\ EnteredFrom /\ Retreats
  BY <1>1, <1>3 DEF Finished, EnteredFrom, Retreats
<1> QED  BY <1>5, <1>6, <1>7 DEF Search

(* The stack while the search runs.                                        *)
LEMMA OnTop ==
  ASSUME Search, pc = "dfs"
  PROVE  /\ Len(stack) \in Nat /\ Len(stack) >= 1
         /\ \A i \in 1..Len(stack) :
              /\ stack[i] = <<stack[i][1], stack[i][2]>>
              /\ stack[i][1] \in Block /\ stack[i][2] \in Nat
         /\ Top = stack[Len(stack)]
         /\ TopSuccs = succ[stack[Len(stack)][1]]
  <1>1. stack \in Seq(Block \X Nat) /\ Len(stack) # 0
    BY DEF Search, Shape
  <1>2. Len(stack) \in Nat /\ \A i \in 1..Len(stack) : stack[i] \in Block \X Nat
    BY <1>1
  <1> QED  BY <1>1, <1>2 DEF Top, TopSuccs

(* Looking at the next successor of the block on top.                      *)
LEMMA DescendSearch ==
  ASSUME Search, Descend
  PROVE  Search'
<1> DEFINE n == Len(stack)
           b == stack[n][1]
           k == stack[n][2]
           next == succ[b][k + 1]
           bumped == [stack EXCEPT ![n] = <<b, k + 1>>]
<1>0. /\ pc = "dfs" /\ pc' = "dfs" /\ succ' = succ /\ postorder' = postorder
      /\ k < Len(succ[b])
      /\ stack' = IF Fresh(next) THEN Append(bumped, <<next, 0>>) ELSE bumped
      /\ visited' = visited \cup {next}
  BY DEF Descend, function, Top, TopSuccs
<1>1. /\ n \in Nat /\ n >= 1 /\ b \in Block /\ k \in Nat
      /\ \A i \in 1..n : stack[i][1] \in Block /\ stack[i][2] \in Nat
  BY <1>0, OnTop
<1>2. /\ succ \in Cfgs /\ stack \in Seq(Block \X Nat) /\ visited \subseteq Block
      /\ postorder \in Seq(Block)
  BY DEF Search, Shape
<1>3. /\ Len(succ[b]) \in Nat /\ next \in Block /\ next \in Range(succ[b])
      /\ k + 1 \in 0..Len(succ[b])
  <2>1. /\ Len(succ[b]) \in Nat
        /\ \A j \in 1..Len(succ[b]) : succ[b][j] \in Block
        /\ \A x : x \in Range(succ[b]) <=> \E j \in 1..Len(succ[b]) : succ[b][j] = x
    BY <1>1, <1>2, SuccLists
  <2>2. k + 1 \in 1..Len(succ[b])
    BY <2>1, <1>0, <1>1
  <2> QED  BY <2>1, <2>2
<1>4. /\ bumped \in Seq(Block \X Nat) /\ Len(bumped) = n
      /\ \A i \in 1..n : bumped[i] = IF i = n THEN <<b, k + 1>> ELSE stack[i]
  BY <1>1, <1>2
<1> DEFINE m == Len(stack')
<1>5. /\ stack' \in Seq(Block \X Nat) /\ m \in Nat
      /\ m = IF Fresh(next) THEN n + 1 ELSE n
      /\ \A i \in 1..n : stack'[i] = bumped[i]
      /\ Fresh(next) => stack'[n + 1] = <<next, 0>>
  <2> HIDE DEF bumped
  <2>1. CASE Fresh(next)
    <3>1. stack' = Append(bumped, <<next, 0>>) /\ <<next, 0>> \in Block \X Nat
      BY <2>1, <1>0, <1>3
    <3> QED  BY <3>1, <2>1, <1>1, <1>4, SMTT(30)
  <2>2. CASE ~Fresh(next)
    BY <2>2, <1>0, <1>1, <1>4
  <2> QED  BY <2>1, <2>2
<1> HIDE DEF bumped
<1>6. /\ \A i \in 1..n : /\ stack'[i][1] = stack[i][1]
                         /\ stack'[i][2] = IF i = n THEN k + 1 ELSE stack[i][2]
      /\ Fresh(next) => stack'[n + 1][1] = next /\ stack'[n + 1][2] = 0
      /\ \A i \in 1..m : i \in 1..n \/ (Fresh(next) /\ i = n + 1)
      /\ \A i \in 1..n : i \in 1..m
  BY <1>1, <1>4, <1>5, SMTT(30)
<1> HIDE DEF m
<1>7. Shape'
  <2>1. m # 0
    BY <1>1, <1>5
  <2>2. visited' \subseteq Block /\ postorder' \in Seq(Block) /\ succ' \in Cfgs
    BY <1>0, <1>2, <1>3
  <2>3. stack' \in Seq(Block \X Nat) /\ Len(stack') # 0
    BY <2>1, <1>5 DEF m
  <2> QED  BY ONLY <2>2, <2>3, <1>0 DEF Shape
<1>8. Path'
  <2>1. m # 0 => stack'[1][1] = Entry
    BY <1>1, <1>6 DEF Search, Path
  <2>2. \A i \in 2..m : stack'[i][1] \in Range(succ'[stack'[i - 1][1]])
    <3> TAKE i \in 2..m
    <3>1. CASE i \in 1..n
      <4>1. i - 1 \in 1..n /\ i \in 2..n
        BY <3>1, <1>1, SMTT(30)
      <4>2. stack[i][1] \in Range(succ[stack[i - 1][1]])
        BY <4>1 DEF Search, Path
      <4> QED  BY <4>1, <4>2, <3>1, <1>6, <1>0
    <3>2. CASE Fresh(next) /\ i = n + 1
      <4>1. i - 1 = n /\ n \in 1..n
        BY <3>2, <1>1
      <4> QED  BY <4>1, <3>2, <1>3, <1>6, <1>0
    <3>3. i \in 1..m
      BY <1>5 DEF m
    <3> QED  BY <3>1, <3>2, <3>3, <1>6
  <2>3. \A i, j \in 1..m : stack'[i][1] = stack'[j][1] => i = j
    <3>1. \A i, j \in 1..n : stack[i][1] = stack[j][1] => i = j
      BY DEF Search, Path
    <3>2. Fresh(next) => \A i \in 1..n : stack[i][1] # next
      BY DEF Search, Path, Fresh
    <3> QED  BY <3>1, <3>2, <1>6
  <2>4. \A i \in 1..n : /\ stack[i][1] \in visited
                        /\ stack[i][2] \in 0..Len(succ[stack[i][1]])
                        /\ \A j \in 1..stack[i][2] : succ[stack[i][1]][j] \in visited
    BY DEF Search, Path
  <2>5. \A i \in 1..m :
          /\ stack'[i][1] \in visited'
          /\ stack'[i][2] \in 0..Len(succ'[stack'[i][1]])
          /\ \A j \in 1..stack'[i][2] : succ'[stack'[i][1]][j] \in visited'
    <3> TAKE i \in 1..m
    <3>1. CASE i \in 1..n /\ i # n
      BY <3>1, <2>4, <1>6, <1>0
    <3>2. CASE i = n
      <4>1. \A j \in 1..k + 1 : succ[b][j] \in visited'
        <5> TAKE j \in 1..k + 1
        <5>1. j \in 1..k \/ j = k + 1
          BY <1>1
        <5>2. \A h \in 1..k : succ[b][h] \in visited
          BY <2>4, <1>1
        <5> QED  BY <5>1, <5>2, <1>0
      <4>2. stack'[i][1] = b /\ stack'[i][2] = k + 1 /\ b \in visited
        BY <3>2, <1>1, <1>6, <2>4
      <4> QED  BY <4>1, <4>2, <1>3, <1>0
    <3>3. CASE Fresh(next) /\ i = n + 1
      <4>1. stack'[i][1] = next /\ stack'[i][2] = 0
        BY <3>3, <1>6
      <4>2. Len(succ[next]) \in Nat
        BY <1>2, <1>3, SuccLists
      <4> QED  BY <4>1, <4>2, <1>0
    <3> QED  BY <3>1, <3>2, <3>3, <1>6
  <2> QED  BY <2>1, <2>2, <2>3, <2>5 DEF Path, m
<1>9. Finished'
  <2>1. \A c \in visited' : \/ \E i \in 1..m : stack'[i][1] = c
                            \/ \E p \in 1..Len(postorder) : postorder[p] = c
    <3> TAKE c \in visited'
    <3>1. CASE c \in visited
      <4>1. \/ \E i \in 1..n : stack[i][1] = c
            \/ \E p \in 1..Len(postorder) : postorder[p] = c
        BY <3>1 DEF Search, Finished
      <4> QED  BY <4>1, <1>6
    <3>2. CASE c = next /\ Fresh(next)
      <4>1. n + 1 \in 1..m
        BY <3>2, <1>1, <1>5 DEF m
      <4> QED  BY <3>2, <4>1, <1>6
    <3> QED  BY <3>1, <3>2, <1>0 DEF Fresh
  <2>2. \A p \in 1..Len(postorder) :
          /\ postorder[p] \in visited
          /\ \A i \in 1..n : postorder[p] # stack[i][1]
          /\ \A j \in 1..Len(succ[postorder[p]]) : succ[postorder[p]][j] \in visited
    BY DEF Search, Finished
  <2>3. \A p \in 1..Len(postorder) : \A i \in 1..m : postorder[p] # stack'[i][1]
    BY <2>2, <1>6 DEF Fresh
  <2>4. \A p, q \in 1..Len(postorder) : postorder[p] = postorder[q] => p = q
    BY DEF Search, Finished
  <2>5. Len(stack') = m /\ postorder' = postorder
    BY <1>0 DEF m
  <2>6. \A p \in 1..Len(postorder) :
          /\ postorder[p] \in visited'
          /\ \A j \in 1..Len(succ[postorder[p]]) : succ[postorder[p]][j] \in visited'
    <3>1. visited \subseteq visited'
      BY <1>0
    <3> QED  BY <2>2, <3>1
  <2>7. succ' = succ
    BY <1>0
  <2> HIDE DEF m
  <2> QED  BY ONLY <2>1, <2>3, <2>4, <2>5, <2>6, <2>7 DEF Finished
<1>10. EnteredFrom'
  <2>1. \A p \in 1..Len(postorder) : postorder[p] # Entry => Entered(p)
    BY DEF Search, EnteredFrom
  <2>2. \A p \in 1..Len(postorder) : Entered(p) => Entered(p)'
    BY <1>6, <1>0 DEF Entered, m
  <2>3. m # 0
    BY <1>1, <1>5 DEF m
  <2> QED  BY <2>1, <2>2, <2>3, <1>0 DEF EnteredFrom, m
<1>11. Retreats'
  BY <1>0 DEF Search, Retreats, Leads
<1> QED  BY <1>7, <1>8, <1>9, <1>10, <1>11 DEF Search

(* From a block on the stack the stack itself is a path to the top.        *)
LEMMA StackLeads ==
  ASSUME Search, pc = "dfs", NEW i \in 1..Len(stack)
  PROVE  Leads(stack[i][1], stack[Len(stack)][1])
<1> DEFINE n == Len(stack)
<1>1. n \in Nat /\ n >= 1
  BY OnTop
<1> SUFFICES ASSUME NEW S \in SUBSET Block, stack[i][1] \in S,
                    \A c \in S : Range(succ[c]) \subseteq S
    PROVE  stack[n][1] \in S
  BY DEF Leads
<1> DEFINE T == {j \in i..n : stack[j][1] \notin S}
<1>2. SUFFICES ASSUME stack[n][1] \notin S
               PROVE  FALSE
  OBVIOUS
<1>3. T \in SUBSET Nat /\ n \in T
  BY <1>1, <1>2
<1>4. PICK x \in T : \A y \in T : x <= y
  <2> HIDE DEF T
  <2> QED  BY <1>3, Least
<1>5. x # i /\ x \in i..n
  BY <1>4
<1>6. x \in 2..n /\ x - 1 \in i..n /\ ~(x <= x - 1)
  BY <1>5, <1>1
<1>7. stack[x - 1][1] \in S
  BY <1>4, <1>6
<1>8. stack[x][1] \in Range(succ[stack[x - 1][1]])
  BY <1>6 DEF Search, Path
<1>9. stack[x][1] \in S
  BY <1>7, <1>8
<1> QED  BY <1>4, <1>9

(* The block on top has no successor left: it is finished.                 *)
LEMMA FinishSearch ==
  ASSUME Search, Finish
  PROVE  Search'
<1> DEFINE n == Len(stack)
           b == stack[n][1]
           k == stack[n][2]
           l == Len(postorder)
<1>0. /\ pc = "dfs" /\ pc' = IF n = 1 THEN "code" ELSE pc
      /\ succ' = succ /\ visited' = visited
      /\ k = Len(succ[b])
      /\ stack' = SubSeq(stack, 1, n - 1)
      /\ postorder' = Append(postorder, b)
  BY DEF Finish, function, Top, TopSuccs, Front
<1>1. /\ n \in Nat /\ n >= 1 /\ b \in Block /\ k \in Nat
      /\ \A i \in 1..n : stack[i][1] \in Block /\ stack[i][2] \in Nat
  BY <1>0, OnTop
<1>2. /\ succ \in Cfgs /\ stack \in Seq(Block \X Nat) /\ visited \subseteq Block
      /\ postorder \in Seq(Block)
  BY DEF Search, Shape
<1>3. /\ stack' \in Seq(Block \X Nat) /\ Len(stack') = n - 1
      /\ \A i \in 1..n - 1 : stack'[i] = stack[i]
  <2>1. n - 1 \in 0..n /\ n - 1 \in Nat
    BY <1>1
  <2> HIDE DEF n
  <2>2. stack' = SubSeq(stack, 1, n - 1) /\ n = Len(stack) /\ n - 1 \in 0..Len(stack)
    BY <1>0, <2>1 DEF n
  <2> QED  BY <2>1, <2>2, <1>2
<1>4. /\ postorder' \in Seq(Block) /\ l \in Nat /\ Len(postorder') = l + 1
      /\ \A p \in 1..l : postorder'[p] = postorder[p]
      /\ postorder'[l + 1] = b
  BY <1>0, <1>1, <1>2
<1>5. /\ \A i \in 1..n : i \in 1..n - 1 \/ i = n
      /\ \A i \in 1..n - 1 : i \in 1..n /\ i # n
      /\ \A p \in 1..l + 1 : p \in 1..l \/ p = l + 1
      /\ \A p \in 1..l : p \in 1..l + 1 /\ p # l + 1
      /\ l + 1 \in 1..l + 1 /\ n \in 1..n
  BY <1>1, <1>4
<1>55. n \in Nat /\ n >= 1 /\ l \in Nat
  BY <1>1, <1>4
<1>6. Shape'
  BY <1>0, <1>1, <1>2, <1>3, <1>4 DEF Shape
<1>7. Path'
  <2>1. n - 1 # 0 => stack'[1][1] = Entry
    <3> HIDE DEF n
    <3>1. n - 1 # 0 => 1 \in 1..n - 1 /\ n # 0
      BY <1>55
    <3>2. n # 0 => stack[1][1] = Entry
      BY DEF n, Search, Path
    <3> QED  BY <3>1, <3>2, <1>3
  <2>2. \A i \in 2..n - 1 : stack'[i][1] \in Range(succ'[stack'[i - 1][1]])
    <3> TAKE i \in 2..n - 1
    <3>1. i \in 2..n /\ i \in 1..n - 1 /\ i - 1 \in 1..n - 1
      BY <1>1
    <3> QED  BY <3>1, <1>0, <1>3 DEF Search, Path
  <2>3. \A i, j \in 1..n - 1 : stack'[i][1] = stack'[j][1] => i = j
    BY <1>3, <1>5 DEF Search, Path
  <2>4. \A i \in 1..n - 1 :
          /\ stack'[i][1] \in visited'
          /\ stack'[i][2] \in 0..Len(succ'[stack'[i][1]])
          /\ \A j \in 1..stack'[i][2] : succ'[stack'[i][1]][j] \in visited'
    BY <1>0, <1>3, <1>5 DEF Search, Path
  <2> QED  BY <2>1, <2>2, <2>3, <2>4, <1>3 DEF Path
<1>8. \A i \in 1..n - 1 : stack[i][1] # b
  BY <1>5 DEF Search, Path
<1>9. Finished'
  <2>1. \A c \in visited' : \/ \E i \in 1..n - 1 : stack'[i][1] = c
                            \/ \E p \in 1..l + 1 : postorder'[p] = c
    <3> TAKE c \in visited'
    <3>1. \/ \E i \in 1..n : stack[i][1] = c
          \/ \E p \in 1..l : postorder[p] = c
      BY <1>0 DEF Search, Finished
    <3> QED  BY <3>1, <1>3, <1>4, <1>5
  <2>2. \A p \in 1..l + 1 :
          /\ postorder'[p] \in visited'
          /\ \A i \in 1..n - 1 : postorder'[p] # stack'[i][1]
          /\ \A j \in 1..Len(succ'[postorder'[p]]) : succ'[postorder'[p]][j] \in visited'
    <3> TAKE p \in 1..l + 1
    <3>1. CASE p \in 1..l
      <4>1. /\ postorder[p] \in visited
            /\ \A i \in 1..n : postorder[p] # stack[i][1]
            /\ \A j \in 1..Len(succ[postorder[p]]) : succ[postorder[p]][j] \in visited
        BY <3>1 DEF Search, Finished
      <4>2. postorder'[p] = postorder[p] /\ \A i \in 1..n - 1 : stack'[i][1] = stack[i][1]
        BY <3>1, <1>3, <1>4
      <4>3. \A i \in 1..n - 1 : postorder'[p] # stack'[i][1]
        BY <4>1, <4>2, <1>5
      <4>4. \A j \in 1..Len(succ'[postorder'[p]]) : succ'[postorder'[p]][j] \in visited'
        BY <4>1, <4>2, <1>0
      <4> QED  BY <4>1, <4>2, <4>3, <4>4, <1>0
    <3>2. CASE p = l + 1
      <4>1. /\ b \in visited
            /\ \A j \in 1..Len(succ[b]) : succ[b][j] \in visited
        BY <1>0, <1>5 DEF Search, Path
      <4>2. postorder'[p] = b /\ \A i \in 1..n - 1 : stack'[i][1] = stack[i][1]
        BY <3>2, <1>3, <1>4
      <4> HIDE DEF b, n, l
      <4>3. \A i \in 1..n - 1 : postorder'[p] # stack'[i][1]
        BY <4>2, <1>8
      <4>4. \A j \in 1..Len(succ'[postorder'[p]]) : succ'[postorder'[p]][j] \in visited'
        BY <4>1, <4>2, <1>0
      <4> QED  BY <4>1, <4>2, <4>3, <4>4, <1>0
    <3> QED  BY <3>1, <3>2, <1>5
  <2>3. \A p, q \in 1..l + 1 : postorder'[p] = postorder'[q] => p = q
    <3>1. \A p, q \in 1..l : postorder[p] = postorder[q] => p = q
      BY DEF Search, Finished
    <3>2. \A p \in 1..l : postorder[p] # b
      BY <1>5 DEF Search, Finished
    <3> QED  BY <3>1, <3>2, <1>4, <1>5
  <2> HIDE DEF n, l
  <2>4. Len(stack') = n - 1 /\ Len(postorder') = l + 1
    BY <1>3, <1>4
  <2> QED  BY <2>1, <2>2, <2>3, <2>4 DEF Finished
<1>10. EnteredFrom'
  <2>1. \A p \in 1..l : postorder[p] # Entry => Entered(p)
    BY DEF Search, EnteredFrom
  <2>2. ASSUME NEW p \in 1..l, postorder[p] # Entry
        PROVE  Entered(p)'
    <3>1. CASE \E i \in 1..n : postorder[p] \in Range(succ[stack[i][1]])
      <4>1. PICK i \in 1..n : postorder[p] \in Range(succ[stack[i][1]])
        BY <3>1
      <4>2. CASE i \in 1..n - 1
        BY <4>1, <4>2, <1>0, <1>3, <1>4 DEF Entered
      <4>3. CASE i = n
        <5>1. l + 1 > p
          BY <1>4
        <5> QED  BY <4>1, <4>3, <5>1, <1>0, <1>4, <1>5 DEF Entered
      <4> QED  BY <4>2, <4>3, <1>5
    <3>2. CASE \E q \in 1..l : q > p /\ postorder[p] \in Range(succ[postorder[q]])
      BY <3>2, <1>0, <1>4, <1>5 DEF Entered
    <3> QED  BY <3>1, <3>2, <2>1, <2>2 DEF Entered
  <2>3. ASSUME NEW q, q = l + 1, b # Entry
        PROVE  Entered(q)'
    <3>0. n # 0 => stack[1][1] = Entry
      BY DEF Search, Path
    <3>1. n \in 2..n
      <4> HIDE DEF n
      <4>1. n # 1
        BY <3>0, <2>3, <1>55 DEF b
      <4> QED  BY <4>1, <1>55
    <3>2. b \in Range(succ[stack[n - 1][1]]) /\ n - 1 \in 1..n - 1
      BY <3>1, <1>1 DEF Search, Path
    <3>3. /\ n - 1 \in 1..Len(stack')
          /\ postorder'[q] \in Range(succ'[stack'[n - 1][1]])
      <4> HIDE DEF b, n, l
      <4> QED  BY <2>3, <3>2, <1>0, <1>3, <1>4
    <3> HIDE DEF l, n, b
    <3> QED  BY <3>3 DEF Entered
  <2>4. n - 1 = 0 => l + 1 # 0 /\ postorder'[l + 1] = Entry
    <3> HIDE DEF n, l
    <3>1. n - 1 = 0 => n = 1 /\ n # 0 /\ l + 1 # 0
      BY <1>55
    <3>2. n # 0 => stack[1][1] = Entry
      BY DEF n, Search, Path
    <3> QED  BY <3>1, <3>2, <1>4 DEF b
  <2>5. \A p \in 1..l + 1 : postorder'[p] # Entry => Entered(p)'
    <3> TAKE p \in 1..l + 1
    <3> HIDE DEF n, b, l
    <3>1. CASE p \in 1..l
      BY <3>1, <2>2, <1>4
    <3>2. CASE p = l + 1
      BY <3>2, <2>3, <1>4
    <3> QED  BY <3>1, <3>2, <1>5
  <2> QED  BY <2>4, <2>5, <1>3, <1>4 DEF EnteredFrom
<1>11. ASSUME NEW v \in Range(succ[b])
       PROVE  (\E h \in 1..l : postorder[h] = v) \/ Leads(v, b)
  <2>1. v \in visited
    <3>1. \A j \in 1..Len(succ[b]) : succ[b][j] \in visited
      BY <1>0, <1>5 DEF Search, Path
    <3> QED  BY <3>1, <1>1, <1>2, SuccLists
  <2>2. CASE \E i \in 1..n : stack[i][1] = v
    BY <2>2, StackLeads, <1>0
  <2>3. CASE \E h \in 1..l : postorder[h] = v
    BY <2>3
  <2> QED  BY <2>1, <2>2, <2>3 DEF Search, Finished
<1>12. Retreats'
  <2> SUFFICES ASSUME NEW p \in 1..(l + 1), NEW v \in Range(succ'[postorder'[p]])
      PROVE  \/ \E h \in 1..(p - 1) : postorder'[h] = v
             \/ \A S \in SUBSET Block :
                  v \in S /\ (\A c \in S : Range(succ'[c]) \subseteq S) => postorder'[p] \in S
    BY <1>4 DEF Retreats, Leads
  <2>2. CASE p \in 1..l
    <3>1. postorder'[p] = postorder[p] /\ succ' = succ
      BY <2>2, <1>0, <1>4
    <3>2. (\E h \in 1..(p - 1) : postorder[h] = v) \/ Leads(v, postorder[p])
      BY <2>2, <3>1 DEF Search, Retreats
    <3>3. \A h \in 1..(p - 1) : h \in 1..l
      BY <2>2, <1>55
    <3> HIDE DEF l
    <3> QED  BY <3>1, <3>2, <3>3, <1>4 DEF Leads
  <2>3. CASE p = l + 1
    <3>1. postorder'[p] = b /\ succ' = succ /\ p - 1 = l
      BY <2>3, <1>0, <1>4
    <3>2. (\E h \in 1..l : postorder[h] = v) \/ Leads(v, b)
      BY <3>1, <1>11
    <3> HIDE DEF l, b
    <3> QED  BY <3>1, <3>2, <1>4 DEF Leads
  <2> QED  BY <2>2, <2>3, <1>5
<1> QED  BY <1>6, <1>7, <1>9, <1>10, <1>12 DEF Search

(* The steps after the search leave what it found alone.                   *)
LEMMA SearchStands ==
  ASSUME Search, pc # "dfs", pc' # "dfs",
         pc' \in {"dfs", "code", "linear", "scan", "phi", "loops", "done"},
         UNCHANGED <<succ, stack, visited, postorder>>
  PROVE  Search'
<1>1. Shape'
  BY DEF Search, Shape
<1>2. Path' /\ Finished'
  BY DEF Search, Path, Finished
<1>3. EnteredFrom' /\ Retreats'
  BY DEF Search, EnteredFrom, Entered, Retreats, Leads
<1> QED  BY <1>1, <1>2, <1>3 DEF Search

-----------------------------------------------------------------------------
(* The order it leaves.                                                    *)

Orderly ==
  /\ rpo \in Seq(Block) /\ Len(rpo) \in Nat /\ Len(rpo) >= 1
  /\ \A p \in 1..Len(rpo) : rpo[p] \in Block
  /\ \A x : x \in Range(rpo) <=> \E p \in 1..Len(rpo) : rpo[p] = x
  /\ \A p, q \in 1..Len(rpo) : rpo[p] = rpo[q] => p = q
  /\ rpo[1] = Entry
  /\ \A p \in 2..Len(rpo) : \E q \in 1..(p - 1) : rpo[p] \in Range(succ[rpo[q]])
  /\ \A q \in 1..Len(rpo) : \A p \in 1..q :
       rpo[p] \in Range(succ[rpo[q]]) => Leads(rpo[p], rpo[q])
  /\ \A p \in 1..Len(rpo) : Range(succ[rpo[p]]) \subseteq Range(rpo)

LEMMA SearchOrders ==
  ASSUME Search, pc # "dfs"
  PROVE  Orderly
<1> DEFINE l == Len(postorder)
<1>1. /\ succ \in Cfgs /\ postorder \in Seq(Block) /\ l \in Nat /\ Len(stack) = 0
      /\ \A p \in 1..l : postorder[p] \in Block
  BY DEF Search, Shape
<1>2. l >= 1 /\ postorder[l] = Entry
  BY <1>1 DEF Search, EnteredFrom
<1>3. rpo \in Seq(Block) /\ Range(rpo) = Range(postorder)
  BY <1>1, ReverseRange DEF rpo
<1>4. Len(rpo) = l /\ \A p \in 1..l : rpo[p] = postorder[(l - p) + 1]
  BY <1>1 DEF rpo, Reverse
<1>5. \A p \in 1..l : (l - p) + 1 \in 1..l /\ (l - ((l - p) + 1)) + 1 = p
  BY <1>1
<1>6. \A x : x \in Range(rpo) <=> \E p \in 1..l : rpo[p] = x
  BY <1>3, <1>4, RangeOf
<1>7. \A p \in 1..l : rpo[p] \in Block
  BY <1>1, <1>4, <1>5
<1>8. \A p, q \in 1..l : rpo[p] = rpo[q] => p = q
  <2> SUFFICES ASSUME NEW p \in 1..l, NEW q \in 1..l, rpo[p] = rpo[q]
      PROVE  p = q
    OBVIOUS
  <2>1. postorder[(l - p) + 1] = postorder[(l - q) + 1]
    BY <1>4
  <2>2. (l - p) + 1 = (l - q) + 1
    BY <2>1, <1>5 DEF Search, Finished
  <2> QED  BY <2>2, <1>1
<1>9. rpo[1] = Entry
  <2>1. 1 \in 1..l /\ (l - 1) + 1 = l
    BY <1>1, <1>2
  <2> QED  BY <2>1, <1>2, <1>4
<1>10. ASSUME NEW p \in 2..l
       PROVE  \E q \in 1..(p - 1) : rpo[p] \in Range(succ[rpo[q]])
  <2> DEFINE r == (l - p) + 1
  <2>1. r \in 1..l /\ r # l /\ l \in 1..l /\ rpo[p] = postorder[r]
    BY <1>1, <1>4
  <2>2. postorder[r] # Entry
    BY <2>1, <1>2 DEF Search, Finished
  <2>3. PICK s \in 1..l : s > r /\ postorder[r] \in Range(succ[postorder[s]])
    <3>1. Entered(r)
      BY <2>1, <2>2 DEF Search, EnteredFrom
    <3>2. 1..Len(stack) = {}
      BY <1>1
    <3> QED  BY <3>1, <3>2 DEF Entered
  <2> DEFINE q == (l - s) + 1
  <2>4. q \in 1..(p - 1) /\ q \in 1..l /\ (l - q) + 1 = s
    BY <2>1, <2>3, <1>1
  <2>5. rpo[q] = postorder[s]
    BY <2>4, <1>4
  <2> QED  BY <2>1, <2>3, <2>4, <2>5
<1>11. ASSUME NEW p \in 1..l
       PROVE  Range(succ[rpo[p]]) \subseteq Range(rpo)
  <2> DEFINE r == (l - p) + 1
  <2>1. r \in 1..l /\ rpo[p] = postorder[r] /\ rpo[p] \in Block
    BY <1>4, <1>5, <1>7
  <2>2. \A j \in 1..Len(succ[rpo[p]]) : succ[rpo[p]][j] \in visited
    BY <2>1 DEF Search, Finished
  <2>3. \A x \in Range(succ[rpo[p]]) : x \in visited
    BY <2>1, <2>2, <1>1, SuccLists
  <2>4. 1..Len(stack) = {}
    BY <1>1
  <2>5. \A x \in visited : \E s \in 1..l : postorder[s] = x
    BY <2>4 DEF Search, Finished
  <2>6. \A x \in visited : x \in Range(postorder)
    BY <2>5, <1>1, RangeOf
  <2> QED  BY <2>3, <2>6, <1>3
<1>12. ASSUME NEW q \in 1..l, NEW p \in 1..q, rpo[p] \in Range(succ[rpo[q]])
       PROVE  Leads(rpo[p], rpo[q])
  <2> DEFINE r == (l - q) + 1
             s == (l - p) + 1
  <2>1. r \in 1..l /\ s \in 1..l /\ r <= s /\ p \in 1..l
    BY <1>1
  <2>2. rpo[q] = postorder[r] /\ rpo[p] = postorder[s]
    BY <2>1, <1>4
  <2>3. (\E h \in 1..(r - 1) : postorder[h] = postorder[s]) \/ Leads(rpo[p], rpo[q])
    <3> HIDE DEF r, s
    <3> QED  BY <2>1, <2>2, <1>12 DEF Search, Retreats
  <2>4. ASSUME NEW h \in 1..(r - 1) PROVE postorder[h] # postorder[s]
    <3>1. h \in 1..l /\ h # s
      BY <2>1, <1>1
    <3> HIDE DEF r, s
    <3> QED  BY <3>1, <2>1 DEF Search, Finished
  <2> QED  BY <2>3, <2>4
<1> QED  BY <1>2, <1>3, <1>4, <1>6, <1>7, <1>8, <1>9, <1>10, <1>11, <1>12, <1>1 DEF Orderly

-----------------------------------------------------------------------------
(* LiveIn, the |Block|-th step of an iteration, is its least fixed point.  *)

\* The blocks at whose start the value is live if S are the ones at whose
\* start it is live after them.
FlowsIn(S) ==
  {b \in Block :
     \/ UsedFrom(b, 1)
     \/ /\ ClearFrom(b, 1)
        /\ b \in phiFrom \/ Range(succ[b]) \cap S # {}}

LiveRec(F) == F = [n \in 0..Cardinality(Block) |->
                     IF n = 0 THEN {} ELSE FlowsIn(F[n - 1])]

Steps(F) ==
  /\ \A n \in 0..Cardinality(Block) : F[n] \in SUBSET Block
  /\ F[0] = {}
  /\ \A n \in 1..Cardinality(Block) : F[n] = FlowsIn(F[n - 1])
  /\ LiveIn = F[Cardinality(Block)]

LEMMA BlockCount ==
  Cardinality(Block) \in Nat /\ IsFiniteSet(Block)
BY BlockAssumption, FS_CardinalityType

LEMMA FlowsInGrows ==
  ASSUME NEW S, NEW T, S \subseteq T
  PROVE  FlowsIn(S) \subseteq FlowsIn(T) /\ FlowsIn(S) \subseteq Block
BY DEF FlowsIn

LEMMA LiveInSteps == \E F : Steps(F)
<1> DEFINE K == Cardinality(Block)
           V == SUBSET Block
           base == {}
           step == [p \in (1..K) \X V |-> FlowsIn(p[2])]
<1>1. K \in Nat
  BY BlockCount
<1>2. \A S : FlowsIn(S) \in V
  BY DEF FlowsIn
<1>3. step \in [(1..K) \X V -> V] /\ base \in V
  BY <1>2
<1>4. PICK F : Follows(F, K, V, base, step)
  <2> HIDE DEF V, step, base, K
  <2> QED  BY <1>1, <1>3, Recursion
<1>5. /\ F \in [0..K -> V] /\ F[0] = base
      /\ \A i \in 1..K : F[i] = step[<<i, F[i - 1]>>]
  BY <1>4 DEF Follows
<1>6. LiveRec(F)
  <2>1. F = [n \in 0..K |-> F[n]]
    BY <1>5
  <2>2. ASSUME NEW n \in 1..K
        PROVE  F[n] = FlowsIn(F[n - 1])
    <3>1. n - 1 \in 0..K
      BY <1>1
    <3>2. F[n - 1] \in V
      BY <1>5, <3>1
    <3>3. F[n] = step[<<n, F[n - 1]>>]
      BY <1>5
    <3> QED  BY <3>2, <3>3
  <2> HIDE DEF V, step, K
  <2>3. \A n \in 0..K : n = 0 \/ n \in 1..K
    BY <1>1
  <2> QED  BY <1>5, <2>1, <2>2, <2>3, <1>1 DEF LiveRec, K
<1>7. LiveIn = (CHOOSE G : LiveRec(G))[K]
  BY DEF LiveIn, LiveRec, FlowsIn
<1> HIDE DEF V, step, base, K
<1>8. PICK G : LiveRec(G) /\ LiveIn = G[K]
  BY <1>6, <1>7
<1>9. \A n \in 0..K : G[n] = IF n = 0 THEN {} ELSE FlowsIn(G[n - 1])
  BY <1>8 DEF LiveRec, K
<1>10. /\ 0 \in 0..K
       /\ \A n \in 0..K : n = 0 \/ n \in 1..K
       /\ \A n \in 1..K : n \in 0..K /\ n # 0
  BY <1>1
<1>11. \A n \in 0..K : G[n] \in SUBSET Block
  BY <1>2, <1>9, <1>10 DEF V
<1>12. G[0] = {} /\ \A n \in 1..K : G[n] = FlowsIn(G[n - 1])
  BY <1>9, <1>10
<1> QED  BY <1>8, <1>11, <1>12 DEF Steps, K

LEMMA LiveInFixed ==
  LiveIn \subseteq Block /\ FlowsIn(LiveIn) \subseteq LiveIn
<1> DEFINE K == Cardinality(Block)
<1>1. K \in Nat /\ IsFiniteSet(Block)
  BY BlockCount
<1>2. PICK F : Steps(F)
  BY LiveInSteps
<1>3. /\ \A n \in 0..K : F[n] \in SUBSET Block
      /\ F[0] = {} /\ \A n \in 1..K : F[n] = FlowsIn(F[n - 1])
      /\ LiveIn = F[K]
  BY <1>2 DEF Steps
<1> HIDE DEF K
<1> DEFINE Mono == {n \in Nat : n + 1 <= K => F[n] \subseteq F[n + 1]}
<1>4. ASSUME NEW n \in Nat, n + 1 <= K
      PROVE  /\ n \in 0..K /\ n + 1 \in 1..K /\ n + 1 \in 0..K
             /\ F[n + 1] = FlowsIn(F[n])
  <2>1. n \in 0..K /\ n + 1 \in 1..K /\ n + 1 \in 0..K /\ (n + 1) - 1 = n
    BY <1>1, <1>4
  <2> QED  BY <2>1, <1>3
<1>5. \A n \in Nat : n \in Mono
  <2>1. 0 \in Mono
    BY <1>3
  <2>2. ASSUME NEW n \in Nat, n \in Mono PROVE n + 1 \in Mono
    <3> SUFFICES ASSUME (n + 1) + 1 <= K PROVE F[n + 1] \subseteq F[(n + 1) + 1]
      OBVIOUS
    <3>1. n + 1 \in Nat /\ n + 1 <= K
      BY <1>1
    <3>2. F[n] \subseteq F[n + 1]
      BY <2>2, <3>1
    <3>3. F[n + 1] = FlowsIn(F[n]) /\ F[(n + 1) + 1] = FlowsIn(F[n + 1])
      BY <1>4, <3>1
    <3> QED  BY <3>2, <3>3, FlowsInGrows
  <2> HIDE DEF Mono
  <2> QED  BY <2>1, <2>2, SetInduction
<1> DEFINE Large ==
      {n \in Nat : n <= K =>
         FlowsIn(F[n]) \subseteq F[n] \/ Cardinality(F[n]) >= n}
<1>6. \A n \in Nat : n \in Large
  <2>1. 0 \in Large
    BY <1>3, FS_EmptySet
  <2>2. ASSUME NEW n \in Nat, n \in Large PROVE n + 1 \in Large
    <3> SUFFICES ASSUME n + 1 <= K
        PROVE  \/ FlowsIn(F[n + 1]) \subseteq F[n + 1]
               \/ Cardinality(F[n + 1]) >= n + 1
      OBVIOUS
    <3>1. /\ n <= K /\ n \in 0..K /\ n + 1 \in 0..K
          /\ F[n + 1] = FlowsIn(F[n]) /\ F[n] \subseteq F[n + 1]
      BY <1>1, <1>4, <1>5
    <3>2. CASE FlowsIn(F[n]) \subseteq F[n]
      <4>1. F[n + 1] = F[n]
        BY <3>1, <3>2
      <4> QED  BY <4>1, <3>2
    <3>3. CASE Cardinality(F[n]) >= n /\ F[n] # F[n + 1]
      <4>1. F[n] \in SUBSET Block /\ F[n + 1] \in SUBSET Block
        BY <3>1, <1>3
      <4>2. IsFiniteSet(F[n]) /\ IsFiniteSet(F[n + 1])
        BY <4>1, <1>1, FS_Subset
      <4>3. Cardinality(F[n]) \in Nat /\ Cardinality(F[n + 1]) \in Nat
        BY <4>2, FS_CardinalityType
      <4>4. /\ Cardinality(F[n]) <= Cardinality(F[n + 1])
            /\ Cardinality(F[n + 1]) # Cardinality(F[n])
        BY <4>2, <3>1, <3>3, FS_Subset
      <4> QED  BY <4>3, <4>4, <3>3
    <3>4. CASE F[n] = F[n + 1]
      BY <3>4, <3>1
    <3> QED  BY <3>2, <3>3, <3>4, <3>1, <2>2
  <2> HIDE DEF Large
  <2> QED  BY <2>1, <2>2, SetInduction
<1>7. K \in 0..K /\ K <= K
  BY <1>1
<1>8. CASE FlowsIn(F[K]) \subseteq F[K]
  BY <1>8, <1>3, <1>7
<1>9. CASE Cardinality(F[K]) >= K
  <2>1. F[K] \in SUBSET Block
    BY <1>3, <1>7
  <2>2. Cardinality(F[K]) <= K /\ (K = Cardinality(F[K]) => Block = F[K])
    BY <2>1, <1>1, FS_Subset DEF K
  <2>3. Cardinality(F[K]) \in Nat
    BY <2>1, <1>1, FS_Subset, FS_CardinalityType
  <2>4. F[K] = Block
    BY <2>2, <2>3, <1>1, <1>9
  <2> QED  BY <2>4, <1>3, FlowsInGrows
<1> QED  BY <1>6, <1>7, <1>8, <1>9, <1>1

\* P is kept by the flow: blocks of P make the blocks before them P.
Absorbs(P) == \A S \in SUBSET Block : S \subseteq P /\ S \subseteq LiveIn => FlowsIn(S) \subseteq P

LEMMA LiveInLeast ==
  ASSUME NEW P, Absorbs(P)
  PROVE  LiveIn \subseteq P
<1> DEFINE K == Cardinality(Block)
<1>1. K \in Nat
  BY BlockCount
<1>2. PICK F : Steps(F)
  BY LiveInSteps
<1>3. /\ \A n \in 0..K : F[n] \in SUBSET Block
      /\ F[0] = {} /\ \A n \in 1..K : F[n] = FlowsIn(F[n - 1])
      /\ LiveIn = F[K]
  BY <1>2 DEF Steps
<1> HIDE DEF K
<1> DEFINE Good == {n \in Nat : n <= K => F[n] \subseteq P /\ F[n] \subseteq LiveIn}
<1>4. 0 \in Good
  BY <1>3
<1>5. ASSUME NEW n \in Nat, n \in Good PROVE n + 1 \in Good
  <2> SUFFICES ASSUME n + 1 <= K
      PROVE  F[n + 1] \subseteq P /\ F[n + 1] \subseteq LiveIn
    OBVIOUS
  <2>1. n \in 0..K /\ n <= K /\ n + 1 \in 1..K /\ (n + 1) - 1 = n
    BY <1>1
  <2>2. F[n + 1] = FlowsIn(F[n]) /\ F[n] \in SUBSET Block
    BY <2>1, <1>3
  <2>3. F[n] \subseteq P /\ F[n] \subseteq LiveIn
    BY <2>1, <1>5
  <2>4. FlowsIn(F[n]) \subseteq FlowsIn(LiveIn)
    BY <2>3, FlowsInGrows
  <2> QED  BY <2>2, <2>3, <2>4, LiveInFixed DEF Absorbs
<1> HIDE DEF Good
<1>6. K \in Good
  BY <1>1, <1>4, <1>5, SetInduction
<1> QED  BY <1>1, <1>3, <1>6 DEF Good

-----------------------------------------------------------------------------
(* The linear order of the instructions.                                   *)

Coded ==
  pc \notin {"dfs", "code"} =>
    code \in Codes /\ phiFrom \subseteq Block /\ Strict

\* The first k blocks are placed one after the other, from index 1.
Placed(first, k) ==
  /\ first \in [Block -> Nat]
  /\ \A p \in 1..k : first[rpo[p]] >= 1
  /\ \A p, q \in 1..k : p < q => first[rpo[p]] + Len(code[rpo[p]]) <= first[rpo[q]]

Numbered ==
  /\ at \in Nat
  /\ blockStart \in [Block -> Nat]
  /\ pc \in {"dfs", "code", "scan", "phi"} => at = 1
  /\ pc = "linear" => at \in 1..Len(rpo) /\ Placed(blockStart, at - 1)
  /\ pc \in {"scan", "phi", "loops", "done"} => Placed(blockStart, Len(rpo))
  /\ pc = "loops" => at \in 1..Len(rpo)
  /\ pc = "done" => at = Len(rpo) + 1

LEMMA CodeLists ==
  ASSUME code \in Codes
  PROVE  \A b \in Block : Len(code[b]) \in Nat /\ Len(code[b]) >= 1
<1>1. \A b \in Block : code[b] \in Seq({"def", "use", "phi", "nop"}) \ {<<>>}
  BY CodesAssumption
<1> QED  BY <1>1

(* The next block is placed after all the ones before it.                  *)
LEMMA PlaceNext ==
  ASSUME Orderly, code \in Codes, at \in 1..Len(rpo), Placed(blockStart, at - 1)
  PROVE  Placed([blockStart EXCEPT ![rpo[at]] = NextIndex], at)
<1> DEFINE next == [blockStart EXCEPT ![rpo[at]] = NextIndex]
<1>1. /\ at \in Nat /\ at >= 1 /\ Len(rpo) \in Nat /\ at <= Len(rpo)
      /\ \A p \in 1..Len(rpo) : rpo[p] \in Block
      /\ \A p, q \in 1..Len(rpo) : rpo[p] = rpo[q] => p = q
  BY DEF Orderly
<1>2. /\ \A p \in 1..at : p \in 1..Len(rpo) /\ (p \in 1..(at - 1) \/ p = at)
      /\ \A p \in 1..(at - 1) : p \in 1..Len(rpo) /\ p # at /\ p < at
      /\ at \in 1..Len(rpo)
  BY <1>1
<1>3. /\ blockStart \in [Block -> Nat]
      /\ \A p \in 1..(at - 1) : blockStart[rpo[p]] >= 1
      /\ \A p, q \in 1..(at - 1) :
           p < q => blockStart[rpo[p]] + Len(code[rpo[p]]) <= blockStart[rpo[q]]
  BY DEF Placed
<1>4. \A p \in 1..Len(rpo) : /\ Len(code[rpo[p]]) \in Nat /\ Len(code[rpo[p]]) >= 1
                             /\ blockStart[rpo[p]] \in Nat
  BY <1>1, <1>3, CodeLists
<1>5. /\ NextIndex \in Nat /\ NextIndex >= 1
      /\ \A p \in 1..(at - 1) : blockStart[rpo[p]] + Len(code[rpo[p]]) <= NextIndex
  <2>1. CASE at = 1
    BY <2>1 DEF NextIndex, FirstIndex
  <2>2. CASE at # 1
    <3>1. at - 1 \in 1..(at - 1) /\ at - 1 \in Nat
      BY <2>2, <1>1
    <3> DEFINE r == rpo[at - 1]
    <3>2. NextIndex = (blockStart[r] + Len(code[r]) - 1) + 1
      BY <2>2 DEF NextIndex, BlockLast
    <3>3. blockStart[r] \in Nat /\ Len(code[r]) \in Nat /\ Len(code[r]) >= 1
      BY <3>1, <1>2, <1>4
    <3> HIDE DEF r
    <3>4. NextIndex = blockStart[r] + Len(code[r]) /\ NextIndex \in Nat /\ NextIndex >= 1
      BY <3>2, <3>3
    <3>5. ASSUME NEW p \in 1..(at - 1)
          PROVE  blockStart[rpo[p]] + Len(code[rpo[p]]) <= NextIndex
      <4>1. CASE p = at - 1
        BY <4>1, <3>3, <3>4 DEF r
      <4>2. CASE p < at - 1
        <5>1. blockStart[rpo[p]] + Len(code[rpo[p]]) <= blockStart[r]
          BY <4>2, <3>1, <1>3 DEF r
        <5>2. blockStart[rpo[p]] \in Nat /\ Len(code[rpo[p]]) \in Nat
          BY <1>2, <1>4
        <5> QED  BY <5>1, <5>2, <3>3, <3>4, SMTT(30)
      <4>3. p = at - 1 \/ p < at - 1
        BY <1>1
      <4> QED  BY <4>1, <4>2, <4>3
    <3> QED  BY <3>4, <3>5
  <2> QED  BY <2>1, <2>2
<1>6. /\ next \in [Block -> Nat] /\ next[rpo[at]] = NextIndex
      /\ \A p \in 1..(at - 1) : next[rpo[p]] = blockStart[rpo[p]]
  BY <1>1, <1>2, <1>3, <1>5
<1> HIDE DEF next
<1>7. \A p \in 1..at : next[rpo[p]] >= 1
  BY <1>2, <1>3, <1>5, <1>6
<1>8. ASSUME NEW p \in 1..at, NEW q \in 1..at, p < q
      PROVE  next[rpo[p]] + Len(code[rpo[p]]) <= next[rpo[q]]
  <2>1. p \in 1..(at - 1)
    BY <1>1, <1>8
  <2>2. CASE q = at
    BY <2>1, <2>2, <1>5, <1>6
  <2>3. CASE q \in 1..(at - 1)
    BY <2>1, <2>3, <1>8, <1>3, <1>6
  <2> QED  BY <2>2, <2>3, <1>2
<1> QED  BY <1>6, <1>7, <1>8 DEF Placed, next

(* What the numbering says of blocks and instructions.                     *)
LEMMA Numbers ==
  ASSUME Orderly, code \in Codes, Placed(blockStart, Len(rpo))
  PROVE  /\ \A b \in Range(rpo) :
              /\ b \in Block
              /\ blockStart[b] \in Nat /\ blockStart[b] >= 1
              /\ BlockLast(b) \in Nat /\ blockStart[b] <= BlockLast(b)
              /\ Len(code[b]) \in Nat /\ Len(code[b]) >= 1
              /\ BlockLast(b) = blockStart[b] + Len(code[b]) - 1
              /\ BlockLast(b) <= BlockLast(rpo[Len(rpo)])
         /\ \A p, q \in 1..Len(rpo) : p < q => BlockLast(rpo[p]) < blockStart[rpo[q]]
         /\ BlockLast(rpo[Len(rpo)]) \in Nat
<1>1. /\ Len(rpo) \in Nat /\ Len(rpo) >= 1
      /\ \A p \in 1..Len(rpo) : rpo[p] \in Block
      /\ \A x : x \in Range(rpo) <=> \E p \in 1..Len(rpo) : rpo[p] = x
  BY DEF Orderly
<1>2. /\ blockStart \in [Block -> Nat]
      /\ \A p \in 1..Len(rpo) : blockStart[rpo[p]] >= 1
      /\ \A p, q \in 1..Len(rpo) :
           p < q => blockStart[rpo[p]] + Len(code[rpo[p]]) <= blockStart[rpo[q]]
  BY DEF Placed
<1>3. \A b \in Block : /\ Len(code[b]) \in Nat /\ Len(code[b]) >= 1
                       /\ blockStart[b] \in Nat
                       /\ BlockLast(b) = blockStart[b] + Len(code[b]) - 1
  BY <1>2, CodeLists DEF BlockLast
<1>4. \A b \in Block : BlockLast(b) \in Nat /\ blockStart[b] <= BlockLast(b)
  BY <1>3
<1>5. ASSUME NEW p \in 1..Len(rpo), NEW q \in 1..Len(rpo), p < q
      PROVE  BlockLast(rpo[p]) < blockStart[rpo[q]]
  <2>1. rpo[p] \in Block /\ rpo[q] \in Block
    BY <1>1
  <2>2. blockStart[rpo[p]] + Len(code[rpo[p]]) <= blockStart[rpo[q]]
    BY <1>5, <1>2
  <2> QED  BY <2>1, <2>2, <1>3, SMTT(30)
<1>6. Len(rpo) \in 1..Len(rpo)
  BY <1>1
<1>7. ASSUME NEW p \in 1..Len(rpo)
      PROVE  BlockLast(rpo[p]) <= BlockLast(rpo[Len(rpo)])
  <2>1. p = Len(rpo) \/ p < Len(rpo)
    BY <1>1
  <2>2. rpo[p] \in Block /\ rpo[Len(rpo)] \in Block
    BY <1>1, <1>6
  <2>3. p < Len(rpo) => BlockLast(rpo[p]) < blockStart[rpo[Len(rpo)]]
    BY <1>5, <1>6
  <2>4. /\ BlockLast(rpo[p]) \in Nat /\ blockStart[rpo[Len(rpo)]] \in Nat
        /\ BlockLast(rpo[Len(rpo)]) \in Nat
        /\ blockStart[rpo[Len(rpo)]] <= BlockLast(rpo[Len(rpo)])
    BY <2>2, <1>3, <1>4
  <2>5. CASE p = Len(rpo)
    BY <2>5, <2>4
  <2>6. CASE p < Len(rpo)
    BY <2>6, <2>3, <2>4
  <2> QED  BY <2>1, <2>5, <2>6
<1>8. \A b \in Range(rpo) : b \in Block /\ BlockLast(b) <= BlockLast(rpo[Len(rpo)])
  BY <1>1, <1>7
<1>9. \A b \in Range(rpo) : blockStart[b] >= 1
  BY <1>1, <1>2
<1> QED  BY <1>1, <1>3, <1>4, <1>5, <1>6, <1>8, <1>9

LEMMA Indices ==
  ASSUME Orderly, code \in Codes, Placed(blockStart, Len(rpo))
  PROVE  /\ \A t : t \in Sites <=>
              \E b \in Range(rpo) : \E i \in 1..Len(code[b]) : t = <<b, i>>
         /\ \A t \in Sites :
              /\ t[1] \in Range(rpo) /\ t[2] \in 1..Len(code[t[1]])
              /\ t = <<t[1], t[2]>>
              /\ Index(t) \in Nat
              /\ Index(t) = blockStart[t[1]] + t[2] - 1
              /\ blockStart[t[1]] <= Index(t) /\ Index(t) <= BlockLast(t[1])
              /\ Index(t) <= BlockLast(rpo[Len(rpo)])
         /\ \A s, t \in Sites : Index(s) = Index(t) => s = t
<1>1. \A t : t \in Sites <=>
         \E b \in Range(rpo) : \E i \in 1..Len(code[b]) : t = <<b, i>>
  BY DEF Sites
<1>2. ASSUME NEW t \in Sites
      PROVE  /\ t[1] \in Range(rpo) /\ t[2] \in 1..Len(code[t[1]])
             /\ t = <<t[1], t[2]>>
             /\ Index(t) \in Nat
             /\ Index(t) = blockStart[t[1]] + t[2] - 1
             /\ blockStart[t[1]] <= Index(t) /\ Index(t) <= BlockLast(t[1])
             /\ Index(t) <= BlockLast(rpo[Len(rpo)])
  <2>1. t[1] \in Range(rpo) /\ t[2] \in 1..Len(code[t[1]]) /\ t = <<t[1], t[2]>>
    BY <1>1, <1>2
  <2>2. Index(t) = blockStart[t[1]] + t[2] - 1
    BY DEF Index
  <2>3. /\ blockStart[t[1]] \in Nat /\ blockStart[t[1]] >= 1 /\ BlockLast(t[1]) \in Nat
        /\ Len(code[t[1]]) \in Nat
        /\ BlockLast(t[1]) = blockStart[t[1]] + Len(code[t[1]]) - 1
        /\ BlockLast(t[1]) <= BlockLast(rpo[Len(rpo)])
        /\ BlockLast(rpo[Len(rpo)]) \in Nat
    BY <2>1, Numbers
  <2> QED  BY <2>1, <2>2, <2>3, SMTT(30)
<1>3. ASSUME NEW s \in Sites, NEW t \in Sites, Index(s) = Index(t)
      PROVE  s = t
  <2>1. PICK p \in 1..Len(rpo) : rpo[p] = s[1]
    BY <1>2 DEF Orderly
  <2>2. PICK q \in 1..Len(rpo) : rpo[q] = t[1]
    BY <1>2 DEF Orderly
  <2>3. \A x, y \in 1..Len(rpo) : x < y => BlockLast(rpo[x]) < blockStart[rpo[y]]
    BY Numbers
  <2>4. /\ blockStart[s[1]] <= Index(s) /\ Index(s) <= BlockLast(s[1])
        /\ blockStart[t[1]] <= Index(t) /\ Index(t) <= BlockLast(t[1])
    BY <1>2
  <2>5. /\ blockStart[s[1]] \in Nat /\ BlockLast(s[1]) \in Nat
        /\ blockStart[t[1]] \in Nat /\ BlockLast(t[1]) \in Nat
        /\ Index(s) \in Nat /\ Index(t) \in Nat
    BY <1>2, Numbers
  <2>6. ~(p < q) /\ ~(q < p)
    BY <2>1, <2>2, <2>3, <2>4, <2>5, <1>3
  <2>7. p = q
    BY <2>6
  <2>8. s[1] = t[1]
    BY <2>1, <2>2, <2>7
  <2>9. blockStart[s[1]] + s[2] - 1 = blockStart[s[1]] + t[2] - 1
    BY <1>2, <1>3, <2>8
  <2>10. s[2] \in Int /\ t[2] \in Int
    BY <1>2
  <2>11. s[2] = t[2]
    <3> DEFINE x == blockStart[s[1]]
               i == s[2]
               j == t[2]
    <3>1. x \in Nat /\ i \in Int /\ j \in Int /\ x + i - 1 = x + j - 1
      BY <2>5, <2>9, <2>10
    <3> HIDE DEF x, i, j
    <3>2. i = j
      BY <3>1
    <3> QED  BY <3>2 DEF i, j
  <2> QED  BY <1>2, <2>8, <2>11
<1> QED  BY <1>1, <1>2, <1>3

LEMMA Position ==
  ASSUME Orderly, NEW p \in 1..Len(rpo)
  PROVE  RpoPos(rpo[p]) = p
<1>1. \A x, y \in 1..Len(rpo) : rpo[x] = rpo[y] => x = y
  BY DEF Orderly
<1>2. /\ (CHOOSE x \in 1..Len(rpo) : rpo[x] = rpo[p]) \in 1..Len(rpo)
      /\ rpo[CHOOSE x \in 1..Len(rpo) : rpo[x] = rpo[p]] = rpo[p]
  OBVIOUS
<1> QED  BY <1>1, <1>2 DEF RpoPos

-----------------------------------------------------------------------------
(* The interval: what each pass over it adds.                              *)

\* A nonempty set of integers from -1 to n has a maximum.
LEMMA MaxOf ==
  ASSUME NEW n \in Nat, NEW S, S # {}, \A x \in S : x \in Int /\ -1 <= x /\ x <= n
  PROVE  /\ Max(S) \in S /\ Max(S) \in Int
         /\ \A x \in S : x <= Max(S)
<1> DEFINE T == {x + 1 : x \in S}
<1>1. T \in SUBSET (0..(n + 1)) /\ T # {} /\ n + 1 \in Nat
  OBVIOUS
<1> HIDE DEF T
<1>2. PICK y \in T : \A z \in T : z <= y
  BY <1>1, Greatest
<1>3. PICK x \in S : y = x + 1
  BY <1>2 DEF T
<1>4. \A z \in S : z + 1 <= x + 1
  BY <1>2, <1>3 DEF T
<1>5. \A z \in S : x >= z
  BY <1>4
<1>6. Max(S) = CHOOSE m \in S : \A z \in S : m >= z
  BY DEF Max
<1>7. Max(S) \in S /\ \A z \in S : Max(S) >= z
  BY <1>5, <1>6
<1>8. \A z \in S : z \in Int
  OBVIOUS
<1>9. \A z \in S : z <= Max(S)
  BY <1>7, <1>8
<1> QED  BY <1>7, <1>8, <1>9

\* After Scan: the interval <<s, e>> has every instruction that mentions the
\* value, and starts at one only if that is a definition.
Scanned(s, e) ==
  /\ s \in Int /\ -1 <= s /\ e \in Int /\ -1 <= e
  /\ e <= BlockLast(rpo[Len(rpo)])
  /\ \A t \in Touching : s <= Index(t) /\ Index(t) <= e
  /\ s > 0 => \E t \in Touching : Kind(t) = "def" /\ Index(t) = s
  /\ Touching # {} => s # Absent

\* After ExtendPhi: and the end of every predecessor a phi takes it from.
PhiCovered(s, e) ==
  /\ phiFrom # {} => s # Absent
  /\ \A b \in phiFrom : b \in Range(rpo) => BlockLast(b) <= e

\* After ExtendLoops has passed k blocks: and every loop, from its header to
\* the block that goes back, that it reaches.
Closed(s, e, k) ==
  s # Absent =>
    \A p \in 1..k : \A h \in Headers(p) :
      s < blockStart[h] /\ blockStart[h] <= e => BlockLast(rpo[p]) <= e

Spanned ==
  /\ pc \in {"phi", "loops", "done"} => Scanned(start, end)
  /\ pc \in {"loops", "done"} =>
       PhiCovered(start, end) /\ Closed(start, end, at - 1)

LEMMA ScanSpans ==
  ASSUME Orderly, code \in Codes, Placed(blockStart, Len(rpo)), Scan
  PROVE  Scanned(start', end')
<1> DEFINE last == BlockLast(rpo[Len(rpo)])
           I == {Index(t) : t \in Touching}
<1>1. \A t \in Touching : t \in Sites /\ Index(t) \in Nat /\ Index(t) <= last
  BY Indices DEF Touching
<1>2. last \in Nat
  BY Numbers
<1> HIDE DEF last
<1>3. /\ start' = IF param THEN 0
                  ELSE IF Touching = {} THEN Absent
                  ELSE IF Kind(FirstSeen) = "def" THEN Index(FirstSeen) ELSE 0
      /\ end' = IF Touching # {} THEN Max(I)
                ELSE IF param THEN 0 ELSE Absent
  BY DEF Scan
<1>4. CASE Touching = {}
  BY <1>2, <1>3, <1>4 DEF Scanned, Absent, last
<1>5. CASE Touching # {}
  <2>1. I \in SUBSET Nat /\ I # {} /\ \A x \in I : x \in Int /\ -1 <= x /\ x <= last
    BY <1>1, <1>5
  <2>2. PICK x \in I : \A y \in I : x <= y
    BY <2>1, Least
  <2>3. \E s \in Touching : \A t \in Touching : Index(s) <= Index(t)
    BY <2>2
  <2>4. FirstSeen \in Touching /\ \A t \in Touching : Index(FirstSeen) <= Index(t)
    BY <2>3 DEF FirstSeen
  <2>5. Max(I) \in I /\ Max(I) \in Int /\ \A y \in I : y <= Max(I)
    <3> HIDE DEF I
    <3> QED  BY <1>2, <2>1, MaxOf
  <2>6. end' \in Nat /\ end' <= last /\ \A t \in Touching : Index(t) <= end'
    BY <1>3, <1>5, <2>1, <2>5
  <2>7. Index(FirstSeen) \in Nat
    BY <1>1, <2>4
  <2>8. CASE ~param /\ Kind(FirstSeen) = "def"
    <3>1. start' = Index(FirstSeen)
      BY <1>3, <1>5, <2>8
    <3> HIDE DEF I
    <3> QED  BY <2>4, <2>6, <2>7, <2>8, <3>1 DEF Scanned, Absent, last
  <2>9. CASE param \/ Kind(FirstSeen) # "def"
    <3>1. start' = 0
      BY <1>3, <1>5, <2>9
    <3> HIDE DEF I
    <3> QED  BY <1>1, <2>6, <3>1 DEF Scanned, Absent, last
  <2> QED  BY <2>8, <2>9
<1> QED  BY <1>4, <1>5

LEMMA PhiSpans ==
  ASSUME Orderly, code \in Codes, phiFrom \subseteq Block,
         Placed(blockStart, Len(rpo)), Scanned(start, end), ExtendPhi
  PROVE  Scanned(start', end') /\ PhiCovered(start', end')
<1> DEFINE last == BlockLast(rpo[Len(rpo)])
           S == PhiReach \cup {end}
<1>1. /\ start \in Int /\ -1 <= start /\ end \in Int /\ -1 <= end /\ end <= last
      /\ \A t \in Touching : start <= Index(t) /\ Index(t) <= end
      /\ start > 0 => \E t \in Touching : Kind(t) = "def" /\ Index(t) = start
      /\ Touching # {} => start # Absent
  BY DEF Scanned
<1>2. last \in Nat /\ \A b \in Range(rpo) : BlockLast(b) \in Nat /\ BlockLast(b) <= last
  BY Numbers
<1> HIDE DEF last
<1>3. \A x \in S : x \in Int /\ -1 <= x /\ x <= last
  BY <1>1, <1>2 DEF PhiReach
<1>4. end' = Max(S) /\ start' = IF PhiReach # {} /\ start = Absent THEN 0 ELSE start
  BY DEF ExtendPhi
<1>5. end' \in Int /\ end' \in S /\ \A x \in S : x <= end'
  <2> HIDE DEF S
  <2>1. S # {}
    BY DEF S
  <2> QED  BY <1>2, <1>3, <1>4, <2>1, MaxOf
<1>6. \A b \in phiFrom : b \in Range(rpo) => BlockLast(b) <= end'
  BY <1>5 DEF PhiReach
<1>7. phiFrom # {} => start' # Absent
  BY <1>4 DEF PhiReach, Absent
<1>8. end <= end' /\ -1 <= end' /\ end' <= last
  BY <1>3, <1>5
<1>9. \A t \in Touching : Index(t) \in Nat
  BY Indices DEF Touching
<1> HIDE DEF S
<1>10. \A t \in Touching : Index(t) <= end'
  BY <1>1, <1>5, <1>8, <1>9
<1>11. CASE start' = start
  BY <1>1, <1>5, <1>6, <1>7, <1>8, <1>10, <1>11 DEF Scanned, PhiCovered, last
<1>12. CASE start' = 0
  BY <1>5, <1>6, <1>7, <1>8, <1>9, <1>10, <1>12 DEF Scanned, PhiCovered, last, Absent
<1> QED  BY <1>4, <1>11, <1>12

LEMMA LoopsSpan ==
  ASSUME Orderly, code \in Codes, Placed(blockStart, Len(rpo)), at \in 1..Len(rpo),
         Scanned(start, end), PhiCovered(start, end), Closed(start, end, at - 1),
         ExtendLoops
  PROVE  /\ start' = start
         /\ Scanned(start, end') /\ PhiCovered(start, end') /\ Closed(start, end', at)
<1> DEFINE last == BlockLast(rpo[Len(rpo)])
           here == BlockLast(rpo[at])
<1>1. /\ end \in Int /\ -1 <= end /\ end <= last
      /\ start \in Int
      /\ \A t \in Touching : start <= Index(t) /\ Index(t) <= end
  BY DEF Scanned
<1>2. /\ at \in Nat /\ Len(rpo) \in Nat
      /\ \A p \in 1..at : p \in 1..Len(rpo) /\ (p \in 1..(at - 1) \/ p = at)
      /\ \A p \in 1..(at - 1) : p < at
      /\ \A p \in 1..Len(rpo) : rpo[p] \in Range(rpo)
  BY DEF Orderly
<1>3. /\ last \in Nat
      /\ \A b \in Range(rpo) : /\ BlockLast(b) \in Nat /\ BlockLast(b) <= last
                               /\ blockStart[b] \in Nat /\ blockStart[b] <= BlockLast(b)
      /\ \A p, q \in 1..Len(rpo) : p < q => BlockLast(rpo[p]) < blockStart[rpo[q]]
  BY Numbers
<1>4. \A p \in 1..at : BlockLast(rpo[p]) \in Nat /\ BlockLast(rpo[p]) <= here
  <2> TAKE p \in 1..at
  <2>1. /\ BlockLast(rpo[p]) \in Nat /\ here \in Nat
        /\ blockStart[rpo[at]] \in Nat /\ blockStart[rpo[at]] <= here
    BY <1>2, <1>3
  <2>2. p # at => BlockLast(rpo[p]) < blockStart[rpo[at]]
    BY <1>2, <1>3
  <2> HIDE DEF here
  <2>3. CASE p = at
    BY <2>1, <2>3 DEF here
  <2>4. CASE p # at
    BY <2>1, <2>2, <2>4
  <2> QED  BY <2>3, <2>4
<1>5. here \in Nat /\ here <= last
  BY <1>2, <1>3
<1>6. /\ start' = start
      /\ end' = IF start # Absent /\ \E h \in Headers(at) : Reaches(h)
                THEN Max({end, here}) ELSE end
  BY DEF ExtendLoops, LoopEnd
<1> HIDE DEF last, here
<1>7. ASSUME start # Absent, \E h \in Headers(at) : Reaches(h)
      PROVE  /\ end' \in Int /\ end <= end' /\ here <= end' /\ end' <= last
  <2>1. \A x \in {end, here} : x \in Int /\ -1 <= x /\ x <= last
    BY <1>1, <1>5
  <2>2. end' \in {end, here} /\ end <= end' /\ here <= end'
    BY <1>3, <1>6, <1>7, <2>1, MaxOf
  <2> QED  BY <2>1, <2>2
<1>8. end' \in Int /\ end <= end' /\ end' <= last /\ -1 <= end'
  <2>1. CASE start # Absent /\ \E h \in Headers(at) : Reaches(h)
    BY <2>1, <1>1, <1>7
  <2>2. CASE ~(start # Absent /\ \E h \in Headers(at) : Reaches(h))
    BY <2>2, <1>1, <1>6
  <2> QED  BY <2>1, <2>2
<1>9. \A t \in Touching : Index(t) \in Nat
  BY Indices DEF Touching
<1>10. \A t \in Touching : Index(t) <= end'
  BY <1>1, <1>8, <1>9
<1>11. Scanned(start, end')
  BY <1>8, <1>10 DEF Scanned, last
<1>12. PhiCovered(start, end')
  <2>1. \A b \in phiFrom : b \in Range(rpo) => BlockLast(b) \in Nat /\ BlockLast(b) <= end
    BY <1>3 DEF PhiCovered
  <2> QED  BY <2>1, <1>1, <1>8 DEF PhiCovered
<1>13. ASSUME start # Absent, NEW p \in 1..at, NEW h \in Headers(p),
              start < blockStart[h], blockStart[h] <= end'
       PROVE  BlockLast(rpo[p]) <= end'
  <2>1. CASE \E g \in Headers(at) : Reaches(g)
    BY <2>1, <1>13, <1>7, <1>4, <1>5
  <2>2. CASE ~\E g \in Headers(at) : Reaches(g)
    <3>1. end' = end
      BY <2>2, <1>6
    <3>2. p # at
      BY <2>2, <3>1, <1>13 DEF Reaches
    <3> QED  BY <3>1, <3>2, <1>2, <1>13 DEF Closed
  <2> QED  BY <2>1, <2>2
<1> QED  BY <1>6, <1>11, <1>12, <1>13 DEF Closed

-----------------------------------------------------------------------------
(* What the finished interval covers.                                      *)

Computed ==
  /\ Orderly /\ succ \in Cfgs
  /\ code \in Codes /\ phiFrom \subseteq Block /\ Strict
  /\ Placed(blockStart, Len(rpo))
  /\ Scanned(start, end) /\ PhiCovered(start, end) /\ Closed(start, end, Len(rpo))

(* An instruction that mentions the value is one of the sites scanned.     *)
LEMMA Mentions ==
  ASSUME Computed, NEW b \in Range(rpo), NEW i \in 1..Len(code[b]), code[b][i] # "nop"
  PROVE  /\ <<b, i>> \in Touching /\ start # Absent
         /\ Index(<<b, i>>) = blockStart[b] + i - 1
         /\ blockStart[b] <= Index(<<b, i>>) /\ Index(<<b, i>>) <= BlockLast(b)
         /\ start <= Index(<<b, i>>) /\ Index(<<b, i>>) <= end
<1>1. <<b, i>> \in Sites
  BY Indices DEF Computed
<1>2. <<b, i>> \in Touching
  BY <1>1 DEF Touching, Kind
<1>3. /\ Index(<<b, i>>) = blockStart[b] + i - 1
      /\ blockStart[b] <= Index(<<b, i>>) /\ Index(<<b, i>>) <= BlockLast(b)
  BY <1>1, Indices DEF Computed
<1> QED  BY <1>2, <1>3 DEF Computed, Scanned

(* A block at whose start the value is live comes after the start of the   *)
(* interval: a definition is on every path to the block, and one of the    *)
(* paths, along which the search went, is in the linear order.             *)
LEMMA DefinedBefore ==
  ASSUME Computed
  PROVE  \A p \in 1..Len(rpo) : rpo[p] \in LiveIn => start < blockStart[rpo[p]]
<1>1. /\ Len(rpo) \in Nat /\ start \in Int
      /\ \A p \in 1..Len(rpo) : rpo[p] \in Range(rpo)
      /\ \A p \in 1..Len(rpo) : rpo[p] \in Block /\ blockStart[rpo[p]] \in Nat
                               /\ blockStart[rpo[p]] >= 1
                               /\ BlockLast(rpo[p]) \in Nat
                               /\ blockStart[rpo[p]] <= BlockLast(rpo[p])
      /\ \A p, q \in 1..Len(rpo) : p < q => BlockLast(rpo[p]) < blockStart[rpo[q]]
  <2>1. \A p \in 1..Len(rpo) : rpo[p] \in Range(rpo)
    BY DEF Computed, Orderly
  <2> QED  BY <2>1, Numbers DEF Computed, Orderly, Scanned
<1>2. CASE start <= 0
  BY <1>1, <1>2
<1>3. CASE start > 0
  <2>1. Entry \notin LiveIn
    <3>1. PICK t \in Touching : Kind(t) = "def"
      BY <1>3 DEF Computed, Scanned
    <3>2. /\ t[1] \in Range(rpo) /\ t[2] \in 1..Len(code[t[1]]) /\ t = <<t[1], t[2]>>
      BY <3>1, Indices DEF Computed, Touching
    <3>3. t[1] \in Block
      BY <3>2 DEF Computed, Orderly
    <3>4. t \in Defs
      BY <3>1, <3>2, <3>3 DEF Defs, Kind
    <3> QED  BY <3>4 DEF Computed, Strict
  <2> DEFINE T == {p \in 1..Len(rpo) : rpo[p] \in LiveIn /\ ~(start < blockStart[rpo[p]])}
  <2>2. SUFFICES ASSUME T # {} PROVE FALSE
    BY <2>2
  <2>3. T \in SUBSET Nat
    OBVIOUS
  <2>4. PICK p \in T : \A q \in T : p <= q
    <3> HIDE DEF T
    <3> QED  BY <2>2, <2>3, Least
  <2>5. p \in 1..Len(rpo) /\ rpo[p] \in LiveIn /\ ~(start < blockStart[rpo[p]])
    BY <2>4
  <2>6. p \in 2..Len(rpo)
    <3>1. p # 1
      BY <2>1, <2>5 DEF Computed, Orderly
    <3> QED  BY <2>5, <3>1
  <2>7. PICK q \in 1..(p - 1) : rpo[p] \in Range(succ[rpo[q]])
    BY <2>6 DEF Computed, Orderly
  <2>8. q \in 1..Len(rpo) /\ q < p
    BY <2>6, <1>1
  <2>9. BlockLast(rpo[q]) < blockStart[rpo[p]]
    BY <2>5, <2>8, <1>1
  <2>10. CASE ClearFrom(rpo[q], 1)
    <3>1. rpo[q] \in FlowsIn(LiveIn)
      BY <2>5, <2>7, <2>8, <2>10, <1>1 DEF FlowsIn
    <3>2. rpo[q] \in LiveIn
      BY <3>1, LiveInFixed
    <3>3. q \notin T
      <4>1. p \in Nat /\ q \in Nat
        BY <2>5, <2>8
      <4> QED  BY <4>1, <2>4, <2>8
    <3>4. start < blockStart[rpo[q]]
      BY <2>8, <3>2, <3>3
    <3> QED  BY <3>4, <2>5, <2>8, <2>9, <1>1
  <2>11. CASE ~ClearFrom(rpo[q], 1)
    <3>1. PICK i \in 1..Len(code[rpo[q]]) : code[rpo[q]][i] = "def"
      BY <2>11 DEF ClearFrom
    <3> DEFINE x == Index(<<rpo[q], i>>)
    <3>2. start <= x /\ x <= BlockLast(rpo[q]) /\ x = blockStart[rpo[q]] + i - 1
      BY <3>1, <2>8, <1>1, Mentions
    <3>3. x \in Int
      BY <3>2, <2>8, <1>1, SMTT(30)
    <3> HIDE DEF x
    <3> QED  BY <3>2, <3>3, <2>5, <2>8, <2>9, <1>1
  <2> QED  BY <2>10, <2>11
<1> QED  BY <1>2, <1>3, <1>1

(* The value is carried from the end of a block into a successor: if the   *)
(* interval has the start of the successor it has the end of the block.    *)
LEMMA CarriedOver ==
  ASSUME Computed, NEW b \in Range(rpo), NEW s \in Range(succ[b]),
         s \in LiveIn, start # Absent, blockStart[s] <= end
  PROVE  BlockLast(b) <= end
<1>1. PICK p \in 1..Len(rpo) : rpo[p] = b
  BY DEF Computed, Orderly
<1>2. s \in Range(rpo)
  BY <1>1 DEF Computed, Orderly
<1>3. PICK q \in 1..Len(rpo) : rpo[q] = s
  BY <1>2 DEF Computed, Orderly
<1>4. p \in Int /\ q \in Int
  OBVIOUS
<1>5. CASE p < q
  <2>1. BlockLast(b) < blockStart[s]
    BY <1>1, <1>3, <1>5, Numbers DEF Computed
  <2>2. BlockLast(b) \in Nat /\ blockStart[s] \in Nat /\ end \in Int
    BY <1>2, Numbers DEF Computed, Scanned
  <2> QED  BY <2>1, <2>2
<1>6. CASE q <= p
  <2>1. RpoPos(s) = q
    BY <1>3, Position DEF Computed
  <2>2. s \in Headers(p)
    BY <2>1, <1>1, <1>6 DEF Headers
  <2>3. start < blockStart[s]
    BY <1>3, DefinedBefore
  <2> QED  BY <2>2, <2>3, <1>1 DEF Computed, Closed
<1> QED  BY <1>4, <1>5, <1>6

(* A block at whose start the value is live begins within the interval.    *)
LEMMA LiveInReached ==
  ASSUME Computed
  PROVE  \A b \in LiveIn : b \in Range(rpo) => start # Absent /\ blockStart[b] <= end
<1> DEFINE P == {b \in Block : b \in Range(rpo) => start # Absent /\ blockStart[b] <= end}
<1>1. ASSUME NEW S \in SUBSET Block, S \subseteq P, S \subseteq LiveIn
      PROVE  FlowsIn(S) \subseteq P
  <2> SUFFICES ASSUME NEW b \in FlowsIn(S), b \in Range(rpo)
      PROVE  start # Absent /\ blockStart[b] <= end
    BY DEF FlowsIn
  <2>1. /\ blockStart[b] \in Nat /\ BlockLast(b) \in Nat /\ blockStart[b] <= BlockLast(b)
        /\ end \in Int
    BY Numbers DEF Computed, Scanned
  <2>2. CASE UsedFrom(b, 1)
    <3>1. PICK i \in 1..Len(code[b]) : code[b][i] = "use"
      BY <2>2 DEF UsedFrom
    <3> DEFINE x == Index(<<b, i>>)
    <3>2. start # Absent /\ blockStart[b] <= x /\ x <= end /\ x = blockStart[b] + i - 1
      BY <3>1, Mentions
    <3>3. x \in Int
      BY <3>2, <2>1
    <3> HIDE DEF x
    <3> QED  BY <3>2, <3>3, <2>1
  <2>3. CASE b \in phiFrom
    <3>1. start # Absent /\ BlockLast(b) <= end
      BY <2>3 DEF Computed, PhiCovered
    <3> QED  BY <3>1, <2>1
  <2>4. CASE Range(succ[b]) \cap S # {}
    <3>1. PICK s \in Range(succ[b]) : s \in S
      BY <2>4
    <3>2. s \in Range(rpo)
      <4>1. PICK p \in 1..Len(rpo) : rpo[p] = b
        BY DEF Computed, Orderly
      <4> QED  BY <4>1 DEF Computed, Orderly
    <3>3. start # Absent /\ blockStart[s] <= end /\ s \in LiveIn
      BY <3>1, <3>2, <1>1
    <3>4. BlockLast(b) <= end
      BY <3>3, CarriedOver
    <3> QED  BY <3>3, <3>4, <2>1
  <2> QED  BY <2>2, <2>3, <2>4 DEF FlowsIn
<1>2. Absorbs(P)
  <2> HIDE DEF P
  <2> QED  BY <1>1 DEF Absorbs
<1>3. LiveIn \subseteq P
  <2> HIDE DEF P
  <2> QED  BY <1>2, LiveInLeast
<1> QED  BY <1>3

LEMMA LiveOutReached ==
  ASSUME Computed, NEW b \in Range(rpo),
         b \in phiFrom \/ Range(succ[b]) \cap LiveIn # {}
  PROVE  start # Absent /\ BlockLast(b) <= end
<1>1. CASE b \in phiFrom
  BY <1>1 DEF Computed, PhiCovered
<1>2. CASE Range(succ[b]) \cap LiveIn # {}
  <2>1. PICK s \in Range(succ[b]) : s \in LiveIn
    BY <1>2
  <2>2. s \in Range(rpo)
    <3>1. PICK p \in 1..Len(rpo) : rpo[p] = b
      BY DEF Computed, Orderly
    <3> QED  BY <3>1 DEF Computed, Orderly
  <2>3. start # Absent /\ blockStart[s] <= end
    BY <2>1, <2>2, LiveInReached
  <2> QED  BY <2>1, <2>3, CarriedOver
<1> QED  BY <1>1, <1>2

(* The instruction after which the value is live is in the interval, and   *)
(* inside it unless it defines the value or ends its block.                *)
LEMMA LiveSite ==
  ASSUME Computed, NEW b \in Range(rpo), NEW i \in 1..Len(code[b]),
         LiveAfter(b, i, LiveIn)
  PROVE  LET x == Index(<<b, i>>) IN
         /\ start <= x /\ x <= end
         /\ i < Len(code[b]) => x < end
         /\ code[b][i] # "def" => start < x
<1> DEFINE x == Index(<<b, i>>)
           first == blockStart[b]
           len == Len(code[b])
           last == BlockLast(b)
<1>1. /\ first \in Nat /\ first >= 1 /\ len \in Nat /\ last \in Nat
      /\ last = first + len - 1
      /\ start \in Int /\ end \in Int
  BY Numbers DEF Computed, Scanned
<1>2. b \in Block
  BY Numbers DEF Computed
<1>3. \A j \in 1..len : <<b, j>> \in Sites /\ Index(<<b, j>>) = first + j - 1
  BY Indices DEF Computed
<1>4. x = first + i - 1
  BY <1>3
<1> HIDE DEF x, first, len, last
<1>5. i \in Nat /\ 1 <= i /\ i <= len /\ x \in Nat /\ first <= x /\ x <= last /\ x >= 1
      /\ (i < len => x < last)
  <2>1. i \in Nat /\ 1 <= i /\ i <= len
    BY <1>1 DEF len
  <2> QED  BY <2>1, <1>1, <1>4
<1>6. start <= x
  <2>1. CASE \E j \in 1..i : code[b][j] # "nop"
    <3>1. PICK j \in 1..i : code[b][j] # "nop"
      BY <2>1
    <3>2. j \in 1..len /\ j \in Nat /\ j <= i
      BY <1>1, <1>5
    <3>3. start <= Index(<<b, j>>)
      BY <3>1, <3>2, Mentions DEF len
    <3>4. start <= first + j - 1
      BY <3>2, <3>3, <1>3
    <3> QED  BY <3>2, <3>4, <1>1, <1>4, <1>5
  <2>2. CASE \A j \in 1..i : code[b][j] = "nop"
    <3>1. UsedFrom(b, i + 1) => UsedFrom(b, 1)
      <4> SUFFICES ASSUME UsedFrom(b, i + 1) PROVE UsedFrom(b, 1)
        OBVIOUS
      <4>1. PICK j \in (i + 1)..len : code[b][j] = "use"
                                     /\ \A k \in (i + 1)..(j - 1) : code[b][k] # "def"
        BY DEF UsedFrom, len
      <4>2. j \in 1..len
        BY <1>1, <1>5
      <4>3. \A k \in 1..(j - 1) : k \in 1..i \/ k \in (i + 1)..(j - 1)
        BY <1>5, <4>2
      <4>4. \A k \in 1..(j - 1) : code[b][k] # "def"
        BY <4>1, <4>3, <2>2
      <4> QED  BY <4>1, <4>2, <4>4 DEF UsedFrom, len
    <3>2. ClearFrom(b, i + 1) => ClearFrom(b, 1)
      <4>1. \A k \in 1..len : k \in 1..i \/ k \in (i + 1)..len
        BY <1>1, <1>5
      <4> QED  BY <4>1, <2>2 DEF ClearFrom, len
    <3>3. b \in FlowsIn(LiveIn)
      BY <3>1, <3>2, <1>2 DEF LiveAfter, FlowsIn
    <3>4. b \in LiveIn
      BY <3>3, LiveInFixed
    <3>5. PICK p \in 1..Len(rpo) : rpo[p] = b
      BY DEF Computed, Orderly
    <3>6. start < first
      BY <3>4, <3>5, DefinedBefore DEF first
    <3> QED  BY <3>6, <1>1, <1>5
  <2> QED  BY <2>1, <2>2
<1>7. x <= end /\ (i < len => x < end)
  <2>1. CASE UsedFrom(b, i + 1)
    <3>1. PICK j \in (i + 1)..len : code[b][j] = "use"
      BY <2>1 DEF UsedFrom, len
    <3>2. j \in 1..len /\ j \in Nat /\ i + 1 <= j
      BY <1>1, <1>5
    <3>3. Index(<<b, j>>) <= end
      BY <3>1, <3>2, Mentions DEF len
    <3>4. first + j - 1 <= end
      BY <3>2, <3>3, <1>3
    <3> QED  BY <3>2, <3>4, <1>1, <1>4, <1>5
  <2>2. CASE b \in phiFrom \/ Range(succ[b]) \cap LiveIn # {}
    <3>1. last <= end
      BY <2>2, LiveOutReached DEF last
    <3> QED  BY <3>1, <1>1, <1>5
  <2> QED  BY <2>1, <2>2 DEF LiveAfter
<1>8. code[b][i] # "def" => start < x
  <2> SUFFICES ASSUME start = x PROVE code[b][i] = "def"
    BY <1>1, <1>5, <1>6
  <2>1. PICK t \in Touching : Kind(t) = "def" /\ Index(t) = start
    BY <1>1, <1>5 DEF Computed, Scanned
  <2>2. t \in Sites /\ <<b, i>> \in Sites /\ Index(t) = Index(<<b, i>>)
    BY <2>1, Indices DEF Computed, Touching, x
  <2>3. t = <<b, i>>
    BY <2>2, Indices DEF Computed
  <2> QED  BY <2>1, <2>3 DEF Kind
<1> QED  BY <1>6, <1>7, <1>8 DEF x, len

-----------------------------------------------------------------------------
(* The inductive invariant, one step per action.                           *)

IInv == Search /\ Coded /\ Numbered /\ Spanned

LEMMA Starts == Init => IInv
<1> SUFFICES ASSUME Init
    PROVE  IInv
  OBVIOUS
<1>1. Search
  BY SearchStarts
<1>2. Coded /\ Spanned
  BY DEF Init, Coded, Spanned
<1>3. pc = "dfs" /\ at = 1 /\ blockStart = [b \in Block |-> 0]
  BY DEF Init
<1>4. Numbered
  BY <1>3 DEF Numbered
<1> QED  BY <1>1, <1>2, <1>4 DEF IInv

\* Before the instructions are there, only the search has anything to keep.
LEMMA SearchingKeeps ==
  ASSUME IInv, Descend \/ Finish
  PROVE  IInv'
<1>1. Search'
  BY DescendSearch, FinishSearch DEF IInv
<1>2. /\ pc = "dfs" /\ pc' \in {"dfs", "code"}
      /\ at' = at /\ blockStart' = blockStart
  BY DEF Descend, Finish
<1>3. Coded' /\ Spanned'
  BY <1>2 DEF Coded, Spanned
<1>4. at = 1 /\ blockStart \in [Block -> Nat]
  BY <1>2 DEF IInv, Numbered
<1>5. Numbered'
  BY <1>2, <1>4 DEF Numbered
<1> QED  BY <1>1, <1>3, <1>5 DEF IInv

LEMMA PopulateKeeps ==
  ASSUME IInv, Populate
  PROVE  IInv'
<1>1. /\ pc = "code" /\ pc' = "linear"
      /\ succ' = succ /\ stack' = stack /\ visited' = visited
      /\ postorder' = postorder /\ blockStart' = blockStart /\ at' = at
      /\ code' \in Codes /\ phiFrom' \in SUBSET Block /\ Strict'
  BY DEF Populate, dfs
<1>2. Search'
  BY <1>1, SearchStands DEF IInv
<1>3. Coded' /\ Spanned'
  BY <1>1 DEF Coded, Spanned
<1>4. at = 1 /\ blockStart \in [Block -> Nat]
  BY <1>1 DEF IInv, Numbered
<1>5. Len(rpo) \in Nat /\ Len(rpo) >= 1 /\ rpo' = rpo
  BY <1>1, SearchOrders DEF IInv, Orderly, rpo
<1>6. Numbered'
  <2>1. Placed(blockStart, at - 1)'
    <3>1. \A p \in 1..(at' - 1) : FALSE
      BY <1>1, <1>4
    <3> QED  BY <3>1, <1>1, <1>4 DEF Placed
  <2>2. at' \in 1..Len(rpo')
    BY <1>1, <1>4, <1>5
  <2> QED  BY <2>1, <2>2, <1>1, <1>4 DEF Numbered
<1> QED  BY <1>2, <1>3, <1>6 DEF IInv

\* What the steps after Populate leave alone, and what follows.
LEMMA Fixed ==
  ASSUME IInv, pc \notin {"dfs", "code"}, pc' \notin {"dfs", "code"},
         pc' \in {"dfs", "code", "linear", "scan", "phi", "loops", "done"},
         UNCHANGED <<succ, code, param, phiFrom, stack, visited, postorder>>
  PROVE  /\ Search' /\ Coded' /\ Orderly /\ code \in Codes /\ phiFrom \subseteq Block
         /\ rpo' = rpo
<1>1. Search'
  BY SearchStands DEF IInv
<1>2. code \in Codes /\ phiFrom \subseteq Block /\ Strict
  BY DEF IInv, Coded
<1>3. Strict'
  <2>1. LiveIn' = LiveIn
    BY DEF LiveIn, UsedFrom, ClearFrom
  <2> QED  BY <1>2, <2>1 DEF Strict, Defs, PhiBlocks
<1>4. Orderly
  BY SearchOrders DEF IInv
<1> QED  BY <1>1, <1>2, <1>3, <1>4 DEF Coded, rpo

LEMMA LineariseKeeps ==
  ASSUME IInv, Linearise
  PROVE  IInv'
<1>1. /\ pc = "linear" /\ pc' \in {"linear", "scan"}
      /\ blockStart' = [blockStart EXCEPT ![rpo[at]] = NextIndex]
      /\ IF at < Len(rpo) THEN at' = at + 1 /\ pc' = pc ELSE at' = 1 /\ pc' = "scan"
      /\ UNCHANGED <<succ, code, param, phiFrom, stack, visited, postorder>>
  BY DEF Linearise, function
<1>2. /\ Search' /\ Coded' /\ Orderly /\ code \in Codes
      /\ rpo' = rpo
  BY <1>1, Fixed
<1>3. at \in 1..Len(rpo) /\ Placed(blockStart, at - 1)
  BY <1>1 DEF IInv, Numbered
<1>4. Placed(blockStart', at)
  BY <1>1, <1>2, <1>3, PlaceNext
<1>5. Len(rpo) \in Nat /\ at \in Nat /\ at >= 1 /\ at <= Len(rpo)
  BY <1>2, <1>3 DEF Orderly
<1>6. blockStart' \in [Block -> Nat]
  BY <1>4 DEF Placed
<1>7. Numbered'
  <2>1. CASE at < Len(rpo)
    <3>1. at' \in 1..Len(rpo') /\ at' \in Nat /\ at' - 1 = at /\ pc' = "linear"
      BY <2>1, <1>1, <1>2, <1>5
    <3>2. Placed(blockStart, at - 1)'
      BY <3>1, <1>1, <1>2, <1>4 DEF Placed
    <3> QED  BY <3>1, <3>2, <1>6 DEF Numbered
  <2>2. CASE ~(at < Len(rpo))
    <3>1. at = Len(rpo) /\ at' = 1 /\ pc' = "scan"
      BY <2>2, <1>1, <1>5
    <3>2. Placed(blockStart, Len(rpo))'
      BY <3>1, <1>1, <1>2, <1>4 DEF Placed
    <3> QED  BY <3>1, <3>2, <1>6 DEF Numbered
  <2> QED  BY <2>1, <2>2
<1>8. Spanned'
  BY <1>1 DEF Spanned
<1> QED  BY <1>2, <1>7, <1>8 DEF IInv

\* The predicates on the interval mention nothing that a pass changes.
LEMMA Steady ==
  ASSUME UNCHANGED <<succ, code, param, phiFrom, stack, visited, postorder, blockStart>>,
         NEW s, NEW e, NEW k
  PROVE  /\ Scanned(s, e) => Scanned(s, e)'
         /\ PhiCovered(s, e) => PhiCovered(s, e)'
         /\ Closed(s, e, k) => Closed(s, e, k)'
         /\ Placed(blockStart, Len(rpo)) => Placed(blockStart, Len(rpo))'
         /\ rpo' = rpo
<1>1. rpo' = rpo /\ \A b : BlockLast(b)' = BlockLast(b)
  BY DEF rpo, BlockLast
<1>2. Sites' = Sites
  BY <1>1 DEF Sites
<1>3. Touching' = Touching
  BY <1>2 DEF Touching, Kind
<1>4. \A t : Index(t)' = Index(t) /\ Kind(t)' = Kind(t)
  BY DEF Index, Kind
<1>5. \A p : Headers(p)' = Headers(p)
  BY <1>1 DEF Headers, RpoPos
<1>6. Scanned(s, e) => Scanned(s, e)'
  BY <1>1, <1>3, <1>4 DEF Scanned
<1>7. PhiCovered(s, e) => PhiCovered(s, e)'
  BY <1>1 DEF PhiCovered
<1>8. Closed(s, e, k) => Closed(s, e, k)'
  BY <1>1, <1>5 DEF Closed
<1>9. Placed(blockStart, Len(rpo)) => Placed(blockStart, Len(rpo))'
  BY <1>1 DEF Placed
<1> QED  BY <1>1, <1>6, <1>7, <1>8, <1>9

LEMMA ScanKeeps ==
  ASSUME IInv, Scan
  PROVE  IInv'
<1>1. /\ pc = "scan" /\ pc' = "phi" /\ at' = at /\ blockStart' = blockStart
      /\ UNCHANGED <<succ, code, param, phiFrom, stack, visited, postorder>>
  BY DEF Scan, function, dfs
<1>2. /\ Search' /\ Coded' /\ Orderly /\ code \in Codes
  BY <1>1, Fixed
<1>3. at = 1 /\ blockStart \in [Block -> Nat] /\ Placed(blockStart, Len(rpo))
  BY <1>1 DEF IInv, Numbered
<1>4. Scanned(start', end')
  BY <1>2, <1>3, ScanSpans
<1>5. Scanned(start, end)'
  <2>1. ASSUME NEW x, NEW y, Scanned(x, y) PROVE Scanned(x, y)'
    BY <1>1, <2>1, Steady
  <2>2. \A x, y : x = start' /\ y = end' => Scanned(x, y)'
    BY <2>1, <1>4
  <2> QED  BY <2>2 DEF Scanned
<1>6. Placed(blockStart, Len(rpo))'
  BY <1>1, <1>3, Steady
<1>7. Numbered' /\ Spanned'
  BY <1>1, <1>3, <1>5, <1>6 DEF Numbered, Spanned
<1> QED  BY <1>2, <1>7 DEF IInv
LEMMA ExtendPhiKeeps ==
  ASSUME IInv, ExtendPhi
  PROVE  IInv'
<1>1. /\ pc = "phi" /\ pc' = "loops" /\ at' = at /\ blockStart' = blockStart
      /\ UNCHANGED <<succ, code, param, phiFrom, stack, visited, postorder>>
  BY DEF ExtendPhi, function, dfs
<1>2. /\ Search' /\ Coded' /\ Orderly /\ code \in Codes /\ phiFrom \subseteq Block
  BY <1>1, Fixed
<1>3. at = 1 /\ blockStart \in [Block -> Nat] /\ Placed(blockStart, Len(rpo))
  BY <1>1 DEF IInv, Numbered
<1>4. Scanned(start, end)
  BY <1>1 DEF IInv, Spanned
<1>5. Scanned(start', end') /\ PhiCovered(start', end')
  BY <1>2, <1>3, <1>4, PhiSpans
<1>6. Closed(start', end', 0)
  BY DEF Closed
<1>7. Scanned(start, end)' /\ PhiCovered(start, end)' /\ Closed(start, end, at - 1)'
  <2>1. ASSUME NEW x, NEW y, Scanned(x, y), PhiCovered(x, y), Closed(x, y, 0)
        PROVE  Scanned(x, y)' /\ PhiCovered(x, y)' /\ Closed(x, y, 0)'
    BY <1>1, <2>1, Steady
  <2>2. \A x, y : x = start' /\ y = end' =>
                    Scanned(x, y)' /\ PhiCovered(x, y)' /\ Closed(x, y, 0)'
    BY <2>1, <1>5, <1>6
  <2>3. at' - 1 = 0
    BY <1>1, <1>3
  <2>4. Scanned(start, end)' /\ PhiCovered(start, end)'
    BY <2>2 DEF Scanned, PhiCovered
  <2>5. Closed(start, end, at - 1)'
    BY <2>2, <2>3 DEF Closed
  <2> QED  BY <2>4, <2>5
<1>8. rpo' = rpo /\ Placed(blockStart, Len(rpo))'
  BY <1>1, <1>3, Steady
<1>9. 1 \in 1..Len(rpo)
  BY <1>2 DEF Orderly
<1>10. Numbered' /\ Spanned'
  BY <1>1, <1>3, <1>7, <1>8, <1>9 DEF Numbered, Spanned
<1> QED  BY <1>2, <1>10 DEF IInv

LEMMA ExtendLoopsKeeps ==
  ASSUME IInv, ExtendLoops
  PROVE  IInv'
<1>1. /\ pc = "loops" /\ pc' = (IF at = Len(rpo) THEN "done" ELSE pc)
      /\ at' = at + 1 /\ blockStart' = blockStart
      /\ UNCHANGED <<succ, code, param, phiFrom, stack, visited, postorder>>
  BY DEF ExtendLoops, function, dfs
<1>2. /\ Search' /\ Coded' /\ Orderly /\ code \in Codes
  BY <1>1, Fixed
<1>3. /\ at \in Nat /\ at \in 1..Len(rpo) /\ blockStart \in [Block -> Nat]
      /\ Placed(blockStart, Len(rpo))
  BY <1>1 DEF IInv, Numbered
<1>4. Scanned(start, end) /\ PhiCovered(start, end) /\ Closed(start, end, at - 1)
  BY <1>1 DEF IInv, Spanned
<1>5. /\ start' = start
      /\ Scanned(start, end') /\ PhiCovered(start, end') /\ Closed(start, end', at)
  BY <1>2, <1>3, <1>4, LoopsSpan
<1>6. Scanned(start, end)' /\ PhiCovered(start, end)' /\ Closed(start, end, at - 1)'
  <2>1. ASSUME NEW x, NEW y, NEW k, Scanned(x, y), PhiCovered(x, y), Closed(x, y, k)
        PROVE  Scanned(x, y)' /\ PhiCovered(x, y)' /\ Closed(x, y, k)'
    BY <1>1, <2>1, Steady
  <2>2. \A x, y, k : x = start' /\ y = end' /\ k = at =>
                    Scanned(x, y)' /\ PhiCovered(x, y)' /\ Closed(x, y, k)'
    BY <2>1, <1>5
  <2>3. at' - 1 = at
    BY <1>1, <1>3
  <2>4. Scanned(start, end)' /\ PhiCovered(start, end)'
    BY <2>2 DEF Scanned, PhiCovered
  <2>5. Closed(start, end, at - 1)'
    BY <2>2, <2>3 DEF Closed
  <2> QED  BY <2>4, <2>5
<1>7. rpo' = rpo /\ Placed(blockStart, Len(rpo))'
  BY <1>1, <1>3, Steady
<1>8. Len(rpo) \in Nat
  BY <1>2 DEF Orderly
<1>9. Numbered'
  <2>1. CASE at = Len(rpo)
    BY <2>1, <1>1, <1>3, <1>7, <1>8 DEF Numbered
  <2>2. CASE at # Len(rpo)
    <3>1. at + 1 \in 1..Len(rpo) /\ at + 1 \in Nat
      BY <2>2, <1>3, <1>8
    <3> QED  BY <3>1, <2>2, <1>1, <1>3, <1>7 DEF Numbered
  <2> QED  BY <2>1, <2>2
<1>10. Spanned'
  BY <1>6 DEF Spanned
<1> QED  BY <1>2, <1>9, <1>10 DEF IInv

LEMMA Keeps == IInv /\ [Next]_vars => IInv'
<1> SUFFICES ASSUME IInv, [Next]_vars
    PROVE  IInv'
  OBVIOUS
<1>1. CASE Descend \/ Finish
  BY <1>1, SearchingKeeps
<1>2. CASE Populate
  BY <1>2, PopulateKeeps
<1>3. CASE Linearise
  BY <1>3, LineariseKeeps
<1>4. CASE Scan
  BY <1>4, ScanKeeps
<1>5. CASE ExtendPhi
  BY <1>5, ExtendPhiKeeps
<1>6. CASE ExtendLoops
  BY <1>6, ExtendLoopsKeeps
<1>7. CASE UNCHANGED vars
  <2>1. /\ UNCHANGED <<pc, at, start, end>>
        /\ UNCHANGED <<succ, code, param, phiFrom, stack, visited, postorder, blockStart>>
    BY <1>7 DEF vars
  <2>2. Search'
    <3>1. Shape' /\ Path' /\ Finished' /\ EnteredFrom'
      BY <2>1 DEF IInv, Search, Shape, Path, Finished, EnteredFrom, Entered
    <3>2. Retreats'
      BY <2>1 DEF IInv, Search, Retreats, Leads
    <3> QED  BY <3>1, <3>2 DEF Search
  <2>3. Coded'
    <3>1. LiveIn' = LiveIn
      BY <2>1 DEF LiveIn, UsedFrom, ClearFrom
    <3> QED  BY <2>1, <3>1 DEF IInv, Coded, Strict, Defs, PhiBlocks
  <2>4. Numbered'
    BY <2>1 DEF IInv, Numbered, Placed, rpo
  <2>5. Spanned'
    <3>1. /\ rpo' = rpo /\ Sites' = Sites /\ Touching' = Touching
          /\ \A t : Index(t)' = Index(t) /\ Kind(t)' = Kind(t)
          /\ \A b : BlockLast(b)' = BlockLast(b)
          /\ \A p : Headers(p)' = Headers(p)
      BY <2>1 DEF rpo, Sites, Touching, Index, Kind, BlockLast, Headers, RpoPos
    <3> QED  BY <2>1, <3>1 DEF IInv, Spanned, Scanned, PhiCovered, Closed
  <2> QED  BY <2>2, <2>3, <2>4, <2>5 DEF IInv
<1> QED  BY <1>1, <1>2, <1>3, <1>4, <1>5, <1>6, <1>7 DEF Next

-----------------------------------------------------------------------------
(* The theorems.                                                           *)

(* In every state the search has kept its promises, the blocks placed are  *)
(* placed one after the other, and the interval covers what the passes so  *)
(* far have looked at.                                                     *)
THEOREM Inductive == Spec => []IInv
<1> QED  BY Starts, Keeps, PTL DEF Spec

(* reverse_postorder: whatever the graph, the entry block comes first,     *)
(* every other block comes after one of its predecessors, an edge goes     *)
(* back in the order only around a cycle, and no block that can be reached *)
(* is left out.                                                            *)
THEOREM OrderSound == Spec => []RpoSound
<1>1. IInv => RpoSound
  BY SearchOrders DEF IInv, Orderly, RpoSound
<1> QED  BY <1>1, Inductive, PTL

LEMMA DoneComputed ==
  ASSUME IInv, pc = "done"
  PROVE  Computed /\ at - 1 = Len(rpo)
<1>1. Orderly
  BY SearchOrders DEF IInv
<1>2. succ \in Cfgs /\ code \in Codes /\ phiFrom \subseteq Block /\ Strict
  BY DEF IInv, Search, Shape, Coded
<1>3. Placed(blockStart, Len(rpo)) /\ at = Len(rpo) + 1
  BY DEF IInv, Numbered
<1>4. at - 1 = Len(rpo)
  BY <1>1, <1>3 DEF Orderly
<1>5. Scanned(start, end) /\ PhiCovered(start, end) /\ Closed(start, end, Len(rpo))
  BY <1>4 DEF IInv, Spanned
<1> QED  BY <1>1, <1>2, <1>3, <1>4, <1>5 DEF Computed

(* compute_live_intervals, Step 3.5: one pass over the back edges, in RPO, *)
(* is enough; no later extension reaches the header of an edge passed.     *)
THEOREM OnePassCloses == Spec => []BackEdgesClosed
<1>1. IInv => BackEdgesClosed
  <2> SUFFICES ASSUME IInv, pc = "done"
      PROVE  BackEdgesClosed
    BY DEF BackEdgesClosed
  <2>1. Closed(start, end, at - 1)
    BY DoneComputed DEF Computed
  <2> QED  BY <2>1 DEF Closed, BackEdgesClosed, Reaches
<1> QED  BY <1>1, Inductive, PTL

(* compute_live_intervals: for every function, with loops that have one    *)
(* header or several, the interval has every instruction after which some  *)
(* path uses the value.                                                    *)
THEOREM IntervalCoversLiveness == Spec => []LiveCovered
<1>1. IInv => LiveCovered
  <2> SUFFICES ASSUME IInv, pc = "done"
      PROVE  LiveCovered
    BY DEF LiveCovered
  <2>1. Computed
    BY DoneComputed
  <2>2. ASSUME NEW site \in Sites, LiveAfter(site[1], site[2], LiveIn)
        PROVE  start <= Index(site) /\ Index(site) <= end
    <3>1. site[1] \in Range(rpo) /\ site[2] \in 1..Len(code[site[1]])
          /\ site = <<site[1], site[2]>>
      BY <2>1, Indices DEF Computed
    <3>2. Index(<<site[1], site[2]>>) = Index(site)
      BY <3>1
    <3> QED  BY <2>1, <2>2, <3>1, <3>2, LiveSite
  <2> QED  BY <2>2 DEF LiveCovered
<1> QED  BY <1>1, Inductive, PTL

(* crosses_call: a value live across an instruction that is a call is      *)
(* recognised as such, for every function.                                 *)
THEOREM LiveAcrossCalls == Spec => []CallsFlagged
<1>1. IInv => CallsFlagged
  <2> SUFFICES ASSUME IInv, pc = "done"
      PROVE  CallsFlagged
    BY DEF CallsFlagged
  <2>1. Computed
    BY DoneComputed
  <2>2. ASSUME NEW site \in Sites, site[2] < Len(code[site[1]]), Kind(site) # "def",
               LiveAfter(site[1], site[2], LiveIn)
        PROVE  Crosses(Index(site))
    <3>1. site[1] \in Range(rpo) /\ site[2] \in 1..Len(code[site[1]])
          /\ site = <<site[1], site[2]>>
      BY <2>1, Indices DEF Computed
    <3>2. Index(<<site[1], site[2]>>) = Index(site) /\ code[site[1]][site[2]] # "def"
      BY <3>1, <2>2 DEF Kind
    <3> QED  BY <2>1, <2>2, <3>1, <3>2, LiveSite DEF Crosses
  <2> QED  BY <2>2 DEF CallsFlagged
<1> QED  BY <1>1, Inductive, PTL
=============================================================================
